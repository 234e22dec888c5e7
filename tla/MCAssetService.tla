--------------------------- MODULE MCAssetService ---------------------------
(***************************************************************************)
(* Two contents of different sizes for the model checker.                  *)
(***************************************************************************)
EXTENDS AssetService

CONSTANTS small, large
MCSize == [c \in {small, large} |-> IF c = small THEN 1 ELSE 2]
=============================================================================
