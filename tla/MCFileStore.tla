----------------------------- MODULE MCFileStore -----------------------------
(* The threads that use the store are interchangeable. *)
EXTENDS FileStore, TLC

WorkersAreAlike == Permutations(Workers)
=============================================================================
