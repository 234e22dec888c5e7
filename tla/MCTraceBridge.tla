---------------------------- MODULE MCTraceBridge ----------------------------
(* The bridge with two streams that are alike.                               *)
EXTENDS TraceBridge, TLC

StreamsAreAlike == Permutations(Streams)
=============================================================================
