--------------------------- MODULE MCAndroidClient ---------------------------
(* Instances of AndroidClient for TLC. *)
EXTENDS AndroidClient, TLC

CONSTANTS c1, c2, w1, w2, w3

\* Calls and writes are compared for equality only.
Names == Permutations(Calls) \cup Permutations(Writes)
=============================================================================
