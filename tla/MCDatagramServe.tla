--------------------------- MODULE MCDatagramServe ---------------------------
(* Instances of DatagramServe for TLC. *)
EXTENDS DatagramServeClaims

\* Centrals are compared for equality only.
Centrals == Permutations(Peers)
=============================================================================
