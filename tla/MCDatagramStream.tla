-------------------------- MODULE MCDatagramStream --------------------------
(* DatagramStream for TLC. *)
EXTENDS DatagramStream

MCSizes == {1, 3}
=============================================================================
