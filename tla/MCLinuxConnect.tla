---------------------------- MODULE MCLinuxConnect ----------------------------
(* Instances of LinuxConnect for TLC. *)
EXTENDS LinuxConnect

CONSTANTS p1, p2, c1
=============================================================================
