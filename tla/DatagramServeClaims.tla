------------------------- MODULE DatagramServeClaims -------------------------
(***************************************************************************)
(* Statements that comments of the repository make about serving and that  *)
(* the code does not keep.  The README tells each story and names the      *)
(* instance in which TLC finds it.                                         *)
(***************************************************************************)
EXTENDS DatagramServe

\* mod.rs:1577-1580: "`stop_serving` ran, and a device stopped to be
\* unreachable stays so".
StoppedStaysStopped == stopped => ~registered

\* hal/mod.rs:174-177, of served_service: "`None` once `stop_advertising` ran
\* or before anything was served. Kept across a radio loss."
ServiceIsKept == ~stopped /\ ~recovering => servedSpec

\* linux.rs:1014-1015: "Any exit path must clear the guard, or a peer that
\* failed to be watched once could never be watched again" - and serve() then
\* "holds the stale peer forever and refuses every reconnect" (1024-1025).
LeaverIsNoticed ==
  \A p \in Peers : Held(p) /\ p \in gone ~> ~(Held(p) /\ p \in gone)
=============================================================================
