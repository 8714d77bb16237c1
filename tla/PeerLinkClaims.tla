---------------------------- MODULE PeerLinkClaims ----------------------------
(***************************************************************************)
(* Statements that comments and documents of the repository make about the *)
(* PeerLink worker and that the worker does not keep.  The README tells    *)
(* each story and names the instance in which TLC finds it.                *)
(***************************************************************************)
EXTENDS PeerLink

\* peer_link.rs:882-892: the session tag keeps an old result from being
\* misapplied to a new attempt and from "erasing the only handle able to
\* abort it".  Every running dial can still be aborted.
EveryDialHasItsHandle == \A t \in dialing : t.held

\* peer_link.rs:82-83: an empty backoff means "do not redial".  A dial is not
\* followed by another of the same run of attempts.
EmptyBackoffMeansNoRedial ==
  [][Backoff = <<>> =>
       \A p \in Peers :
         /\ peers[p].central.state = "Dialing"
         /\ peers'[p].central.state = "Dialing"
         => peers'[p].central.age >= peers[p].central.age]_vars

\* peer_link.rs:795-797 and 846-848: a peer queued behind a full cap "is not
\* ticked to GaveUp while it never had a chance".  A dialer that gives up in the
\* queue has dialled since it was tracked, retried or lost its link.
QueuedIsNotGivenUp ==
  [][\A p \in Peers :
       /\ status[p] = "Queued" /\ MayDial(peers[p].central)
       /\ ~peers[p].gaveUp /\ peers'[p].gaveUp
       => peers[p].attempts > 0]_vars

\* peer_link.rs:151-152: "A redial after a drop delivers a fresh Up", and
\* GaveUp means the budget is spent.  A link that drops is retried.
ADropIsRedialled ==
  [][\A p \in Peers : status[p] = "Connected" => status'[p] # "GaveUp"]_vars

=============================================================================
