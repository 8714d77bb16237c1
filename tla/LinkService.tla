------------------------------ MODULE LinkService ------------------------------
(***************************************************************************)
(* What a consumer of PeerLink::events may rely on, with no machine, task  *)
(* or clock in sight: per peer, Up and Down alternate, every Up is a link  *)
(* of its own that was never up before, and at most MaxLinks links are up. *)
(***************************************************************************)
EXTENDS Naturals, FiniteSets

CONSTANTS
  Peers,    \* peer addresses
  MaxLinks  \* the cap on simultaneous links

VARIABLES
  up,    \* per peer, the link that is up, 0 when none is
  last   \* the newest link so far; links are numbered in order

vars == <<up, last>>

Live == {p \in Peers : up[p] # 0}

Init ==
  /\ up = [p \in Peers |-> 0]
  /\ last = 0

\* PeerLinkEvent::Up: a fresh Down must have preceded it.
Up(p) ==
  /\ up[p] = 0
  /\ Cardinality(Live) < MaxLinks
  /\ last' = last + 1
  /\ up' = [up EXCEPT ![p] = last + 1]

\* PeerLinkEvent::Down for each of the peers; the radio takes all at once.
Down(gone) ==
  /\ gone # {} /\ gone \subseteq Live
  /\ up' = [p \in Peers |-> IF p \in gone THEN 0 ELSE up[p]]
  /\ UNCHANGED last

Next ==
  \/ \E p \in Peers : Up(p)
  \/ \E gone \in SUBSET Peers : Down(gone)

Spec == Init /\ [][Next]_vars
=============================================================================
