---------------------------- MODULE PeerLinkProofs ----------------------------
(***************************************************************************)
(* Proofs about the PeerLink worker, for every set of peers, role, cap,    *)
(* budget and driver behaviour.  IInv is the inductive invariant; every    *)
(* arm of the worker is a change of the peers followed by Finish, so each  *)
(* step is proved by showing that the arm leaves peers Finish may be       *)
(* applied to (Ready) and that Finish turns those into IInv.               *)
(***************************************************************************)
EXTENDS PeerLink, TLAPS, FiniteSetTheorems

-----------------------------------------------------------------------------
(* The machines *)

\* CentralLink::apply keeps the type of a link, for every event.
LEMMA CentralType ==
  ASSUME NEW c \in LinkRecords(CentralStates), NEW e, NEW s \in Nat
  PROVE  CentralApply(c, e, s) \in LinkRecords(CentralStates)
  BY DEF CentralApply, LinkRecords, CentralStates, Without, Link, NoSession

\* PeripheralLink::apply keeps the type of a link, for every event.
LEMMA PeripheralType ==
  ASSUME NEW l \in LinkRecords(PeripheralStates), NEW e, NEW s \in Nat
  PROVE  PeripheralApply(l, e, s) \in LinkRecords(PeripheralStates)
  BY DEF PeripheralApply, LinkRecords, PeripheralStates, Without, Link, NoSession

\* A peer that is not in the map is well typed, and so is a new one.
LEMMA NewPeerType ==
  /\ Forgotten \in PeerRecords
  /\ \A p \in Peers : NewPeer(p) \in PeerRecords
  BY DEF Forgotten, NewPeer, PeerRecords, LinkRecords, CentralStates, PeripheralStates,
     Without, Link, NoSession, Timers, Never, NoLink, FirstClock

-----------------------------------------------------------------------------
(* The end of an iteration *)

PeerOK(r, p, rad) == r \in PeerRecords /\ LinkMatches(r, p, rad) /\ OwnMachineOnly(r, p)

\* What an arm must leave behind for the iteration to end well.
Ready(ps, dl, rad, sv, at) ==
  /\ ps \in [Peers -> PeerRecords]
  /\ \A p \in Peers : PeerOK(ps[p], p, rad)
  /\ Cardinality(Committed(ps)) <= MaxLinks
  /\ dl \subseteq DialTasks /\ IsFiniteSet(dl)
  /\ rad \in RadioStates /\ sv \in ServeStates /\ at \in Timers

\* A set of peers is finite, and its cardinality a number.
LEMMA PeerSets ==
  ASSUME NEW S \in SUBSET Peers
  PROVE  IsFiniteSet(S) /\ Cardinality(S) \in Nat
  BY PeerLinkAssumption, FS_Subset, FS_CardinalityType

\* The session of a dial is a number.
LEMMA SessionType ==
  ASSUME NEW S \in SUBSET Peers, NEW dl, IsFiniteSet(dl), NEW p,
         connQ \in Seq([peer : Peers, session : Nat, ok : BOOLEAN]),
         NEW b \in (IF S = {} THEN {0} ELSE Readings(S, dl))
  PROVE  SessionOf(S, p, b) \in Nat
<1>1. b \in Nat
  <2>1. Cardinality(dl) \in Nat
    BY FS_CardinalityType
  <2>2. Len(connQ) \in Nat
    OBVIOUS
  <2> QED BY <2>1, <2>2, PeerLinkAssumption DEF Readings
<1>2. Cardinality({q \in S : q <= p}) \in Nat
  BY PeerSets
<1> QED BY <1>1, <1>2 DEF SessionOf

\* A dial that starts keeps the peer well formed.
LEMMA StartDialOK ==
  ASSUME NEW ps \in [Peers -> PeerRecords], NEW p \in Candidates(ps), NEW rad,
         PeerOK(ps[p], p, rad), Usable(rad), NEW n \in Nat
  PROVE  /\ PeerOK(StartDial(ps[p], n), p, rad)
         /\ StartDial(ps[p], n).link = ps[p].link
         /\ HoldsSlotOf(StartDial(ps[p], n))
<1> DEFINE r == ps[p]  d == StartDial(r, n)
<1>1. /\ p \in Peers /\ r \in PeerRecords /\ r.tracked /\ Dials(p)
      /\ r.link = NoLink /\ r.central.state = "Idle"
  BY DEF Candidates, MayDial
<1>2. r.central \in LinkRecords(CentralStates)
  BY <1>1 DEF PeerRecords
<1>3. /\ CentralApply(r.central, "DialStarted", n) \in LinkRecords(CentralStates)
      /\ CentralApply(r.central, "DialStarted", n).state = "Dialing"
  <2>1. r.central.state \in {"Idle", "Dialing", "Connected", "RadioOff"}
    BY <1>1
  <2> HIDE DEF r
  <2>2. CentralApply(r.central, "DialStarted", n).state = "Dialing"
    BY <1>1 DEF CentralApply, Link
  <2> QED BY <1>2, <2>2, CentralType
<1>4. AttemptCap \in Nat
  BY PeerLinkAssumption DEF AttemptCap
<1>5. /\ d \in PeerRecords /\ d.link = NoLink /\ d.central.state = "Dialing"
      /\ d.peripheral = r.peripheral /\ d.tracked
  <2> DEFINE c == CentralApply(r.central, "DialStarted", n)
             a == IF r.attempts < AttemptCap THEN r.attempts + 1 ELSE r.attempts
             t == IF r.trying = Never THEN 0 ELSE r.trying
  <2>1. d = [r EXCEPT !.central = c, !.attempts = a, !.trying = t]
    BY DEF StartDial
  <2>2. a \in Nat /\ t \in Timers
    BY <1>1, <1>4 DEF PeerRecords, Timers, Never
  <2>3. c \in LinkRecords(CentralStates) /\ c.state = "Dialing"
    BY <1>3
  <2> HIDE DEF c, a, t, d
  <2> QED BY <1>1, <2>1, <2>2, <2>3 DEF PeerRecords
<1>6. LinkMatches(d, p, rad)
  BY <1>1, <1>5 DEF PeerOK, LinkMatches, HasConnection, HoldsSlotOf
<1>7. OwnMachineOnly(d, p)
  BY <1>1, <1>5 DEF PeerOK, OwnMachineOnly
<1> QED BY <1>1, <1>5, <1>6, <1>7 DEF PeerOK, HoldsSlotOf

\* The cap: the loop dials no more peers than the budget, which is what the
\* links and dials the arm left behind leave of it.
LEMMA FinishRespectsCap ==
  ASSUME NEW ps \in [Peers -> PeerRecords], NEW qs \in [Peers -> PeerRecords],
         NEW S \in SUBSET Peers, NEW rad,
         DialedNow(S, ps, rad),
         \A p \in Peers \ S : qs[p] = ps[p],
         Cardinality(Committed(ps)) <= MaxLinks
  PROVE  Cardinality(Committed(qs)) <= MaxLinks
<1>1. Committed(ps) \in SUBSET Peers /\ Committed(qs) \in SUBSET Peers
  BY DEF Committed
<1>2. CASE S = {}
  <2>1. Committed(qs) = Committed(ps)
    BY <1>2 DEF Committed
  <2> QED BY <2>1
<1>3. CASE S # {}
  <2>1. Cardinality(S) <= MaxLinks - Cardinality(Committed(ps))
    BY <1>3 DEF DialedNow
  <2>2. Committed(qs) \subseteq Committed(ps) \cup S
    BY DEF Committed
  <2>3. /\ IsFiniteSet(Committed(ps) \cup S)
        /\ Cardinality(Committed(ps) \cup S) <= Cardinality(Committed(ps)) + Cardinality(S)
    <3>1. /\ IsFiniteSet(Committed(ps)) /\ IsFiniteSet(S)
          /\ Cardinality(Committed(ps)) \in Nat /\ Cardinality(S) \in Nat
      BY <1>1, PeerSets
    <3>2. Cardinality(Committed(ps) \cap S) \in Nat
      BY <1>1, PeerSets
    <3> QED BY <3>1, <3>2, FS_Union
  <2>4. Cardinality(Committed(qs)) <= Cardinality(Committed(ps) \cup S)
    BY <2>2, <2>3, FS_Subset
  <2> QED BY SMTT(60), <1>1, <2>1, <2>3, <2>4, PeerSets, PeerLinkAssumption
<1> QED BY <1>2, <1>3

\* dial_task = None leaves a finite set of dial tasks finite.
LEMMA DropHandleOK ==
  ASSUME NEW dl \in SUBSET DialTasks, IsFiniteSet(dl), NEW p
  PROVE  DropHandle(dl, p) \in SUBSET DialTasks /\ IsFiniteSet(DropHandle(dl, p))
<1> DEFINE drop(t) == IF t.peer = p THEN [t EXCEPT !.held = FALSE] ELSE t
<1>1. [t \in dl |-> drop(t)] \in Surjection(dl, DropHandle(dl, p))
  BY DEF Surjection, DropHandle
<1>2. \A t \in dl : drop(t) \in DialTasks
  BY DEF DialTasks
<1> QED BY <1>1, <1>2, FS_Surjection DEF DropHandle

\* What a queue hands out, and what is left of it.
LEMMA QueueType ==
  ASSUME NEW M, NEW queue \in Seq(M), queue # <<>>
  PROVE  Head(queue) \in M /\ Tail(queue) \in Seq(M)
  OBVIOUS

\* Every status() answer is one of PeerStatus.
LEMMA StatusType ==
  ASSUME NEW ps, NEW rad
  PROVE  StatusMap(ps, rad) \in [Peers -> Statuses]
  BY DEF StatusMap, Project, Statuses

\* What Finish makes of peers that are Ready.
LEMMA FinishInv ==
  ASSUME NEW ps, NEW dl, NEW rad, NEW sv, NEW at,
         Ready(ps, dl, rad, sv, at),
         Finish(ps, dl, rad, sv, at),
         connQ \in Seq([peer : Peers, session : Nat, ok : BOOLEAN])
  PROVE  /\ peers' \in [Peers -> PeerRecords]
         /\ \A p \in Peers : PeerOK(peers'[p], p, rad) /\ peers'[p].link = ps[p].link
         /\ Cardinality(Committed(peers')) <= MaxLinks
         /\ dialing' \subseteq DialTasks /\ IsFiniteSet(dialing')
         /\ status' = StatusMap(peers', rad) /\ radio' = rad /\ phase' = phase
         /\ serve' \in ServeStates /\ serveRetry' \in Timers
<1> USE DEF Ready
<1>1. PICK S \in SUBSET Peers :
        /\ DialedNow(S, ps, rad)
        /\ \E b \in (IF S = {} THEN {0} ELSE Readings(S, dl)) :
             /\ peers' = [p \in Peers |-> IF p \in S
                                          THEN StartDial(ps[p], SessionOf(S, p, b))
                                          ELSE ps[p]]
             /\ dialing' = dl \cup {[peer |-> p, session |-> SessionOf(S, p, b),
                                     held |-> TRUE] : p \in S}
  BY DEF Finish
<1>2. PICK b \in (IF S = {} THEN {0} ELSE Readings(S, dl)) :
        /\ peers' = [p \in Peers |-> IF p \in S
                                     THEN StartDial(ps[p], SessionOf(S, p, b))
                                     ELSE ps[p]]
        /\ dialing' = dl \cup {[peer |-> p, session |-> SessionOf(S, p, b),
                                held |-> TRUE] : p \in S}
  BY <1>1
<1>3. \A p \in Peers : SessionOf(S, p, b) \in Nat
  BY SessionType
<1>4. S # {} => Usable(rad) /\ S \subseteq Candidates(ps)
  BY <1>1 DEF DialedNow
<1>5. ASSUME NEW p \in Peers
      PROVE  PeerOK(peers'[p], p, rad) /\ peers'[p].link = ps[p].link
  <2>1. CASE p \in S
    <3>1. p \in Candidates(ps) /\ Usable(rad) /\ PeerOK(ps[p], p, rad)
      BY <1>4, <2>1
    <3>2. peers'[p] = StartDial(ps[p], SessionOf(S, p, b))
      BY <1>2, <2>1
    <3> QED BY <1>3, <3>1, <3>2, StartDialOK
  <2>2. CASE p \notin S
    BY <1>2, <2>2
  <2> QED BY <2>1, <2>2
<1>6. peers' \in [Peers -> PeerRecords]
  BY <1>2, <1>5 DEF PeerOK
<1>7. Cardinality(Committed(peers')) <= MaxLinks
  <2>1. \A p \in Peers \ S : peers'[p] = ps[p]
    BY <1>2
  <2> QED BY <1>1, <1>6, <2>1, FinishRespectsCap
<1>8. dialing' \subseteq DialTasks /\ IsFiniteSet(dialing')
  <2> DEFINE task(p) == [peer |-> p, session |-> SessionOf(S, p, b), held |-> TRUE]
             started == {task(p) : p \in S}
  <2>1. dialing' = dl \cup started
    BY <1>2
  <2>2. \A p \in S : task(p) \in DialTasks
    BY <1>3 DEF DialTasks
  <2>3. started \subseteq DialTasks
    <3> HIDE DEF task
    <3> QED BY <2>2
  <2>4. IsFiniteSet(started)
    <3>1. [p \in S |-> task(p)] \in Surjection(S, started)
      BY DEF Surjection
    <3> QED BY <3>1, PeerSets, FS_Surjection
  <2> HIDE DEF started
  <2> QED BY <2>1, <2>3, <2>4, FS_Union
<1>9. /\ status' = StatusMap(peers', rad) /\ radio' = rad /\ phase' = phase
      /\ serve' \in ServeStates /\ serveRetry' \in Timers
  BY DEF Finish, ServeStates, Timers
<1> QED BY <1>5, <1>6, <1>7, <1>8, <1>9

\* A slot idles at the end of an iteration only when no peer waits for it.
LEMMA FinishFillsSlots ==
  ASSUME NEW ps \in [Peers -> PeerRecords], NEW dl, NEW rad, NEW sv, NEW at,
         Finish(ps, dl, rad, sv, at), Usable(rad), NEW p \in Candidates(peers')
  PROVE  Cardinality(Committed(peers')) >= MaxLinks
<1>1. PICK S \in SUBSET Peers :
        /\ DialedNow(S, ps, rad)
        /\ \E b \in (IF S = {} THEN {0} ELSE Readings(S, dl)) :
             peers' = [q \in Peers |-> IF q \in S
                                       THEN StartDial(ps[q], SessionOf(S, q, b))
                                       ELSE ps[q]]
  BY DEF Finish
<1>2. PICK b : peers' = [q \in Peers |-> IF q \in S
                                         THEN StartDial(ps[q], SessionOf(S, q, b))
                                         ELSE ps[q]]
  BY <1>1
<1>3. \A q \in S : /\ peers'[q].central.state = "Dialing"
                   /\ ps[q].central.state = "Idle" /\ ps[q].link = NoLink
  <2> SUFFICES ASSUME NEW q \in S
               PROVE  /\ peers'[q].central.state = "Dialing"
                      /\ ps[q].central.state = "Idle" /\ ps[q].link = NoLink
    OBVIOUS
  <2>1. ps[q].central.state = "Idle" /\ ps[q].link = NoLink
    BY <1>1 DEF DialedNow, Candidates, MayDial
  <2> DEFINE n == SessionOf(S, q, b)
  <2>2. peers'[q] = StartDial(ps[q], n) /\ ps[q] \in PeerRecords
    BY <1>2
  <2>3. CentralApply(ps[q].central, "DialStarted", n) = Link("Dialing", n)
    BY <2>1 DEF CentralApply
  <2> HIDE DEF n
  <2> QED BY <2>1, <2>2, <2>3 DEF StartDial, PeerRecords, Link
<1>4. \A q \in Peers \ S : peers'[q] = ps[q]
  BY <1>2
<1>5. p \in Candidates(ps) \ S
  BY <1>3, <1>4 DEF Candidates, MayDial
<1>6. CASE S = {}
  <2>1. MaxLinks - Cardinality(Committed(ps)) <= 0
    <3>1. ASSUME MaxLinks - Cardinality(Committed(ps)) > 0
          PROVE  FALSE
      <4>1. Cardinality(S) = MaxLinks - Cardinality(Committed(ps))
        BY <1>1, <1>5, <3>1, PeerSets, PeerLinkAssumption DEF DialedNow, Committed
      <4> QED BY <1>6, <3>1, <4>1, FS_EmptySet
    <3> QED BY <3>1, PeerSets, PeerLinkAssumption DEF Committed
  <2>2. Committed(peers') = Committed(ps)
    BY <1>4, <1>6 DEF Committed
  <2>3. Cardinality(Committed(ps)) \in Nat
    <3>1. Committed(ps) \in SUBSET Peers
      BY DEF Committed
    <3> QED BY <3>1, PeerSets
  <2> QED BY <2>1, <2>2, <2>3, PeerLinkAssumption
<1>7. CASE S # {}
  <2>1. Cardinality(S) = MaxLinks - Cardinality(Committed(ps))
    BY <1>1, <1>5, <1>7 DEF DialedNow
  <2>2. /\ Committed(peers') = Committed(ps) \cup S
        /\ Committed(ps) \cap S = {} /\ Committed(ps) \in SUBSET Peers
    BY <1>3, <1>4 DEF Committed, HoldsSlotOf
  <2>3. Cardinality(Committed(peers')) = Cardinality(Committed(ps)) + Cardinality(S)
    <3>1. Cardinality(Committed(ps) \cap S) = 0
      BY <2>2, FS_EmptySet
    <3>2. IsFiniteSet(Committed(ps)) /\ IsFiniteSet(S)
      BY <2>2, PeerSets
    <3>3. Cardinality(Committed(ps)) \in Nat /\ Cardinality(S) \in Nat
      BY <2>2, PeerSets
    <3>4. Cardinality(Committed(ps) \cup S)
            = Cardinality(Committed(ps)) + Cardinality(S) - Cardinality(Committed(ps) \cap S)
      BY <3>2, FS_Union
    <3> QED BY <2>2, <3>1, <3>3, <3>4
  <2>4. Cardinality(Committed(ps)) \in Nat
    BY <2>2, PeerSets
  <2> QED BY <2>1, <2>3, <2>4, PeerLinkAssumption
<1> QED BY <1>6, <1>7

-----------------------------------------------------------------------------
(* What an arm leaves *)

\* The variables Finish does not assign.
RestOK ==
  /\ published \in RadioStates /\ adapter \in RadioStates
  /\ nextGen \in Nat
  /\ announced \in [Peers -> Nat]
  /\ pumps \subseteq [peer : Peers, gen : Nat]
  /\ connQ \in Seq([peer : Peers, session : Nat, ok : BOOLEAN])
  /\ goneQ \in Seq([peer : Peers, gen : Nat])
  /\ inboundQ \in Seq(Peers)
  /\ radioQ \in Seq(RadioStates)
  /\ fuel \in Nat

\* An arm that leaves peers Ready, and events that follow them, keeps IInv.
LEMMA ArmKeepsIInv ==
  ASSUME NEW ps, NEW dl, NEW rad, NEW sv, NEW at,
         IInv, Running, RestOK',
         Ready(ps, dl, rad, sv, at),
         Finish(ps, dl, rad, sv, at),
         \A p \in Peers : announced'[p] = ps[p].link,
         (published = "On")' <=> Usable(rad)
  PROVE  IInv'
<1>1. connQ \in Seq([peer : Peers, session : Nat, ok : BOOLEAN])
  BY DEF IInv, TypeOK
<1>2. /\ peers' \in [Peers -> PeerRecords]
      /\ \A p \in Peers : PeerOK(peers'[p], p, rad) /\ peers'[p].link = ps[p].link
      /\ Cardinality(Committed(peers')) <= MaxLinks
      /\ dialing' \subseteq DialTasks /\ IsFiniteSet(dialing')
      /\ status' = StatusMap(peers', rad) /\ radio' = rad /\ phase' = phase
      /\ serve' \in ServeStates /\ serveRetry' \in Timers
  BY <1>1, FinishInv
<1>3. TypeOK'
  <2>1. status' \in [Peers -> Statuses]
    BY <1>2, StatusType
  <2>2. rad \in RadioStates /\ phase \in {"running", "noDriver", "stopped"}
    BY DEF Ready, IInv, TypeOK
  <2> QED BY <1>2, <2>1, <2>2 DEF TypeOK, RestOK
<1>4. LinksMatchMachines' /\ \A p \in Peers : OwnMachineOnly(peers'[p], p)
  BY <1>2 DEF LinksMatchMachines, PeerOK
<1>5. ViewsFollowPeers'
  BY <1>2 DEF ViewsFollowPeers, Running
<1>6. CapRespected' /\ RadioAnswerAgrees'
  BY <1>2 DEF CapRespected, RadioAnswerAgrees
<1>7. NoIdleSlot'
  <2>1. ps \in [Peers -> PeerRecords]
    BY DEF Ready
  <2>2. Usable(rad) => \A p \in Candidates(peers') : Cardinality(Committed(peers')) >= MaxLinks
    BY <2>1, FinishFillsSlots
  <2> QED BY <1>2, <2>2 DEF NoIdleSlot
<1> QED BY <1>2, <1>3, <1>4, <1>5, <1>6, <1>7 DEF IInv

\* An arm in which no peer takes a slot it did not hold stays within the cap.
LEMMA NoNewSlot ==
  ASSUME NEW ps, CapRespected,
         \A p \in Peers : HoldsSlotOf(ps[p]) => HoldsSlotOf(peers[p])
  PROVE  Cardinality(Committed(ps)) <= MaxLinks
<1>1. Committed(ps) \subseteq Committed(peers) /\ Committed(peers) \in SUBSET Peers
      /\ Committed(ps) \in SUBSET Peers
  BY DEF Committed
<1>2. Cardinality(Committed(ps)) <= Cardinality(Committed(peers))
  BY <1>1, PeerSets, FS_Subset
<1> QED BY <1>1, <1>2, PeerSets, PeerLinkAssumption DEF CapRespected

\* The invariant, peer by peer.
LEMMA PeersOK ==
  ASSUME IInv
  PROVE  /\ peers \in [Peers -> PeerRecords]
         /\ \A p \in Peers : PeerOK(peers[p], p, radio)
  BY DEF IInv, TypeOK, LinksMatchMachines, PeerOK

\* The arm changes one peer and takes no slot.
LEMMA ReadyOne ==
  ASSUME IInv, NEW p \in Peers, NEW r, NEW dl,
         PeerOK(r, p, radio), HoldsSlotOf(r) => HoldsSlotOf(peers[p]),
         dl \subseteq DialTasks, IsFiniteSet(dl)
  PROVE  Ready([peers EXCEPT ![p] = r], dl, radio, serve, serveRetry)
<1> DEFINE ps == [peers EXCEPT ![p] = r]
<1>1. ps \in [Peers -> PeerRecords] /\ \A q \in Peers : PeerOK(ps[q], q, radio)
  BY PeersOK DEF PeerOK
<1>2. \A q \in Peers : HoldsSlotOf(ps[q]) => HoldsSlotOf(peers[q])
  BY PeersOK
<1>3. Cardinality(Committed(ps)) <= MaxLinks
  <2> HIDE DEF ps
  <2> QED BY <1>2, NoNewSlot DEF IInv
<1> QED BY <1>1, <1>3 DEF Ready, IInv, TypeOK

\* The arm changes no peer.
LEMMA ReadySame ==
  ASSUME IInv
  PROVE  /\ Ready(peers, dialing, radio, serve, serveRetry)
         /\ Ready(peers, dialing, radio, "none", ServeRetryDelay)
  BY PeersOK, PeerLinkAssumption
     DEF Ready, IInv, TypeOK, CapRespected, ServeStates, Timers

\* Clocks and flags do not matter to the machines.
LEMMA SameMachines ==
  ASSUME NEW p \in Peers, NEW rad, NEW q, NEW r \in PeerRecords, PeerOK(q, p, rad),
         r.tracked, q.tracked, r.link = q.link, r.central = q.central,
         r.peripheral = q.peripheral
  PROVE  PeerOK(r, p, rad) /\ (HoldsSlotOf(r) <=> HoldsSlotOf(q))
  BY DEF PeerOK, LinkMatches, OwnMachineOnly, HoldsSlotOf

\* A peer that is forgotten, and one that is new, fit every radio.
LEMMA NewPeerOK ==
  ASSUME NEW p \in Peers, NEW rad
  PROVE  /\ PeerOK(Forgotten, p, rad) /\ ~HoldsSlotOf(Forgotten) /\ Forgotten.link = NoLink
         /\ PeerOK(NewPeer(p), p, rad) /\ ~HoldsSlotOf(NewPeer(p)) /\ NewPeer(p).link = NoLink
  BY NewPeerType
     DEF PeerOK, LinkMatches, OwnMachineOnly, HoldsSlotOf, HasConnection, HoldsSlot,
         Forgotten, NewPeer, Without, Link, NoLink

-----------------------------------------------------------------------------
(* The commands *)

LEMMA TrackKeeps ==
  ASSUME IInv, NEW p \in Peers, Track(p)
  PROVE  IInv'
<1> DEFINE r == IF peers[p].tracked THEN peers[p] ELSE NewPeer(p)
           ps == [peers EXCEPT ![p] = r]
<1>1. Finish(ps, dialing, radio, serve, serveRetry)
  BY DEF Track, FinishPeers
<1>2. PeerOK(r, p, radio) /\ (HoldsSlotOf(r) => HoldsSlotOf(peers[p]))
  BY PeersOK, NewPeerOK
<1>3. Ready(ps, dialing, radio, serve, serveRetry)
  <2> HIDE DEF r
  <2> QED BY <1>2, ReadyOne DEF IInv, TypeOK
<1>4. RestOK'
  BY DEF Track, Disrupt, queueVars, IInv, TypeOK, RestOK
<1>5. \A q \in Peers : announced'[q] = ps[q].link
  <2>1. peers[p].tracked \/ (peers[p].link = NoLink /\ NewPeer(p).link = NoLink)
    BY NewPeerOK DEF IInv, OwnMachineOnly
  <2> QED BY <2>1, PeersOK DEF Track, IInv, ViewsFollowPeers
<1>6. (published = "On")' <=> Usable(radio)
  BY DEF Track, IInv, RadioAnswerAgrees
<1>7. Running
  BY DEF Track
<1> HIDE DEF ps
<1> QED BY <1>1, <1>3, <1>4, <1>5, <1>6, <1>7, ArmKeepsIInv

LEMMA UntrackKeeps ==
  ASSUME IInv, NEW p \in Peers, Untrack(p)
  PROVE  IInv'
<1> DEFINE ps == [peers EXCEPT ![p] = Forgotten]
           dl == Abort(dialing, p)
<1>1. Finish(ps, dl, radio, serve, serveRetry)
  BY DEF Untrack, FinishPeers
<1>2. Ready(ps, dl, radio, serve, serveRetry)
  <2>1. dl \subseteq dialing /\ dl \subseteq DialTasks
    BY DEF Abort, IInv, TypeOK
  <2>2. IsFiniteSet(dl)
    BY <2>1, FS_Subset DEF IInv
  <2> QED BY <2>1, <2>2, NewPeerOK, ReadyOne
<1>3. RestOK'
  BY DEF Untrack, Disrupt, queueVars, IInv, TypeOK, RestOK, NoLink
<1>4. \A q \in Peers : announced'[q] = ps[q].link
  BY PeersOK, NewPeerOK DEF Untrack, IInv, TypeOK, ViewsFollowPeers
<1>5. Running /\ ((published = "On")' <=> Usable(radio))
  BY DEF Untrack, IInv, RadioAnswerAgrees
<1> HIDE DEF ps, dl
<1> QED BY <1>1, <1>2, <1>3, <1>4, <1>5, ArmKeepsIInv

LEMMA RetryKeeps ==
  ASSUME IInv, NEW p \in Peers, Retry(p)
  PROVE  IInv'
<1> DEFINE q == peers[p]
           r == IF q.tracked THEN Retried(q, p) ELSE q
           ps == [peers EXCEPT ![p] = r]
<1>1. Finish(ps, dialing, radio, serve, serveRetry)
  BY DEF Retry, FinishPeers
<1>2. /\ q \in PeerRecords /\ PeerOK(q, p, radio)
      /\ Retried(q, p) \in PeerRecords
      /\ Retried(q, p).tracked = q.tracked /\ Retried(q, p).link = q.link
      /\ Retried(q, p).central = q.central /\ Retried(q, p).peripheral = q.peripheral
  BY PeersOK DEF Retried, PeerRecords, Timers, FirstClock, Never
<1>3. PeerOK(r, p, radio) /\ (HoldsSlotOf(r) => HoldsSlotOf(q)) /\ r.link = q.link
  BY <1>2, SameMachines
<1>4. Ready(ps, dialing, radio, serve, serveRetry)
  <2> HIDE DEF r
  <2> QED BY <1>3, ReadyOne DEF IInv, TypeOK
<1>5. RestOK'
  BY DEF Retry, Disrupt, queueVars, IInv, TypeOK, RestOK
<1>6. \A u \in Peers : announced'[u] = ps[u].link
  <2> HIDE DEF r
  <2> QED BY <1>3, PeersOK DEF Retry, IInv, ViewsFollowPeers
<1>7. Running /\ ((published = "On")' <=> Usable(radio))
  BY DEF Retry, IInv, RadioAnswerAgrees
<1> HIDE DEF ps
<1> QED BY <1>1, <1>4, <1>5, <1>6, <1>7, ArmKeepsIInv

LEMMA DiscoverKeeps ==
  ASSUME IInv, Discover
  PROVE  IInv'
<1>1. Finish(peers, dialing, radio, serve, serveRetry) /\ Running
  BY DEF Discover, FinishPeers
<1>2. RestOK'
  BY DEF Discover, Disrupt, queueVars, IInv, TypeOK, RestOK
<1>3. /\ \A p \in Peers : announced'[p] = peers[p].link
      /\ (published = "On")' <=> Usable(radio)
  BY <1>1 DEF Discover, IInv, ViewsFollowPeers, RadioAnswerAgrees
<1> QED BY <1>1, <1>2, <1>3, ReadySame, ArmKeepsIInv

LEMMA ShutdownKeeps ==
  ASSUME IInv, Shutdown
  PROVE  IInv'
<1>1. TypeOK' /\ IsFiniteSet(dialing')
  BY NewPeerType, FS_EmptySet
     DEF Shutdown, Disrupt, sharedVars, IInv, TypeOK, ServeStates, Timers
<1>2. \A p \in Peers : PeerOK(peers'[p], p, radio') /\ ~HoldsSlotOf(peers'[p])
  BY NewPeerOK DEF Shutdown
<1>3. CapRespected'
  <2>1. Committed(peers') = {}
    BY <1>2 DEF Committed
  <2> QED BY <2>1, FS_EmptySet, PeerLinkAssumption DEF CapRespected
<1>4. ViewsFollowPeers' /\ RadioAnswerAgrees' /\ NoIdleSlot'
  BY DEF Shutdown, sharedVars, ViewsFollowPeers, RadioAnswerAgrees, NoIdleSlot, Running, IInv
<1> QED BY <1>1, <1>2, <1>3, <1>4 DEF IInv, LinksMatchMachines, PeerOK

-----------------------------------------------------------------------------
(* Links come up *)

\* A new link is numbered and announced.
LEMMA InstallLinkKeeps ==
  ASSUME IInv, NEW p \in Peers, InstallLink(p)
  PROVE  /\ nextGen' = nextGen + 1 /\ nextGen' \in Nat \ {0}
         /\ pumps' \subseteq [peer : Peers, gen : Nat]
         /\ announced' = [announced EXCEPT ![p] = nextGen + 1]
         /\ announced' \in [Peers -> Nat]
  BY DEF InstallLink, IInv, TypeOK

\* A dial's result for the attempt that produced it; the link takes the slot
\* the dial held.
LEMMA DialLinkedOK ==
  ASSUME IInv, NEW p \in Peers, peers[p].tracked,
         NEW c, c = CentralApply(peers[p].central, "DialSucceeded", 0),
         c.state = "Connected"
  PROVE  /\ PeerOK(DialLinked(peers[p], c), p, radio)
         /\ HoldsSlotOf(peers[p])
         /\ DialLinked(peers[p], c).link = nextGen + 1
<1> DEFINE q == peers[p]  r == DialLinked(q, c)
<1>1. q \in PeerRecords /\ LinkMatches(q, p, radio) /\ OwnMachineOnly(q, p) /\ q.tracked
  BY PeersOK DEF PeerOK
<1>2. q.central \in LinkRecords(CentralStates) /\ nextGen \in Nat
  BY <1>1 DEF PeerRecords, IInv, TypeOK
<1>3. c \in LinkRecords(CentralStates)
  BY <1>2, CentralType
<1>4. q.central.state \in {"Dialing", "Connected"} /\ Dials(p)
  <2>1. q.central.state \in {"Idle", "Dialing", "Connected", "RadioOff"}
    BY <1>1 DEF OwnMachineOnly
  <2>2. q.central.state \in {"Dialing", "Connected"}
    <3>1. c = CentralApply(q.central, "DialSucceeded", 0) /\ c.state = "Connected"
      OBVIOUS
    <3> HIDE DEF q
    <3> QED BY <2>1, <3>1 DEF CentralApply, Without, Link
  <2> QED BY <1>1, <2>2 DEF OwnMachineOnly
<1>5. /\ r \in PeerRecords /\ r.tracked /\ r.link = nextGen + 1 /\ r.link # NoLink
      /\ r.central = c /\ r.peripheral = q.peripheral
  <2> DEFINE n == nextGen + 1
  <2>1. r = [q EXCEPT !.central = c, !.attempts = 0, !.trying = Never,
                      !.retry = Never, !.link = n]
    BY DEF DialLinked
  <2>2. n \in Nat /\ n # NoLink /\ Never \in Timers
    BY <1>2 DEF NoLink, Timers
  <2> HIDE DEF q, r, n
  <2>3. /\ r \in PeerRecords /\ r.tracked /\ r.link = n /\ r.link # NoLink
        /\ r.central = c /\ r.peripheral = q.peripheral
    BY <1>1, <1>3, <2>1, <2>2 DEF PeerRecords
  <2> QED BY <2>3 DEF n
<1>6. HoldsSlotOf(q) /\ Usable(radio)
  BY <1>1, <1>4 DEF LinkMatches, HasConnection, HoldsSlotOf
<1>7. LinkMatches(r, p, radio)
  BY <1>1, <1>4, <1>5, <1>6 DEF LinkMatches, HasConnection
<1>8. OwnMachineOnly(r, p)
  BY <1>1, <1>4, <1>5 DEF OwnMachineOnly
<1> QED BY <1>5, <1>6, <1>7, <1>8 DEF PeerOK

\* A failed dial backs the peer off; a result for a machine that has moved on
\* changes nothing but the clocks.
LEMMA DialSettledOK ==
  ASSUME IInv, NEW p \in Peers, peers[p].tracked, NEW ok \in BOOLEAN,
         NEW c, c = CentralApply(peers[p].central, IF ok THEN "DialSucceeded" ELSE "DialFailed", 0),
         NEW r, r = (IF ok THEN [peers[p] EXCEPT !.central = c]
                     ELSE BackedOff([peers[p] EXCEPT !.central = c])),
         ~(ok /\ c.state = "Connected")
  PROVE  /\ PeerOK(r, p, radio)
         /\ HoldsSlotOf(r) => HoldsSlotOf(peers[p])
         /\ r.link = peers[p].link
<1> DEFINE q == peers[p]  m == [q EXCEPT !.central = c]
<1>1. q \in PeerRecords /\ LinkMatches(q, p, radio) /\ OwnMachineOnly(q, p) /\ q.tracked
  BY PeersOK DEF PeerOK
<1>2. q.central \in LinkRecords(CentralStates)
  BY <1>1 DEF PeerRecords
<1>3. c \in LinkRecords(CentralStates)
  BY <1>2, CentralType
<1>4. c = q.central \/ (q.central.state = "Dialing" /\ c.state = "Idle")
  <2>1. q.central.state \in {"Idle", "Dialing", "Connected", "RadioOff"} \/ ~Dials(p)
    BY <1>1 DEF OwnMachineOnly
  <2>2. CASE ok
    <3>1. c = CentralApply(q.central, "DialSucceeded", 0) /\ c.state # "Connected"
      BY <2>2
    <3> HIDE DEF q
    <3> QED BY <3>1 DEF CentralApply, Without, Link
  <2>3. CASE ~ok
    <3>1. c = CentralApply(q.central, "DialFailed", 0)
      BY <2>3
    <3> HIDE DEF q
    <3> QED BY <3>1 DEF CentralApply, Without, Link
  <2> QED BY <2>2, <2>3
<1>5. /\ m \in PeerRecords /\ m.tracked /\ m.link = q.link /\ m.central = c
      /\ m.peripheral = q.peripheral
  BY <1>1, <1>3 DEF PeerRecords
<1>6. PeerOK(m, p, radio) /\ (HoldsSlotOf(m) => HoldsSlotOf(q))
  <2>1. Dials(p) \/ ~Dials(p)
    OBVIOUS
  <2> HIDE DEF q, m
  <2> QED BY <1>1, <1>4, <1>5
          DEF PeerOK, LinkMatches, OwnMachineOnly, HoldsSlotOf, HasConnection
<1>7. /\ BackedOff(m) \in PeerRecords /\ BackedOff(m).tracked = m.tracked
      /\ BackedOff(m).link = m.link /\ BackedOff(m).central = m.central
      /\ BackedOff(m).peripheral = m.peripheral
  <2> DEFINE since == IF m.trying = Never THEN 0 ELSE m.trying
             i == IF m.attempts <= 1 THEN 1
                  ELSE IF m.attempts > Len(Backoff) THEN Len(Backoff) ELSE m.attempts
  <2>1. since \in Timers
    BY <1>5 DEF PeerRecords, Timers, Never
  <2>2. Backoff # <<>> => Backoff[i] \in Timers
    <3>1. Backoff \in Seq(Nat) /\ m.attempts \in Nat
      BY <1>5, PeerLinkAssumption DEF PeerRecords
    <3>2. Backoff # <<>> => i \in 1 .. Len(Backoff)
      <4> HIDE DEF m
      <4> QED BY <3>1
    <3> HIDE DEF i
    <3> QED BY <3>1, <3>2 DEF Timers
  <2>3. Never \in Timers
    BY DEF Timers
  <2>4. \/ BackedOff(m) = [m EXCEPT !.trying = since, !.gaveUp = TRUE, !.retry = Never]
        \/ BackedOff(m) = [m EXCEPT !.trying = since, !.gaveUp = TRUE]
        \/ Backoff # <<>> /\ BackedOff(m) = [m EXCEPT !.trying = since, !.retry = Backoff[i]]
    BY DEF BackedOff
  <2> HIDE DEF since, i, m
  <2> QED BY <1>5, <2>1, <2>2, <2>3, <2>4 DEF PeerRecords
<1>8. PeerOK(BackedOff(m), p, radio) /\ (HoldsSlotOf(BackedOff(m)) <=> HoldsSlotOf(m))
  <2> HIDE DEF m
  <2> QED BY <1>5, <1>6, <1>7, SameMachines
<1> QED BY <1>5, <1>6, <1>7, <1>8

LEMMA OnDialResultKeeps ==
  ASSUME IInv, OnDialResult
  PROVE  IInv'
<1> DEFINE m == Head(connQ)
           p == m.peer
           c == CentralApply(peers[p].central, IF m.ok THEN "DialSucceeded" ELSE "DialFailed", 0)
           dl == DropHandle(dialing, p)
           mine == ResultIsCurrent(m)
           linked == mine /\ m.ok /\ c.state = "Connected"
<1>1. /\ m \in [peer : Peers, session : Nat, ok : BOOLEAN]
      /\ connQ' \in Seq([peer : Peers, session : Nat, ok : BOOLEAN])
  <2>1. /\ connQ \in Seq([peer : Peers, session : Nat, ok : BOOLEAN]) /\ connQ # <<>>
        /\ connQ' = Tail(connQ)
    BY DEF OnDialResult, IInv, TypeOK
  <2>2. Head(connQ) \in [peer : Peers, session : Nat, ok : BOOLEAN]
    BY <2>1, QueueType
  <2>3. Tail(connQ) \in Seq([peer : Peers, session : Nat, ok : BOOLEAN])
    BY <2>1, QueueType
  <2> QED BY <2>1, <2>2, <2>3
<1>2. p \in Peers /\ m.ok \in BOOLEAN
  BY <1>1
<1>3. dl \subseteq DialTasks /\ IsFiniteSet(dl)
  BY DropHandleOK DEF IInv, TypeOK
<1>4. Running /\ ((published = "On")' <=> Usable(radio))
  BY DEF OnDialResult, IInv, RadioAnswerAgrees
<1>5. mine => peers[p].tracked
  BY DEF ResultIsCurrent
<1>6. CASE linked
  <2> DEFINE r == DialLinked(peers[p], c)  ps == [peers EXCEPT ![p] = r]
  <2>1. InstallLink(p) /\ FinishPeers(ps, dl)
    BY <1>6 DEF OnDialResult
  <2>2. Finish(ps, dl, radio, serve, serveRetry)
    BY <2>1 DEF FinishPeers
  <2>3. c = CentralApply(peers[p].central, "DialSucceeded", 0)
    BY <1>6
  <2>4. PeerOK(r, p, radio) /\ HoldsSlotOf(peers[p]) /\ r.link = nextGen + 1
    <3> HIDE DEF c, p
    <3> QED BY <1>2, <1>5, <1>6, <2>3, DialLinkedOK
  <2>5. Ready(ps, dl, radio, serve, serveRetry)
    <3> HIDE DEF r, dl, p
    <3> QED BY <1>2, <1>3, <2>4, ReadyOne
  <2>6. RestOK'
    BY <1>1, <1>2, <2>1, InstallLinkKeeps DEF OnDialResult, envVars, IInv, TypeOK, RestOK
  <2>7. \A q \in Peers : announced'[q] = ps[q].link
    <3>1. announced' = [announced EXCEPT ![p] = nextGen + 1]
      BY <1>2, <2>1, InstallLinkKeeps
    <3> HIDE DEF r, p
    <3> QED BY <1>2, <1>4, <2>4, <3>1, PeersOK DEF IInv, TypeOK, ViewsFollowPeers
  <2> HIDE DEF ps, dl
  <2> QED BY <1>4, <2>2, <2>5, <2>6, <2>7, ArmKeepsIInv
<1>7. CASE ~linked
  <2>1. UNCHANGED <<nextGen, announced, pumps, published, goneQ, inboundQ, radioQ, envVars>>
    BY <1>7 DEF OnDialResult
  <2>2. RestOK'
    BY <1>1, <2>1 DEF envVars, IInv, TypeOK, RestOK
  <2>3. CASE ~mine
    <3>1. Finish(peers, dialing, radio, serve, serveRetry)
      BY <1>7, <2>3 DEF OnDialResult, FinishPeers
    <3>2. \A q \in Peers : announced'[q] = peers[q].link
      BY <1>4, <2>1 DEF IInv, ViewsFollowPeers
    <3> QED BY <1>4, <2>2, <3>1, <3>2, ReadySame, ArmKeepsIInv
  <2>4. CASE mine
    <3> DEFINE q == peers[p]
               r == IF m.ok THEN [q EXCEPT !.central = c]
                    ELSE BackedOff([q EXCEPT !.central = c])
               ps == [peers EXCEPT ![p] = r]
    <3>1. Finish(ps, dl, radio, serve, serveRetry)
      <4>1. FinishPeers(IF m.ok THEN [peers EXCEPT ![p].central = c]
                        ELSE [peers EXCEPT ![p] = BackedOff([q EXCEPT !.central = c])], dl)
        BY <1>7, <2>4 DEF OnDialResult
      <4>2. ps = IF m.ok THEN [peers EXCEPT ![p].central = c]
                 ELSE [peers EXCEPT ![p] = BackedOff([q EXCEPT !.central = c])]
        BY <1>2
      <4> QED BY <4>1, <4>2 DEF FinishPeers
    <3>2. PeerOK(r, p, radio) /\ (HoldsSlotOf(r) => HoldsSlotOf(q)) /\ r.link = q.link
      <4>1. ~(m.ok /\ c.state = "Connected")
        BY <1>7, <2>4
      <4>2. c = CentralApply(q.central, IF m.ok THEN "DialSucceeded" ELSE "DialFailed", 0)
        OBVIOUS
      <4>3. r = IF m.ok THEN [q EXCEPT !.central = c] ELSE BackedOff([q EXCEPT !.central = c])
        OBVIOUS
      <4> HIDE DEF c, r, p, m
      <4> QED BY <1>2, <1>5, <2>4, <4>1, <4>2, <4>3, DialSettledOK DEF m
    <3>3. Ready(ps, dl, radio, serve, serveRetry)
      <4> HIDE DEF r, dl, p
      <4> QED BY <1>2, <1>3, <3>2, ReadyOne
    <3>4. \A u \in Peers : announced'[u] = ps[u].link
      <4> HIDE DEF r, p
      <4> QED BY <1>2, <1>4, <2>1, <3>2, PeersOK DEF IInv, ViewsFollowPeers
    <3> HIDE DEF ps, dl
    <3> QED BY <1>4, <2>2, <3>1, <3>3, <3>4, ArmKeepsIInv
  <2> QED BY <2>3, <2>4
<1> QED BY <1>6, <1>7

\* An accepted link starts serving at once.
LEMMA InboundLinkedOK ==
  ASSUME IInv, NEW p \in Peers, ~Refuses(p)
  PROVE  /\ PeerOK(InboundLinked(peers[p]), p, radio)
         /\ InboundLinked(peers[p]).link = nextGen + 1
<1> DEFINE q == peers[p]
           accepted == PeripheralApply(q.peripheral, "CentralConnected", NoSession)
           l == PeripheralApply(accepted, "CentralSubscribed", NoSession)
           n == nextGen + 1
           r == InboundLinked(q)
<1>1. /\ q \in PeerRecords /\ LinkMatches(q, p, radio) /\ OwnMachineOnly(q, p)
      /\ q.tracked /\ ~Dials(p) /\ q.link = NoLink /\ Usable(radio)
  BY PeersOK DEF PeerOK, Refuses
<1>2. q.peripheral \in LinkRecords(PeripheralStates) /\ q.peripheral.state = "Absent"
  <2>1. q.peripheral \in LinkRecords(PeripheralStates)
    BY <1>1 DEF PeerRecords
  <2>2. q.peripheral.state \in {"Absent", "Serving", "RadioOff"}
    BY <1>1 DEF OwnMachineOnly
  <2>3. q.peripheral.state \notin {"Serving", "RadioOff"}
    BY <1>1 DEF LinkMatches, HoldsSlot
  <2> QED BY <2>1, <2>2, <2>3
<1>3. l \in LinkRecords(PeripheralStates) /\ l.state = "Serving"
  <2>1. l \in LinkRecords(PeripheralStates)
    BY <1>2, PeripheralType DEF NoSession
  <2>2. accepted.state = "Accepted"
    BY <1>2 DEF PeripheralApply, Link
  <2>3. l.state = "Serving"
    <3> HIDE DEF accepted
    <3> QED BY <2>2 DEF PeripheralApply, Link
  <2> QED BY <2>1, <2>3
<1>4. n \in Nat /\ n # NoLink /\ Never \in Timers
  BY DEF NoLink, Timers, IInv, TypeOK
<1>5. r = [q EXCEPT !.peripheral = l, !.gaveUp = FALSE, !.trying = Never,
                    !.retry = Never, !.link = n]
  BY DEF InboundLinked
<1>6. /\ r \in PeerRecords /\ r.tracked /\ r.link = n /\ r.peripheral = l
      /\ r.central = q.central
  <2> HIDE DEF q, l, n, r
  <2> QED BY <1>1, <1>3, <1>4, <1>5 DEF PeerRecords
<1>7. LinkMatches(r, p, radio) /\ OwnMachineOnly(r, p)
  <2> HIDE DEF q, l, n, r
  <2> QED BY <1>1, <1>3, <1>4, <1>6 DEF LinkMatches, OwnMachineOnly, HoldsSlot
<1> QED BY <1>6, <1>7 DEF PeerOK

LEMMA OnInboundKeeps ==
  ASSUME IInv, OnInbound
  PROVE  IInv'
<1> DEFINE p == Head(inboundQ)
<1>1. p \in Peers /\ inboundQ' \in Seq(Peers)
  BY DEF OnInbound, IInv, TypeOK
<1>2. /\ Running /\ ((published = "On")' <=> Usable(radio))
      /\ UNCHANGED <<published, connQ, goneQ, radioQ, envVars>>
  BY DEF OnInbound, IInv, RadioAnswerAgrees
<1>3. CASE Refuses(p)
  <2>1. /\ Finish(peers, dialing, radio, serve, serveRetry)
        /\ UNCHANGED <<nextGen, announced, pumps>>
    BY <1>3 DEF OnInbound, FinishPeers
  <2>2. RestOK' /\ \A q \in Peers : announced'[q] = peers[q].link
    BY <1>1, <1>2, <2>1 DEF envVars, IInv, TypeOK, RestOK, ViewsFollowPeers
  <2> QED BY <1>2, <2>1, <2>2, ReadySame, ArmKeepsIInv
<1>4. CASE ~Refuses(p)
  <2> DEFINE r == InboundLinked(peers[p])  ps == [peers EXCEPT ![p] = r]
  <2>1. InstallLink(p) /\ Finish(ps, dialing, radio, serve, serveRetry)
    BY <1>4 DEF OnInbound, FinishPeers
  <2>2. PeerOK(r, p, radio) /\ r.link = nextGen + 1
    <3> HIDE DEF p
    <3> QED BY <1>1, <1>4, InboundLinkedOK
  <2>3. ps \in [Peers -> PeerRecords] /\ \A q \in Peers : PeerOK(ps[q], q, radio)
    <3> HIDE DEF r, p
    <3> QED BY <1>1, <2>2, PeersOK DEF PeerOK
  <2>4. Cardinality(Committed(ps)) <= MaxLinks
    <3>1. /\ Committed(peers) \in SUBSET Peers /\ Committed(ps) \in SUBSET Peers
          /\ Committed(ps) \subseteq Committed(peers) \cup {p}
      <4> HIDE DEF r, p
      <4> QED BY PeersOK DEF Committed
    <3>2. Cardinality(Committed(peers)) < MaxLinks
      <4>1. ~(Cardinality(Committed(peers)) >= MaxLinks)
        BY <1>4 DEF Refuses
      <4> QED BY <3>1, <4>1, PeerSets, PeerLinkAssumption
    <3>3. /\ IsFiniteSet(Committed(peers) \cup {p})
          /\ Cardinality(Committed(peers) \cup {p}) <= Cardinality(Committed(peers)) + 1
      <4> HIDE DEF p
      <4> QED BY <3>1, PeerSets, FS_AddElement
    <3>4. Cardinality(Committed(ps)) <= Cardinality(Committed(peers) \cup {p})
      <4> HIDE DEF p, ps
      <4> QED BY <3>1, <3>3, FS_Subset
    <3>5. Cardinality(Committed(peers) \cup {p}) \in Nat
      BY <3>3, FS_CardinalityType
    <3> HIDE DEF p, ps
    <3> QED BY <3>1, <3>2, <3>3, <3>4, <3>5, PeerSets, PeerLinkAssumption
  <2>5. Ready(ps, dialing, radio, serve, serveRetry)
    BY <2>3, <2>4 DEF Ready, IInv, TypeOK
  <2>6. RestOK'
    BY <1>1, <1>2, <2>1, InstallLinkKeeps DEF envVars, IInv, TypeOK, RestOK
  <2>7. \A q \in Peers : announced'[q] = ps[q].link
    <3>1. announced' = [announced EXCEPT ![p] = nextGen + 1]
      BY <1>1, <2>1, InstallLinkKeeps
    <3> HIDE DEF r, p
    <3> QED BY <1>1, <1>2, <2>2, <3>1, PeersOK DEF IInv, TypeOK, ViewsFollowPeers
  <2> HIDE DEF ps
  <2> QED BY <1>2, <2>1, <2>5, <2>6, <2>7, ArmKeepsIInv
<1> QED BY <1>3, <1>4

-----------------------------------------------------------------------------
(* Links and attempts end *)

\* A link that goes down returns both machines to rest.
LEMMA UnlinkedOK ==
  ASSUME IInv, NEW p \in Peers, peers[p].link # NoLink
  PROVE  /\ PeerOK(Unlinked(peers[p]), p, radio)
         /\ HoldsSlotOf(peers[p])
         /\ Unlinked(peers[p]).link = NoLink
<1> DEFINE q == peers[p]  r == Unlinked(q)
           c == CentralApply(q.central, "LinkDropped", 0)
           l == PeripheralApply(q.peripheral, "CentralDropped", 0)
<1>1. /\ q \in PeerRecords /\ LinkMatches(q, p, radio) /\ OwnMachineOnly(q, p)
      /\ q.tracked /\ q.link # NoLink /\ HoldsSlotOf(q) /\ Usable(radio)
  BY PeersOK, NewPeerOK DEF PeerOK, OwnMachineOnly, LinkMatches, HoldsSlotOf
<1>2. /\ q.central \in LinkRecords(CentralStates)
      /\ q.peripheral \in LinkRecords(PeripheralStates)
  BY <1>1 DEF PeerRecords
<1>3. c \in LinkRecords(CentralStates) /\ l \in LinkRecords(PeripheralStates)
  BY <1>2, CentralType, PeripheralType
<1>4. /\ q.central.state = "Connected" => c.state = "Idle"
      /\ q.central.state = "Idle" => c.state = "Idle"
      /\ q.peripheral.state = "Serving" => l.state = "Absent"
      /\ q.peripheral.state = "Absent" => l.state = "Absent"
  BY DEF CentralApply, PeripheralApply, Without, Link
<1>5. /\ q.central.state # "RadioOff" /\ q.peripheral.state # "RadioOff"
      /\ Dials(p) => q.central.state = "Connected"
  <2> HIDE DEF q
  <2> QED BY <1>1 DEF LinkMatches, HasConnection, OwnMachineOnly, HoldsSlotOf
<1>6. c.state = "Idle" /\ l.state = "Absent"
  <2> HIDE DEF q, c, l
  <2> QED BY <1>1, <1>4, <1>5 DEF OwnMachineOnly
<1>7. r = [q EXCEPT !.link = NoLink, !.central = c, !.peripheral = l,
                    !.trying = 0, !.attempts = 0, !.retry = Never]
  BY DEF Unlinked
<1>8. /\ r \in PeerRecords /\ r.tracked /\ r.link = NoLink
      /\ r.central = c /\ r.peripheral = l
  <2>1. NoLink \in Nat /\ Never \in Timers /\ 0 \in Timers
    BY DEF NoLink, Timers
  <2> HIDE DEF q, c, l, r
  <2> QED BY <1>1, <1>3, <1>7, <2>1 DEF PeerRecords
<1>9. LinkMatches(r, p, radio) /\ OwnMachineOnly(r, p)
  <2> HIDE DEF q, c, l, r
  <2> QED BY <1>1, <1>6, <1>8
          DEF LinkMatches, OwnMachineOnly, HasConnection, HoldsSlot, HoldsSlotOf
<1> QED BY <1>1, <1>8, <1>9 DEF PeerOK

LEMMA OnLinkGoneKeeps ==
  ASSUME IInv, OnLinkGone
  PROVE  IInv'
<1> DEFINE u == Head(goneQ)  p == u.peer
<1>1. p \in Peers /\ goneQ' \in Seq([peer : Peers, gen : Nat])
  <2>1. goneQ \in Seq([peer : Peers, gen : Nat]) /\ goneQ # <<>> /\ goneQ' = Tail(goneQ)
    BY DEF OnLinkGone, IInv, TypeOK
  <2>2. Head(goneQ) \in [peer : Peers, gen : Nat]
    BY <2>1, QueueType
  <2>3. Tail(goneQ) \in Seq([peer : Peers, gen : Nat])
    BY <2>1, QueueType
  <2> QED BY <2>1, <2>2, <2>3
<1>2. /\ Running /\ ((published = "On")' <=> Usable(radio))
      /\ UNCHANGED <<nextGen, published, pumps, connQ, inboundQ, radioQ, envVars>>
  BY DEF OnLinkGone, IInv, RadioAnswerAgrees
<1>3. CASE ~PumpIsCurrent(u)
  <2>1. Finish(peers, dialing, radio, serve, serveRetry) /\ UNCHANGED announced
    BY <1>3 DEF OnLinkGone, FinishPeers
  <2>2. RestOK' /\ \A q \in Peers : announced'[q] = peers[q].link
    BY <1>1, <1>2, <2>1 DEF envVars, IInv, TypeOK, RestOK, ViewsFollowPeers
  <2> QED BY <1>2, <2>1, <2>2, ReadySame, ArmKeepsIInv
<1>4. CASE PumpIsCurrent(u)
  <2> DEFINE r == Unlinked(peers[p])  ps == [peers EXCEPT ![p] = r]
  <2>1. /\ Finish(ps, dialing, radio, serve, serveRetry)
        /\ announced' = [announced EXCEPT ![p] = NoLink]
    BY <1>4 DEF OnLinkGone, FinishPeers
  <2>2. PeerOK(r, p, radio) /\ HoldsSlotOf(peers[p]) /\ r.link = NoLink
    <3>1. peers[p].link # NoLink
      BY <1>4 DEF PumpIsCurrent
    <3> HIDE DEF p
    <3> QED BY <1>1, <3>1, UnlinkedOK
  <2>3. Ready(ps, dialing, radio, serve, serveRetry)
    <3> HIDE DEF r, p
    <3> QED BY <1>1, <2>2, ReadyOne DEF IInv, TypeOK
  <2>4. RestOK'
    BY <1>1, <1>2, <2>1 DEF envVars, IInv, TypeOK, RestOK, NoLink
  <2>5. \A q \in Peers : announced'[q] = ps[q].link
    <3> HIDE DEF r, p
    <3> QED BY <1>1, <1>2, <2>1, <2>2, PeersOK DEF IInv, TypeOK, ViewsFollowPeers
  <2> HIDE DEF ps
  <2> QED BY <1>2, <2>1, <2>3, <2>4, <2>5, ArmKeepsIInv
<1> QED BY <1>3, <1>4

\* The clock moves a machine only from Dialing to Idle, and closes a budget.
LEMMA TickedOK ==
  ASSUME IInv, NEW p \in Peers, peers[p].tracked
  PROVE  /\ PeerOK(Ticked(peers[p], p), p, radio)
         /\ HoldsSlotOf(Ticked(peers[p], p)) => HoldsSlotOf(peers[p])
         /\ Ticked(peers[p], p).link = peers[p].link
<1> DEFINE q == peers[p]  r == Ticked(q, p)
           c == CentralApply(q.central, "Tick", 0)
           spent == /\ Usable(radio) /\ q.link = NoLink /\ ~q.gaveUp
                    /\ q.trying # Never /\ q.trying >= Deadline(p)
           g == q.gaveUp \/ spent
           t == IF spent THEN Never ELSE q.retry
<1>1. /\ q \in PeerRecords /\ LinkMatches(q, p, radio) /\ OwnMachineOnly(q, p)
      /\ q.tracked
  BY PeersOK DEF PeerOK
<1>2. q.central \in LinkRecords(CentralStates)
  BY <1>1 DEF PeerRecords
<1>3. c \in LinkRecords(CentralStates)
  BY <1>2, CentralType
<1>4. \/ c = q.central
      \/ q.central.state = "Dialing" /\ c.state = "Idle"
      \/ q.central.state \notin {"Idle", "Dialing", "Connected", "RadioOff"}
  BY <1>2 DEF CentralApply, Without, Link, LinkRecords, CentralStates
<1>5. g \in BOOLEAN /\ t \in Timers
  <2>1. q.gaveUp \in BOOLEAN /\ q.retry \in Timers /\ Never \in Timers
    BY <1>1 DEF PeerRecords, Timers
  <2> HIDE DEF q, spent
  <2> QED BY <2>1
<1>6. r = [q EXCEPT !.central = c, !.gaveUp = g, !.retry = t]
  BY DEF Ticked
<1>7. /\ r \in PeerRecords /\ r.tracked /\ r.link = q.link /\ r.central = c
      /\ r.peripheral = q.peripheral
  <2> HIDE DEF q, c, g, t, r
  <2> QED BY <1>1, <1>3, <1>5, <1>6 DEF PeerRecords
<1>8. LinkMatches(r, p, radio) /\ OwnMachineOnly(r, p) /\ (HoldsSlotOf(r) => HoldsSlotOf(q))
  <2> HIDE DEF q, c, g, t, r
  <2> QED BY <1>1, <1>4, <1>7
          DEF LinkMatches, OwnMachineOnly, HasConnection, HoldsSlotOf
<1> QED BY <1>7, <1>8 DEF PeerOK

\* clear_stale_dial only removes dial tasks.
LEMMA ClearStaleOK ==
  ASSUME IInv, NEW ps
  PROVE  /\ ClearStaleDials(ps, dialing) \subseteq DialTasks
         /\ IsFiniteSet(ClearStaleDials(ps, dialing))
<1>1. ClearStaleDials(ps, dialing) \subseteq dialing
  BY DEF ClearStaleDials
<1> QED BY <1>1, FS_Subset DEF IInv, TypeOK

\* An arm that changes every peer, and takes no slot.
LEMMA ReadyEvery ==
  ASSUME IInv, NEW ps \in [Peers -> PeerRecords], NEW rad \in RadioStates,
         NEW dl \in SUBSET DialTasks, IsFiniteSet(dl),
         NEW sv \in ServeStates, NEW at \in Timers,
         \A p \in Peers : /\ PeerOK(ps[p], p, rad)
                          /\ HoldsSlotOf(ps[p]) => HoldsSlotOf(peers[p])
  PROVE  Ready(ps, dl, rad, sv, at)
  BY NoNewSlot DEF Ready, IInv

LEMMA OnTickKeeps ==
  ASSUME IInv, OnTick
  PROVE  IInv'
<1> DEFINE ps == [p \in Peers |-> IF peers[p].tracked THEN Ticked(peers[p], p) ELSE peers[p]]
           dl == ClearStaleDials(ps, dialing)
<1>1. Running /\ Finish(ps, dl, radio, serve, serveRetry)
  BY DEF OnTick, FinishPeers
<1>2. \A p \in Peers : /\ PeerOK(ps[p], p, radio) /\ ps[p].link = peers[p].link
                       /\ HoldsSlotOf(ps[p]) => HoldsSlotOf(peers[p])
  BY PeersOK, TickedOK
<1>3. ps \in [Peers -> PeerRecords]
  BY <1>2 DEF PeerOK
<1>4. dl \subseteq DialTasks /\ IsFiniteSet(dl)
  BY ClearStaleOK
<1>5. Ready(ps, dl, radio, serve, serveRetry)
  <2> HIDE DEF ps, dl
  <2> QED BY <1>2, <1>3, <1>4, ReadyEvery DEF IInv, TypeOK
<1>6. RestOK' /\ ((published = "On")' <=> Usable(radio))
  BY DEF OnTick, queueVars, envVars, IInv, TypeOK, RestOK, RadioAnswerAgrees
<1>7. \A p \in Peers : announced'[p] = ps[p].link
  BY <1>1, <1>2 DEF OnTick, IInv, ViewsFollowPeers
<1> HIDE DEF ps, dl
<1> QED BY <1>1, <1>5, <1>6, <1>7, ArmKeepsIInv

\* The radio's loss takes every link and every dial.
LEMMA RadioLostOK ==
  ASSUME IInv, NEW p \in Peers, peers[p].tracked, NEW rad, ~Usable(rad)
  PROVE  /\ PeerOK(RadioLostBy(peers[p], p), p, rad)
         /\ ~HoldsSlotOf(RadioLostBy(peers[p], p))
         /\ RadioLostBy(peers[p], p).link = NoLink
<1> DEFINE q == peers[p]  r == RadioLostBy(q, p)
           c == CentralApply(q.central, "RadioLost", 0)
           l == PeripheralApply(q.peripheral, "RadioLost", 0)
           t == FirstClock(p)
<1>1. q \in PeerRecords /\ q.tracked
  BY PeersOK
<1>2. c = Without("RadioOff") /\ l = Without("RadioOff")
  BY DEF CentralApply, PeripheralApply
<1>3. /\ c \in LinkRecords(CentralStates) /\ l \in LinkRecords(PeripheralStates)
      /\ c.state = "RadioOff" /\ l.state = "RadioOff"
  BY <1>2 DEF Without, Link, LinkRecords, CentralStates, PeripheralStates, NoSession
<1>4. t \in Timers /\ Never \in Timers /\ NoLink \in Nat
  BY DEF FirstClock, Timers, Never, NoLink
<1>5. r = [q EXCEPT !.central = c, !.peripheral = l, !.link = NoLink, !.gaveUp = FALSE,
                    !.attempts = 0, !.retry = Never, !.trying = t]
  BY DEF RadioLostBy
<1>6. /\ r \in PeerRecords /\ r.tracked /\ r.link = NoLink
      /\ r.central.state = "RadioOff" /\ r.peripheral.state = "RadioOff"
  <2> HIDE DEF q, c, l, t, r
  <2> QED BY <1>1, <1>3, <1>4, <1>5 DEF PeerRecords
<1>7. LinkMatches(r, p, rad) /\ OwnMachineOnly(r, p) /\ ~HoldsSlotOf(r)
  <2> HIDE DEF r
  <2> QED BY <1>6 DEF LinkMatches, OwnMachineOnly, HasConnection, HoldsSlot, HoldsSlotOf
<1> QED BY <1>6, <1>7 DEF PeerOK

\* The radio's return brings machines out of RadioOff and touches no other.
LEMMA RadioBackOK ==
  ASSUME IInv, NEW p \in Peers, peers[p].tracked, NEW rad, Usable(rad)
  PROVE  /\ PeerOK(RadioBackFor(peers[p]), p, rad)
         /\ HoldsSlotOf(RadioBackFor(peers[p])) => HoldsSlotOf(peers[p])
         /\ RadioBackFor(peers[p]).link = peers[p].link
<1> DEFINE q == peers[p]  r == RadioBackFor(q)
           c == CentralApply(q.central, "RadioBack", 0)
           l == PeripheralApply(q.peripheral, "RadioBack", 0)
<1>1. q \in PeerRecords /\ q.tracked /\ LinkMatches(q, p, radio) /\ OwnMachineOnly(q, p)
  BY PeersOK DEF PeerOK
<1>2. c = IF q.central.state = "RadioOff" THEN Without("Idle") ELSE q.central
  BY DEF CentralApply
<1>3. l = IF q.peripheral.state = "RadioOff" THEN Without("Absent") ELSE q.peripheral
  BY DEF PeripheralApply
<1>4. /\ Without("Idle") \in LinkRecords(CentralStates) /\ Without("Idle").state = "Idle"
      /\ Without("Absent") \in LinkRecords(PeripheralStates)
      /\ Without("Absent").state = "Absent"
  BY DEF Without, Link, LinkRecords, CentralStates, PeripheralStates, NoSession
<1>5. /\ q.central \in LinkRecords(CentralStates)
      /\ q.peripheral \in LinkRecords(PeripheralStates)
  BY <1>1 DEF PeerRecords
<1>6. r = [q EXCEPT !.central = c, !.peripheral = l]
  BY DEF RadioBackFor
<1>7. /\ c \in LinkRecords(CentralStates) /\ l \in LinkRecords(PeripheralStates)
      /\ c.state = IF q.central.state = "RadioOff" THEN "Idle" ELSE q.central.state
      /\ l.state = IF q.peripheral.state = "RadioOff" THEN "Absent" ELSE q.peripheral.state
  <2> HIDE DEF q, c, l
  <2> QED BY <1>2, <1>3, <1>4, <1>5
<1>8. /\ r \in PeerRecords /\ r.tracked /\ r.link = q.link /\ r.central = c
      /\ r.peripheral = l
  <2> HIDE DEF q, c, l, r
  <2> QED BY <1>1, <1>6, <1>7 DEF PeerRecords
<1>9. LinkMatches(r, p, rad) /\ OwnMachineOnly(r, p) /\ (HoldsSlotOf(r) => HoldsSlotOf(q))
  <2> HIDE DEF q, c, l, r
  <2> QED BY <1>1, <1>7, <1>8
          DEF LinkMatches, OwnMachineOnly, HasConnection, HoldsSlot, HoldsSlotOf
<1> QED BY <1>8, <1>9 DEF PeerOK

\* A radio that stays unusable leaves peers that hold nothing.
LEMMA StillOffOK ==
  ASSUME IInv, NEW p \in Peers, ~Usable(radio), NEW rad, ~Usable(rad)
  PROVE  PeerOK(peers[p], p, rad)
  BY PeersOK DEF PeerOK, LinkMatches

LEMMA OnRadioChangedKeeps ==
  ASSUME IInv, OnRadioChanged
  PROVE  IInv'
<1>1. /\ Head(radioQ) \in RadioStates /\ radioQ' \in Seq(RadioStates)
      /\ Running /\ UNCHANGED <<nextGen, connQ, goneQ, inboundQ, envVars>>
  <2>1. radioQ \in Seq(RadioStates) /\ radioQ # <<>> /\ radioQ' = Tail(radioQ)
    BY DEF OnRadioChanged, IInv, TypeOK
  <2> QED BY <2>1, QueueType DEF OnRadioChanged
<1> DEFINE rad(st)  == RadioApply(radio, RadioEventOf(st))
           lost(st) == InvalidatesLinks(radio, RadioEventOf(st))
           ps(st)   == [p \in Peers |->
                          IF ~peers[p].tracked THEN peers[p]
                          ELSE IF lost(st) THEN RadioLostBy(peers[p], p)
                          ELSE IF Usable(rad(st)) THEN RadioBackFor(peers[p]) ELSE peers[p]]
           stop(st) == Accepts /\ Usable(radio) /\ ~Usable(rad(st))
           dl(st)   == IF lost(st) THEN ClearStaleDials(ps(st), dialing) ELSE dialing
           sv(st)   == IF stop(st) THEN "none" ELSE serve
           at(st)   == IF stop(st) THEN Never ELSE serveRetry
<1>2. PICK st \in RadioStates :
        /\ published' = st
        /\ Finish(ps(st), dl(st), rad(st), sv(st), at(st))
        /\ pumps' = IF lost(st) THEN {u \in pumps : peers[u.peer].link # u.gen} ELSE pumps
        /\ announced' = [p \in Peers |-> IF lost(st) /\ peers[p].link # NoLink
                                         THEN NoLink ELSE announced[p]]
  <2>1. IF Head(radioQ) = "On" THEN Assessed \subseteq RadioStates
        ELSE {Head(radioQ)} \subseteq RadioStates
    BY <1>1 DEF Assessed, IInv, TypeOK, RadioStates
  <2> QED BY <2>1 DEF OnRadioChanged
<1>3. /\ rad(st) \in RadioStates
      /\ Usable(rad(st)) <=> st = "On"
      /\ lost(st) <=> Usable(radio) /\ ~Usable(rad(st))
  BY DEF RadioApply, RadioEventOf, RadioStates, Usable, InvalidatesLinks, IInv, TypeOK
<1>4. ASSUME NEW p \in Peers
      PROVE  /\ PeerOK(ps(st)[p], p, rad(st))
             /\ HoldsSlotOf(ps(st)[p]) => HoldsSlotOf(peers[p])
             /\ ps(st)[p].link = IF lost(st) THEN NoLink ELSE peers[p].link
  <2> HIDE DEF rad, lost
  <2>1. CASE ~peers[p].tracked
    <3>1. peers[p] = Forgotten
      BY <2>1 DEF IInv, OwnMachineOnly
    <3>2. ps(st)[p] = Forgotten
      BY <2>1, <3>1
    <3> QED BY <3>1, <3>2, NewPeerOK
  <2>2. CASE peers[p].tracked /\ lost(st)
    <3>1. ps(st)[p] = RadioLostBy(peers[p], p) /\ ~Usable(rad(st))
      BY <1>3, <2>2
    <3> QED BY <2>2, <3>1, RadioLostOK
  <2>3. CASE peers[p].tracked /\ ~lost(st) /\ Usable(rad(st))
    <3>1. ps(st)[p] = RadioBackFor(peers[p])
      BY <2>3
    <3> QED BY <2>3, <3>1, RadioBackOK
  <2>4. CASE peers[p].tracked /\ ~lost(st) /\ ~Usable(rad(st))
    <3>1. ps(st)[p] = peers[p] /\ ~Usable(radio)
      BY <1>3, <2>4
    <3> QED BY <2>4, <3>1, StillOffOK
  <2> QED BY <2>1, <2>2, <2>3, <2>4
<1>5. /\ ps(st) \in [Peers -> PeerRecords]
      /\ dl(st) \subseteq DialTasks /\ IsFiniteSet(dl(st))
      /\ sv(st) \in ServeStates /\ at(st) \in Timers
  <2>1. ps(st) \in [Peers -> PeerRecords]
    <3>1. \A p \in Peers : ps(st)[p] \in PeerRecords
      BY <1>4 DEF PeerOK
    <3> HIDE DEF rad, lost
    <3> QED BY <3>1
  <2>2. dl(st) \subseteq DialTasks /\ IsFiniteSet(dl(st))
    <3> HIDE DEF ps, lost
    <3> QED BY ClearStaleOK DEF IInv, TypeOK
  <2>3. sv(st) \in ServeStates /\ at(st) \in Timers
    <3> HIDE DEF stop
    <3> QED BY DEF IInv, TypeOK, ServeStates, Timers
  <2> QED BY <2>1, <2>2, <2>3
<1>6. Ready(ps(st), dl(st), rad(st), sv(st), at(st))
  <2> HIDE DEF ps, dl, rad, sv, at, lost
  <2> QED BY <1>3, <1>4, <1>5, ReadyEvery
<1>7. RestOK'
  <2> HIDE DEF ps, dl, rad, sv, at, lost
  <2> QED BY <1>1, <1>2 DEF envVars, IInv, TypeOK, RestOK, NoLink
<1>8. \A p \in Peers : announced'[p] = ps(st)[p].link
  <2> HIDE DEF ps, dl, rad, sv, at, lost
  <2> QED BY <1>1, <1>2, <1>4 DEF IInv, ViewsFollowPeers
<1>9. (published = "On")' <=> Usable(rad(st))
  <2> HIDE DEF ps, dl, rad, sv, at, lost
  <2> QED BY <1>2, <1>3
<1>10. Finish(ps(st), dl(st), rad(st), sv(st), at(st))
  BY <1>2
<1> HIDE DEF ps, dl, rad, sv, at, lost
<1> QED BY <1>1, <1>6, <1>7, <1>8, <1>9, <1>10, ArmKeepsIInv

LEMMA OnDisconnectedKeeps ==
  ASSUME IInv, NEW p \in Peers, OnDisconnected(p)
  PROVE  IInv'
<1>1. /\ Running /\ peers[p].tracked
      /\ UNCHANGED <<nextGen, published, announced, pumps, queueVars, adapter>>
      /\ RestOK' /\ ((published = "On")' <=> Usable(radio))
  BY DEF OnDisconnected, Disrupt, queueVars, IInv, TypeOK, RestOK, RadioAnswerAgrees
<1>2. CASE peers[p].link # NoLink
  <2>1. Finish(peers, dialing, radio, serve, serveRetry)
    BY <1>2 DEF OnDisconnected, FinishPeers
  <2>2. \A q \in Peers : announced'[q] = peers[q].link
    BY <1>1 DEF IInv, ViewsFollowPeers
  <2> QED BY <1>1, <2>1, <2>2, ReadySame, ArmKeepsIInv
<1>3. CASE peers[p].link = NoLink
  <2> DEFINE q == peers[p]
             c == CentralApply(q.central, "LinkDropped", 0)
             r == [q EXCEPT !.central = c]
             ps == [peers EXCEPT ![p] = r]
  <2>1. Finish(ps, dialing, radio, serve, serveRetry)
    <3>1. [peers EXCEPT ![p].central = c] = ps
      OBVIOUS
    <3> QED BY <1>3, <3>1 DEF OnDisconnected, FinishPeers
  <2>2. q \in PeerRecords /\ PeerOK(q, p, radio) /\ q.tracked
    BY <1>1, PeersOK
  <2>3. c = q.central
    <3>1. q.central.state # "Connected"
      <4>1. Dials(p) => ~HasConnection(q.central)
        BY <1>3, <2>2 DEF PeerOK, LinkMatches
      <4>2. ~Dials(p) => q.central.state \in {"Idle", "RadioOff"}
        BY <2>2 DEF PeerOK, OwnMachineOnly
      <4> QED BY <4>1, <4>2 DEF HasConnection
    <3> HIDE DEF q
    <3> QED BY <3>1 DEF CentralApply
  <2>4. r = q
    <3> HIDE DEF q
    <3> QED BY <2>2, <2>3 DEF PeerRecords
  <2>5. Ready(ps, dialing, radio, serve, serveRetry)
    <3> HIDE DEF r
    <3> QED BY <2>2, <2>4, ReadyOne DEF IInv, TypeOK
  <2>6. \A u \in Peers : announced'[u] = ps[u].link
    <3> HIDE DEF r
    <3> QED BY <1>1, <2>4, PeersOK DEF IInv, ViewsFollowPeers
  <2> HIDE DEF ps
  <2> QED BY <1>1, <2>1, <2>5, <2>6, ArmKeepsIInv
<1> QED BY <1>2, <1>3

LEMMA OnServeEndedKeeps ==
  ASSUME IInv, OnServeEnded
  PROVE  IInv'
<1>1. Running /\ Finish(peers, dialing, radio, "none", ServeRetryDelay)
  BY DEF OnServeEnded
<1>2. RestOK' /\ ((published = "On")' <=> Usable(radio))
  BY DEF OnServeEnded, queueVars, envVars, IInv, TypeOK, RestOK, RadioAnswerAgrees
<1>3. \A p \in Peers : announced'[p] = peers[p].link
  BY <1>1 DEF OnServeEnded, IInv, ViewsFollowPeers
<1> QED BY <1>1, <1>2, <1>3, ReadySame, ArmKeepsIInv

-----------------------------------------------------------------------------
(* Tasks, driver and time *)

\* A unit of time moves clocks only.
LEMMA OlderOK ==
  ASSUME IInv, NEW p \in Peers
  PROVE  LET q == peers[p]  r == Older(q, p) IN
         /\ PeerOK(r, p, radio)
         /\ r.tracked = q.tracked /\ r.link = q.link /\ r.gaveUp = q.gaveUp
         /\ r.retry = Never <=> q.retry = Never
         /\ r.central.state = q.central.state
         /\ HoldsSlotOf(r) <=> HoldsSlotOf(q)
<1> DEFINE q == peers[p]  r == Older(q, p)
           c == Aged(q.central)
           t == IF q.trying # Never /\ q.trying < Deadline(p) THEN q.trying + 1 ELSE q.trying
           b == CountDown(q.retry)
<1>1. q \in PeerRecords /\ LinkMatches(q, p, radio) /\ OwnMachineOnly(q, p)
  BY PeersOK DEF PeerOK
<1>2. /\ q.central \in LinkRecords(CentralStates) /\ q.trying \in Timers
      /\ q.retry \in Timers
  BY <1>1 DEF PeerRecords
<1>3. c \in LinkRecords(CentralStates) /\ c.state = q.central.state
  <2> HIDE DEF q
  <2> QED BY <1>2 DEF Aged, LinkRecords
<1>4. t \in Timers /\ b \in Timers /\ (b = Never <=> q.retry = Never)
  <2> HIDE DEF q
  <2> QED BY <1>2 DEF CountDown, Timers, Never
<1>5. r = [q EXCEPT !.central = c, !.trying = t, !.retry = b]
  BY DEF Older
<1>6. /\ r \in PeerRecords /\ r.tracked = q.tracked /\ r.link = q.link
      /\ r.gaveUp = q.gaveUp /\ r.central = c /\ r.peripheral = q.peripheral
      /\ r.retry = b
  <2> HIDE DEF q, c, t, b, r
  <2> QED BY <1>1, <1>3, <1>4, <1>5 DEF PeerRecords
<1>7. q = Forgotten => r = Forgotten
  <2>1. Aged(Without("Idle")) = Without("Idle")
    BY DEF Aged, Window, Without, Link
  <2>2. /\ Forgotten.central = Without("Idle") /\ Forgotten.trying = Never
        /\ Forgotten.retry = Never /\ CountDown(Never) = Never
    BY DEF Forgotten, CountDown, Never
  <2>3. [Forgotten EXCEPT !.central = Without("Idle"), !.trying = Never, !.retry = Never]
           = Forgotten
    BY <2>2, NewPeerType DEF PeerRecords
  <2>4. Older(Forgotten, p) = [Forgotten EXCEPT !.central = Without("Idle"),
                                                !.trying = Never, !.retry = Never]
    BY <2>1, <2>2 DEF Older
  <2> QED BY <2>3, <2>4
<1>8. LinkMatches(r, p, radio) /\ OwnMachineOnly(r, p) /\ (HoldsSlotOf(r) <=> HoldsSlotOf(q))
  <2> HIDE DEF q, c, t, b, r
  <2> QED BY <1>1, <1>3, <1>6, <1>7
          DEF LinkMatches, OwnMachineOnly, HasConnection, HoldsSlotOf
<1> QED BY <1>3, <1>4, <1>6, <1>8 DEF PeerOK

LEMMA AdvanceKeeps ==
  ASSUME IInv, Advance
  PROVE  IInv'
<1>1. peers' = [p \in Peers |-> Older(peers[p], p)]
      /\ UNCHANGED <<phase, radio, serve, nextGen, sharedVars, taskVars, queueVars, envVars>>
  BY DEF Advance
<1>2. \A p \in Peers :
        /\ PeerOK(peers'[p], p, radio)
        /\ peers'[p].tracked = peers[p].tracked /\ peers'[p].link = peers[p].link
        /\ peers'[p].gaveUp = peers[p].gaveUp
        /\ peers'[p].retry = Never <=> peers[p].retry = Never
        /\ peers'[p].central.state = peers[p].central.state
        /\ HoldsSlotOf(peers'[p]) <=> HoldsSlotOf(peers[p])
  BY <1>1, OlderOK
<1>3. Committed(peers') = Committed(peers)
  BY <1>2 DEF Committed
<1>4. StatusMap(peers', radio) = StatusMap(peers, radio)
  <2>1. \A over : \A p \in Peers : Project(peers'[p], radio, over, p) = Project(peers[p], radio, over, p)
    BY <1>2 DEF Project
  <2> QED BY <1>3, <2>1 DEF StatusMap
<1>5. peers' \in [Peers -> PeerRecords]
  <2>1. \A p \in Peers : Older(peers[p], p) \in PeerRecords
    BY OlderOK DEF PeerOK
  <2> QED BY <1>1, <2>1
<1>6. serveRetry' \in Timers
  BY DEF Advance, IInv, TypeOK, CountDown, Timers, Never
<1>7. TypeOK' /\ IsFiniteSet(dialing')
  BY <1>1, <1>5, <1>6 DEF sharedVars, taskVars, queueVars, envVars, IInv, TypeOK
<1>8. CapRespected' /\ RadioAnswerAgrees'
  BY <1>1, <1>3 DEF sharedVars, IInv, CapRespected, RadioAnswerAgrees
<1>9. LinksMatchMachines' /\ \A p \in Peers : OwnMachineOnly(peers'[p], p)
  BY <1>1, <1>2 DEF LinksMatchMachines, PeerOK
<1>10. ViewsFollowPeers'
  <2>1. Running
    BY DEF Advance
  <2> QED BY <1>1, <1>2, <1>4, <2>1 DEF sharedVars, IInv, ViewsFollowPeers, Running
<1>11. NoIdleSlot'
  <2>1. ASSUME NEW p \in Candidates(peers'), peers'[p].retry = Never
        PROVE  p \in Candidates(peers) /\ peers[p].retry = Never
    BY <1>2, <2>1 DEF Candidates, MayDial, Never
  <2> QED BY <1>1, <1>3, <2>1 DEF IInv, NoIdleSlot, Running
<1> QED BY <1>7, <1>8, <1>9, <1>10, <1>11 DEF IInv

\* What happens outside the worker only fills its queues.
LEMMA EnvironmentKeeps ==
  ASSUME IInv, Environment
  PROVE  IInv'
<1>1. ASSUME UNCHANGED <<workerVars, sharedVars>>, TypeOK', dialing' \subseteq dialing
      PROVE  IInv'
  <2>1. IsFiniteSet(dialing')
    BY <1>1, FS_Subset DEF IInv
  <2> QED BY <1>1, <2>1
          DEF workerVars, sharedVars, IInv, CapRespected, LinksMatchMachines,
              RadioAnswerAgrees, ViewsFollowPeers, NoIdleSlot, Running
<1>2. ASSUME NEW t \in dialing, NEW ok \in BOOLEAN, DialCompletes(t, ok)
      PROVE  IInv'
  <2>1. [peer |-> t.peer, session |-> t.session, ok |-> ok]
          \in [peer : Peers, session : Nat, ok : BOOLEAN]
    BY DEF IInv, TypeOK, DialTasks
  <2>2. connQ' \in Seq([peer : Peers, session : Nat, ok : BOOLEAN])
    <3>1. connQ \in Seq([peer : Peers, session : Nat, ok : BOOLEAN])
      BY DEF IInv, TypeOK
    <3> QED BY <1>2, <2>1, <3>1 DEF DialCompletes
  <2> QED BY <1>1, <1>2, <2>2
          DEF DialCompletes, workerVars, sharedVars, envVars, IInv, TypeOK
<1>3. ASSUME NEW u \in pumps, PumpEnds(u)
      PROVE  IInv'
  <2>1. fuel' \in Nat
    BY <1>3 DEF PumpEnds, Disrupt, IInv, TypeOK
  <2>2. goneQ' \in Seq([peer : Peers, gen : Nat])
    <3>1. goneQ \in Seq([peer : Peers, gen : Nat]) /\ u \in [peer : Peers, gen : Nat]
      BY DEF IInv, TypeOK
    <3> QED BY <1>3, <3>1 DEF PumpEnds
  <2> QED BY <1>1, <1>3, <2>1, <2>2 DEF PumpEnds, workerVars, sharedVars, IInv, TypeOK
<1>4. ASSUME NEW p \in Peers, InboundArrives(p)
      PROVE  IInv'
  <2>1. inboundQ' \in Seq(Peers)
    BY <1>4 DEF InboundArrives, IInv, TypeOK
  <2> QED BY <1>1, <1>4, <2>1
          DEF InboundArrives, Disrupt, workerVars, sharedVars, taskVars, IInv, TypeOK
<1>5. CASE ServeFails
  BY <1>5 DEF ServeFails, Disrupt, sharedVars, taskVars, queueVars, IInv, TypeOK, ServeStates,
     CapRespected, LinksMatchMachines, RadioAnswerAgrees, ViewsFollowPeers, NoIdleSlot, Running
<1>6. ASSUME NEW st \in RadioStates, AdapterChanges(st)
      PROVE  IInv'
  <2>1. radioQ' \in Seq(RadioStates)
    BY <1>6 DEF AdapterChanges, IInv, TypeOK
  <2> QED BY <1>1, <1>6, <2>1
          DEF AdapterChanges, Disrupt, workerVars, sharedVars, taskVars, IInv, TypeOK
<1>7. CASE LoseRadioEvent
  <2>1. radioQ' \in Seq(RadioStates)
    BY <1>7, QueueType DEF LoseRadioEvent, IInv, TypeOK
  <2> QED BY <1>1, <1>7, <2>1
          DEF LoseRadioEvent, workerVars, sharedVars, taskVars, envVars, IInv, TypeOK
<1> QED BY <1>2, <1>3, <1>4, <1>5, <1>6, <1>7, AdvanceKeeps DEF Environment

-----------------------------------------------------------------------------
(* The theorems *)

LEMMA InitEstablishes ==
  ASSUME Init
  PROVE  IInv
<1>1. TypeOK /\ IsFiniteSet(dialing)
  BY NewPeerType, FS_EmptySet, PeerLinkAssumption
     DEF Init, TypeOK, Assessed, RadioStates, Statuses, ServeStates, Timers, NoLink
<1>2. \A p \in Peers : PeerOK(peers[p], p, radio) /\ ~HoldsSlotOf(peers[p])
  BY NewPeerOK DEF Init
<1>3. CapRespected /\ Committed(peers) = {}
  <2>1. Committed(peers) = {}
    BY <1>2 DEF Committed
  <2> QED BY <2>1, FS_EmptySet, PeerLinkAssumption DEF CapRespected
<1>4. RadioAnswerAgrees
  BY DEF Init, RadioAnswerAgrees, Usable
<1>5. ViewsFollowPeers
  <2>1. \A over : \A p \in Peers : Project(Forgotten, radio, over, p) = "Untracked"
    BY DEF Project, Forgotten
  <2>2. status = StatusMap(peers, radio)
    BY <2>1 DEF Init, StatusMap
  <2>3. \A p \in Peers : announced[p] = peers[p].link
    BY NewPeerOK DEF Init
  <2> QED BY <2>2, <2>3 DEF Init, ViewsFollowPeers
<1>6. NoIdleSlot
  BY DEF Init, NoIdleSlot, Candidates, Forgotten
<1> QED BY <1>1, <1>2, <1>3, <1>4, <1>5, <1>6 DEF IInv, LinksMatchMachines, PeerOK

LEMMA NextKeeps ==
  ASSUME IInv, [Next]_vars
  PROVE  IInv'
<1>1. CASE UNCHANGED vars
  BY <1>1 DEF vars, workerVars, sharedVars, taskVars, queueVars, envVars, IInv, TypeOK,
     CapRespected, LinksMatchMachines, RadioAnswerAgrees, ViewsFollowPeers, NoIdleSlot, Running
<1>2. CASE Commands
  <2>1. ASSUME NEW p \in Peers, IdleTrack(p)
        PROVE  IInv'
    <3>1. status' \in [Peers -> Statuses]
      BY <2>1 DEF IdleTrack, IInv, TypeOK, Statuses
    <3> QED BY <2>1, <3>1 DEF IdleTrack, Disrupt, workerVars, taskVars, queueVars, IInv,
            TypeOK, CapRespected, LinksMatchMachines, RadioAnswerAgrees, ViewsFollowPeers, NoIdleSlot, Running
  <2>2. ASSUME NEW p \in Peers, IdleUntrack(p)
        PROVE  IInv'
    BY <2>2 DEF IdleUntrack, Disrupt, workerVars, sharedVars, taskVars, queueVars, IInv,
       TypeOK, CapRespected, LinksMatchMachines, RadioAnswerAgrees, ViewsFollowPeers, NoIdleSlot, Running
  <2> QED BY <1>2, <2>1, <2>2, TrackKeeps, UntrackKeeps, RetryKeeps, DiscoverKeeps,
             ShutdownKeeps DEF Commands
<1>3. CASE Arms
  BY <1>3, OnDialResultKeeps, OnInboundKeeps, OnLinkGoneKeeps, OnTickKeeps,
     OnRadioChangedKeeps, OnServeEndedKeeps, OnDisconnectedKeeps DEF Arms
<1>4. CASE Environment
  BY <1>4, EnvironmentKeeps
<1> QED BY <1>1, <1>2, <1>3, <1>4 DEF Next

\* The worker keeps its inductive invariant, for every set of peers, role, cap,
\* retry budget and clock, and however the driver, the tasks and the consumer
\* interleave with it.
THEOREM Invariance == Spec => []IInv
  BY InitEstablishes, NextKeeps, PTL DEF Spec

\* Every variable of the worker and its surroundings keeps its type.
THEOREM TypeCorrect == Spec => []TypeOK
<1>1. IInv => TypeOK
  BY DEF IInv
<1> QED BY <1>1, Invariance, PTL

\* max_links is never exceeded by links and dials in flight together.
THEOREM CapHolds == Spec => []CapRespected
<1>1. IInv => CapRespected
  BY DEF IInv
<1> QED BY <1>1, Invariance, PTL

\* A live link is always what the machine of its side says, and none outlives
\* the radio.
THEOREM MachinesHold == Spec => []LinksMatchMachines
<1>1. IInv => LinksMatchMachines
  BY DEF IInv
<1> QED BY <1>1, Invariance, PTL

\* The last event of a peer was Up exactly while status() says Connected.
THEOREM EventsHold == Spec => []StatusAgreesWithEvents
<1>1. IInv => StatusAgreesWithEvents
  <2> SUFFICES ASSUME IInv, Running, NEW p \in Peers
               PROVE  announced[p] # NoLink <=> status[p] = "Connected"
    BY DEF StatusAgreesWithEvents
  <2>1. /\ announced[p] = peers[p].link /\ PeerOK(peers[p], p, radio)
        /\ status = StatusMap(peers, radio)
    BY PeersOK DEF IInv, ViewsFollowPeers
  <2>2. peers[p].link # NoLink => peers[p].tracked /\ Usable(radio)
    BY <2>1, NewPeerOK DEF PeerOK, OwnMachineOnly, LinkMatches, HoldsSlotOf
  <2> DEFINE over == Cardinality(Committed(peers)) >= MaxLinks
  <2>3. status[p] = Project(peers[p], radio, over, p)
    BY <2>1 DEF StatusMap
  <2> HIDE DEF over
  <2> QED BY <2>1, <2>2, <2>3 DEF Project
<1> QED BY <1>1, Invariance, PTL

\* A slot is free only when no tracked peer whose backoff is over could use it.
THEOREM SlotsFilled == Spec => []NoIdleSlot
<1>1. IInv => NoIdleSlot
  BY DEF IInv
<1> QED BY <1>1, Invariance, PTL

\* radio() answers On exactly while the worker would dial.
THEOREM RadioAnswerHolds == Spec => []RadioAnswerAgrees
<1>1. IInv => RadioAnswerAgrees
  BY DEF IInv
<1> QED BY <1>1, Invariance, PTL

-----------------------------------------------------------------------------
(***************************************************************************)
(* What the worker does with the platform and promises its consumer, as    *)
(* long as a dial's session is not one that an unfinished dial of the same *)
(* peer carries (~SessionsRepeat).                                         *)
(***************************************************************************)


Results == [peer : Peers, session : Nat, ok : BOOLEAN]

-----------------------------------------------------------------------------
(* The end of an iteration *)

\* A dial that starts takes a session nobody has, so what the arm left known
\* stays known.
LEMMA FinishKnows ==
  ASSUME ~SessionsRepeat,
         NEW ps \in [Peers -> PeerRecords], NEW dl, NEW rad, NEW sv, NEW at,
         NEW results, \A i \in DOMAIN results : \E j \in DOMAIN connQ : results[i] = connQ[j],
         connQ \in Seq(Results), dl \subseteq DialTasks,
         DialsAreKnown(ps, dl), ResultsAreKnown(ps, dl, results),
         Finish(ps, dl, rad, sv, at)
  PROVE  /\ DialsAreKnown(peers', dialing')
         /\ ResultsAreKnown(peers', dialing', results)
         /\ \A p \in Peers : peers'[p].link = ps[p].link /\ peers'[p].tracked = ps[p].tracked
         /\ radio' = rad
<1>1. PICK S \in SUBSET Peers :
        /\ DialedNow(S, ps, rad)
        /\ \E b \in (IF S = {} THEN {0} ELSE Readings(S, dl)) :
             /\ peers' = [p \in Peers |-> IF p \in S
                                          THEN StartDial(ps[p], SessionOf(S, p, b))
                                          ELSE ps[p]]
             /\ dialing' = dl \cup {[peer |-> p, session |-> SessionOf(S, p, b),
                                     held |-> TRUE] : p \in S}
  BY DEF Finish
<1>2. PICK b \in (IF S = {} THEN {0} ELSE Readings(S, dl)) :
        /\ peers' = [p \in Peers |-> IF p \in S
                                     THEN StartDial(ps[p], SessionOf(S, p, b))
                                     ELSE ps[p]]
        /\ dialing' = dl \cup {[peer |-> p, session |-> SessionOf(S, p, b),
                                held |-> TRUE] : p \in S}
  BY <1>1
<1> DEFINE s(p) == SessionOf(S, p, b)
<1>3. \A p \in S : s(p) \notin Outstanding(p, dl)
  <2>1. S # {} => FreshReading(b, S, dl)
    BY <1>2 DEF Readings
  <2> QED BY <2>1 DEF FreshReading
<1>4. \A p \in S : ps[p].central.state = "Idle"
  BY <1>1 DEF DialedNow, Candidates, MayDial
<1>5. ASSUME NEW p \in S
      PROVE  /\ peers'[p].central.state = "Dialing" /\ peers'[p].central.session = s(p)
             /\ peers'[p].link = ps[p].link /\ peers'[p].tracked = ps[p].tracked
  <2>1. ps[p] \in PeerRecords /\ peers'[p] = StartDial(ps[p], s(p))
    BY <1>2
  <2>2. CentralApply(ps[p].central, "DialStarted", s(p)) = Link("Dialing", s(p))
    BY <1>4 DEF CentralApply
  <2> HIDE DEF s
  <2> QED BY <2>1, <2>2 DEF StartDial, PeerRecords, Link
<1>6. \A p \in Peers \ S : peers'[p] = ps[p]
  BY <1>2
<1>7. ASSUME NEW t \in dialing'
      PROVE  \/ t \in dl /\ t.peer \in Peers \ S
             \/ t.peer \in S /\ t.session = s(t.peer) /\ t.held
  <2>1. CASE t \in dl
    <3>1. t.peer \in Peers /\ ps[t.peer].central.state = "Dialing"
      BY <2>1 DEF DialTasks, DialsAreKnown
    <3> QED BY <1>4, <2>1, <3>1
  <2>2. CASE t \notin dl
    BY <1>2, <2>2
  <2> QED BY <2>1, <2>2
<1>8. DialsAreKnown(peers', dialing')
  <2> HIDE DEF s
  <2> QED BY <1>5, <1>6, <1>7 DEF DialsAreKnown
<1>9. ResultsAreKnown(peers', dialing', results)
  <2> SUFFICES ASSUME NEW i \in DOMAIN results
               PROVE  LET m == results[i] IN
                      /\ peers'[m.peer].central.state = "Connected"
                           => peers'[m.peer].central.session # m.session
                      /\ \A t \in dialing' : t.peer = m.peer => t.session # m.session
                      /\ \A j \in DOMAIN results :
                           m.peer = results[j].peer /\ m.session = results[j].session => i = j
    BY DEF ResultsAreKnown
  <2> DEFINE m == results[i]
  <2>0. PICK j \in DOMAIN connQ : m = connQ[j]
    OBVIOUS
  <2>1. m.peer \in Peers
    <3>1. connQ[j] \in Results
      OBVIOUS
    <3> HIDE DEF m
    <3> QED BY <2>0, <3>1 DEF Results
  <2>2. m.session \in Outstanding(m.peer, dl)
    <3>1. j \in {k \in DOMAIN connQ : connQ[k].peer = m.peer} /\ m.session = connQ[j].session
      BY <2>0
    <3> HIDE DEF m
    <3> QED BY <3>1 DEF Outstanding
  <2>3. peers'[m.peer].central.state = "Connected" => peers'[m.peer].central.session # m.session
    <3>1. CASE m.peer \in S
      BY <1>5, <3>1
    <3>2. CASE m.peer \notin S
      BY <1>6, <2>1, <3>2 DEF ResultsAreKnown
    <3> QED BY <3>1, <3>2
  <2>4. \A t \in dialing' : t.peer = m.peer => t.session # m.session
    <3> SUFFICES ASSUME NEW t \in dialing', t.peer = m.peer
                 PROVE  t.session # m.session
      OBVIOUS
    <3>1. CASE t \in dl
      BY <3>1 DEF ResultsAreKnown
    <3>2. CASE t.peer \in S /\ t.session = s(t.peer)
      <4> HIDE DEF s, m
      <4> QED BY <1>3, <2>2, <3>2
    <3> QED BY <1>7, <3>1, <3>2
  <2> QED BY <2>3, <2>4 DEF ResultsAreKnown
<1>10. \A p \in Peers : peers'[p].link = ps[p].link /\ peers'[p].tracked = ps[p].tracked
  BY <1>5, <1>6
<1> QED BY <1>8, <1>9, <1>10 DEF Finish

-----------------------------------------------------------------------------
(* What an arm does to the dials it knows and to the links *)

DialsKnown ==
  DialsAreKnown(peers, dialing) /\ ResultsAreKnown(peers, dialing, connQ)

\* The arm leaves the peer's attempt or link alone, or ends it with its task.
Carried(ps, dl, p) ==
  \/ /\ ps[p].central.state = peers[p].central.state
     /\ ps[p].central.session = peers[p].central.session
  \/ /\ ps[p].central.state # "Connected"
     /\ \A t \in dl : t.peer # p

\* The three things that may happen to the links in a step.
LinksStay ==
  /\ nextGen' = nextGen /\ pumps' \subseteq pumps
  /\ \A p \in Peers : peers'[p].link = peers[p].link

LinkComesUp(p) ==
  /\ peers[p].link = NoLink
  /\ nextGen' = nextGen + 1
  /\ pumps' = pumps \cup {[peer |-> p, gen |-> nextGen + 1]}
  /\ \A q \in Peers : peers'[q].link = IF q = p THEN nextGen + 1 ELSE peers[q].link

LinksGoDown(D) ==
  /\ nextGen' = nextGen /\ pumps' \subseteq pumps
  /\ \A u \in pumps' : u.peer \notin D
  /\ \A u \in pumps : u.peer \in D => ~peers'[u.peer].tracked \/ ~Usable(radio')
  /\ \A p \in Peers : peers'[p].link = IF p \in D THEN NoLink ELSE peers[p].link

LinkStep ==
  \/ LinksStay
  \/ \E p \in Peers : LinkComesUp(p)
  \/ \E D \in SUBSET Peers : LinksGoDown(D)

\* What is known of the results in a queue is known of those behind its head.
LEMMA ResultsBehindHead ==
  ASSUME NEW ps, NEW dl, NEW results \in Seq(Results), results # <<>>,
         ResultsAreKnown(ps, dl, results)
  PROVE  ResultsAreKnown(ps, dl, Tail(results))
<1> DEFINE tl == Tail(results)
<1>1. \A i \in DOMAIN tl : i + 1 \in DOMAIN results /\ tl[i] = results[i + 1]
  OBVIOUS
<1>2. \A i, j \in DOMAIN tl : i + 1 = j + 1 => i = j
  OBVIOUS
<1> HIDE DEF tl
<1>3. ResultsAreKnown(ps, dl, tl)
  BY <1>1, <1>2 DEF ResultsAreKnown
<1> QED BY <1>3 DEF tl

\* What was known of dials and results stays known of an arm's peers.
LEMMA KnownCarries ==
  ASSUME IInv, DialsKnown, NEW ps, NEW dl \in SUBSET dialing,
         \A p \in Peers : Carried(ps, dl, p)
  PROVE  DialsAreKnown(ps, dl) /\ ResultsAreKnown(ps, dl, connQ)
<1>1. \A t \in dl : t.peer \in Peers
  BY DEF IInv, TypeOK, DialTasks
<1>2. \A i \in DOMAIN connQ : connQ[i].peer \in Peers
  <2> SUFFICES ASSUME NEW i \in DOMAIN connQ
               PROVE  connQ[i].peer \in Peers
    OBVIOUS
  <2>1. connQ \in Seq(Results)
    BY DEF IInv, TypeOK, Results
  <2>2. connQ[i] \in Results
    BY <2>1
  <2> QED BY <2>2 DEF Results
<1>3. DialsAreKnown(ps, dl)
  BY <1>1 DEF DialsKnown, DialsAreKnown, Carried
<1>4. ResultsAreKnown(ps, dl, connQ)
  BY <1>2 DEF DialsKnown, ResultsAreKnown, Carried
<1> QED BY <1>3, <1>4

\* An arm that carries every peer, then the end of its iteration.
LEMMA ArmKnows ==
  ASSUME ~SessionsRepeat, IInv, DialsKnown,
         NEW ps \in [Peers -> PeerRecords], NEW dl \in SUBSET dialing,
         NEW rad, NEW sv, NEW at,
         connQ' = connQ \/ (connQ # <<>> /\ connQ' = Tail(connQ)),
         \A p \in Peers : Carried(ps, dl, p),
         Finish(ps, dl, rad, sv, at)
  PROVE  /\ DialsKnown'
         /\ \A p \in Peers : peers'[p].link = ps[p].link /\ peers'[p].tracked = ps[p].tracked
         /\ radio' = rad
<1>1. DialsAreKnown(ps, dl) /\ ResultsAreKnown(ps, dl, connQ)
  BY KnownCarries
<1>2. connQ \in Seq(Results) /\ dl \subseteq DialTasks
  BY DEF IInv, TypeOK, Results
<1>3. ResultsAreKnown(ps, dl, connQ')
  BY <1>1, <1>2, ResultsBehindHead
<1>4. \A i \in DOMAIN connQ' : \E j \in DOMAIN connQ : connQ'[i] = connQ[j]
  <2>1. CASE connQ' = connQ
    BY <2>1
  <2>2. CASE connQ # <<>> /\ connQ' = Tail(connQ)
    <3>1. \A i \in DOMAIN connQ' : i + 1 \in DOMAIN connQ /\ connQ'[i] = connQ[i + 1]
      BY <1>2, <2>2
    <3> QED BY <3>1
  <2> QED BY <2>1, <2>2
<1>5. /\ DialsAreKnown(peers', dialing') /\ ResultsAreKnown(peers', dialing', connQ')
      /\ \A p \in Peers : peers'[p].link = ps[p].link /\ peers'[p].tracked = ps[p].tracked
      /\ radio' = rad
  BY <1>1, <1>2, <1>3, <1>4, FinishKnows
<1> QED BY <1>5 DEF DialsKnown

\* A peer whose machine the arm does not move is carried.
LEMMA CarriedSame ==
  ASSUME NEW ps, NEW dl, NEW p, ps[p].central = peers[p].central
  PROVE  Carried(ps, dl, p)
  BY DEF Carried

\* Every event but a dial's start and its success leaves a machine alone or
\* takes it out of its attempt or its link.
LEMMA EventEndsOrKeeps ==
  ASSUME NEW c, NEW e \in {"DialFailed", "LinkDropped", "RadioLost", "RadioBack", "Tick"},
         c.state \in {"Idle", "Dialing", "Connected", "RadioOff"}
  PROVE  \/ CentralApply(c, e, 0) = c
         \/ CentralApply(c, e, 0).state \notin {"Dialing", "Connected"}
  BY DEF CentralApply, Without, Link

\* LinkDropped and RadioBack leave a dial under way alone.
LEMMA DialOutlives ==
  ASSUME NEW c, NEW e \in {"LinkDropped", "RadioBack"}, c.state = "Dialing"
  PROVE  CentralApply(c, e, 0) = c
  BY DEF CentralApply

\* The machine of a peer is in one of these states.
LEMMA OwnStates ==
  ASSUME IInv, NEW p \in Peers
  PROVE  peers[p].central.state \in {"Idle", "Dialing", "Connected", "RadioOff"}
  BY DEF IInv, OwnMachineOnly

\* What the arms make of the central machine of a peer.
LEMMA CentralOf ==
  ASSUME NEW q \in PeerRecords, NEW p \in Peers
  PROVE  /\ Retried(q, p).central = q.central
         /\ InboundLinked(q).central = q.central
         /\ Unlinked(q).central = CentralApply(q.central, "LinkDropped", 0)
         /\ Ticked(q, p).central = CentralApply(q.central, "Tick", 0)
         /\ RadioLostBy(q, p).central = CentralApply(q.central, "RadioLost", 0)
         /\ RadioBackFor(q).central = CentralApply(q.central, "RadioBack", 0)
         /\ Older(q, p).central = Aged(q.central)
         /\ BackedOff(q).central = q.central
<1> DEFINE ld == CentralApply(q.central, "LinkDropped", 0)
           tk == CentralApply(q.central, "Tick", 0)
           rl == CentralApply(q.central, "RadioLost", 0)
           rb == CentralApply(q.central, "RadioBack", 0)
           ag == Aged(q.central)
<1>1. Retried(q, p).central = q.central
  BY DEF Retried, PeerRecords
<1>2. InboundLinked(q).central = q.central
  BY DEF InboundLinked, PeerRecords
<1>3. Unlinked(q).central = ld
  <2> DEFINE l == PeripheralApply(q.peripheral, "CentralDropped", 0)
  <2>1. Unlinked(q) = [q EXCEPT !.link = NoLink, !.central = ld, !.peripheral = l,
                                !.trying = 0, !.attempts = 0, !.retry = Never]
    BY DEF Unlinked
  <2> HIDE DEF ld, l
  <2> QED BY <2>1 DEF PeerRecords
<1>4. Ticked(q, p).central = tk
  <2> DEFINE spent == /\ Usable(radio) /\ q.link = NoLink /\ ~q.gaveUp
                      /\ q.trying # Never /\ q.trying >= Deadline(p)
             g == q.gaveUp \/ spent
             t == IF spent THEN Never ELSE q.retry
  <2>1. Ticked(q, p) = [q EXCEPT !.central = tk, !.gaveUp = g, !.retry = t]
    BY DEF Ticked
  <2> HIDE DEF tk, g, t
  <2> QED BY <2>1 DEF PeerRecords
<1>5. RadioLostBy(q, p).central = rl
  <2> DEFINE l == PeripheralApply(q.peripheral, "RadioLost", 0)
             t == FirstClock(p)
  <2>1. RadioLostBy(q, p) = [q EXCEPT !.central = rl, !.peripheral = l, !.link = NoLink,
                                      !.gaveUp = FALSE, !.attempts = 0,
                                      !.retry = Never, !.trying = t]
    BY DEF RadioLostBy
  <2> HIDE DEF rl, l, t
  <2> QED BY <2>1 DEF PeerRecords
<1>6. RadioBackFor(q).central = rb
  <2> DEFINE l == PeripheralApply(q.peripheral, "RadioBack", 0)
  <2>1. RadioBackFor(q) = [q EXCEPT !.central = rb, !.peripheral = l]
    BY DEF RadioBackFor
  <2> HIDE DEF rb, l
  <2> QED BY <2>1 DEF PeerRecords
<1>7. Older(q, p).central = ag
  <2> DEFINE t == IF q.trying # Never /\ q.trying < Deadline(p) THEN q.trying + 1 ELSE q.trying
             b == CountDown(q.retry)
  <2>1. Older(q, p) = [q EXCEPT !.central = ag, !.trying = t, !.retry = b]
    BY DEF Older
  <2> HIDE DEF ag, t, b
  <2> QED BY <2>1 DEF PeerRecords
<1>8. BackedOff(q).central = q.central
  <2> DEFINE since == IF q.trying = Never THEN 0 ELSE q.trying
             i == IF q.attempts <= 1 THEN 1
                  ELSE IF q.attempts > Len(Backoff) THEN Len(Backoff) ELSE q.attempts
             b == Backoff[i]
  <2>1. \/ BackedOff(q) = [q EXCEPT !.trying = since, !.gaveUp = TRUE, !.retry = Never]
        \/ BackedOff(q) = [q EXCEPT !.trying = since, !.gaveUp = TRUE]
        \/ BackedOff(q) = [q EXCEPT !.trying = since, !.retry = b]
    BY DEF BackedOff
  <2> HIDE DEF since, i, b
  <2> QED BY <2>1 DEF PeerRecords
<1> QED BY <1>1, <1>2, <1>3, <1>4, <1>5, <1>6, <1>7, <1>8

\* A dropped link, and a radio that returns, are carried with every task.
LEMMA DroppedIsCarried ==
  ASSUME IInv, DialsKnown, NEW p \in Peers, NEW ps,
         NEW e \in {"LinkDropped", "RadioBack"},
         ps[p].central = CentralApply(peers[p].central, e, 0)
  PROVE  Carried(ps, dialing, p)
<1>1. CASE peers[p].central.state = "Dialing"
  <2>1. ps[p].central = peers[p].central
    BY <1>1, DialOutlives
  <2> QED BY <2>1, CarriedSame
<1>2. CASE peers[p].central.state # "Dialing"
  <2>1. \A t \in dialing : t.peer # p
    BY <1>2 DEF DialsKnown, DialsAreKnown
  <2>2. ps[p].central = peers[p].central \/ ps[p].central.state # "Connected"
    BY OwnStates, EventEndsOrKeeps
  <2> QED BY <2>1, <2>2, CarriedSame DEF Carried
<1> QED BY <1>1, <1>2

\* What clear_stale_dial looks at after a tick or the radio's loss is carried.
LEMMA ClearedIsCarried ==
  ASSUME IInv, DialsKnown, NEW p \in Peers, NEW ps,
         NEW e \in {"RadioLost", "Tick"},
         \/ ps[p].central = peers[p].central
         \/ ps[p].central = CentralApply(peers[p].central, e, 0)
  PROVE  Carried(ps, ClearStaleDials(ps, dialing), p)
<1>1. \/ ps[p].central = peers[p].central
      \/ ps[p].central.state \notin {"Dialing", "Connected"}
  BY OwnStates, EventEndsOrKeeps
<1>2. CASE ps[p].central = peers[p].central
  BY <1>2, CarriedSame
<1>3. CASE ps[p].central.state \notin {"Dialing", "Connected"}
  <2>1. \A t \in ClearStaleDials(ps, dialing) : t.peer # p
    BY <1>3 DEF ClearStaleDials, DialsKnown, DialsAreKnown
  <2> QED BY <1>3, <2>1 DEF Carried
<1> QED BY <1>1, <1>2, <1>3

-----------------------------------------------------------------------------
(* The commands *)

LEMMA TrackSteps ==
  ASSUME ~SessionsRepeat, IInv, DialsKnown, NEW p \in Peers, Track(p)
  PROVE  DialsKnown' /\ LinkStep
<1> DEFINE r == IF peers[p].tracked THEN peers[p] ELSE NewPeer(p)
           ps == [peers EXCEPT ![p] = r]
<1>1. Finish(ps, dialing, radio, serve, serveRetry) /\ connQ' = connQ
      /\ nextGen' = nextGen /\ pumps' = pumps
  BY DEF Track, FinishPeers, queueVars
<1>2. r.central = peers[p].central /\ r.link = peers[p].link /\ r \in PeerRecords
  <2>1. CASE peers[p].tracked
    BY <2>1, PeersOK
  <2>2. CASE ~peers[p].tracked
    <3>1. peers[p] = Forgotten /\ r = NewPeer(p)
      BY <2>2 DEF IInv, OwnMachineOnly
    <3>2. NewPeer(p).central = Forgotten.central
      BY DEF NewPeer, Forgotten
    <3> QED BY <3>1, <3>2, NewPeerOK, NewPeerType
  <2> QED BY <2>1, <2>2
<1>3. /\ ps \in [Peers -> PeerRecords]
      /\ \A q \in Peers : ps[q].central = peers[q].central /\ ps[q].link = peers[q].link
  <2> HIDE DEF r
  <2> QED BY <1>2, PeersOK
<1>4. \A q \in Peers : Carried(ps, dialing, q)
  <2> HIDE DEF ps
  <2> QED BY <1>3, CarriedSame
<1> HIDE DEF ps
<1>5. DialsKnown' /\ \A q \in Peers : peers'[q].link = ps[q].link
  BY <1>1, <1>3, <1>4, ArmKnows
<1> QED BY <1>1, <1>3, <1>5 DEF LinkStep, LinksStay

\* An untracked peer loses its attempt or its link, and with it the task.
LEMMA UntrackSteps ==
  ASSUME ~SessionsRepeat, IInv, DialsKnown, PumpsAreKnown, NEW p \in Peers, Untrack(p)
  PROVE  DialsKnown' /\ LinkStep
<1> DEFINE ps == [peers EXCEPT ![p] = Forgotten]
           dl == Abort(dialing, p)
<1>1. Finish(ps, dl, radio, serve, serveRetry) /\ connQ' = connQ /\ nextGen' = nextGen
      /\ pumps' = {u \in pumps : u # [peer |-> p, gen |-> peers[p].link]}
  BY DEF Untrack, FinishPeers, queueVars
<1>2. ps \in [Peers -> PeerRecords]
  BY PeersOK, NewPeerType
<1>3. dl \in SUBSET dialing /\ \A t \in dl : t.peer # p
  BY DEF Abort, DialsKnown, DialsAreKnown
<1>4. Forgotten.central.state = "Idle" /\ Forgotten.link = NoLink /\ ~Forgotten.tracked
  BY DEF Forgotten, Without, Link
<1>5. \A q \in Peers : Carried(ps, dl, q)
  BY <1>3, <1>4, PeersOK DEF Carried
<1>6. \A q \in Peers : /\ ps[q].link = IF q = p THEN NoLink ELSE peers[q].link
                       /\ q = p => ~ps[q].tracked
  BY <1>4, PeersOK
<1> HIDE DEF ps, dl
<1>7. /\ DialsKnown'
      /\ \A q \in Peers : peers'[q].link = ps[q].link /\ peers'[q].tracked = ps[q].tracked
  BY <1>1, <1>2, <1>3, <1>5, ArmKnows
<1>8. \A u \in pumps' : u \in pumps /\ u.peer # p
  <2> SUFFICES ASSUME NEW u \in pumps, u # [peer |-> p, gen |-> peers[p].link]
               PROVE  u.peer # p
    BY <1>1
  <2>1. u \in [peer : Peers, gen : Nat]
    BY DEF IInv, TypeOK
  <2>2. peers[u.peer].link = u.gen
    BY DEF PumpsAreKnown
  <2> QED BY <2>1, <2>2
<1>9. LinksGoDown({p})
  BY <1>1, <1>6, <1>7, <1>8 DEF LinksGoDown
<1> QED BY <1>7, <1>9 DEF LinkStep

LEMMA RetrySteps ==
  ASSUME ~SessionsRepeat, IInv, DialsKnown, NEW p \in Peers, Retry(p)
  PROVE  DialsKnown' /\ LinkStep
<1> DEFINE r == IF peers[p].tracked THEN Retried(peers[p], p) ELSE peers[p]
           ps == [peers EXCEPT ![p] = r]
<1>1. Finish(ps, dialing, radio, serve, serveRetry) /\ connQ' = connQ
      /\ nextGen' = nextGen /\ pumps' = pumps
  BY DEF Retry, FinishPeers, queueVars
<1>2. r.central = peers[p].central /\ r.link = peers[p].link /\ r \in PeerRecords
  <2>1. peers[p] \in PeerRecords
    BY PeersOK
  <2> HIDE DEF ps
  <2> QED BY <2>1, CentralOf DEF Retried, PeerRecords, Timers, FirstClock, Never
<1>3. /\ ps \in [Peers -> PeerRecords]
      /\ \A q \in Peers : ps[q].central = peers[q].central /\ ps[q].link = peers[q].link
  <2> HIDE DEF r
  <2> QED BY <1>2, PeersOK
<1>4. \A q \in Peers : Carried(ps, dialing, q)
  <2> HIDE DEF ps
  <2> QED BY <1>3, CarriedSame
<1> HIDE DEF ps
<1>5. DialsKnown' /\ \A q \in Peers : peers'[q].link = ps[q].link
  BY <1>1, <1>3, <1>4, ArmKnows
<1> QED BY <1>1, <1>3, <1>5 DEF LinkStep, LinksStay

\* An iteration that finds nothing to do for the peers.
LEMMA SameSteps ==
  ASSUME ~SessionsRepeat, IInv, DialsKnown, NEW rad, NEW sv, NEW at,
         Finish(peers, dialing, rad, sv, at),
         connQ' = connQ \/ (connQ # <<>> /\ connQ' = Tail(connQ)),
         nextGen' = nextGen, pumps' = pumps
  PROVE  DialsKnown' /\ LinkStep
<1>1. \A q \in Peers : Carried(peers, dialing, q)
  BY CarriedSame
<1>2. DialsKnown' /\ \A q \in Peers : peers'[q].link = peers[q].link
  BY <1>1, PeersOK, ArmKnows
<1> QED BY <1>2 DEF LinkStep, LinksStay

LEMMA DiscoverSteps ==
  ASSUME ~SessionsRepeat, IInv, DialsKnown, Discover
  PROVE  DialsKnown' /\ LinkStep
  BY SameSteps DEF Discover, FinishPeers, queueVars

LEMMA OnServeEndedSteps ==
  ASSUME ~SessionsRepeat, IInv, DialsKnown, OnServeEnded
  PROVE  DialsKnown' /\ LinkStep
  BY SameSteps DEF OnServeEnded, queueVars

-----------------------------------------------------------------------------
(* Links come up *)

\* The result at the head of the queue settles the attempt that produced it:
\* its task is gone, and no later result carries its session.
LEMMA CurrentResult ==
  ASSUME IInv, DialsKnown, connQ # <<>>, ResultIsCurrent(Head(connQ))
  PROVE  LET m == Head(connQ) IN
         /\ m.peer \in Peers /\ m.ok \in BOOLEAN /\ peers[m.peer].tracked
         /\ peers[m.peer].central.session = m.session
         /\ peers[m.peer].central.state # "Connected"
         /\ \A t \in dialing : t.peer # m.peer
         /\ DropHandle(dialing, m.peer) = dialing
         /\ \A i \in DOMAIN Tail(connQ) :
              Tail(connQ)[i].peer = m.peer => Tail(connQ)[i].session # m.session
<1> DEFINE m == Head(connQ)
<1>1. connQ \in Seq(Results)
  BY DEF IInv, TypeOK, Results
<1>2. 1 \in DOMAIN connQ /\ m = connQ[1] /\ m \in Results
  BY <1>1
<1>3. m.peer \in Peers /\ m.ok \in BOOLEAN
  BY <1>2 DEF Results
<1>4. peers[m.peer].tracked /\ peers[m.peer].central.session = m.session
  BY DEF ResultIsCurrent
<1> HIDE DEF m
<1>5. /\ peers[m.peer].central.state = "Connected" => peers[m.peer].central.session # m.session
      /\ \A t \in dialing : t.peer = m.peer => t.session # m.session
      /\ \A j \in DOMAIN connQ :
           m.peer = connQ[j].peer /\ m.session = connQ[j].session => 1 = j
  BY <1>2 DEF DialsKnown, ResultsAreKnown
<1>6. \A t \in dialing : t.peer # m.peer
  BY <1>4, <1>5 DEF DialsKnown, DialsAreKnown
<1>7. DropHandle(dialing, m.peer) = dialing
  BY <1>6 DEF DropHandle
<1>8. ASSUME NEW i \in DOMAIN Tail(connQ), Tail(connQ)[i].peer = m.peer
      PROVE  Tail(connQ)[i].session # m.session
  <2>1. i + 1 \in DOMAIN connQ /\ Tail(connQ)[i] = connQ[i + 1] /\ i + 1 # 1
    BY <1>1
  <2> QED BY <1>5, <1>8, <2>1
<1> QED BY <1>3, <1>4, <1>5, <1>6, <1>7, <1>8 DEF m

\* A dial's success makes a link where none was.
LEMMA DialLinkedSteps ==
  ASSUME ~SessionsRepeat, IInv, DialsKnown, connQ # <<>>, connQ' = Tail(connQ),
         ResultIsCurrent(Head(connQ)),
         NEW p, p = Head(connQ).peer,
         NEW c, c = CentralApply(peers[p].central, "DialSucceeded", 0),
         c.state = "Connected", InstallLink(p),
         Finish([peers EXCEPT ![p] = DialLinked(peers[p], c)], DropHandle(dialing, p),
                radio, serve, serveRetry)
  PROVE  DialsKnown' /\ LinkStep
<1> DEFINE r == DialLinked(peers[p], c)
           ps == [peers EXCEPT ![p] = r]
           s == Head(connQ).session
<1>1. /\ p \in Peers /\ peers[p].tracked /\ peers[p].central.session = s
      /\ peers[p].central.state # "Connected"
      /\ \A t \in dialing : t.peer # p
      /\ DropHandle(dialing, p) = dialing
      /\ \A i \in DOMAIN Tail(connQ) : Tail(connQ)[i].peer = p => Tail(connQ)[i].session # s
  BY CurrentResult
<1>2. PeerOK(r, p, radio) /\ r.link = nextGen + 1
  BY <1>1, DialLinkedOK
<1>3. peers[p].central.state = "Dialing" /\ c.session = s
  <2> DEFINE q == peers[p].central
  <2>1. q.state \in {"Idle", "Dialing", "RadioOff"} /\ q.session = s
    BY <1>1, OwnStates
  <2>2. c = CentralApply(q, "DialSucceeded", 0) /\ c.state = "Connected"
    OBVIOUS
  <2> HIDE DEF q, s
  <2>3. q.state = "Dialing"
    BY <2>1, <2>2 DEF CentralApply
  <2>4. c = Link("Connected", q.session)
    BY <2>2, <2>3 DEF CentralApply
  <2>5. c.session = s
    BY <2>1, <2>4 DEF Link
  <2> QED BY <2>3, <2>5 DEF q
<1>4. r.central = c
  BY PeersOK, <1>1 DEF DialLinked, PeerRecords
<1>5. peers[p].link = NoLink
  <2>1. LinkMatches(peers[p], p, radio) /\ OwnMachineOnly(peers[p], p)
    BY <1>1, PeersOK DEF PeerOK
  <2> QED BY <1>3, <2>1 DEF LinkMatches, OwnMachineOnly, HasConnection
<1>6. /\ ps \in [Peers -> PeerRecords] /\ ps[p] = r
      /\ \A q \in Peers \ {p} : ps[q] = peers[q]
  <2> HIDE DEF r
  <2> QED BY <1>1, <1>2, PeersOK DEF PeerOK
<1>7. Finish(ps, dialing, radio, serve, serveRetry)
  BY <1>1
<1> HIDE DEF ps, r, s
<1>8. connQ \in Seq(Results) /\ dialing \subseteq DialTasks
  BY DEF IInv, TypeOK, Results
<1>9. \A i \in DOMAIN connQ' : i + 1 \in DOMAIN connQ /\ connQ'[i] = connQ[i + 1]
  BY <1>8
<1>10. ResultsAreKnown(peers, dialing, connQ')
  BY <1>8, ResultsBehindHead DEF DialsKnown
<1>11. ResultsAreKnown(ps, dialing, connQ')
  <2>1. ASSUME NEW i \in DOMAIN connQ', ps[connQ'[i].peer].central.state = "Connected"
        PROVE  ps[connQ'[i].peer].central.session # connQ'[i].session
    <3>1. connQ'[i].peer \in Peers
      <4>1. connQ[i + 1] \in Results
        BY <1>8, <1>9
      <4> QED BY <1>9, <4>1 DEF Results
    <3>2. CASE connQ'[i].peer = p
      BY <1>1, <1>3, <1>4, <1>6, <3>2
    <3>3. CASE connQ'[i].peer # p
      <4>1. ps[connQ'[i].peer] = peers[connQ'[i].peer]
        BY <1>6, <3>1, <3>3
      <4> QED BY <1>10, <2>1, <4>1 DEF ResultsAreKnown
    <3> QED BY <3>2, <3>3
  <2> QED BY <1>10, <2>1 DEF ResultsAreKnown
<1>12. DialsAreKnown(ps, dialing)
  <2>1. \A t \in dialing : t.peer \in Peers \ {p}
    BY <1>1, <1>8 DEF DialTasks
  <2> QED BY <1>6, <2>1 DEF DialsKnown, DialsAreKnown
<1>13. /\ DialsAreKnown(peers', dialing') /\ ResultsAreKnown(peers', dialing', connQ')
       /\ \A q \in Peers : peers'[q].link = ps[q].link
  <2>1. \A i \in DOMAIN connQ' : \E j \in DOMAIN connQ : connQ'[i] = connQ[j]
    BY <1>9
  <2> QED BY <1>6, <1>7, <1>8, <1>11, <1>12, <2>1, FinishKnows
<1>14. LinkComesUp(p)
  BY <1>1, <1>2, <1>5, <1>6, <1>13 DEF LinkComesUp, InstallLink
<1> QED BY <1>1, <1>13, <1>14 DEF DialsKnown, LinkStep

LEMMA OnDialResultSteps ==
  ASSUME ~SessionsRepeat, IInv, DialsKnown, OnDialResult
  PROVE  DialsKnown' /\ LinkStep
<1> DEFINE m == Head(connQ)
           p == m.peer
           c == CentralApply(peers[p].central, IF m.ok THEN "DialSucceeded" ELSE "DialFailed", 0)
           mine == ResultIsCurrent(m)
           linked == mine /\ m.ok /\ c.state = "Connected"
<1>1. connQ # <<>> /\ connQ' = Tail(connQ)
  BY DEF OnDialResult
<1>2. CASE linked
  <2>1. /\ InstallLink(p)
        /\ FinishPeers([peers EXCEPT ![p] = DialLinked(peers[p], c)], DropHandle(dialing, p))
    BY <1>2 DEF OnDialResult
  <2>2. Finish([peers EXCEPT ![p] = DialLinked(peers[p], c)], DropHandle(dialing, p),
               radio, serve, serveRetry)
    BY <2>1 DEF FinishPeers
  <2>3. c = CentralApply(peers[p].central, "DialSucceeded", 0) /\ c.state = "Connected"
    BY <1>2
  <2>4. mine
    BY <1>2
  <2> HIDE DEF c
  <2> QED BY <1>1, <2>1, <2>2, <2>3, <2>4, DialLinkedSteps
<1>3. CASE ~linked
  <2>1. UNCHANGED <<nextGen, pumps>>
    BY <1>3 DEF OnDialResult
  <2>2. CASE ~mine
    <3>1. Finish(peers, dialing, radio, serve, serveRetry)
      BY <1>3, <2>2 DEF OnDialResult, FinishPeers
    <3> QED BY <1>1, <2>1, <3>1, SameSteps
  <2>3. CASE mine
    <3> DEFINE q == peers[p]
               r == IF m.ok THEN [q EXCEPT !.central = c]
                    ELSE BackedOff([q EXCEPT !.central = c])
               ps == [peers EXCEPT ![p] = r]
    <3>0. /\ p \in Peers /\ m.ok \in BOOLEAN /\ q.tracked
          /\ \A t \in dialing : t.peer # p
          /\ DropHandle(dialing, p) = dialing
      BY <1>1, <2>3, CurrentResult
    <3>1. Finish(ps, dialing, radio, serve, serveRetry)
      <4>1. FinishPeers(IF m.ok THEN [peers EXCEPT ![p].central = c]
                        ELSE [peers EXCEPT ![p] = BackedOff([q EXCEPT !.central = c])],
                        DropHandle(dialing, p))
        BY <1>3, <2>3 DEF OnDialResult
      <4>2. ps = IF m.ok THEN [peers EXCEPT ![p].central = c]
                 ELSE [peers EXCEPT ![p] = BackedOff([q EXCEPT !.central = c])]
        BY <3>0
      <4> QED BY <3>0, <4>1, <4>2 DEF FinishPeers
    <3>2. PeerOK(r, p, radio) /\ r.link = q.link
      <4>1. ~(m.ok /\ c.state = "Connected")
        BY <1>3, <2>3
      <4>2. c = CentralApply(q.central, IF m.ok THEN "DialSucceeded" ELSE "DialFailed", 0)
        OBVIOUS
      <4>3. r = IF m.ok THEN [q EXCEPT !.central = c] ELSE BackedOff([q EXCEPT !.central = c])
        OBVIOUS
      <4> HIDE DEF c, r, p, m
      <4> QED BY <3>0, <4>1, <4>2, <4>3, DialSettledOK DEF m
    <3>3. r.central = c
      <4>1. q \in PeerRecords /\ q.central \in LinkRecords(CentralStates)
        BY <3>0, PeersOK DEF PeerRecords
      <4>2. c \in LinkRecords(CentralStates)
        BY <4>1, CentralType
      <4> HIDE DEF c
      <4>3. [q EXCEPT !.central = c] \in PeerRecords /\ [q EXCEPT !.central = c].central = c
        BY <4>1, <4>2 DEF PeerRecords
      <4> QED BY <3>0, <4>3, CentralOf
    <3>4. c.state # "Connected"
      <4>1. CASE m.ok
        BY <1>3, <2>3, <4>1
      <4>2. CASE ~m.ok
        <5>1. q.central.state \in {"Idle", "Dialing", "RadioOff"}
          <6>1. q.central.state # "Connected"
            BY <1>1, <2>3, CurrentResult
          <6> QED BY <3>0, <6>1, OwnStates
        <5>2. c = CentralApply(q.central, "DialFailed", 0)
          BY <4>2
        <5> HIDE DEF q, c
        <5> QED BY <5>1, <5>2, EventEndsOrKeeps
      <4> QED BY <4>1, <4>2
    <3>5. /\ ps \in [Peers -> PeerRecords] /\ ps[p] = r
          /\ \A u \in Peers \ {p} : ps[u] = peers[u]
      <4> HIDE DEF r, p
      <4> QED BY <3>0, <3>2, PeersOK DEF PeerOK
    <3> HIDE DEF ps, r, c, p
    <3>6. \A u \in Peers : Carried(ps, dialing, u)
      BY <3>0, <3>3, <3>4, <3>5 DEF Carried
    <3>7. DialsKnown' /\ \A u \in Peers : peers'[u].link = ps[u].link
      BY <1>1, <3>1, <3>5, <3>6, ArmKnows
    <3> QED BY <2>1, <3>2, <3>5, <3>7 DEF LinkStep, LinksStay
  <2> QED BY <2>2, <2>3
<1> QED BY <1>2, <1>3

\* A channel is let in only for a peer without a link.
LEMMA OnInboundSteps ==
  ASSUME ~SessionsRepeat, IInv, DialsKnown, OnInbound
  PROVE  DialsKnown' /\ LinkStep
<1> DEFINE p == Head(inboundQ)
<1>1. p \in Peers /\ connQ' = connQ
  BY DEF OnInbound, IInv, TypeOK
<1>2. CASE Refuses(p)
  <2>1. Finish(peers, dialing, radio, serve, serveRetry) /\ UNCHANGED <<nextGen, pumps>>
    BY <1>2 DEF OnInbound, FinishPeers
  <2> QED BY <1>1, <2>1, SameSteps
<1>3. CASE ~Refuses(p)
  <2> DEFINE r == InboundLinked(peers[p])  ps == [peers EXCEPT ![p] = r]
  <2>1. InstallLink(p) /\ Finish(ps, dialing, radio, serve, serveRetry)
    BY <1>3 DEF OnInbound, FinishPeers
  <2>2. PeerOK(r, p, radio) /\ r.link = nextGen + 1
    <3> HIDE DEF p
    <3> QED BY <1>1, <1>3, InboundLinkedOK
  <2>3. r.central = peers[p].central /\ peers[p].link = NoLink
    <3> HIDE DEF p
    <3> QED BY <1>1, <1>3, PeersOK, CentralOf DEF Refuses
  <2> HIDE DEF p
  <2>4. /\ ps \in [Peers -> PeerRecords] /\ ps[p] = r
        /\ \A q \in Peers \ {p} : ps[q] = peers[q]
    <3> HIDE DEF r
    <3> QED BY <1>1, <2>2, PeersOK DEF PeerOK
  <2> HIDE DEF ps, r
  <2>5. \A q \in Peers : Carried(ps, dialing, q)
    BY <2>3, <2>4, CarriedSame
  <2>6. DialsKnown' /\ \A q \in Peers : peers'[q].link = ps[q].link
    BY <1>1, <2>1, <2>4, <2>5, ArmKnows
  <2>7. LinkComesUp(p)
    BY <1>1, <2>1, <2>2, <2>3, <2>4, <2>6 DEF LinkComesUp, InstallLink
  <2> QED BY <1>1, <2>6, <2>7 DEF LinkStep
<1> QED BY <1>2, <1>3

-----------------------------------------------------------------------------
(* Links and attempts end *)

\* A pump speaks for its link only after it has left, so no pump is orphaned.
LEMMA OnLinkGoneSteps ==
  ASSUME ~SessionsRepeat, IInv, DialsKnown, PumpsAreKnown, OnLinkGone
  PROVE  DialsKnown' /\ LinkStep
<1> DEFINE u == Head(goneQ)  p == u.peer
<1>1. /\ u \in [peer : Peers, gen : Nat] /\ connQ' = connQ
      /\ nextGen' = nextGen /\ pumps' = pumps /\ u \notin pumps
  <2>1. goneQ \in Seq([peer : Peers, gen : Nat]) /\ goneQ # <<>>
    BY DEF OnLinkGone, IInv, TypeOK
  <2>2. u \in [peer : Peers, gen : Nat]
    BY <2>1, QueueType
  <2>3. 1 \in DOMAIN goneQ /\ u = goneQ[1]
    BY <2>1
  <2> QED BY <2>2, <2>3 DEF OnLinkGone, PumpsAreKnown
<1>2. CASE ~PumpIsCurrent(u)
  <2>1. Finish(peers, dialing, radio, serve, serveRetry)
    BY <1>2 DEF OnLinkGone, FinishPeers
  <2> QED BY <1>1, <2>1, SameSteps
<1>3. CASE PumpIsCurrent(u)
  <2> DEFINE r == Unlinked(peers[p])  ps == [peers EXCEPT ![p] = r]
  <2>1. Finish(ps, dialing, radio, serve, serveRetry)
    BY <1>3 DEF OnLinkGone, FinishPeers
  <2>2. p \in Peers /\ peers[p].link # NoLink /\ peers[p].link = u.gen
    BY <1>1, <1>3 DEF PumpIsCurrent
  <2> HIDE DEF p
  <2>3. PeerOK(r, p, radio) /\ r.link = NoLink
    BY <2>2, UnlinkedOK
  <2>4. r.central = CentralApply(peers[p].central, "LinkDropped", 0)
    BY <2>2, PeersOK, CentralOf
  <2>5. /\ ps \in [Peers -> PeerRecords] /\ ps[p] = r
        /\ \A q \in Peers \ {p} : ps[q] = peers[q]
    <3> HIDE DEF r
    <3> QED BY <2>2, <2>3, PeersOK DEF PeerOK
  <2> HIDE DEF ps, r
  <2>6. \A q \in Peers : Carried(ps, dialing, q)
    BY <2>4, <2>5, CarriedSame, DroppedIsCarried
  <2>7. DialsKnown' /\ \A q \in Peers : peers'[q].link = ps[q].link
    BY <1>1, <2>1, <2>5, <2>6, ArmKnows
  <2>8. \A v \in pumps : v.peer # p
    <3> SUFFICES ASSUME NEW v \in pumps, v.peer = p
                 PROVE  FALSE
      OBVIOUS
    <3>1. v \in [peer : Peers, gen : Nat] /\ v.gen = u.gen
      BY <2>2 DEF PumpsAreKnown, IInv, TypeOK
    <3>2. v = u
      BY <1>1, <3>1 DEF p
    <3> QED BY <1>1, <3>2
  <2>9. LinksGoDown({p})
    BY <1>1, <2>3, <2>5, <2>7, <2>8 DEF LinksGoDown
  <2> QED BY <2>2, <2>7, <2>9 DEF LinkStep
<1> QED BY <1>2, <1>3

LEMMA OnTickSteps ==
  ASSUME ~SessionsRepeat, IInv, DialsKnown, OnTick
  PROVE  DialsKnown' /\ LinkStep
<1> DEFINE ps == [p \in Peers |-> IF peers[p].tracked THEN Ticked(peers[p], p) ELSE peers[p]]
           dl == ClearStaleDials(ps, dialing)
<1>1. Finish(ps, dl, radio, serve, serveRetry) /\ connQ' = connQ
      /\ nextGen' = nextGen /\ pumps' = pumps
  BY DEF OnTick, FinishPeers, queueVars
<1>2. ASSUME NEW p \in Peers
      PROVE  /\ ps[p] \in PeerRecords /\ ps[p].link = peers[p].link
             /\ \/ ps[p].central = peers[p].central
                \/ ps[p].central = CentralApply(peers[p].central, "Tick", 0)
  BY PeersOK, TickedOK, CentralOf DEF PeerOK
<1>3. ps \in [Peers -> PeerRecords]
  BY <1>2
<1> HIDE DEF ps
<1>4. \A p \in Peers : Carried(ps, dl, p)
  BY <1>2, ClearedIsCarried
<1>5. dl \in SUBSET dialing
  BY DEF ClearStaleDials
<1> HIDE DEF dl
<1>6. DialsKnown' /\ \A p \in Peers : peers'[p].link = ps[p].link
  BY <1>1, <1>3, <1>4, <1>5, ArmKnows
<1> QED BY <1>1, <1>2, <1>6 DEF LinkStep, LinksStay

\* The radio takes every link and every task, or none.
LEMMA OnRadioChangedSteps ==
  ASSUME ~SessionsRepeat, IInv, DialsKnown, PumpsAreKnown, OnRadioChanged
  PROVE  DialsKnown' /\ LinkStep
<1> DEFINE rad(st)  == RadioApply(radio, RadioEventOf(st))
           lost(st) == InvalidatesLinks(radio, RadioEventOf(st))
           ps(st)   == [p \in Peers |->
                          IF ~peers[p].tracked THEN peers[p]
                          ELSE IF lost(st) THEN RadioLostBy(peers[p], p)
                          ELSE IF Usable(rad(st)) THEN RadioBackFor(peers[p]) ELSE peers[p]]
           stop(st) == Accepts /\ Usable(radio) /\ ~Usable(rad(st))
           dl(st)   == IF lost(st) THEN ClearStaleDials(ps(st), dialing) ELSE dialing
           sv(st)   == IF stop(st) THEN "none" ELSE serve
           at(st)   == IF stop(st) THEN Never ELSE serveRetry
<1>1. connQ' = connQ /\ nextGen' = nextGen
  BY DEF OnRadioChanged
<1>2. PICK st \in RadioStates :
        /\ Finish(ps(st), dl(st), rad(st), sv(st), at(st))
        /\ pumps' = IF lost(st) THEN {u \in pumps : peers[u.peer].link # u.gen} ELSE pumps
  <2>1. radioQ \in Seq(RadioStates) /\ radioQ # <<>>
    BY DEF OnRadioChanged, IInv, TypeOK
  <2>2. Head(radioQ) \in RadioStates
    BY <2>1, QueueType
  <2>3. IF Head(radioQ) = "On" THEN Assessed \subseteq RadioStates
        ELSE {Head(radioQ)} \subseteq RadioStates
    BY <2>2 DEF Assessed, IInv, TypeOK, RadioStates
  <2> QED BY <2>3 DEF OnRadioChanged
<1>3. lost(st) => ~Usable(rad(st))
  BY DEF RadioApply, RadioEventOf, RadioStates, Usable, InvalidatesLinks, IInv, TypeOK
<1>4. ASSUME NEW p \in Peers
      PROVE  /\ ps(st)[p] \in PeerRecords
             /\ ps(st)[p].link = IF lost(st) THEN NoLink ELSE peers[p].link
             /\ \/ ps(st)[p].central = peers[p].central
                \/ ps(st)[p].central
                     = CentralApply(peers[p].central, IF lost(st) THEN "RadioLost" ELSE "RadioBack", 0)
  <2> HIDE DEF rad, lost
  <2>0. peers[p] \in PeerRecords
    BY PeersOK
  <2>1. CASE ~peers[p].tracked
    <3>1. peers[p] = Forgotten /\ ps(st)[p] = peers[p]
      BY <2>1 DEF IInv, OwnMachineOnly
    <3> QED BY <2>0, <3>1, NewPeerOK
  <2>2. CASE peers[p].tracked /\ lost(st)
    <3>1. ps(st)[p] = RadioLostBy(peers[p], p) /\ ~Usable(rad(st))
      BY <1>3, <2>2
    <3>2. ps(st)[p] \in PeerRecords /\ ps(st)[p].link = NoLink
      <4> HIDE DEF ps
      <4> QED BY <2>2, <3>1, RadioLostOK DEF PeerOK
    <3> HIDE DEF ps
    <3> QED BY <2>0, <2>2, <3>1, <3>2, CentralOf
  <2>3. CASE peers[p].tracked /\ ~lost(st) /\ Usable(rad(st))
    <3>1. ps(st)[p] = RadioBackFor(peers[p])
      BY <2>3
    <3>2. ps(st)[p] \in PeerRecords /\ ps(st)[p].link = peers[p].link
      <4> HIDE DEF ps
      <4> QED BY <2>3, <3>1, RadioBackOK DEF PeerOK
    <3> HIDE DEF ps
    <3> QED BY <2>0, <2>3, <3>1, <3>2, CentralOf
  <2>4. CASE peers[p].tracked /\ ~lost(st) /\ ~Usable(rad(st))
    <3>1. ps(st)[p] = peers[p]
      BY <2>4
    <3> QED BY <2>0, <2>4, <3>1
  <2> QED BY <2>1, <2>2, <2>3, <2>4
<1>5. ps(st) \in [Peers -> PeerRecords]
  <2> HIDE DEF rad, lost
  <2>1. \A p \in Peers : ps(st)[p] \in PeerRecords
    BY <1>4
  <2> QED BY <2>1
<1> HIDE DEF ps, rad, lost, sv, at
<1>6. dl(st) \in SUBSET dialing
  BY DEF ClearStaleDials
<1>7. \A p \in Peers : Carried(ps(st), dl(st), p)
  <2> SUFFICES ASSUME NEW p \in Peers
               PROVE  Carried(ps(st), dl(st), p)
    OBVIOUS
  <2>1. CASE lost(st)
    <3> DEFINE qs == ps(st)
    <3>1. /\ dl(st) = ClearStaleDials(qs, dialing)
          /\ \/ qs[p].central = peers[p].central
             \/ qs[p].central = CentralApply(peers[p].central, "RadioLost", 0)
      BY <1>4, <2>1
    <3> HIDE DEF qs
    <3>2. Carried(qs, dl(st), p)
      BY <3>1, ClearedIsCarried
    <3> QED BY <3>2 DEF qs
  <2>2. CASE ~lost(st)
    <3> DEFINE qs == ps(st)
    <3>1. /\ dl(st) = dialing
          /\ \/ qs[p].central = peers[p].central
             \/ qs[p].central = CentralApply(peers[p].central, "RadioBack", 0)
      BY <1>4, <2>2
    <3> HIDE DEF qs, dl
    <3>2. Carried(qs, dialing, p)
      BY <3>1, CarriedSame, DroppedIsCarried
    <3> QED BY <3>1, <3>2 DEF qs
  <2> QED BY <2>1, <2>2
<1> HIDE DEF dl
<1>8. /\ DialsKnown' /\ radio' = rad(st)
      /\ \A p \in Peers : peers'[p].link = ps(st)[p].link
  BY <1>1, <1>2, <1>5, <1>6, <1>7, ArmKnows
<1>9. CASE lost(st)
  <2>1. pumps' = {}
    BY <1>2, <1>9 DEF PumpsAreKnown
  <2>2. LinksGoDown(Peers)
    BY <1>1, <1>3, <1>4, <1>8, <1>9, <2>1 DEF LinksGoDown
  <2> QED BY <1>8, <2>2 DEF LinkStep
<1>10. CASE ~lost(st)
  BY <1>1, <1>2, <1>4, <1>8, <1>10 DEF LinkStep, LinksStay
<1> QED BY <1>9, <1>10

LEMMA OnDisconnectedSteps ==
  ASSUME ~SessionsRepeat, IInv, DialsKnown, NEW p \in Peers, OnDisconnected(p)
  PROVE  DialsKnown' /\ LinkStep
<1>1. connQ' = connQ /\ nextGen' = nextGen /\ pumps' = pumps
  BY DEF OnDisconnected, queueVars
<1>2. CASE peers[p].link # NoLink
  <2>1. Finish(peers, dialing, radio, serve, serveRetry)
    BY <1>2 DEF OnDisconnected, FinishPeers
  <2> QED BY <1>1, <2>1, SameSteps
<1>3. CASE peers[p].link = NoLink
  <2> DEFINE q == peers[p]
             c == CentralApply(q.central, "LinkDropped", 0)
             r == [q EXCEPT !.central = c]
             ps == [peers EXCEPT ![p] = r]
  <2>1. Finish(ps, dialing, radio, serve, serveRetry)
    <3>1. [peers EXCEPT ![p].central = c] = ps
      OBVIOUS
    <3> QED BY <1>3, <3>1 DEF OnDisconnected, FinishPeers
  <2>2. q \in PeerRecords /\ q.central \in LinkRecords(CentralStates)
    BY PeersOK DEF PeerRecords
  <2>3. c \in LinkRecords(CentralStates)
    BY <2>2, CentralType
  <2>4. r \in PeerRecords /\ r.central = c /\ r.link = q.link
    <3> HIDE DEF q, c
    <3> QED BY <2>2, <2>3 DEF PeerRecords
  <2>5. /\ ps \in [Peers -> PeerRecords] /\ ps[p] = r
        /\ \A u \in Peers \ {p} : ps[u] = peers[u]
    <3> HIDE DEF r
    <3> QED BY <2>4, PeersOK
  <2> HIDE DEF ps, r
  <2>6. \A u \in Peers : Carried(ps, dialing, u)
    BY <2>4, <2>5, CarriedSame, DroppedIsCarried
  <2>7. DialsKnown' /\ \A u \in Peers : peers'[u].link = ps[u].link
    BY <1>1, <2>1, <2>5, <2>6, ArmKnows
  <2> QED BY <1>1, <2>4, <2>5, <2>7 DEF LinkStep, LinksStay
<1> QED BY <1>2, <1>3

-----------------------------------------------------------------------------
(* Tasks, driver, consumer and time *)

\* Nothing but clocks moves.
LEMMA AdvanceSteps ==
  ASSUME IInv, DialsKnown, Advance
  PROVE  DialsKnown' /\ LinkStep
<1>1. /\ peers' = [p \in Peers |-> Older(peers[p], p)]
      /\ dialing' = dialing /\ pumps' = pumps /\ connQ' = connQ /\ nextGen' = nextGen
  BY DEF Advance, taskVars, queueVars
<1>2. ASSUME NEW p \in Peers
      PROVE  /\ peers'[p].link = peers[p].link
             /\ peers'[p].central.state = peers[p].central.state
             /\ peers'[p].central.session = peers[p].central.session
  <2>1. peers[p] \in PeerRecords /\ peers[p].central \in LinkRecords(CentralStates)
    BY PeersOK DEF PeerRecords
  <2>2. peers'[p] = Older(peers[p], p) /\ peers'[p].central = Aged(peers[p].central)
    BY <1>1, <2>1, CentralOf
  <2>3. peers'[p].link = peers[p].link
    BY <2>2, OlderOK
  <2> DEFINE c == peers[p].central
  <2>4. Aged(c).state = c.state /\ Aged(c).session = c.session
    <3> HIDE DEF c
    <3>1. c \in LinkRecords(CentralStates)
      BY <2>1 DEF c
    <3> QED BY <3>1 DEF Aged, LinkRecords
  <2> QED BY <2>2, <2>3, <2>4
<1>3. \A p \in Peers : Carried(peers', dialing, p)
  BY <1>2 DEF Carried
<1>4. DialsAreKnown(peers', dialing) /\ ResultsAreKnown(peers', dialing, connQ)
  BY <1>3, KnownCarries
<1> QED BY <1>1, <1>2, <1>4 DEF DialsKnown, LinkStep, LinksStay

\* A dial's task leaves with its session in its result.
LEMMA DialCompletesSteps ==
  ASSUME IInv, DialsKnown, NEW t \in dialing, NEW ok \in BOOLEAN, DialCompletes(t, ok)
  PROVE  DialsKnown' /\ LinkStep
<1> DEFINE m == [peer |-> t.peer, session |-> t.session, ok |-> ok]
<1>1. /\ peers' = peers /\ nextGen' = nextGen /\ pumps' = pumps
      /\ dialing' = dialing \ {t} /\ connQ' = Append(connQ, m)
  BY DEF DialCompletes, workerVars
<1>2. connQ \in Seq(Results) /\ dialing \subseteq DialTasks
  BY DEF IInv, TypeOK, Results
<1>3. m \in Results /\ m.peer = t.peer /\ m.session = t.session
  BY <1>2 DEF DialTasks, Results
<1> HIDE DEF m
<1>4. /\ DOMAIN connQ' = DOMAIN connQ \cup {Len(connQ) + 1}
      /\ \A i \in DOMAIN connQ : connQ'[i] = connQ[i]
      /\ connQ'[Len(connQ) + 1] = m
  BY <1>1, <1>2, <1>3
<1>5. ASSUME NEW d \in dialing', d.peer = t.peer
      PROVE  d.session # t.session
  <2>1. d \in dialing /\ d # t /\ d.held /\ t.held
    BY <1>1 DEF DialsKnown, DialsAreKnown
  <2>2. d \in DialTasks /\ t \in DialTasks
    BY <1>2, <2>1
  <2> QED BY <1>5, <2>1, <2>2 DEF DialTasks
<1>6. peers[t.peer].central.state = "Dialing"
  BY DEF DialsKnown, DialsAreKnown
<1>7. \A i \in DOMAIN connQ : connQ[i].peer = t.peer => connQ[i].session # t.session
  BY DEF DialsKnown, ResultsAreKnown
<1>8. DialsAreKnown(peers, dialing')
  BY <1>1 DEF DialsKnown, DialsAreKnown
<1>9. ResultsAreKnown(peers, dialing', connQ')
  <2> SUFFICES ASSUME NEW i \in DOMAIN connQ'
               PROVE  LET n == connQ'[i] IN
                      /\ peers[n.peer].central.state = "Connected"
                           => peers[n.peer].central.session # n.session
                      /\ \A d \in dialing' : d.peer = n.peer => d.session # n.session
                      /\ \A j \in DOMAIN connQ' :
                           n.peer = connQ'[j].peer /\ n.session = connQ'[j].session => i = j
    BY DEF ResultsAreKnown
  <2>1. CASE i \in DOMAIN connQ
    <3>1. /\ peers[connQ[i].peer].central.state = "Connected"
               => peers[connQ[i].peer].central.session # connQ[i].session
          /\ \A d \in dialing : d.peer = connQ[i].peer => d.session # connQ[i].session
          /\ \A j \in DOMAIN connQ :
               connQ[i].peer = connQ[j].peer /\ connQ[i].session = connQ[j].session => i = j
      BY <2>1 DEF DialsKnown, ResultsAreKnown
    <3> QED BY <1>1, <1>3, <1>4, <1>7, <2>1, <3>1
  <2>2. CASE i = Len(connQ) + 1
    <3>1. connQ'[i] = m
      BY <1>4, <2>2
    <3> QED BY <1>3, <1>4, <1>5, <1>6, <1>7, <2>2, <3>1
  <2> QED BY <1>4, <2>1, <2>2
<1> QED BY <1>1, <1>8, <1>9 DEF DialsKnown, LinkStep, LinksStay

\* Every step knows its dials and takes the links one step of the service.
LEMMA StepsOfTheService ==
  ASSUME ~SessionsRepeat, IInv, DialsKnown, PumpsAreKnown, [Next]_vars
  PROVE  DialsKnown' /\ (LinkStep \/ Shutdown)
<1>1. ASSUME UNCHANGED <<workerVars, dialing, connQ>>, pumps' \subseteq pumps
      PROVE  DialsKnown' /\ LinkStep
  BY <1>1 DEF workerVars, DialsKnown, LinkStep, LinksStay
<1>2. CASE UNCHANGED vars
  BY <1>1, <1>2 DEF vars, taskVars, queueVars
<1>3. CASE Commands
  <2>1. ASSUME NEW p \in Peers, IdleTrack(p) \/ IdleUntrack(p)
        PROVE  DialsKnown' /\ LinkStep
    BY <1>1, <2>1 DEF IdleTrack, IdleUntrack, taskVars, queueVars
  <2>2. ASSUME Shutdown
        PROVE  DialsKnown'
    BY <2>2 DEF Shutdown, DialsKnown, DialsAreKnown, ResultsAreKnown
  <2> QED BY <1>3, <2>1, <2>2, TrackSteps, UntrackSteps, RetrySteps, DiscoverSteps
          DEF Commands
<1>4. CASE Arms
  BY <1>4, OnDialResultSteps, OnInboundSteps, OnLinkGoneSteps, OnTickSteps,
     OnRadioChangedSteps, OnServeEndedSteps, OnDisconnectedSteps DEF Arms
<1>5. CASE Environment
  <2>1. ASSUME NEW u \in pumps, PumpEnds(u)
        PROVE  DialsKnown' /\ LinkStep
    BY <1>1, <2>1 DEF PumpEnds
  <2>2. ASSUME NEW p \in Peers, InboundArrives(p)
        PROVE  DialsKnown' /\ LinkStep
    BY <1>1, <2>2 DEF InboundArrives, taskVars
  <2>3. CASE ServeFails
    BY <2>3 DEF ServeFails, taskVars, queueVars, DialsKnown, LinkStep, LinksStay
  <2>4. ASSUME NEW st \in RadioStates, AdapterChanges(st)
        PROVE  DialsKnown' /\ LinkStep
    BY <1>1, <2>4 DEF AdapterChanges, taskVars
  <2>5. CASE LoseRadioEvent
    BY <1>1, <2>5 DEF LoseRadioEvent, taskVars
  <2> QED BY <1>5, <2>1, <2>2, <2>3, <2>4, <2>5, AdvanceSteps, DialCompletesSteps
          DEF Environment
<1> QED BY <1>2, <1>3, <1>4, <1>5 DEF Next

-----------------------------------------------------------------------------
(* The pumps *)

\* linkgone_rx takes a pump that ends and loses its head to the worker.
LEMMA GoneSteps ==
  ASSUME [Next]_vars
  PROVE  \/ goneQ' = goneQ
         \/ goneQ # <<>> /\ goneQ' = Tail(goneQ)
         \/ \E u \in pumps : goneQ' = Append(goneQ, u) /\ pumps' = pumps \ {u}
         \/ Shutdown
<1>1. CASE UNCHANGED vars
  BY <1>1 DEF vars, queueVars
<1>2. CASE Commands
  BY <1>2 DEF Commands, Track, Untrack, Retry, Discover, IdleTrack, IdleUntrack, queueVars
<1>3. CASE Arms
  BY <1>3 DEF Arms, OnDialResult, OnInbound, OnLinkGone, OnTick, OnRadioChanged,
     OnServeEnded, OnDisconnected, queueVars
<1>4. CASE Environment
  BY <1>4 DEF Environment, DialCompletes, PumpEnds, InboundArrives, ServeFails,
     AdapterChanges, LoseRadioEvent, Advance, queueVars
<1> QED BY <1>1, <1>2, <1>3, <1>4 DEF Next

LEMMA PumpsStayKnown ==
  ASSUME IInv, PumpsAreKnown, [Next]_vars, LinkStep \/ Shutdown
  PROVE  PumpsAreKnown'
<1>1. CASE Shutdown
  <2>1. /\ pumps' = {} /\ goneQ' = <<>> /\ nextGen' = nextGen /\ nextGen \in Nat
        /\ \A p \in Peers : peers'[p] = Forgotten
    BY <1>1 DEF Shutdown, IInv, TypeOK
  <2>2. \A p \in Peers : peers'[p].link <= nextGen'
    BY <2>1, NewPeerOK DEF NoLink
  <2> QED BY <2>1, <2>2 DEF PumpsAreKnown
<1>2. CASE LinkStep
  <2>1. /\ nextGen \in Nat /\ goneQ \in Seq([peer : Peers, gen : Nat])
        /\ \A u \in pumps : u.peer \in Peers /\ u.gen \in Nat
        /\ \A p \in Peers : peers[p].link \in Nat
    BY PeersOK DEF IInv, TypeOK, PeerRecords
  <2>2. nextGen' \in Nat /\ nextGen <= nextGen' /\ \A p \in Peers : peers'[p].link <= nextGen'
    BY <1>2, <2>1 DEF LinkStep, LinksStay, LinkComesUp, LinksGoDown, PumpsAreKnown, NoLink
  <2>3. ASSUME NEW u \in pumps'
        PROVE  /\ u.gen # NoLink /\ peers'[u.peer].link = u.gen
               /\ u \in pumps \/ u.gen > nextGen
    <3>1. ASSUME LinksStay
          PROVE  u \in pumps /\ u.gen # NoLink /\ peers'[u.peer].link = u.gen
      BY <2>1, <3>1 DEF LinksStay, PumpsAreKnown
    <3>2. ASSUME NEW p \in Peers, LinkComesUp(p)
          PROVE  /\ u.gen # NoLink /\ peers'[u.peer].link = u.gen
                 /\ u \in pumps \/ u.gen > nextGen
      <4>1. CASE u \in pumps
        <5>1. u.gen # NoLink /\ peers[u.peer].link = u.gen /\ u.peer \in Peers
          BY <2>1, <4>1 DEF PumpsAreKnown
        <5>2. u.peer # p
          BY <3>2, <5>1 DEF LinkComesUp
        <5> QED BY <3>2, <4>1, <5>1, <5>2 DEF LinkComesUp
      <4>2. CASE u = [peer |-> p, gen |-> nextGen + 1]
        BY <2>1, <3>2, <4>2 DEF LinkComesUp, NoLink
      <4> QED BY <3>2, <4>1, <4>2 DEF LinkComesUp
    <3>3. ASSUME NEW D \in SUBSET Peers, LinksGoDown(D)
          PROVE  u \in pumps /\ u.gen # NoLink /\ peers'[u.peer].link = u.gen
      BY <2>1, <3>3 DEF LinksGoDown, PumpsAreKnown
    <3> QED BY <1>2, <3>1, <3>2, <3>3 DEF LinkStep
  <2>4. ASSUME NEW i \in DOMAIN goneQ'
        PROVE  goneQ'[i].gen <= nextGen' /\ goneQ'[i] \notin pumps'
    <3>1. ASSUME NEW j \in DOMAIN goneQ, goneQ'[i] = goneQ[j]
          PROVE  goneQ'[i].gen <= nextGen' /\ goneQ'[i] \notin pumps'
      <4>1. goneQ[j].gen <= nextGen /\ goneQ[j] \notin pumps
        BY DEF PumpsAreKnown
      <4>2. goneQ[j].gen \in Nat
        <5> DEFINE G == [peer : Peers, gen : Nat]
        <5>1. goneQ \in Seq(G)
          BY <2>1
        <5>2. goneQ[j] \in G
          <6> HIDE DEF G
          <6> QED BY <5>1
        <5> QED BY <5>2
      <4> DEFINE v == goneQ[j]
      <4>3. v.gen <= nextGen /\ v \notin pumps /\ v.gen \in Nat /\ goneQ'[i] = v
        BY <3>1, <4>1, <4>2
      <4> HIDE DEF v
      <4>4. v \notin pumps'
        BY <2>1, <2>3, <4>3
      <4> QED BY <2>1, <2>2, <4>3, <4>4
    <3>2. CASE goneQ' = goneQ
      BY <3>1, <3>2
    <3>3. CASE goneQ # <<>> /\ goneQ' = Tail(goneQ)
      <4>1. i + 1 \in DOMAIN goneQ /\ goneQ'[i] = goneQ[i + 1]
        BY <2>1, <3>3
      <4> QED BY <3>1, <4>1
    <3>4. ASSUME NEW u \in pumps, goneQ' = Append(goneQ, u), pumps' = pumps \ {u}
          PROVE  goneQ'[i].gen <= nextGen' /\ goneQ'[i] \notin pumps'
      <4>1. (i \in DOMAIN goneQ /\ goneQ'[i] = goneQ[i]) \/ goneQ'[i] = u
        BY <2>1, <3>4
      <4>2. u.gen <= nextGen
        BY <2>1 DEF PumpsAreKnown
      <4> QED BY <2>1, <2>2, <3>1, <3>4, <4>1, <4>2
    <3>5. CASE Shutdown
      BY <1>1, <3>5 DEF PumpsAreKnown
    <3> QED BY <3>2, <3>3, <3>4, <3>5, GoneSteps
  <2> QED BY <2>2, <2>3, <2>4 DEF PumpsAreKnown
<1> QED BY <1>1, <1>2

-----------------------------------------------------------------------------
(* The theorems *)

LEMMA ServiceInit ==
  ASSUME Init
  PROVE  SInv
<1>1. DialsAreKnown(peers, dialing) /\ ResultsAreKnown(peers, dialing, connQ)
  BY DEF Init, DialsAreKnown, ResultsAreKnown
<1>2. PumpsAreKnown
  BY NewPeerOK DEF Init, PumpsAreKnown, NoLink
<1> QED BY <1>1, <1>2, InitEstablishes DEF SInv

LEMMA ServiceNext ==
  ASSUME ~SessionsRepeat, SInv, [Next]_vars
  PROVE  SInv'
<1>1. IInv /\ DialsKnown /\ PumpsAreKnown
  BY DEF SInv, DialsKnown
<1>2. IInv'
  BY <1>1, NextKeeps
<1>3. DialsKnown' /\ (LinkStep \/ Shutdown)
  BY <1>1, StepsOfTheService
<1>4. PumpsAreKnown'
  BY <1>1, <1>3, PumpsStayKnown
<1> QED BY <1>2, <1>3, <1>4 DEF SInv, DialsKnown

\* As long as sessions do not repeat, the worker knows the task of every dial,
\* the attempt of every result and the pump of every link.
THEOREM ServiceInvariance ==
  ASSUME ~SessionsRepeat
  PROVE  Spec => []SInv
  BY ServiceInit, ServiceNext, PTL DEF Spec

\* A dial task holds the slot of its own peer, and so does a pump.
LEMMA TasksHoldSlots ==
  ASSUME SInv
  PROVE  PlatformWithinCap
<1>1. /\ dialing \subseteq DialTasks /\ pumps \subseteq [peer : Peers, gen : Nat]
      /\ \A t \in dialing : /\ t.held /\ peers[t.peer].central.state = "Dialing"
                            /\ t.session = peers[t.peer].central.session
      /\ \A u \in pumps : u.gen # NoLink /\ u.gen = peers[u.peer].link
      /\ \A p \in Peers : LinkMatches(peers[p], p, radio) /\ OwnMachineOnly(peers[p], p)
  BY DEF SInv, IInv, TypeOK, LinksMatchMachines, DialsAreKnown, PumpsAreKnown
<1> DEFINE D == {p \in Peers : peers[p].central.state = "Dialing"}
           L == {p \in Peers : peers[p].link # NoLink}
<1>2. D \cap L = {} /\ Committed(peers) = D \cup L
  <2>1. ASSUME NEW p \in D
        PROVE  p \notin L
    BY <1>1 DEF LinkMatches, OwnMachineOnly, HasConnection
  <2> QED BY <2>1 DEF Committed, HoldsSlotOf
<1>3. D \in SUBSET Peers /\ L \in SUBSET Peers
  OBVIOUS
<1>4. IsFiniteSet(dialing) /\ Cardinality(dialing) <= Cardinality(D)
  <2> DEFINE f == [t \in dialing |-> t.peer]
  <2>1. f \in [dialing -> D]
    BY <1>1 DEF DialTasks
  <2>2. \A t, d \in dialing : f[t] = f[d] => t = d
    BY <1>1 DEF DialTasks
  <2>3. f \in Injection(dialing, D)
    BY <2>1, <2>2 DEF Injection, IsInjective
  <2> HIDE DEF D
  <2> QED BY <1>3, <2>3, PeerSets, FS_Injection
<1>5. IsFiniteSet(pumps) /\ Cardinality(pumps) <= Cardinality(L)
  <2> DEFINE f == [u \in pumps |-> u.peer]
  <2>1. f \in [pumps -> L]
    BY <1>1
  <2>2. \A u, v \in pumps : f[u] = f[v] => u = v
    BY <1>1
  <2>3. f \in Injection(pumps, L)
    BY <2>1, <2>2 DEF Injection, IsInjective
  <2> HIDE DEF L
  <2> QED BY <1>3, <2>3, PeerSets, FS_Injection
<1>6. Cardinality(D) + Cardinality(L) <= MaxLinks
  <2> HIDE DEF D, L
  <2>1. Cardinality(D \cap L) = 0
    BY <1>2, FS_EmptySet
  <2>2. Cardinality(D \cup L) = Cardinality(D) + Cardinality(L) - Cardinality(D \cap L)
    BY <1>3, PeerSets, FS_Union
  <2>3. Cardinality(D) \in Nat /\ Cardinality(L) \in Nat
    BY <1>3, PeerSets
  <2>4. Cardinality(D \cup L) <= MaxLinks
    BY <1>2 DEF SInv, IInv, CapRespected
  <2> QED BY <2>1, <2>2, <2>3, <2>4
<1>7. Cardinality(dialing) + Cardinality(pumps) <= MaxLinks
  <2>1. /\ Cardinality(D) \in Nat /\ Cardinality(L) \in Nat
        /\ Cardinality(dialing) \in Nat /\ Cardinality(pumps) \in Nat
    BY <1>3, <1>4, <1>5, PeerSets, FS_CardinalityType
  <2> HIDE DEF D, L
  <2> QED BY <1>4, <1>5, <1>6, <2>1, PeerLinkAssumption
<1>8. ASSUME ~Usable(radio)
      PROVE  dialing = {} /\ pumps = {}
  <2>1. D = {} /\ L = {}
    BY <1>1, <1>8 DEF LinkMatches, HoldsSlotOf
  <2> QED BY <1>1, <2>1 DEF DialTasks
<1> QED BY <1>7, <1>8 DEF PlatformWithinCap

\* What runs on the platform, dials and pumps together, never exceeds the cap,
\* and nothing of it outlives the radio.
THEOREM PlatformHolds ==
  ASSUME ~SessionsRepeat
  PROVE  Spec => []PlatformWithinCap
  BY ServiceInvariance, TasksHoldSlots, PTL

\* A link whose pump still runs leaves only with its peer, with the radio or
\* with the worker: no message of an earlier link or attempt touches it.
THEOREM LinksLeaveForCause ==
  ASSUME ~SessionsRepeat
  PROVE  Spec => LinkLeavesForCause
<1> DEFINE A == \A u \in pumps :
                  (peers[u.peer].link = u.gen /\ peers'[u.peer].link # u.gen) =>
                    ~peers'[u.peer].tracked \/ ~Usable(radio')
<1>1. ASSUME SInv, [Next]_vars
      PROVE  [A]_vars
  <2>1. IInv /\ DialsKnown /\ PumpsAreKnown
    BY <1>1 DEF SInv, DialsKnown
  <2>2. \A u \in pumps : u.peer \in Peers /\ u.gen # NoLink
    BY <2>1 DEF IInv, TypeOK, PumpsAreKnown
  <2>3. CASE Shutdown
    BY <2>2, <2>3, NewPeerOK DEF Shutdown, Forgotten
  <2>4. CASE LinksStay
    BY <2>2, <2>4 DEF LinksStay
  <2>5. ASSUME NEW p \in Peers, LinkComesUp(p)
        PROVE  A
    BY <2>2, <2>5 DEF LinkComesUp
  <2>6. ASSUME NEW D \in SUBSET Peers, LinksGoDown(D)
        PROVE  A
    BY <2>2, <2>6 DEF LinksGoDown
  <2> QED BY <1>1, <2>1, <2>3, <2>4, <2>5, <2>6, StepsOfTheService DEF LinkStep
<1>2. Spec => [][A]_vars
  BY <1>1, ServiceInvariance, PTL DEF Spec
<1> QED BY <1>2 DEF LinkLeavesForCause

\* A step of the worker is a step of the service its consumer sees, or none.
LEMMA ServiceStep ==
  ASSUME ~SessionsRepeat, SInv, [Next]_vars
  PROVE  [LinksUp!Next]_(LinksUp!vars)
<1>1. IInv /\ DialsKnown /\ PumpsAreKnown
  BY DEF SInv, DialsKnown
<1>2. IInv' /\ announced \in [Peers -> Nat] /\ announced' \in [Peers -> Nat] /\ nextGen \in Nat
  BY <1>1, NextKeeps DEF IInv, TypeOK
<1>3. ASSUME announced' = announced, nextGen' = nextGen
      PROVE  [LinksUp!Next]_(LinksUp!vars)
  BY <1>3 DEF LinksUp!vars
<1>4. CASE Shutdown
  BY <1>3, <1>4 DEF Shutdown, sharedVars
<1>5. CASE ~Running /\ ~Shutdown
  <2>1. announced' = announced /\ nextGen' = nextGen
    BY <1>5 DEF Next, Commands, Arms, Environment, Track, Untrack, Retry, Discover, IdleTrack,
       IdleUntrack, OnDialResult, OnInbound, OnLinkGone, OnTick, OnRadioChanged, OnServeEnded,
       OnDisconnected, DialCompletes, PumpEnds, InboundArrives, ServeFails, AdapterChanges,
       LoseRadioEvent, Advance, vars, workerVars, sharedVars
  <2> QED BY <1>3, <2>1
<1>6. CASE Running /\ ~Shutdown
  <2>1. Running'
    BY <1>6 DEF Running, Next, Commands, Arms, Environment, Track, Untrack, Retry, Discover,
       IdleTrack, IdleUntrack, OnDialResult, OnInbound, OnLinkGone, OnTick, OnRadioChanged,
       OnServeEnded, OnDisconnected, DialCompletes, PumpEnds, InboundArrives, ServeFails,
       AdapterChanges, LoseRadioEvent, Advance, FinishPeers, Finish, vars, workerVars
  <2>2. \A p \in Peers : announced[p] = peers[p].link /\ announced'[p] = peers'[p].link
    BY <1>1, <1>2, <1>6, <2>1 DEF IInv, ViewsFollowPeers
  <2>3. LinkStep
    BY <1>1, <1>6, StepsOfTheService
  <2>4. CASE LinksStay
    BY <1>2, <1>3, <2>2, <2>4 DEF LinksStay
  <2>5. ASSUME NEW p \in Peers, LinkComesUp(p)
        PROVE  LinksUp!Next
    <3>1. /\ announced[p] = 0
          /\ announced' = [announced EXCEPT ![p] = nextGen + 1]
          /\ nextGen' = nextGen + 1
      BY <1>2, <2>2, <2>5 DEF LinkComesUp, NoLink
    <3>2. Cardinality(LinksUp!Live) < MaxLinks
      <4> DEFINE L == LinksUp!Live
      <4>1. /\ L \in SUBSET Peers /\ p \notin L
            /\ L \cup {p} \subseteq Committed(peers')
        BY <1>2, <2>2, <2>5, <3>1 DEF LinksUp!Live, LinkComesUp, Committed, HoldsSlotOf, NoLink
      <4>2. Committed(peers') \in SUBSET Peers
        BY DEF Committed
      <4> HIDE DEF L
      <4>3. Cardinality(L \cup {p}) = Cardinality(L) + 1
        BY <4>1, PeerSets, FS_AddElement
      <4>4. Cardinality(L \cup {p}) <= Cardinality(Committed(peers'))
        BY <4>1, <4>2, PeerSets, FS_Subset
      <4>5. Cardinality(Committed(peers')) <= MaxLinks
        BY <1>2 DEF IInv, CapRespected
      <4>6. Cardinality(L) \in Nat /\ Cardinality(Committed(peers')) \in Nat
        BY <4>1, <4>2, PeerSets
      <4>7. Cardinality(L) < MaxLinks
        BY <4>3, <4>4, <4>5, <4>6, PeerLinkAssumption
      <4> QED BY <4>7 DEF L
    <3>3. LinksUp!Cardinality(LinksUp!Live) = Cardinality(LinksUp!Live)
      BY DEF LinksUp!Cardinality, Cardinality
    <3>4. LinksUp!Up(p)
      BY <3>1, <3>2, <3>3 DEF LinksUp!Up
    <3> QED BY <3>4 DEF LinksUp!Next
  <2>6. ASSUME NEW D \in SUBSET Peers, LinksGoDown(D)
        PROVE  [LinksUp!Next]_(LinksUp!vars)
    <3> DEFINE gone == {p \in D : announced[p] # 0}
    <3>1. announced' = [p \in Peers |-> IF p \in gone THEN 0 ELSE announced[p]]
      BY <1>2, <2>2, <2>6 DEF LinksGoDown, NoLink
    <3>2. nextGen' = nextGen /\ gone \in SUBSET Peers /\ gone \subseteq LinksUp!Live
      BY <2>6 DEF LinksGoDown, LinksUp!Live
    <3> HIDE DEF gone
    <3>3. CASE gone = {}
      <4>1. announced' = announced
        BY <1>2, <3>1, <3>3
      <4> QED BY <1>3, <3>2, <4>1
    <3>4. CASE gone # {}
      BY <3>1, <3>2, <3>4 DEF LinksUp!Next, LinksUp!Down
    <3> QED BY <3>3, <3>4
  <2> QED BY <2>3, <2>4, <2>5, <2>6 DEF LinkStep
<1> QED BY <1>4, <1>5, <1>6

\* The worker implements the service: for each peer Up and Down alternate,
\* every Up is a link that was never up before, and no more than max_links
\* are up at any time.
THEOREM WorkerImplementsService ==
  ASSUME ~SessionsRepeat
  PROVE  Spec => LinkServiceSpec
<1>1. Init => LinksUp!Init
  BY DEF Init, LinksUp!Init, NoLink
<1>2. SInv /\ [Next]_vars => [LinksUp!Next]_(LinksUp!vars)
  BY ServiceStep
<1>3. Spec => LinksUp!Spec
  BY <1>1, <1>2, ServiceInvariance, PTL DEF Spec, LinksUp!Spec
<1> QED BY <1>3 DEF LinkServiceSpec
=============================================================================
