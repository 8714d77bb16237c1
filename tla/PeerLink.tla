------------------------------- MODULE PeerLink -------------------------------
(***************************************************************************)
(* The PeerLink worker of connection/peer_link.rs: one task that owns the  *)
(* per-peer state machines, dials, accepts, gives up and tears down, and   *)
(* the tasks it spawns (one per dial, one pump per link, the server).      *)
(*                                                                         *)
(* One action is one arm of the select! loop in Worker::run together with  *)
(* what every iteration ends in: pump_dials, refresh_all_status and, at    *)
(* the top of the next iteration, the restart of the server (Finish).      *)
(* The other actions are the tasks, the driver, the consumer and time.     *)
(***************************************************************************)
EXTENDS LinkState, Sequences, FiniteSets

CONSTANTS
  Peers,             \* peer addresses; < is the order pump_dials sorts by
  Role,              \* "Symmetric", "DialOnly" or "AcceptOnly"
  LocalId,           \* LinkRole::Symmetric { local_id }
  PeerId,            \* the LinkId each peer is tracked under
  MaxLinks,          \* the cap on simultaneous links
  Backoff,           \* RetryBudget::backoff
  GiveUpAfter,       \* RetryBudget::give_up_after
  AcceptorDeadline,  \* RetryBudget::acceptor_deadline
  ServeRetryDelay,   \* SERVE_RETRY_DELAY
  Elapsed,           \* the values now.elapsed() may read in pump_dials
  SessionsRepeat,    \* TRUE: a reading may repeat an unfinished dial's session
  EventsMayLag,      \* TRUE: the driver's broadcast may drop radio events
  Disruptions        \* bound: calls, faults and connections from outside

ASSUME PeerLinkAssumption ==
  /\ Peers \subseteq Nat /\ IsFiniteSet(Peers)
  /\ Role \in {"Symmetric", "DialOnly", "AcceptOnly"}
  /\ LocalId \in Int /\ PeerId \in [Peers -> Int]
  /\ MaxLinks \in Nat
  /\ Backoff \in Seq(Nat)
  /\ GiveUpAfter \in Nat /\ AcceptorDeadline \in Nat
  /\ ServeRetryDelay \in Nat \ {0}
  /\ Elapsed \subseteq Nat
  /\ SessionsRepeat \in BOOLEAN /\ EventsMayLag \in BOOLEAN
  /\ Disruptions \in Nat

VARIABLES
  phase,      \* "running", "noDriver" (idle_until_shutdown) or "stopped"
  peers,      \* HashMap<PeerAddress, Peer>
  radio,      \* the worker's RadioState
  serve,      \* the server task: "none", "running" or "ended" (unnoticed)
  serveRetry, \* serve_retry_at
  nextGen,    \* next_link_gen
  published,  \* what radio() answers
  status,     \* what status() answers
  announced,  \* per peer, the link of its last Up, NoLink after its Down
  dialing,    \* dial tasks that run
  pumps,      \* pump tasks that run
  connQ,      \* results of dials, conn_rx
  goneQ,      \* ended pumps, linkgone_rx
  inboundQ,   \* accepted channels, inbound_rx
  radioQ,     \* GattEvent::RadioChanged on the driver's event stream
  adapter,    \* what the driver's radio_status() answers
  fuel        \* what is left of Disruptions

workerVars == <<phase, peers, radio, serve, serveRetry, nextGen>>
sharedVars == <<published, status, announced>>
taskVars   == <<dialing, pumps>>
queueVars  == <<connQ, goneQ, inboundQ, radioQ>>
envVars    == <<adapter, fuel>>
vars == <<workerVars, sharedVars, taskVars, queueVars, envVars>>

-----------------------------------------------------------------------------
(* A tracked peer *)

Never  == -1  \* None of an Option<Instant>; timers otherwise count units
NoLink == 0   \* None of Option<LiveLink>; generations start at 1

\* Which side of the pair dials, and whether this role serves at all.
Dials(p) == Role = "DialOnly" \/ (Role = "Symmetric" /\ LocalId < PeerId[p])
Accepts == Role # "DialOnly"

\* trying counts up from trying_since, retry counts down to retry_at.
FirstClock(p) == IF Dials(p) THEN Never ELSE 0

NewPeer(p) ==
  [tracked |-> TRUE, central |-> Without("Idle"), peripheral |-> Without("Absent"),
   trying |-> FirstClock(p), attempts |-> 0, retry |-> Never,
   gaveUp |-> FALSE, link |-> NoLink]

\* A peer that is not in the map.
Forgotten == [tracked |-> FALSE, central |-> Without("Idle"),
              peripheral |-> Without("Absent"), trying |-> Never, attempts |-> 0,
              retry |-> Never, gaveUp |-> FALSE, link |-> NoLink]

\* attempts only selects a backoff, so it is counted up to this.
AttemptCap == Len(Backoff) + 1

Deadline(p) == IF Dials(p) THEN GiveUpAfter ELSE AcceptorDeadline

-----------------------------------------------------------------------------
(* The end of every iteration *)

\* (fault) dials in flight are not counted.
LinksOnlySlotOf(r) == r.link # NoLink

HoldsSlotOf(r) == r.link # NoLink \/ r.central.state = "Dialing"
Committed(ps) == {p \in Peers : HoldsSlotOf(ps[p])}

Candidates(ps) ==
  {p \in Peers : /\ ps[p].tracked /\ Dials(p)
                 /\ ps[p].link = NoLink /\ ~ps[p].gaveUp
                 /\ MayDial(ps[p].central)
                 /\ ps[p].retry <= 0}

\* (fault) the last slot is never used.
DialsOneTooFew(S, ps, rad) ==
  IF Usable(rad) /\ Cardinality(Committed(ps)) + 1 < MaxLinks
  THEN S = Candidates(ps) ELSE S = {}

\* (fault) the budget is checked before the loop, not for each dial.
DialsAllAtOnce(S, ps, rad) ==
  IF Usable(rad) /\ Cardinality(Committed(ps)) < MaxLinks
  THEN S = Candidates(ps) ELSE S = {}

\* S is what the loop over the sorted candidates dials before the budget is 0.
DialedNow(S, ps, rad) ==
  LET C == Candidates(ps)
      budget == MaxLinks - Cardinality(Committed(ps))
  IN IF ~Usable(rad) \/ budget <= 0
     THEN S = {}
     ELSE /\ S \subseteq C
          /\ \A p \in S, q \in C : q < p => q \in S
          /\ Cardinality(S) <= budget
          /\ S # C => Cardinality(S) = budget

\* next_session is the clock reading plus one for each dial before.
SessionOf(S, p, reading) == reading + Cardinality({q \in S : q <= p})

Outstanding(p, dl) ==
  {t.session : t \in {d \in dl : d.peer = p}}
    \cup {connQ[i].session : i \in {j \in DOMAIN connQ : connQ[j].peer = p}}

FreshReading(b, S, dl) ==
  \A p \in S : SessionOf(S, p, b) \notin Outstanding(p, dl)

\* What now.elapsed() reads; when sessions do not repeat, the least reading
\* that no unfinished dial of these peers carries stands for all of them.
Readings(S, dl) ==
  IF SessionsRepeat THEN Elapsed
  ELSE {b \in 0 .. Len(connQ) + Cardinality(dl) :
          /\ FreshReading(b, S, dl)
          /\ \A c \in 0 .. b - 1 : ~FreshReading(c, S, dl)}

StartDial(r, session) ==
  [r EXCEPT !.central = CentralApply(@, "DialStarted", session),
            !.attempts = IF @ < AttemptCap THEN @ + 1 ELSE @,
            !.trying = IF @ = Never THEN 0 ELSE @]

\* (fault) giving up is reported over a link.
GaveUpFirst(r, rad, overCap, p) ==
  CASE ~r.tracked -> "Untracked"
    [] r.tracked /\ ~Usable(rad) -> "Unavailable"
    [] r.tracked /\ Usable(rad) /\ r.gaveUp -> "GaveUp"
    [] r.tracked /\ Usable(rad) /\ ~r.gaveUp /\ r.link # NoLink -> "Connected"
    [] OTHER -> IF r.retry # Never THEN "Waiting"
                ELSE IF overCap /\ Dials(p) THEN "Queued" ELSE "Connecting"

Project(r, rad, overCap, p) ==
  CASE ~r.tracked              -> "Untracked"
    [] r.tracked /\ ~Usable(rad) -> "Unavailable"
    [] r.tracked /\ Usable(rad) /\ r.link # NoLink -> "Connected"
    [] r.tracked /\ Usable(rad) /\ r.link = NoLink /\ r.gaveUp -> "GaveUp"
    [] OTHER -> IF r.retry # Never THEN "Waiting"
                ELSE IF overCap /\ Dials(p) THEN "Queued" ELSE "Connecting"

StatusMap(ps, rad) ==
  LET overCap == Cardinality(Committed(ps)) >= MaxLinks
  IN [p \in Peers |-> Project(ps[p], rad, overCap, p)]

\* ps, dl, rad, sv, at: the peers, dial tasks, RadioState, server task and
\* serve_retry_at the arm leaves behind.
Finish(ps, dl, rad, sv, at) ==
  \E S \in SUBSET Peers :
    /\ DialedNow(S, ps, rad)
    /\ \E b \in (IF S = {} THEN {0} ELSE Readings(S, dl)) :
         /\ peers' = [p \in Peers |-> IF p \in S
                                      THEN StartDial(ps[p], SessionOf(S, p, b))
                                      ELSE ps[p]]
         /\ dialing' = dl \cup {[peer |-> p, session |-> SessionOf(S, p, b),
                                 held |-> TRUE] : p \in S}
    /\ status' = StatusMap(peers', rad)
    /\ radio' = rad
    /\ LET restart == Accepts /\ Usable(rad) /\ sv = "none" /\ at <= 0
       IN /\ serve' = IF restart THEN "running" ELSE sv
          /\ serveRetry' = IF restart THEN Never ELSE at
    /\ phase' = phase

\* An iteration that only touches the peers and their dial tasks.
FinishPeers(ps, dl) == Finish(ps, dl, radio, serve, serveRetry)

\* (fault) the task outlives what aborted it.
LeaveDialOf(dl, p) == dl
LeaveDials(ps, dl) == dl

\* The handle in dial_task aborts the task unless it has already delivered.
Abort(dl, p) == {t \in dl : ~(t.peer = p /\ t.held)}

\* clear_stale_dial, for every peer: abort what has left Dialing.
ClearStaleDials(ps, dl) ==
  {t \in dl : t.held => ps[t.peer].central.state = "Dialing"}

\* dial_task = None without an abort: the task runs on with no handle.
DropHandle(dl, p) ==
  {IF t.peer = p THEN [t EXCEPT !.held = FALSE] ELSE t : t \in dl}

-----------------------------------------------------------------------------
(* Commands *)

Running == phase = "running"
Disrupt == fuel > 0 /\ fuel' = fuel - 1

Track(p) ==
  /\ Running /\ Disrupt
  /\ FinishPeers([peers EXCEPT ![p] = IF @.tracked THEN @ ELSE NewPeer(p)], dialing)
  /\ UNCHANGED <<nextGen, published, announced, pumps, queueVars, adapter>>

\* tear_down aborts the pump and the dial; their queued messages stay queued.
Untrack(p) ==
  /\ Running /\ Disrupt
  /\ FinishPeers([peers EXCEPT ![p] = Forgotten], Abort(dialing, p))
  /\ pumps' = {u \in pumps : u # [peer |-> p, gen |-> peers[p].link]}
  /\ announced' = [announced EXCEPT ![p] = IF peers[p].link # NoLink THEN NoLink ELSE @]
  /\ UNCHANGED <<nextGen, published, queueVars, adapter>>

Retried(r, p) ==
  [r EXCEPT !.gaveUp = FALSE, !.attempts = 0, !.retry = Never, !.trying = FirstClock(p)]

Retry(p) ==
  /\ Running /\ Disrupt
  /\ FinishPeers([peers EXCEPT ![p] = IF @.tracked THEN Retried(@, p) ELSE @], dialing)
  /\ UNCHANGED <<nextGen, published, announced, pumps, queueVars, adapter>>

\* Command::Discover keeps the worker in discover_now; the iteration then ends
\* like any other.
Discover ==
  /\ Running /\ Disrupt
  /\ FinishPeers(peers, dialing)
  /\ UNCHANGED <<nextGen, published, announced, pumps, queueVars, adapter>>

\* Dropping the PeerLink: the loop breaks, every peer is torn down without an
\* event, and the runtime's end cancels every task.
Shutdown ==
  /\ phase # "stopped" /\ Disrupt
  /\ phase' = "stopped"
  /\ peers' = [p \in Peers |-> Forgotten]
  /\ serve' = "none" /\ serveRetry' = Never
  /\ dialing' = {} /\ pumps' = {}
  /\ connQ' = <<>> /\ goneQ' = <<>> /\ inboundQ' = <<>> /\ radioQ' = <<>>
  /\ UNCHANGED <<radio, nextGen, sharedVars, adapter>>

\* idle_until_shutdown: no driver was acquired.  Track publishes Unavailable,
\* Discover answers an error, every other command is ignored.
IdleTrack(p) ==
  /\ phase = "noDriver" /\ Disrupt
  /\ status' = [status EXCEPT ![p] = "Unavailable"]
  /\ UNCHANGED <<workerVars, published, announced, taskVars, queueVars, adapter>>

IdleUntrack(p) ==
  /\ phase = "noDriver" /\ Disrupt
  /\ UNCHANGED <<workerVars, sharedVars, taskVars, queueVars, adapter>>

-----------------------------------------------------------------------------
(* Links come up *)

\* (fault) the generation counter does not advance.
InstallSameGen(p) ==
  /\ nextGen' = nextGen
  /\ pumps' = pumps \cup {[peer |-> p, gen |-> nextGen + 1]}
  /\ announced' = [announced EXCEPT ![p] = nextGen + 1]

\* start_pump and PeerLinkEvent::Up, after alloc_link_gen.  A LiveLink that is
\* replaced loses its teardown sender, not its pump's abort handle.
InstallLink(p) ==
  /\ nextGen' = nextGen + 1
  /\ pumps' = pumps \cup {[peer |-> p, gen |-> nextGen + 1]}
  /\ announced' = [announced EXCEPT ![p] = nextGen + 1]

\* apply_backoff
BackedOff(r) ==
  LET since == IF r.trying = Never THEN 0 ELSE r.trying
      i     == IF r.attempts <= 1 THEN 1
               ELSE IF r.attempts > Len(Backoff) THEN Len(Backoff) ELSE r.attempts
  IN IF since >= GiveUpAfter
     THEN [r EXCEPT !.trying = since, !.gaveUp = TRUE, !.retry = Never]
     ELSE IF Backoff = <<>>
          THEN [r EXCEPT !.trying = since, !.gaveUp = TRUE]
          ELSE [r EXCEPT !.trying = since, !.retry = Backoff[i]]

DialLinked(r, c) ==
  [r EXCEPT !.central = c, !.attempts = 0, !.trying = Never, !.retry = Never,
            !.link = nextGen + 1]

\* (fault) any result settles the attempt under way.
AnyResult(m) == peers[m.peer].tracked

\* Only the attempt that produced a result may be settled by it.
ResultIsCurrent(m) ==
  peers[m.peer].tracked /\ peers[m.peer].central.session = m.session

OnDialResult ==
  /\ Running /\ connQ # <<>>
  /\ connQ' = Tail(connQ)
  /\ LET m == Head(connQ)
         p == m.peer
         r == peers[p]
         c == CentralApply(r.central, IF m.ok THEN "DialSucceeded" ELSE "DialFailed", 0)
         dl == DropHandle(dialing, p)
         mine == ResultIsCurrent(m)
         linked == mine /\ m.ok /\ c.state = "Connected"
     IN \/ /\ linked
           /\ InstallLink(p)
           /\ FinishPeers([peers EXCEPT ![p] = DialLinked(r, c)], dl)
        \/ /\ ~linked
           /\ FinishPeers(IF ~mine THEN peers
                          ELSE IF m.ok THEN [peers EXCEPT ![p].central = c]
                          ELSE [peers EXCEPT ![p] = BackedOff([r EXCEPT !.central = c])],
                          IF mine THEN dl ELSE dialing)
           /\ UNCHANGED <<nextGen, announced, pumps>>
  /\ UNCHANGED <<published, goneQ, inboundQ, radioQ, envVars>>

InboundLinked(r) ==
  LET accepted == PeripheralApply(r.peripheral, "CentralConnected", NoSession)
  IN [r EXCEPT !.peripheral = PeripheralApply(accepted, "CentralSubscribed", NoSession),
               !.gaveUp = FALSE, !.trying = Never, !.retry = Never,
               !.link = nextGen + 1]

\* (fault) the cap is left to pump_dials.
RefusesUncapped(p) ==
  ~peers[p].tracked \/ Dials(p) \/ peers[p].link # NoLink \/ ~Usable(radio)

\* (fault) a second channel of a linked peer is let in.
RefusesUnlinked(p) ==
  \/ ~peers[p].tracked \/ Dials(p) \/ ~Usable(radio)
  \/ Cardinality(Committed(peers) \ {p}) >= MaxLinks

Refuses(p) ==
  \/ ~peers[p].tracked \/ Dials(p) \/ peers[p].link # NoLink
  \/ Cardinality(Committed(peers)) >= MaxLinks \/ ~Usable(radio)

OnInbound ==
  /\ Running /\ inboundQ # <<>>
  /\ inboundQ' = Tail(inboundQ)
  /\ LET p == Head(inboundQ)
     IN \/ /\ Refuses(p)
           /\ FinishPeers(peers, dialing)
           /\ UNCHANGED <<nextGen, announced, pumps>>
        \/ /\ ~Refuses(p)
           /\ InstallLink(p)
           /\ FinishPeers([peers EXCEPT ![p] = InboundLinked(@)], dialing)
  /\ UNCHANGED <<published, connQ, goneQ, radioQ, envVars>>

-----------------------------------------------------------------------------
(* Links and attempts end *)

\* (fault) the machines are not told.
UnlinkedOnly(r) ==
  [r EXCEPT !.link = NoLink, !.trying = 0, !.attempts = 0, !.retry = Never]

Unlinked(r) ==
  [r EXCEPT !.link = NoLink,
            !.central = CentralApply(@, "LinkDropped", 0),
            !.peripheral = PeripheralApply(@, "CentralDropped", 0),
            !.trying = 0, !.attempts = 0, !.retry = Never]

\* (fault) an ended pump speaks for whatever link the peer has.
AnyPump(u) == peers[u.peer].link # NoLink

\* An ended pump speaks for the link it pumped, not for a newer one.
PumpIsCurrent(u) == peers[u.peer].link # NoLink /\ peers[u.peer].link = u.gen

OnLinkGone ==
  /\ Running /\ goneQ # <<>>
  /\ goneQ' = Tail(goneQ)
  /\ LET p == Head(goneQ).peer
         current == PumpIsCurrent(Head(goneQ))
     IN \/ /\ ~current
           /\ FinishPeers(peers, dialing)
           /\ UNCHANGED announced
        \/ /\ current
           /\ FinishPeers([peers EXCEPT ![p] = Unlinked(@)], dialing)
           /\ announced' = [announced EXCEPT ![p] = NoLink]
  /\ UNCHANGED <<nextGen, published, pumps, connQ, inboundQ, radioQ, envVars>>

Ticked(r, p) ==
  LET spent == /\ Usable(radio) /\ r.link = NoLink /\ ~r.gaveUp
               /\ r.trying # Never /\ r.trying >= Deadline(p)
  IN [r EXCEPT !.central = CentralApply(@, "Tick", 0),
               !.gaveUp = @ \/ spent,
               !.retry = IF spent THEN Never ELSE @]

OnTick ==
  /\ Running
  /\ LET ps == [p \in Peers |-> IF peers[p].tracked THEN Ticked(peers[p], p) ELSE peers[p]]
     IN FinishPeers(ps, ClearStaleDials(ps, dialing))
  /\ UNCHANGED <<nextGen, published, announced, pumps, queueVars, envVars>>

RadioEventOf(st) ==
  CASE st = "On" -> "PoweredOn" [] st = "Off" -> "PoweredOff" [] OTHER -> "NoAdapter"

RadioLostBy(r, p) ==
  [r EXCEPT !.central = CentralApply(@, "RadioLost", 0),
            !.peripheral = PeripheralApply(@, "RadioLost", 0),
            !.link = NoLink, !.gaveUp = FALSE, !.attempts = 0,
            !.retry = Never, !.trying = FirstClock(p)]

\* (fault) the machines stay in RadioOff.
RadioBackIgnored(r) == r

RadioBackFor(r) ==
  [r EXCEPT !.central = CentralApply(@, "RadioBack", 0),
            !.peripheral = PeripheralApply(@, "RadioBack", 0)]

\* (fault) a failed capability probe is taken for a radio that is off.
ProbeFailureIsOff == IF adapter = "On" THEN {"On", "Off"} ELSE {adapter}

\* assess_radio: what the driver answers now, with the capability probe
\* (which a transient failure can spoil) only behind a radio that is on.
Assessed == IF adapter = "On" THEN {"On", "Unsupported"} ELSE {adapter}

OnRadioChanged ==
  /\ Running /\ radioQ # <<>>
  /\ radioQ' = Tail(radioQ)
  /\ \E st \in IF Head(radioQ) = "On" THEN Assessed ELSE {Head(radioQ)} :
       LET rad  == RadioApply(radio, RadioEventOf(st))
           lost == InvalidatesLinks(radio, RadioEventOf(st))
           ps   == [p \in Peers |->
                      IF ~peers[p].tracked THEN peers[p]
                      ELSE IF lost THEN RadioLostBy(peers[p], p)
                      ELSE IF Usable(rad) THEN RadioBackFor(peers[p]) ELSE peers[p]]
           stop == Accepts /\ Usable(radio) /\ ~Usable(rad)
       IN /\ published' = st
          /\ Finish(ps, IF lost THEN ClearStaleDials(ps, dialing) ELSE dialing, rad,
                    IF stop THEN "none" ELSE serve, IF stop THEN Never ELSE serveRetry)
          /\ pumps' = IF lost THEN {u \in pumps : peers[u.peer].link # u.gen} ELSE pumps
          /\ announced' = [p \in Peers |-> IF lost /\ peers[p].link # NoLink
                                           THEN NoLink ELSE announced[p]]
  /\ UNCHANGED <<nextGen, connQ, goneQ, inboundQ, envVars>>

\* GattEvent::Disconnected { local_role: Central } for a peer with no link.
OnDisconnected(p) ==
  /\ Running /\ Disrupt /\ peers[p].tracked
  /\ FinishPeers(IF peers[p].link = NoLink
                 THEN [peers EXCEPT ![p].central = CentralApply(@, "LinkDropped", 0)]
                 ELSE peers, dialing)
  /\ UNCHANGED <<nextGen, published, announced, pumps, queueVars, adapter>>

\* (fault) the ended task's handle is kept.
OnServeEndedKept ==
  /\ Running /\ serve = "ended"
  /\ Finish(peers, dialing, radio, "ended", ServeRetryDelay)
  /\ UNCHANGED <<nextGen, published, announced, pumps, queueVars, envVars>>

OnServeEnded ==
  /\ Running /\ serve = "ended"
  /\ Finish(peers, dialing, radio, "none", ServeRetryDelay)
  /\ UNCHANGED <<nextGen, published, announced, pumps, queueVars, envVars>>

-----------------------------------------------------------------------------
(* Tasks, driver, consumer and time *)

\* datagram::connect_driver returns and its task sends the result.
DialCompletes(t, ok) ==
  /\ Running /\ t \in dialing
  /\ dialing' = dialing \ {t}
  /\ connQ' = Append(connQ, [peer |-> t.peer, session |-> t.session, ok |-> ok])
  /\ UNCHANGED <<workerVars, sharedVars, pumps, goneQ, inboundQ, radioQ, envVars>>

\* A pump leaves its loop: the channel ended, the consumer dropped its handle,
\* or (Superseded) its LiveLink was replaced and dropped.
Superseded(u) == peers[u.peer].link # u.gen

PumpEnds(u) ==
  /\ Running /\ u \in pumps
  /\ IF Superseded(u) THEN UNCHANGED fuel ELSE Disrupt
  /\ pumps' = pumps \ {u}
  /\ goneQ' = Append(goneQ, u)
  /\ UNCHANGED <<workerVars, sharedVars, dialing, connQ, inboundQ, radioQ, adapter>>

\* The server hands over a channel to a central, tracked or not.
InboundArrives(p) ==
  /\ Running /\ serve = "running" /\ Disrupt
  /\ inboundQ' = Append(inboundQ, p)
  /\ UNCHANGED <<workerVars, sharedVars, taskVars, connQ, goneQ, radioQ, adapter>>

\* serve_driver fails, or its stream ends.
ServeFails ==
  /\ Running /\ serve = "running" /\ Disrupt
  /\ serve' = "ended"
  /\ UNCHANGED <<phase, peers, radio, serveRetry, nextGen, sharedVars, taskVars,
                 queueVars, adapter>>

\* The platform radio changes and the driver reports it.
AdapterChanges(st) ==
  /\ Running /\ st # adapter /\ Disrupt
  /\ adapter' = st
  /\ radioQ' = Append(radioQ, st)
  /\ UNCHANGED <<workerVars, sharedVars, taskVars, connQ, goneQ, inboundQ>>

\* The broadcast overwrites its oldest event; the Lagged that takes its place
\* is one of the events on_driver_event ignores.
LoseRadioEvent ==
  /\ Running /\ EventsMayLag /\ radioQ # <<>>
  /\ radioQ' = Tail(radioQ)
  /\ UNCHANGED <<workerVars, sharedVars, taskVars, connQ, goneQ, inboundQ, envVars>>

CountDown(timer) == IF timer > 0 THEN timer - 1 ELSE timer

Older(r, p) ==
  [r EXCEPT !.central = Aged(@),
            !.trying = IF @ # Never /\ @ < Deadline(p) THEN @ + 1 ELSE @,
            !.retry = CountDown(@)]

\* One unit of time; every deadline of the worker is measured in it.
Advance ==
  /\ Running
  /\ peers' = [p \in Peers |-> Older(peers[p], p)]
  /\ serveRetry' = CountDown(serveRetry)
  /\ UNCHANGED <<phase, radio, serve, nextGen, sharedVars, taskVars, queueVars, envVars>>

\* next_wake answers "now": some peer's backoff or give-up clock has run out.
WakeDue ==
  \/ \E p \in Peers :
       /\ peers[p].tracked /\ peers[p].link = NoLink /\ ~peers[p].gaveUp
       /\ \/ peers[p].retry = 0
          \/ Usable(radio) /\ peers[p].trying # Never /\ peers[p].trying >= Deadline(p)
  \/ serveRetry = 0

-----------------------------------------------------------------------------
(* Specification *)

\* Worker::run up to the loop: the driver is acquired or it is not, the radio
\* is assessed once, the server started.
Init ==
  /\ peers = [p \in Peers |-> Forgotten]
  /\ status = [p \in Peers |-> "Untracked"]
  /\ announced = [p \in Peers |-> NoLink]
  /\ adapter \in RadioStates
  /\ \/ phase = "running" /\ radio \in Assessed
     \/ phase = "noDriver" /\ radio = "Unsupported"
  /\ published = radio
  /\ serve = IF phase = "running" /\ Accepts /\ Usable(radio) THEN "running" ELSE "none"
  /\ serveRetry = Never
  /\ nextGen = 0
  /\ dialing = {} /\ pumps = {}
  /\ connQ = <<>> /\ goneQ = <<>> /\ inboundQ = <<>> /\ radioQ = <<>>
  /\ fuel = Disruptions

Commands ==
  \/ \E p \in Peers : Track(p) \/ Untrack(p) \/ Retry(p)
  \/ Discover
  \/ \E p \in Peers : IdleTrack(p) \/ IdleUntrack(p)
  \/ Shutdown

Arms ==
  \/ OnDialResult
  \/ OnInbound
  \/ OnLinkGone
  \/ OnTick
  \/ OnRadioChanged
  \/ OnServeEnded
  \/ \E p \in Peers : OnDisconnected(p)

Environment ==
  \/ \E t \in dialing, ok \in BOOLEAN : DialCompletes(t, ok)
  \/ \E u \in pumps : PumpEnds(u)
  \/ \E p \in Peers : InboundArrives(p)
  \/ ServeFails
  \/ \E st \in RadioStates : AdapterChanges(st)
  \/ LoseRadioEvent
  \/ Advance

Next == Commands \/ Arms \/ Environment

\* select! polls its ready arms in random order, so each queue is served; the
\* interval fires; time passes; a pump whose teardown sender is gone ends.
\* Nothing is assumed of dials, calls, peers or the radio.
Fairness ==
  /\ WF_vars(OnDialResult) /\ WF_vars(OnInbound) /\ WF_vars(OnLinkGone)
  /\ WF_vars(OnTick) /\ WF_vars(OnRadioChanged) /\ WF_vars(OnServeEnded)
  /\ WF_vars(Advance)
  /\ WF_vars(\E u \in pumps : Superseded(u) /\ PumpEnds(u))

Spec == Init /\ [][Next]_vars
FairSpec == Spec /\ Fairness

-----------------------------------------------------------------------------
(* Properties *)

Timers == Nat \cup {Never}
LinkRecords(states) == [state : states, age : Nat, session : Nat]

PeerRecords ==
  [tracked : BOOLEAN, central : LinkRecords(CentralStates),
   peripheral : LinkRecords(PeripheralStates), trying : Timers, attempts : Nat,
   retry : Timers, gaveUp : BOOLEAN, link : Nat]

DialTasks == [peer : Peers, session : Nat, held : BOOLEAN]
ServeStates == {"none", "running", "ended"}

Statuses == {"Untracked", "Unavailable", "Queued", "Connecting", "Connected",
             "Waiting", "GaveUp"}

\* The type of every variable of the worker and of what surrounds it.
TypeOK ==
  /\ phase \in {"running", "noDriver", "stopped"}
  /\ peers \in [Peers -> PeerRecords]
  /\ radio \in RadioStates /\ published \in RadioStates /\ adapter \in RadioStates
  /\ serve \in ServeStates /\ serveRetry \in Timers
  /\ nextGen \in Nat
  /\ status \in [Peers -> Statuses]
  /\ announced \in [Peers -> Nat]
  /\ dialing \subseteq DialTasks
  /\ pumps \subseteq [peer : Peers, gen : Nat]
  /\ connQ \in Seq([peer : Peers, session : Nat, ok : BOOLEAN])
  /\ goneQ \in Seq([peer : Peers, gen : Nat])
  /\ inboundQ \in Seq(Peers)
  /\ radioQ \in Seq(RadioStates)
  /\ fuel \in Nat

\* max_links counts links of both directions and dials in flight: no order of
\* dial results, inbound links, drops and radio changes exceeds it.
CapRespected == Cardinality(Committed(peers)) <= MaxLinks

\* A live link is exactly what the machine of the side that made it says, and
\* no link, dial or RadioOff machine contradicts the worker's RadioState.
LinkMatches(r, p, rad) ==
  /\ Dials(p) => (r.link # NoLink <=> HasConnection(r.central))
  /\ ~Dials(p) => (r.link # NoLink <=> HoldsSlot(r.peripheral))
  /\ HoldsSlotOf(r) => Usable(rad)
  /\ Usable(rad) => r.central.state # "RadioOff" /\ r.peripheral.state # "RadioOff"

LinksMatchMachines == \A p \in Peers : LinkMatches(peers[p], p, radio)

\* The event stream and status() tell one story: the last event of a peer was
\* Up exactly while its status reads Connected.
StatusAgreesWithEvents ==
  Running => \A p \in Peers : announced[p] # NoLink <=> status[p] = "Connected"

\* radio() answers On exactly while the worker's RadioState lets it dial, even
\* after changes the state machine ignores.
RadioAnswerAgrees == published = "On" <=> Usable(radio)

\* Everything that runs on the platform belongs to a link or an attempt the
\* worker still counts: aborted and superseded tasks leave no orphan, so the
\* cap bounds the platform as well, and a dead radio leaves nothing running.
PlatformWithinCap ==
  /\ Cardinality(dialing) + Cardinality(pumps) <= MaxLinks
  /\ ~Usable(radio) => dialing = {} /\ pumps = {}

\* No slot idles while a tracked peer could use it: whatever frees a slot
\* (a failed dial, a drop, an untrack, a timeout) promotes in the same step.
NoIdleSlot ==
  Running /\ Usable(radio) =>
    \A p \in Candidates(peers) :
      peers[p].retry = Never => Cardinality(Committed(peers)) >= MaxLinks

\* A link whose pump still runs is only ever taken down by untrack, by the
\* radio or by shutdown: no queued message of an earlier link, of an earlier
\* attempt or of another life of the same address touches it.
LinkLeavesForCause ==
  [][\A u \in pumps :
       (peers[u.peer].link = u.gen /\ peers'[u.peer].link # u.gen) =>
         ~peers'[u.peer].tracked \/ ~Usable(radio')]_vars

\* What the worker promises the consumer, as a service of its own.
LinksUp == INSTANCE LinkService WITH up <- announced, last <- nextGen
LinkServiceSpec == LinksUp!Spec

-----------------------------------------------------------------------------
(* The inductive invariant *)

\* Each side of a pair moves its own machine only, the worker never asks for a
\* disconnect or a cleanup, and a peer that is not in the map has no state.
OwnMachineOnly(r, p) ==
  /\ ~r.tracked => r = Forgotten
  /\ Dials(p) => /\ r.central.state \in {"Idle", "Dialing", "Connected", "RadioOff"}
                 /\ r.peripheral.state \in {"Absent", "RadioOff"}
  /\ ~Dials(p) => /\ r.central.state \in {"Idle", "RadioOff"}
                  /\ r.peripheral.state \in {"Absent", "Serving", "RadioOff"}

\* status() and the event stream are functions of the peers the loop left.
ViewsFollowPeers ==
  /\ Running => /\ status = StatusMap(peers, radio)
                /\ \A p \in Peers : announced[p] = peers[p].link
  /\ ~Running => \A p \in Peers : peers[p] = Forgotten

IInv ==
  /\ TypeOK /\ IsFiniteSet(dialing)
  /\ CapRespected
  /\ LinksMatchMachines
  /\ \A p \in Peers : OwnMachineOnly(peers[p], p)
  /\ RadioAnswerAgrees
  /\ ViewsFollowPeers
  /\ NoIdleSlot

\* As long as sessions do not repeat, the worker knows what runs for it: the
\* task of each dial under way, by its session; no two results of a peer with
\* one session, and none of the dial that made the link; the pump of each link.
DialsAreKnown(ps, dl) ==
  \A t \in dl :
    /\ t.held /\ ps[t.peer].central.state = "Dialing"
    /\ ps[t.peer].central.session = t.session

ResultsAreKnown(ps, dl, results) ==
  \A i \in DOMAIN results :
    LET m == results[i] IN
    /\ ps[m.peer].central.state = "Connected" => ps[m.peer].central.session # m.session
    /\ \A t \in dl : t.peer = m.peer => t.session # m.session
    /\ \A j \in DOMAIN results :
         m.peer = results[j].peer /\ m.session = results[j].session => i = j

PumpsAreKnown ==
  /\ \A p \in Peers : peers[p].link <= nextGen
  /\ \A u \in pumps : u.gen # NoLink /\ peers[u.peer].link = u.gen
  /\ \A i \in DOMAIN goneQ : goneQ[i].gen <= nextGen /\ goneQ[i] \notin pumps

SInv ==
  /\ IInv
  /\ DialsAreKnown(peers, dialing) /\ ResultsAreKnown(peers, dialing, connQ)
  /\ PumpsAreKnown

-----------------------------------------------------------------------------
(* Liveness *)

Settled(p) ==
  \/ ~peers[p].tracked
  \/ peers[p].link # NoLink
  \/ peers[p].gaveUp
  \/ Cardinality({q \in Peers : peers[q].link # NoLink}) >= MaxLinks

\* Once outside disturbances cease, every tracked peer is linked, has given
\* up, or waits behind links that fill the cap; nobody dials or waits forever,
\* whatever the platform does with the dials.
PeersSettle ==
  <>[](~Running \/ ~Usable(radio) \/ \A p \in Peers : Settled(p))

\* An accepting worker with a usable radio has its server running in the end,
\* however often it failed and whatever the radio did in between.
ServerComesBack == <>[](Running /\ Accepts /\ Usable(radio) => serve = "running")

\* The answer of radio() catches up with the platform.
RadioAnswerConverges ==
  <>[](Running => published = adapter \/ (adapter = "On" /\ published = "Unsupported"))
=============================================================================
