---------------------------- MODULE DatagramServe ----------------------------
(***************************************************************************)
(* The serve task of profile/datagram/mod.rs (serve_driver): one loop that *)
(* hands at most one central at a time to a consumer as a channel, the     *)
(* consumer that holds, closes and drops those channels, and the server    *)
(* half of the Linux driver whose broadcast events the loop reads.         *)
(*                                                                         *)
(* One action of the loop is one arm of its select!, with everything it    *)
(* awaits, except that a re-advertisement (Recover) is a step of its own:  *)
(* the loop reads served_service() before it and awaits inside it.         *)
(***************************************************************************)
EXTENDS Naturals, FiniteSets, SequencesExt

CONSTANTS
  Peers,             \* addresses of centrals
  AcceptQueueDepth,  \* DatagramConfig::accept_queue_depth
  EventCapacity,     \* EVENT_CHANNEL_CAPACITY of the driver's broadcast
  ServesAgain,       \* TRUE: the application may call serve again meanwhile
  Arrivals,          \* bound: subscriptions and writes of centrals
  Disruptions        \* bound: centrals that leave, radio changes, calls

ASSUME DatagramServeAssumption ==
  /\ IsFiniteSet(Peers)
  /\ AcceptQueueDepth \in Nat \ {0} /\ EventCapacity \in Nat \ {0}
  /\ ServesAgain \in BOOLEAN
  /\ Arrivals \in Nat /\ Disruptions \in Nat

VARIABLES
  phase,          \* of the loop's task: "running" or "ended"
  acceptClosed,   \* accept_closed
  inbound,        \* HashMap<PeerAddress, ServedPeer>; generation 0 is no entry
  nextGeneration, \* next_generation, numbered from 1 here
  recovering,     \* the loop is between served_service() and advertise()
  acceptOpen,     \* the consumer still holds the stream serve returned
  channels,       \* the DatagramChannels that were handed over
  releaseQ,       \* release_rx
  served,         \* served_peers: per central its session, 0 when none
  nextSession,    \* next_session
  gone,           \* served centrals that left, their watcher not done yet
  unwatched,      \* served centrals whose disconnect watcher was aborted
  events,         \* what the loop has still to read of the broadcast
  missed,         \* the broadcast overran the loop: the next item is Lagged
  registered,     \* BlueZ serves the GATT application
  announcing,     \* watch_notify_sessions runs, which announces subscribers
  servedSpec,     \* served_service is Some
  powered,        \* the radio
  stopped,        \* stop_serving was the application's last word
  arrivals,       \* what is left of Arrivals
  fuel            \* what is left of Disruptions

loopVars     == <<phase, acceptClosed, inbound, nextGeneration, recovering>>
consumerVars == <<acceptOpen, channels, releaseQ>>
sessionVars  == <<served, nextSession, gone, unwatched>>
eventVars    == <<events, missed>>
serverVars   == <<registered, announcing, servedSpec>>
envVars      == <<powered, stopped, arrivals, fuel>>
vars == <<loopVars, consumerVars, sessionVars, eventVars, serverVars, envVars>>

NoSession == 0
NoEntry   == [session |-> NoSession, gen |-> 0]

Event(type, p, s) == [type |-> type, peer |-> p, session |-> s]
RadioEvent(type)  == [type |-> type]

Init ==
  /\ phase = "running" /\ acceptClosed = FALSE /\ recovering = FALSE
  /\ inbound = [p \in Peers |-> NoEntry]
  /\ nextGeneration = 1
  /\ acceptOpen = TRUE /\ channels = {} /\ releaseQ = <<>>
  /\ served = [p \in Peers |-> NoSession]
  /\ nextSession = 1
  /\ gone = {} /\ unwatched = {}
  /\ events = <<>> /\ missed = FALSE
  /\ registered = TRUE /\ announcing = TRUE /\ servedSpec = TRUE  \* serve's own advertise
  /\ powered = TRUE /\ stopped = FALSE
  /\ arrivals = Arrivals /\ fuel = Disruptions

-----------------------------------------------------------------------------
(* The slot and the channels *)

Holders(inb) == {p \in Peers : inb[p].gen # 0}
Held(p) == p \in Holders(inbound)

Freed(inb, ps) == [p \in Peers |-> IF p \in ps THEN NoEntry ELSE inb[p]]
GensOf(ps) == {inbound[p].gen : p \in ps \cap Holders(inbound)}

\* A channel that was dropped and cannot send any more is forgotten.
Remembered(cs) == {c \in cs : c.place # "dropped" \/ c.active}

\* (fault) a freed channel keeps its active flag.
LeavesSending(cs, gens) == Remembered(cs)

\* active.store(false): what the channel sends from now on fails.
Deactivated(cs, gens) ==
  Remembered({[c EXCEPT !.active = @ /\ c.gen \notin gens] : c \in cs})

\* OverflowSignal::raise: the receiver's next recv() returns an error.
Raised(cs, gens) == {[c EXCEPT !.told = @ \/ c.gen \in gens] : c \in cs}
Holed(cs, gens)  == {[c EXCEPT !.hole = @ \/ c.gen \in gens] : c \in cs}

\* release_peer: only the channel that holds the slot may free it.
Releases(r, p) == r.peer = p /\ Held(p) /\ inbound[p].gen = r.gen
\* (fault) a release frees whatever its address holds now.
ReleasedByAddress(rs) ==
  {p \in Peers : \E i \in DOMAIN rs : rs[i].peer = p /\ Held(p)}

ReleasedBy(rs) == {p \in Peers : \E i \in DOMAIN rs : Releases(rs[i], p)}
EvictedBy(rs)  ==
  {p \in Peers : \E i \in DOMAIN rs : Releases(rs[i], p) /\ ~rs[i].keep}

\* (fault) the task ends although channels are served.
EndsOnceClosed(inb) == phase' = IF acceptClosed' THEN "ended" ELSE phase

\* The task returns once nothing is accepted and nobody is served.
EndsOnceEmpty(inb) ==
  phase' = IF acceptClosed' /\ Holders(inb) = {} THEN "ended" ELSE phase

-----------------------------------------------------------------------------
(* The driver, as the loop and the consumer call it *)

Target(p, s) == [peer |-> p, session |-> s]
SlotTargets(ps) == {Target(p, inbound[p].session) : p \in ps}

\* disconnect_peer: only the session it names, and BlueZ may fail.
Disconnects(targets) ==
  \E cut \in SUBSET {t \in targets : served[t.peer] = t.session} :
    gone' = gone \cup {t.peer : t \in cut}

\* (fault) the stream of events is not bounded.
PublishesUnbounded(es) ==
  events' = events \o es /\ UNCHANGED <<missed, channels>>

\* A send into the broadcast: the oldest events give way, and one that was an
\* acknowledged write leaves a hole in the channel it was meant for.
Publishes(es) ==
  LET all  == events \o es
      over == IF Len(all) > EventCapacity THEN Len(all) - EventCapacity ELSE 0
      lost == {all[i] : i \in 1..over}
      holes == {p \in Peers : \E e \in lost : e.type = "Written" /\ e.peer = p}
  IN /\ events' = SubSeq(all, over + 1, Len(all))
     /\ missed' = (missed \/ over > 0)
     /\ channels' = Holed(channels, GensOf(holes))

\* (fault) served centrals are forgotten unannounced.
SilentlyReleased ==
  /\ served' = [p \in Peers |-> NoSession]
  /\ gone' = {} /\ unwatched' = {}
  /\ UNCHANGED <<nextSession, eventVars, channels>>

\* release_served_peers and its twin in advertise: announced, then forgotten.
ReleaseServed ==
  LET all == {p \in Peers : served[p] # NoSession}
  IN /\ \E order \in SetToSeqs(all) :
          Publishes([i \in DOMAIN order |->
                       Event("Disconnected", order[i], NoSession)])
     /\ served' = [p \in Peers |-> NoSession]
     /\ gone' = {} /\ unwatched' = {}
     /\ UNCHANGED nextSession

\* Driver::advertise. It starts by forgetting served_service and aborting the
\* previous server's watchers; BlueZ may then refuse the application, or
\* serve it and refuse the advertisement.
ApplicationRejected ==
  /\ servedSpec' = FALSE
  /\ announcing' = FALSE
  /\ unwatched' = {p \in Peers : served[p] # NoSession}
  /\ UNCHANGED <<registered, served, nextSession, gone, eventVars, channels>>

ApplicationServed(adAccepted) ==
  /\ powered
  /\ ReleaseServed
  /\ registered' = TRUE /\ announcing' = TRUE
  /\ servedSpec' = adAccepted

Advertise ==
  \/ ApplicationRejected
  \/ \E adAccepted \in BOOLEAN : ApplicationServed(adAccepted)

-----------------------------------------------------------------------------
(* The loop *)

Turn == phase = "running" /\ ~recovering

\* channels_tx.closed(): the consumer dropped the accept stream.
LoopClosed ==
  /\ Turn /\ ~acceptClosed /\ ~acceptOpen
  /\ acceptClosed' = TRUE
  /\ EndsOnceEmpty(inbound)
  /\ UNCHANGED <<inbound, nextGeneration, recovering, consumerVars,
                 sessionVars, eventVars, serverVars, envVars>>

\* release_rx.recv().
LoopRelease ==
  /\ Turn /\ releaseQ # <<>>
  /\ LET rs == <<Head(releaseQ)>>
     IN /\ inbound' = Freed(inbound, ReleasedBy(rs))
        /\ channels' = Deactivated(channels, GensOf(ReleasedBy(rs)))
        /\ Disconnects(SlotTargets(EvictedBy(rs)))
  /\ releaseQ' = Tail(releaseQ)
  /\ UNCHANGED acceptClosed
  /\ EndsOnceEmpty(inbound')
  /\ UNCHANGED <<nextGeneration, recovering, acceptOpen, served, nextSession,
                 unwatched, eventVars, serverVars, envVars>>

\* GattEvent::Connected of a central. The queued releases come first. A
\* central that is served already announces itself before every write; a loop
\* that is closing takes nobody; a second central is refused; and a channel
\* the accept queue has no room for is dropped on the spot, which queues its
\* own release.
Drained == Freed(inbound, ReleasedBy(releaseQ))

Quiet(p) == Drained[p].gen # 0 \/ acceptClosed
\* (fault) a second central is served as well.
ServesEverybody(p) == FALSE

Refused(p) == ~Quiet(p) /\ Holders(Drained) # {}
Queued == {c \in channels : c.place = "queued"}
Full == Cardinality(Queued) >= AcceptQueueDepth

NewChannel(p, s) ==
  [gen |-> nextGeneration, peer |-> p, session |-> s, active |-> TRUE,
   hole |-> FALSE, told |-> FALSE, keep |-> FALSE, place |-> "queued"]

HandsOver(p, s, cs) ==
  \/ /\ acceptOpen /\ ~Full
     /\ channels' = cs \cup {NewChannel(p, s)}
     /\ inbound' = [Drained EXCEPT ![p] = [session |-> s, gen |-> nextGeneration]]
     /\ releaseQ' = <<>>
     /\ Disconnects(SlotTargets(EvictedBy(releaseQ)))
     /\ UNCHANGED <<phase, acceptClosed>>
  \/ /\ acceptOpen /\ Full
     /\ channels' = cs
     /\ inbound' = Drained
     /\ releaseQ' = <<[peer |-> p, gen |-> nextGeneration, keep |-> FALSE]>>
     /\ Disconnects(SlotTargets(EvictedBy(releaseQ)) \cup {Target(p, s)})
     /\ UNCHANGED <<phase, acceptClosed>>
  \/ /\ ~acceptOpen
     /\ channels' = cs
     /\ inbound' = Drained
     /\ releaseQ' = <<[peer |-> p, gen |-> nextGeneration, keep |-> FALSE]>>
     /\ Disconnects(SlotTargets(EvictedBy(releaseQ)))
     /\ acceptClosed' = TRUE
     /\ EndsOnceEmpty(Drained)

OnConnected(p, s) ==
  LET cs == Deactivated(channels, GensOf(ReleasedBy(releaseQ)))
      refused == IF Refused(p) THEN {Target(p, s)} ELSE {}
  IN /\ \/ /\ Quiet(p) \/ Refused(p)
           /\ inbound' = Drained
           /\ channels' = cs
           /\ releaseQ' = <<>>
           /\ Disconnects(SlotTargets(EvictedBy(releaseQ)) \cup refused)
           /\ UNCHANGED <<phase, acceptClosed, nextGeneration>>
        \/ /\ ~Quiet(p) /\ ~Refused(p)
           /\ HandsOver(p, s, cs)
           /\ nextGeneration' = nextGeneration + 1
     /\ UNCHANGED recovering

\* (fault) a fragment that found no room is only dropped.
LosesWriteSilently(cs, gens) == Holed(cs, gens)

\* GattEvent::CharacteristicWritten: forwarded to the served central's
\* reassembler, or, once its full queue has outlasted the backpressure, lost
\* and reported. A write of anybody else goes nowhere.
LosesWrite(cs, gens) == Raised(Holed(cs, gens), gens)

OnWritten(p) ==
  /\ \/ UNCHANGED channels
     \/ /\ \E c \in channels : c.gen \in GensOf({p}) /\ c.place # "dropped"
        /\ channels' = LosesWrite(channels, GensOf({p}))
  /\ UNCHANGED <<phase, acceptClosed, inbound, nextGeneration, recovering,
                 releaseQ, gone>>

\* GattEvent::Disconnected of a central; one of an earlier session is stale.
Stale(p, s) ==
  /\ Held(p) /\ s # NoSession /\ inbound[p].session # NoSession
  /\ s # inbound[p].session

OnDisconnected(p, s) ==
  /\ UNCHANGED <<acceptClosed, nextGeneration, recovering, releaseQ, gone>>
  /\ \/ /\ Stale(p, s)
        /\ UNCHANGED <<inbound, channels, phase>>
     \/ /\ ~Stale(p, s)
        /\ inbound' = Freed(inbound, {p})
        /\ channels' = Deactivated(channels, GensOf({p}))
        /\ EndsOnceEmpty(inbound')

\* (fault) a lag is a payload loss and ends no session.
LagIsLossOnly ==
  /\ channels' = Raised(channels, GensOf(Peers))
  /\ UNCHANGED <<phase, acceptClosed, inbound, nextGeneration, recovering,
                 releaseQ, gone>>

\* GattEvent::Lagged: a disconnect may be among what was missed.
OnLagged ==
  /\ inbound' = Freed(inbound, Peers)
  /\ channels' = Deactivated(Raised(channels, GensOf(Peers)), GensOf(Peers))
  /\ Disconnects(SlotTargets(Holders(inbound)))
  /\ UNCHANGED acceptClosed
  /\ EndsOnceEmpty(inbound')
  /\ UNCHANGED <<nextGeneration, recovering, releaseQ>>

\* GattEvent::RadioChanged.
OnRadioOff ==
  /\ inbound' = Freed(inbound, Peers)
  /\ channels' = Deactivated(channels, GensOf(Peers))
  /\ UNCHANGED acceptClosed
  /\ EndsOnceEmpty(inbound')
  /\ UNCHANGED <<nextGeneration, recovering, releaseQ, gone>>

OnRadioOn ==
  /\ recovering' = (~acceptClosed /\ servedSpec)
  /\ UNCHANGED <<phase, acceptClosed, inbound, nextGeneration, channels,
                 releaseQ, gone>>

Handles(e) ==
  \/ e.type = "Connected"    /\ OnConnected(e.peer, e.session)
  \/ e.type = "Written"      /\ OnWritten(e.peer)
  \/ e.type = "Disconnected" /\ OnDisconnected(e.peer, e.session)
  \/ e.type = "RadioOff"     /\ OnRadioOff
  \/ e.type = "RadioOn"      /\ OnRadioOn

\* events.next().
LoopReads ==
  /\ Turn
  /\ \/ /\ missed
        /\ missed' = FALSE /\ UNCHANGED events
        /\ OnLagged
     \/ /\ ~missed /\ events # <<>>
        /\ events' = Tail(events) /\ UNCHANGED missed
        /\ Handles(Head(events))
  /\ UNCHANGED <<acceptOpen, served, nextSession, unwatched, serverVars, envVars>>

\* The rest of the RadioChanged{On} arm: driver.advertise(spec).await.
Recover ==
  /\ recovering /\ recovering' = FALSE
  /\ Advertise
  /\ UNCHANGED <<phase, acceptClosed, inbound, nextGeneration, acceptOpen,
                 releaseQ, envVars>>

-----------------------------------------------------------------------------
(* The consumer *)

Moved(c, d) == channels' = Remembered((channels \ {c}) \cup {d})

Dropped(c) ==
  [c EXCEPT !.place = "dropped", !.hole = FALSE, !.told = FALSE, !.keep = FALSE]

ReleaseOf(c) == [peer |-> c.peer, gen |-> c.gen, keep |-> c.keep]

\* The next channel of the stream serve returned.
Accept(c) ==
  /\ acceptOpen
  /\ c \in Queued /\ \A d \in Queued : c.gen <= d.gen
  /\ Moved(c, [c EXCEPT !.place = "held"])
  /\ UNCHANGED <<loopVars, acceptOpen, releaseQ, sessionVars, eventVars,
                 serverVars, envVars>>

\* DatagramChannel::drop. A DatagramSender may outlive it.
DropChannel(c) ==
  /\ c.place = "held"
  /\ Moved(c, Dropped(c))
  /\ releaseQ' = Append(releaseQ, ReleaseOf(c))
  /\ UNCHANGED <<loopVars, acceptOpen, sessionVars, eventVars, serverVars,
                 envVars>>

\* DatagramChannel::close in the peripheral role: keep_peer.
CloseChannel(c) ==
  /\ c.place = "held"
  /\ Moved(c, [c EXCEPT !.keep = TRUE])
  /\ UNCHANGED <<loopVars, acceptOpen, releaseQ, sessionVars, eventVars,
                 serverVars, envVars>>

\* DatagramChannel::disconnect in the peripheral role.
DisconnectChannel(c) ==
  /\ c.place = "held"
  /\ Moved(c, [c EXCEPT !.active = FALSE])
  /\ Disconnects({Target(c.peer, c.session)})
  /\ UNCHANGED <<loopVars, acceptOpen, releaseQ, served, nextSession,
                 unwatched, eventVars, serverVars, envVars>>

\* (fault) a channel nobody accepted has no release.
StreamDropsQueued ==
  /\ acceptOpen /\ acceptOpen' = FALSE
  /\ channels' = Remembered((channels \ Queued) \cup {Dropped(c) : c \in Queued})
  /\ UNCHANGED <<loopVars, releaseQ, sessionVars, eventVars, serverVars, envVars>>

\* The stream is dropped, and with it every channel nobody accepted.
CloseStream ==
  /\ acceptOpen /\ acceptOpen' = FALSE
  /\ channels' = Remembered((channels \ Queued) \cup {Dropped(c) : c \in Queued})
  /\ \E order \in SetToSeqs(Queued) :
       releaseQ' = releaseQ \o [i \in DOMAIN order |-> ReleaseOf(order[i])]
  /\ UNCHANGED <<loopVars, sessionVars, eventVars, serverVars, envVars>>

-----------------------------------------------------------------------------
(* The centrals, the watchers, the radio and the application *)

Arrives == arrivals > 0 /\ arrivals' = arrivals - 1 /\ UNCHANGED fuel
Spends  == fuel > 0 /\ fuel' = fuel - 1 /\ UNCHANGED arrivals

SessionOf(p) == IF served[p] = NoSession THEN nextSession ELSE served[p]

Admits(p) ==
  /\ served' = [served EXCEPT ![p] = SessionOf(p)]
  /\ nextSession' = IF served[p] = NoSession THEN nextSession + 1 ELSE nextSession

\* watch_notify_sessions: a subscription announces a central it did not know.
CentralSubscribes(p) ==
  /\ Arrives /\ registered /\ powered
  /\ announcing /\ served[p] = NoSession
  /\ Admits(p)
  /\ Publishes(<<Event("Connected", p, SessionOf(p))>>)
  /\ UNCHANGED <<loopVars, acceptOpen, releaseQ, gone, unwatched, serverVars,
                 powered, stopped>>

\* The write handler: a central is announced ahead of every write.
CentralWrites(p) ==
  /\ Arrives /\ registered /\ powered
  /\ Admits(p)
  /\ Publishes(<<Event("Connected", p, SessionOf(p)),
                 Event("Written", p, SessionOf(p))>>)
  /\ UNCHANGED <<loopVars, acceptOpen, releaseQ, gone, unwatched, serverVars,
                 powered, stopped>>

\* The link drops, or the central unsubscribes.
CentralLeaves(p) ==
  /\ Spends
  /\ served[p] # NoSession
  /\ gone' = gone \cup {p}
  /\ UNCHANGED <<loopVars, consumerVars, served, nextSession, unwatched,
                 eventVars, serverVars, powered, stopped>>

\* spawn_peripheral_disconnect_watch.
WatcherReports(p) ==
  /\ p \in gone \ unwatched
  /\ gone' = gone \ {p}
  /\ served' = [served EXCEPT ![p] = NoSession]
  /\ Publishes(<<Event("Disconnected", p, served[p])>>)
  /\ UNCHANGED <<loopVars, acceptOpen, releaseQ, nextSession, unwatched,
                 serverVars, envVars>>

\* The adapter powers down or bluetoothd dies: links and registration go.
RadioGoesOff ==
  /\ Spends /\ powered /\ powered' = FALSE
  /\ registered' = FALSE /\ announcing' = FALSE
  /\ gone' = {p \in Peers : served[p] # NoSession}
  /\ Publishes(<<RadioEvent("RadioOff")>>)
  /\ UNCHANGED <<loopVars, acceptOpen, releaseQ, served, nextSession,
                 unwatched, servedSpec, stopped>>

RadioComesBack ==
  /\ Spends /\ ~powered /\ powered' = TRUE
  /\ Publishes(<<RadioEvent("RadioOn")>>)
  /\ UNCHANGED <<loopVars, acceptOpen, releaseQ, sessionVars, serverVars,
                 stopped>>

\* stop_serving, that is Driver::stop_advertising.
StopServing ==
  /\ Spends
  /\ ReleaseServed
  /\ registered' = FALSE /\ announcing' = FALSE /\ servedSpec' = FALSE
  /\ stopped' = TRUE
  /\ UNCHANGED <<loopVars, acceptOpen, releaseQ, powered>>

\* Another serve on the same driver; its own loop is not part of the model.
ServeAgain ==
  /\ ServesAgain /\ Spends
  /\ Advertise
  /\ stopped' = FALSE
  /\ UNCHANGED <<loopVars, acceptOpen, releaseQ, powered>>

-----------------------------------------------------------------------------
Loop == LoopClosed \/ LoopRelease \/ LoopReads \/ Recover

Consumer ==
  \/ CloseStream
  \/ \E c \in channels :
       Accept(c) \/ DropChannel(c) \/ CloseChannel(c) \/ DisconnectChannel(c)

Environment ==
  \/ \E p \in Peers : \/ CentralSubscribes(p) \/ CentralWrites(p)
                      \/ CentralLeaves(p) \/ WatcherReports(p)
  \/ RadioGoesOff \/ RadioComesBack \/ StopServing \/ ServeAgain

Next == Loop \/ Consumer \/ Environment

Spec == Init /\ [][Next]_vars

\* The runtime polls the task and wakes it for each ready branch, the driver
\* answers advertise, and every watcher sees the change it waits for. What
\* centrals, the radio and the consumer do is owed to nobody.
Fairness ==
  /\ WF_vars(LoopClosed) /\ WF_vars(LoopRelease)
  /\ WF_vars(LoopReads) /\ WF_vars(Recover)
  /\ \A p \in Peers : WF_vars(WatcherReports(p))

FairSpec == Spec /\ Fairness
-----------------------------------------------------------------------------
(* Properties *)

Slots    == [session : Nat, gen : Nat]
Channels == [gen : Nat \ {0}, peer : Peers, session : Nat, active : BOOLEAN,
             hole : BOOLEAN, told : BOOLEAN, keep : BOOLEAN,
             place : {"queued", "held", "dropped"}]
Requests == [peer : Peers, gen : Nat, keep : BOOLEAN]
Events   ==
  [type : {"Connected", "Written", "Disconnected"}, peer : Peers, session : Nat]
    \cup [type : {"RadioOff", "RadioOn"}]

\* Every variable keeps the shape serve_driver and LinuxDriver declare, and
\* every generation and session that is about was minted.
TypeOK ==
  /\ phase \in {"running", "ended"}
  /\ acceptClosed \in BOOLEAN /\ recovering \in BOOLEAN /\ acceptOpen \in BOOLEAN
  /\ nextGeneration \in Nat \ {0} /\ nextSession \in Nat \ {0}
  /\ inbound \in [Peers -> Slots]
  /\ \A p \in Peers : inbound[p].gen < nextGeneration
  /\ channels \subseteq Channels /\ \A c \in channels : c.gen < nextGeneration
  /\ releaseQ \in Seq(Requests)
  /\ \A i \in DOMAIN releaseQ : releaseQ[i].gen < nextGeneration
  /\ served \in [Peers -> Nat] /\ \A p \in Peers : served[p] < nextSession
  /\ gone \subseteq Peers /\ unwatched \subseteq Peers
  /\ events \in Seq(Events) /\ Len(events) <= EventCapacity /\ missed \in BOOLEAN
  /\ {registered, announcing, servedSpec, powered, stopped} \subseteq BOOLEAN
  /\ arrivals \in 0..Arrivals /\ fuel \in 0..Disruptions

\* Notifications are a broadcast, so two channels that may both send would mix
\* their fragments in every central's stream (the doc of serve): at most one
\* channel that was ever handed over still sends, whoever holds it.
OneSender == \A c, d \in channels : c.active /\ d.active => c = d

\* A channel that may send is the one in the slot: a channel whose central was
\* evicted, lost, replaced or swept away by the radio is silenced in the same
\* step, even if the consumer keeps it or a sender of it.
OnlyTheSlotSends ==
  \A c \in channels : c.active => inbound[c.peer].gen = c.gen

\* The slot is never held by a channel nobody has and nobody will release: it
\* is queued or held, or its release is on its way (DatagramChannel::drop).
SlotHasOwner ==
  \A p \in Peers : Held(p) =>
    \/ \E c \in channels : c.gen = inbound[p].gen /\ c.place # "dropped"
    \/ \E r \in ToSet(releaseQ) : Releases(r, p)

\* What tells the loop that the session s of the central p is over.
IsNews(e, p, s) ==
  \/ e.type = "RadioOff"
  \/ /\ e.type = "Disconnected" /\ e.peer = p
     /\ e.session \in {NoSession, s}

\* The slot is never held for a session the driver has ended unless the news
\* is still ahead of the loop: its Disconnected, the radio's loss, or a lag.
LossIsAhead ==
  \A p \in Peers : Held(p) /\ served[p] # inbound[p].session =>
    missed \/ \E e \in ToSet(events) : IsNews(e, p, inbound[p].session)

\* A write the central saw acknowledged and its channel never got is reported
\* to the receiver, or will be by the Lagged the loop reads next.
GapIsReported == \A c \in channels : c.hole => c.told \/ missed

\* The task does not end under a channel that still counts on it.
LoopOutlivesChannels ==
  phase = "ended" => Holders(inbound) = {} /\ \A c \in channels : ~c.active

\* A served central loses its slot only for a cause that is about it: the
\* release of the very channel that holds it, a disconnect that names its
\* session or none, a lag, or the loss of the radio.
SlotLeftForCause ==
  [][\A p \in Peers : Held(p) /\ inbound'[p].gen # inbound[p].gen =>
       \/ \E r \in ToSet(releaseQ) : Releases(r, p)
       \/ missed
       \/ events # <<>> /\ IsNews(Head(events), p, inbound[p].session)]_vars

\* What the proofs need beside these properties: one slot and one channel per
\* generation, the channel in a slot is its central's, a release is queued
\* after its channel is gone, and a hole nobody was told of is in a slot.
OneHolder  == \A p, q \in Peers : Held(p) /\ Held(q) => p = q
GensDiffer == \A c, d \in channels : c.gen = d.gen => c = d
SlotIsItsPeers ==
  \A p \in Peers, c \in channels : inbound[p].gen = c.gen => c.peer = p
ReleasedAreGone ==
  \A i \in DOMAIN releaseQ, c \in channels :
    releaseQ[i].gen = c.gen => c.place = "dropped"
GapIsInSlot ==
  \A c \in channels : c.hole =>
    c.told \/ (missed /\ \E p \in Peers : inbound[p].gen = c.gen)
EndsUnheld == phase = "ended" => Holders(inbound) = {}

SlotCore ==
  /\ OneHolder /\ GensDiffer /\ SlotIsItsPeers /\ OnlyTheSlotSends
  /\ ReleasedAreGone /\ SlotHasOwner
SlotInv  == SlotCore /\ GapIsInSlot /\ EndsUnheld

\* The driver's side: a session is never 0, and behind a Connected that is
\* still queued comes the news of what ended its session, if something did.
SessionsAreReal ==
  /\ \A p \in Peers : Held(p) => inbound[p].session # NoSession
  /\ \A i \in DOMAIN events :
       events[i].type = "Connected" => events[i].session # NoSession
NewsFollows ==
  \A i \in DOMAIN events : events[i].type = "Connected" =>
    \/ served[events[i].peer] = events[i].session
    \/ \E j \in DOMAIN events :
         j > i /\ IsNews(events[j], events[i].peer, events[i].session)

NewsInv == SessionsAreReal /\ NewsFollows /\ LossIsAhead

DInv == TypeOK /\ SlotInv /\ NewsInv

\* The slot comes free: a channel that was dropped, or whose central left with
\* its watcher still there, or whose session the driver ended, does not hold it
\* for ever.
Orphaned(p) ==
  \/ \E r \in ToSet(releaseQ) : Releases(r, p)
  \/ p \in gone \ unwatched
  \/ served[p] # inbound[p].session

SlotComesFree == \A p \in Peers : Held(p) /\ Orphaned(p) ~> ~(Held(p) /\ Orphaned(p))

=============================================================================
