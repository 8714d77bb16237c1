---------------------------- MODULE DialledLink ----------------------------
(***************************************************************************)
(* Who owns a connection this device dialled, from the dial to the last    *)
(* disconnect.  Two kinds of owner: a DatagramChannel (connect_driver, its *)
(* set-up guard, its link-loss watch, close, drop and the senders that     *)
(* share its sink) and a Connection (Central::connect, handle.rs).  Dials  *)
(* follow one another to the same address, so each watch meets the events  *)
(* of the others' links; a driver session tells them apart.                *)
(***************************************************************************)
EXTENDS Naturals, Sequences, FiniteSets

CONSTANTS
    MaxDials,       \* bound: dials of the address, one after the other
    EventCap,       \* capacity of a subscriber's event queue
    MaxRadioLosses, \* bound
    MaxLeaves       \* bound: how often the peer leaves our server

ASSUME DialledAssumption ==
    /\ MaxDials \in Nat /\ EventCap \in Nat \ {0} /\ {MaxRadioLosses, MaxLeaves} \subseteq Nat

Dials == 1..MaxDials

VARIABLES
    link,       \* per session, "none", "up", "closing" or "down"
    owed,       \* the sessions whose Disconnected is still to be published
    kind,       \* per dial, "channel" or "handle"
    stage,      \* per dial, "unused", "dialling", "setup", "held" or "gone"
    conn,       \* where its GattConnection is: "none", "guard", "sink", "task"
    lock,       \* who holds its sink: "free", "send" or "close"
    dropWaits,  \* the dials whose Drop left a task waiting for the sink
    queue,      \* per dial, its subscriber's events
    missed,     \* the dials whose queue overran
    watching,   \* the dials whose watch runs
    ended,      \* the dials whose recv or state has ended
    radioLost,  \* how often the radio went
    left        \* how often the peer left our server

owner == <<kind, stage>>
sink == <<conn, lock, dropWaits>>
watch == <<watching, ended>>
radio == <<radioLost, left>>
vars == <<link, owed, owner, sink, queue, missed, watch, radio>>

-----------------------------------------------------------------------------
(* Events.  role is that of this device.                                   *)

Disconnected(role, s) == [type |-> "Disconnected", role |-> role, session |-> s]
RadioOff == [type |-> "RadioOff"]
Lagged == [type |-> "Lagged"]

Subscribed(d) == stage[d] \in {"dialling", "setup"} \/ d \in watching

\* A broadcast: a subscriber that is full loses its oldest event and is told
\* so in its place.
Enqueued(q, event) ==
    IF Len(q) < EventCap THEN Append(q, event)
    ELSE <<Lagged>> \o SubSeq(q, 3, Len(q)) \o <<event>>

Publish(event) ==
    /\ queue' = [d \in Dials |-> IF Subscribed(d) THEN Enqueued(queue[d], event) ELSE queue[d]]
    /\ missed' = missed \cup {d \in Dials : Subscribed(d) /\ Len(queue[d]) >= EventCap}

Unsubscribes(d) == queue' = [queue EXCEPT ![d] = <<>>]

\* (fault) The address alone decides.
LossOfPeer(d, event) == event.type = "Disconnected" /\ event.role = "Central"

\* A loss of this very connection, not of another one to the same address and
\* not of the peer's link to our server.
LossOf(d, event) ==
    event.type = "Disconnected" /\ event.role = "Central" /\ event.session = d

\* What ends the watch of each kind: a lagged stream may have lost the
\* Disconnected and ends a channel; a handle also ends with the radio.
EndsWatch(d, event) ==
    \/ LossOf(d, event)
    \/ kind[d] = "channel" /\ event = Lagged
    \/ kind[d] = "handle" /\ event = RadioOff

-----------------------------------------------------------------------------
Init ==
    /\ link = [s \in Dials |-> "none"] /\ owed = {}
    /\ kind = [d \in Dials |-> "channel"] /\ stage = [d \in Dials |-> "unused"]
    /\ conn = [d \in Dials |-> "none"] /\ lock = [d \in Dials |-> "free"] /\ dropWaits = {}
    /\ queue = [d \in Dials |-> <<>>] /\ missed = {}
    /\ watching = {} /\ ended = {}
    /\ radioLost = 0 /\ left = 0

(* Dialling.  Both kinds subscribe to the events before they connect.       *)

Dial(d, k) ==
    /\ stage[d] = "unused" /\ \A e \in 1..d - 1 : stage[e] # "unused"
    /\ stage' = [stage EXCEPT ![d] = "dialling"]
    /\ kind' = [kind EXCEPT ![d] = k]
    /\ UNCHANGED <<link, owed, sink, queue, missed, watch, radio>>

\* The driver has a link: a channel is set up under its guard, a handle is
\* ready.  While a link to the address is open the driver refuses another.
ConnectSucceeds(d) ==
    /\ stage[d] = "dialling"
    /\ \A s \in Dials : link[s] \notin {"up", "closing"}
    /\ link' = [link EXCEPT ![d] = "up"]
    /\ stage' = [stage EXCEPT ![d] = IF kind[d] = "channel" THEN "setup" ELSE "held"]
    /\ conn' = [conn EXCEPT ![d] = IF kind[d] = "channel" THEN "guard" ELSE "sink"]
    /\ watching' = IF kind[d] = "channel" THEN watching ELSE watching \cup {d}
    /\ UNCHANGED <<owed, kind, lock, dropWaits, queue, missed, ended, radio>>

\* The driver refuses, or the dial is dropped and the driver cleans up.
ConnectFails(d) ==
    /\ stage[d] = "dialling"
    /\ stage' = [stage EXCEPT ![d] = "gone"] /\ Unsubscribes(d)
    /\ UNCHANGED <<link, owed, kind, sink, missed, watch, radio>>

\* (fault) The events are subscribed to once the channel is set up.
SubscribesLate(d) ==
    /\ stage[d] = "setup"
    /\ stage' = [stage EXCEPT ![d] = "held"] /\ Unsubscribes(d)
    /\ conn' = [conn EXCEPT ![d] = "sink"]
    /\ watching' = watching \cup {d}
    /\ UNCHANGED <<link, owed, kind, lock, dropWaits, missed, ended, radio>>

\* Subscribed and measured: the guard gives the connection to the sink.
SetupDone(d) ==
    /\ stage[d] = "setup"
    /\ stage' = [stage EXCEPT ![d] = "held"]
    /\ conn' = [conn EXCEPT ![d] = "sink"]
    /\ watching' = watching \cup {d}
    /\ UNCHANGED <<link, owed, kind, lock, dropWaits, queue, missed, ended, radio>>

\* It failed or was cancelled: the guard's Drop hands it to a task.
SetupFails(d) ==
    /\ stage[d] = "setup"
    /\ stage' = [stage EXCEPT ![d] = "gone"] /\ Unsubscribes(d)
    /\ conn' = [conn EXCEPT ![d] = "task"]
    /\ UNCHANGED <<link, owed, kind, lock, dropWaits, missed, watch, radio>>

-----------------------------------------------------------------------------
(* The sink.                                                               *)

\* DatagramSender::send holds the sink from its first fragment to its last.
SendBegins(d) ==
    /\ kind[d] = "channel" /\ stage[d] \in {"held", "gone"}
    /\ conn[d] = "sink" /\ lock[d] = "free"
    /\ lock' = [lock EXCEPT ![d] = "send"]
    /\ UNCHANGED <<link, owed, owner, conn, dropWaits, queue, missed, watch, radio>>

SendEnds(d) ==
    /\ lock[d] = "send"
    /\ lock' = [lock EXCEPT ![d] = "free"]
    /\ UNCHANGED <<link, owed, owner, conn, dropWaits, queue, missed, watch, radio>>

\* GattConnection::disconnect asks the platform, which lets go in its time.
Asks(d) == link' = [link EXCEPT ![d] = IF @ = "up" THEN "closing" ELSE @]

\* close and disconnect take the connection, so it is disconnected once.
Close(d) ==
    /\ stage[d] = "held" /\ kind[d] = "channel"
    /\ conn[d] = "sink" /\ lock[d] = "free"
    /\ Asks(d)
    /\ conn' = [conn EXCEPT ![d] = "none"]
    /\ lock' = [lock EXCEPT ![d] = "close"]
    /\ UNCHANGED <<owed, owner, dropWaits, queue, missed, watch, radio>>

\* It returned, or its caller stopped waiting.
CloseEnds(d) ==
    /\ lock[d] = "close"
    /\ lock' = [lock EXCEPT ![d] = "free"]
    /\ UNCHANGED <<link, owed, owner, conn, dropWaits, queue, missed, watch, radio>>

\* Connection::disconnect: ended whatever the platform answered.
Disconnect(d) ==
    /\ stage[d] = "held" /\ kind[d] = "handle" /\ conn[d] = "sink"
    /\ Asks(d)
    /\ conn' = [conn EXCEPT ![d] = "none"]
    /\ ended' = ended \cup {d}
    /\ UNCHANGED <<owed, owner, lock, dropWaits, queue, missed, watching, radio>>

\* (fault) A Drop that finds the sink locked gives up on the connection.
DropsUnlessBusy(d) ==
    /\ stage[d] = "held" /\ lock[d] # "close"
    /\ stage' = [stage EXCEPT ![d] = "gone"] /\ Unsubscribes(d)
    /\ conn' = [conn EXCEPT ![d] = IF @ = "sink" /\ lock[d] = "free" THEN "task" ELSE @]
    /\ dropWaits' = dropWaits
    /\ watching' = watching \ {d} /\ ended' = ended \cup {d}
    /\ UNCHANGED <<link, owed, kind, lock, missed, radio>>

\* Drop aborts the watch and hands the connection to a task, at once or, while
\* a sender holds the sink, once it is free.
DropOwner(d) ==
    /\ stage[d] = "held" /\ lock[d] # "close"
    /\ stage' = [stage EXCEPT ![d] = "gone"] /\ Unsubscribes(d)
    /\ conn' = [conn EXCEPT ![d] = IF @ = "sink" /\ lock[d] = "free" THEN "task" ELSE @]
    /\ dropWaits' = IF lock[d] = "send" THEN dropWaits \cup {d} ELSE dropWaits
    /\ watching' = watching \ {d} /\ ended' = ended \cup {d}
    /\ UNCHANGED <<link, owed, kind, lock, missed, radio>>

DropTaskTakes(d) ==
    /\ d \in dropWaits /\ lock[d] = "free"
    /\ dropWaits' = dropWaits \ {d}
    /\ conn' = [conn EXCEPT ![d] = IF @ = "sink" THEN "task" ELSE @]
    /\ UNCHANGED <<link, owed, owner, lock, queue, missed, watch, radio>>

TaskDisconnects(d) ==
    /\ conn[d] = "task"
    /\ Asks(d)
    /\ conn' = [conn EXCEPT ![d] = "none"]
    /\ UNCHANGED <<owed, owner, lock, dropWaits, queue, missed, watch, radio>>

-----------------------------------------------------------------------------
(* The platform, and the watches.                                          *)

LinkCloses(s) ==
    /\ link[s] = "closing"
    /\ link' = [link EXCEPT ![s] = "down"]
    /\ owed' = owed \cup {s}
    /\ UNCHANGED <<owner, sink, queue, missed, watch, radio>>

LinkDrops(s) ==
    /\ link[s] = "up"
    /\ link' = [link EXCEPT ![s] = "down"]
    /\ owed' = owed \cup {s}
    /\ UNCHANGED <<owner, sink, queue, missed, watch, radio>>

PublishesLoss(s) ==
    /\ s \in owed
    /\ owed' = owed \ {s}
    /\ Publish(Disconnected("Central", s))
    /\ UNCHANGED <<link, owner, sink, watch, radio>>

\* The peer leaves our server, where it has a session of its own.
PeerLeavesServer ==
    /\ left < MaxLeaves
    /\ left' = left + 1
    /\ \E s \in Dials : Publish(Disconnected("Peripheral", s))
    /\ UNCHANGED <<link, owed, owner, sink, watch, radioLost>>

RadioGoes ==
    LET open == {s \in Dials : link[s] \in {"up", "closing"}} IN
    /\ radioLost < MaxRadioLosses
    /\ radioLost' = radioLost + 1
    /\ link' = [s \in Dials |-> IF s \in open THEN "down" ELSE link[s]]
    /\ owed' = owed \cup open
    /\ Publish(RadioOff)
    /\ UNCHANGED <<owner, sink, watch, left>>

\* spawn_link_loss_watch and watch_for_end.
Watch(d) ==
    /\ d \in watching /\ queue[d] # <<>>
    /\ IF EndsWatch(d, Head(queue[d]))
       THEN watching' = watching \ {d} /\ ended' = ended \cup {d} /\ Unsubscribes(d)
       ELSE queue' = [queue EXCEPT ![d] = Tail(@)] /\ UNCHANGED watch
    /\ UNCHANGED <<link, owed, owner, sink, missed, radio>>

Next ==
    \/ \E d \in Dials :
         \/ \E k \in {"channel", "handle"} : Dial(d, k)
         \/ ConnectSucceeds(d) \/ ConnectFails(d) \/ SetupDone(d) \/ SetupFails(d)
         \/ SendBegins(d) \/ SendEnds(d) \/ Close(d) \/ CloseEnds(d) \/ Disconnect(d)
         \/ DropOwner(d) \/ DropTaskTakes(d) \/ TaskDisconnects(d)
         \/ LinkCloses(d) \/ LinkDrops(d) \/ PublishesLoss(d) \/ Watch(d)
    \/ PeerLeavesServer
    \/ RadioGoes

Spec == Init /\ [][Next]_vars

\* Spawned tasks run, sends and closes end, and the platform carries out a
\* disconnect and reports every loss.  No dial, send, drop or loss need happen.
Fairness == \A d \in Dials :
    /\ WF_vars(SendEnds(d)) /\ WF_vars(CloseEnds(d))
    /\ SF_vars(DropTaskTakes(d)) /\ WF_vars(TaskDisconnects(d))
    /\ WF_vars(LinkCloses(d)) /\ WF_vars(PublishesLoss(d)) /\ WF_vars(Watch(d))

FairSpec == Spec /\ Fairness

-----------------------------------------------------------------------------
(* Properties.                                                             *)

\* A link whose owner is gone, by drop, failed or cancelled set-up, goes down:
\* a link nobody owns would make the driver refuse the address for ever.
NoStrandedLink == \A d \in Dials : stage[d] = "gone" ~> link[d] \in {"none", "down"}

\* An owner that is still held ends only with its own link, with the radio, or
\* after its events overran: never with the loss of another session's link or
\* of the peer's link to our server.  A handle takes any loss of the radio it
\* reads of for its own, one from before its link was up included.
EndsForCause ==
    [][\A d \in ended' \ ended :
          \/ stage'[d] = "gone" \/ link'[d] # "up"
          \/ kind[d] = "channel" /\ d \in missed
          \/ kind[d] = "handle" /\ radioLost > 0]_vars

\* What the proof of EndsForCause needs beside it: what a subscriber has queued
\* happened, and stays so.  A lag is recorded, a loss of the radio counted, a
\* lost link stays down, and a dial has no link before its driver answered.
Events ==
    [type : {"Disconnected"}, role : {"Central", "Peripheral"}, session : Dials]
        \cup [type : {"RadioOff", "Lagged"}]

TypeOK ==
    /\ link \in [Dials -> {"none", "up", "closing", "down"}] /\ owed \subseteq Dials
    /\ kind \in [Dials -> {"channel", "handle"}]
    /\ stage \in [Dials -> {"unused", "dialling", "setup", "held", "gone"}]
    /\ conn \in [Dials -> {"none", "guard", "sink", "task"}]
    /\ lock \in [Dials -> {"free", "send", "close"}] /\ dropWaits \subseteq Dials
    /\ queue \in [Dials -> Seq(Events)] /\ missed \subseteq Dials
    /\ watching \subseteq Dials /\ ended \subseteq Dials
    /\ radioLost \in 0..MaxRadioLosses /\ left \in 0..MaxLeaves

LinksFollowDials ==
    /\ \A d \in Dials : stage[d] \in {"unused", "dialling"} => link[d] = "none"
    /\ \A s \in owed : link[s] = "down"

Happened(d, event) ==
    /\ event.type = "Lagged" => d \in missed
    /\ event.type = "RadioOff" => radioLost > 0
    /\ event.type = "Disconnected" /\ event.role = "Central" => link[event.session] = "down"

QueuesAreTrue == \A d \in Dials : \A i \in DOMAIN queue[d] : Happened(d, queue[d][i])

LInv == TypeOK /\ LinksFollowDials /\ QueuesAreTrue

\* A lost link ends its owner: recv returns None, the state turns
\* Disconnected.  A handle whose events overran is the one exception.
LossIsNoticed == \A d \in Dials :
    (stage[d] = "held" /\ link[d] = "down")
        ~> (d \in ended \/ (kind[d] = "handle" /\ d \in missed))

=============================================================================
