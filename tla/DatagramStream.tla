--------------------------- MODULE DatagramStream ---------------------------
(***************************************************************************)
(* One direction of a datagram channel, from DatagramSender::send on one   *)
(* device to DatagramChannel::recv on the other: the message split into    *)
(* fragments, the fragments written one by one under the sink's lock, a    *)
(* driver that loses, repeats or reorders them and reports the gaps it     *)
(* knows of, the reassembly task with its limits, the bounded queue of     *)
(* complete messages, and the overflow signal that reaches a recv that is  *)
(* already parked.  (fragment.rs, reassembly.rs, and the stream half of    *)
(* profile/datagram/mod.rs.)                                               *)
(***************************************************************************)
EXTENDS Naturals, FiniteSets, SequencesExt

CONSTANTS
    Handles,        \* the DatagramSenders of the sending channel
    NoHandle,       \* the sink's lock is free
    Sizes,          \* payload lengths an application sends
    Budget,         \* fragment_budget: payload bytes per fragment
    MaxFragments,   \* MAX_FRAGMENTS, 65535 in the code
    Ceiling,        \* the sender's configured max_message_len
    MaxMessageLen,  \* the receiver's max_message_len
    MaxConcurrent,  \* max_concurrent_reassemblies
    Timeout,        \* reassembly_timeout, in ticks
    QueueDepth,     \* inbound_queue_depth
    IdSpace,        \* how many message ids there are, 2^32 in the code
    MaxMessages,    \* bound: messages sent
    WireCap,        \* bound: fragments in flight
    MaxFaults       \* bound: how often the radio, the drivers and strangers disturb

FaultKinds == {"lost", "doubled", "swapped", "overrun", "failed", "foreign"}

ASSUME StreamAssumption ==
    /\ NoHandle \notin Handles
    /\ Sizes \subseteq Nat
    /\ {Budget, MaxFragments, MaxConcurrent, Timeout, QueueDepth, IdSpace} \subseteq Nat \ {0}
    /\ {Ceiling, MaxMessageLen, MaxMessages, WireCap, MaxFaults} \subseteq Nat

VARIABLES
    sent,       \* lengths of the messages given an id so far, in that order
    unsent,     \* per handle, the fragments its send has still to write
    lock,       \* the handle that holds the sink, or NoHandle
    order,      \* the messages in the order in which they got the sink
    whole,      \* the messages whose every fragment was written
    wire,       \* what the receiving driver has still to yield, oldest first
    partial,    \* Reassembler::partial, the oldest started first
    handing,    \* the complete message the reassembly task waits to queue
    inbound,    \* the queue of complete messages
    open,       \* the reassembly task runs, so the queue has its sender
    watcher,    \* the link-loss watch: "watching", "lagged" or "done"
    raising,    \* who set the overflow flag and has yet to notify
    flagged,    \* OverflowSignal::flagged
    permit,     \* the stored permit of OverflowSignal::notify
    reader,     \* the application: "away" from recv, "armed" or "parked" in it, "ended"
    received,   \* the messages recv returned
    latest,     \* the last of them
    told,       \* recv has reported a gap
    expired,    \* the ids of partial messages that timed out
    faults      \* per kind, how often it struck

sendVars == <<sent, unsent, lock, order, whole>>
taskVars == <<partial, handing, open, watcher, expired>>
signalVars == <<raising, flagged, permit>>
readVars == <<reader, received, latest, told>>
vars == <<sendVars, wire, taskVars, inbound, signalVars, readVars, faults>>

-----------------------------------------------------------------------------
(* Fragments.                                                              *)

Smaller(a, b) == IF a < b THEN a ELSE b

\* What one send accepts: the configured length, lowered to what fits.
EffectiveMaxMessageLen == Smaller(Ceiling, Budget * MaxFragments)

\* The payload of message m: bytes no other message has.
Payload(m, len) == [i \in 1..len |-> <<m, i>>]

DivCeil(a, b) == (a + b - 1) \div b

FragmentsFor(len) == IF len = 0 THEN 1 ELSE DivCeil(len, Budget)

\* (fault) The two handles count their messages separately.
IdPerHandle(m) == ((m - 1) \div Cardinality(Handles)) % IdSpace

MsgId(m) == (m - 1) % IdSpace

Fragment(m, len, i) ==
    [kind |-> "fragment", id |-> MsgId(m), index |-> i, total |-> FragmentsFor(len), of |-> m,
     body |-> SubSeq(Payload(m, len), i * Budget + 1, Smaller(len, (i + 1) * Budget))]

Split(m, len) == [k \in 1..FragmentsFor(len) |-> Fragment(m, len, k - 1)]

\* What the driver yields in place of notifications it had to drop.
Gap == [kind |-> "gap"]

\* Writes to the characteristic that are no fragments of ours: too short for
\* a header, of no message, or outside their own message.
TooShort == [kind |-> "short"]
ForeignWrites ==
    {TooShort} \cup [kind : {"fragment"}, id : {0}, index : {1}, total : {1}, of : {0}, body : {<<>>}]

-----------------------------------------------------------------------------
(* Reassembler.  A partial message is [id, total, bodies, len, age], bodies *)
(* a function from the indices that arrived, len their cumulative_len.     *)

\* What started first is first to reach the timeout.
TooOld(table) ==
    CHOOSE n \in 0..Len(table) : \A k \in DOMAIN table : k <= n <=> table[k].age >= Timeout

Alive(table) == SubSeq(table, TooOld(table) + 1, Len(table))

Holds(table, id) == \E k \in DOMAIN table : table[k].id = id

PlaceOf(table, id) == CHOOSE k \in DOMAIN table : table[k].id = id

WithoutId(table, id) == IF Holds(table, id) THEN RemoveAt(table, PlaceOf(table, id)) ELSE table

Fresh(f) == [id |-> f.id, total |-> f.total, bodies |-> [i \in {f.index} |-> f.body],
             len |-> Len(f.body), age |-> 0]

With(bodies, f) ==
    [i \in DOMAIN bodies \cup {f.index} |-> IF i = f.index THEN f.body ELSE bodies[i]]

Malformed(f) ==
    \/ f.total = 0
    \/ f.index >= f.total
    \/ Len(f.body) > MaxMessageLen

\* The least a message with this fragment among its f.total will measure.
DeclaredMin(f) == (f.total - 1) * (IF f.body = <<>> THEN 1 ELSE Len(f.body))

\* Room for one more: the oldest started goes.
Evicted(table) == IF Len(table) < MaxConcurrent THEN table ELSE Tail(table)

\* A fragment of a message the table holds as p.  One that came before is
\* ignored; one that differs from what came before restarts the message.
Joined(table, p, f) ==
    LET others == WithoutId(table, f.id)
        joined == [p EXCEPT !.bodies = With(@, f), !.len = @ + Len(f.body)]
        stored == [table EXCEPT ![PlaceOf(table, f.id)] = joined]
        keep(t) == [table |-> t, done |-> <<>>]
    IN  IF f.index \in DOMAIN p.bodies
        THEN keep(IF p.bodies[f.index] = f.body THEN table ELSE Append(others, Fresh(f)))
        ELSE IF p.len + Len(f.body) > MaxMessageLen THEN keep(others)
        ELSE IF Cardinality(DOMAIN joined.bodies) # f.total THEN keep(stored)
        ELSE [table |-> others,
              done |-> << FlattenSeq([k \in 1..f.total |-> joined.bodies[k - 1]]) >>]

\* Reassembler::accept: the table it leaves, and the message it completes.
Accepted(table, f) ==
    LET alive == Alive(table)
        held  == alive[PlaceOf(alive, f.id)]
    IN  IF Malformed(f)
        THEN [table |-> table, done |-> <<>>]
        ELSE IF f.total = 1
        THEN [table |-> WithoutId(alive, f.id), done |-> <<f.body>>]
        ELSE IF ~Holds(alive, f.id)
        THEN [table |-> IF DeclaredMin(f) > MaxMessageLen THEN alive
                        ELSE Append(Evicted(alive), Fresh(f)),
              done |-> <<>>]
        ELSE IF held.total # f.total
        THEN [table |-> WithoutId(alive, f.id), done |-> <<>>]
        ELSE Joined(alive, held, f)

\* The messages the timeout has caught up with.
TimedOut == {p.id : p \in {q \in Range(partial) : q.age >= Timeout}}

-----------------------------------------------------------------------------
Init ==
    /\ sent = <<>> /\ unsent = [h \in Handles |-> <<>>] /\ lock = NoHandle
    /\ order = <<>> /\ whole = {}
    /\ wire = <<>>
    /\ partial = <<>> /\ handing = <<>> /\ open = TRUE /\ watcher = "watching" /\ expired = {}
    /\ inbound = <<>>
    /\ raising = {} /\ flagged = FALSE /\ permit = FALSE
    /\ reader = "away" /\ received = {} /\ latest = 0 /\ told = FALSE
    /\ faults = [k \in FaultKinds |-> 0]

(* The sending device.                                                     *)

\* send: the id is taken and the payload split before the sink is locked.
BeginSend(h, len) ==
    /\ unsent[h] = <<>>
    /\ len <= EffectiveMaxMessageLen
    /\ Len(sent) < MaxMessages
    /\ sent' = Append(sent, len)
    /\ unsent' = [unsent EXCEPT ![h] = Split(Len(sent) + 1, len)]
    /\ UNCHANGED <<lock, order, whole, wire, taskVars, inbound, signalVars, readVars, faults>>

\* (fault) A send does not wait for the one in progress.
LocksAnyway(h) ==
    /\ unsent[h] # <<>> /\ lock # h
    /\ lock' = h
    /\ order' = Append(order, Head(unsent[h]).of)
    /\ UNCHANGED <<sent, unsent, whole, wire, taskVars, inbound, signalVars, readVars, faults>>

LockSink(h) ==
    /\ unsent[h] # <<>> /\ lock = NoHandle
    /\ lock' = h
    /\ order' = Append(order, Head(unsent[h]).of)
    /\ UNCHANGED <<sent, unsent, whole, wire, taskVars, inbound, signalVars, readVars, faults>>

\* One fragment; after the last the lock is released.
WriteFragment(h) ==
    LET rest == Tail(unsent[h]) IN
    /\ lock = h /\ Len(wire) < WireCap
    /\ wire' = Append(wire, Head(unsent[h]))
    /\ unsent' = [unsent EXCEPT ![h] = rest]
    /\ lock' = IF rest = <<>> THEN NoHandle ELSE h
    /\ whole' = IF rest = <<>> THEN whole \cup {Head(unsent[h]).of} ELSE whole
    /\ UNCHANGED <<sent, order, taskVars, inbound, signalVars, readVars, faults>>

Strikes(kind) ==
    /\ SumFunction(faults) < MaxFaults
    /\ faults' = [faults EXCEPT ![kind] = @ + 1]

\* A write fails, whether or not the fragment got through; send gives up.
WriteFails(h) ==
    /\ lock = h
    /\ Strikes("failed")
    /\ \/ wire' = wire
       \/ Len(wire) < WireCap /\ wire' = Append(wire, Head(unsent[h]))
    /\ unsent' = [unsent EXCEPT ![h] = <<>>]
    /\ lock' = NoHandle
    /\ UNCHANGED <<sent, order, whole, taskVars, inbound, signalVars, readVars>>

-----------------------------------------------------------------------------
(* The radio and the receiving driver.                                     *)

Lost == \E i \in DOMAIN wire : wire[i] # Gap /\ wire' = RemoveAt(wire, i) /\ Strikes("lost")

Doubled ==
    \E i \in DOMAIN wire :
        wire[i] # Gap /\ wire' = InsertAt(wire, i, wire[i]) /\ Strikes("doubled")

Swapped ==
    \E i \in 1..Len(wire) - 1 :
        /\ Gap \notin {wire[i], wire[i + 1]}
        /\ wire' = [wire EXCEPT ![i] = wire[i + 1], ![i + 1] = wire[i]]
        /\ Strikes("swapped")

\* The driver's queue overran: its oldest items are gone and it says so.
Overrun ==
    \E n \in DOMAIN wire :
        /\ wire' = <<Gap>> \o SubSeq(wire, n + 1, Len(wire))
        /\ Strikes("overrun")

Foreign ==
    /\ Len(wire) < WireCap
    /\ \E f \in ForeignWrites : wire' = Append(wire, f)
    /\ Strikes("foreign")

Disturbs ==
    /\ Lost \/ Doubled \/ Swapped \/ Overrun \/ Foreign
    /\ UNCHANGED <<sendVars, taskVars, inbound, signalVars, readVars>>

-----------------------------------------------------------------------------
(* The reassembly task.  It reads nothing while it hands a message on or   *)
(* while it is half-way through raising the overflow signal.               *)

Listens == open /\ handing = <<>> /\ "reassembly" \notin raising

\* OverflowSignal::raise stores the flag, then notifies.
SetsFlag(who) == flagged' = TRUE /\ raising' = raising \cup {who} /\ permit' = permit

ReadGap ==
    /\ Listens /\ wire # <<>> /\ Head(wire) = Gap
    /\ wire' = Tail(wire)
    /\ SetsFlag("reassembly")
    /\ partial' = <<>>
    /\ UNCHANGED <<sendVars, handing, open, watcher, expired, inbound, readVars, faults>>

Receive ==
    /\ Listens /\ wire # <<>> /\ Head(wire) # Gap
    /\ wire' = Tail(wire)
    /\ IF Head(wire) = TooShort
       THEN UNCHANGED <<partial, handing, expired>>
       ELSE LET result == Accepted(partial, Head(wire)) IN
            /\ partial' = result.table
            /\ handing' = result.done
            /\ expired' = IF Malformed(Head(wire)) THEN expired ELSE expired \cup TimedOut
    /\ UNCHANGED <<sendVars, open, watcher, inbound, signalVars, readVars, faults>>

\* (fault) A full queue drops the message.
DropsWhenFull ==
    /\ open /\ handing # <<>>
    /\ inbound' = IF Len(inbound) < QueueDepth THEN inbound \o handing ELSE inbound
    /\ handing' = <<>>
    /\ UNCHANGED <<sendVars, wire, partial, open, watcher, expired, signalVars, readVars, faults>>

\* out.send(..).await: a full queue holds the task here.
HandOver ==
    /\ open /\ handing # <<>> /\ Len(inbound) < QueueDepth
    /\ inbound' = inbound \o handing
    /\ handing' = <<>>
    /\ UNCHANGED <<sendVars, wire, partial, open, watcher, expired, signalVars, readVars, faults>>

\* The sleep arm: an idle channel gives up what is too old.
Tick ==
    /\ Listens /\ Alive(partial) # partial
    /\ partial' = Alive(partial)
    /\ expired' = expired \cup TimedOut
    /\ UNCHANGED <<sendVars, wire, handing, open, watcher, inbound, signalVars, readVars, faults>>

Elapse ==
    /\ \E k \in DOMAIN partial : partial[k].age < Timeout
    /\ partial' = [k \in DOMAIN partial |->
                     [partial[k] EXCEPT !.age = Smaller(@ + 1, Timeout)]]
    /\ UNCHANGED <<sendVars, wire, handing, open, watcher, expired, inbound, signalVars, readVars, faults>>

\* (fault) notify_waiters: only a receiver that already waits is woken.
NotifyWaiters(who) ==
    /\ who \in raising
    /\ raising' = raising \ {who}
    /\ reader' = IF reader = "parked" THEN "away" ELSE reader
    /\ UNCHANGED <<sendVars, wire, taskVars, inbound, flagged, permit, received, latest, told, faults>>

\* notify_one: the permit is stored if nobody waits.
Notify(who) ==
    /\ who \in raising
    /\ raising' = raising \ {who}
    /\ permit' = TRUE
    /\ UNCHANGED <<sendVars, wire, taskVars, inbound, flagged, readVars, faults>>

Aborted == open' = FALSE /\ partial' = <<>> /\ handing' = <<>> /\ expired' = expired

\* The link-loss watch saw the link go: the task is aborted with what it holds.
WatchSeesLoss ==
    /\ watcher = "watching" /\ "reassembly" \notin raising
    /\ watcher' = "done"
    /\ Aborted
    /\ UNCHANGED <<sendVars, wire, inbound, signalVars, readVars, faults>>

\* The watch's events lagged: it raises the signal, then aborts the task.
WatchLags ==
    /\ watcher = "watching"
    /\ watcher' = "lagged"
    /\ SetsFlag("watcher")
    /\ UNCHANGED <<sendVars, wire, partial, handing, open, expired, inbound, readVars, faults>>

WatchAborts ==
    /\ watcher = "lagged" /\ raising = {}
    /\ watcher' = "done"
    /\ Aborted
    /\ UNCHANGED <<sendVars, wire, inbound, signalVars, readVars, faults>>

-----------------------------------------------------------------------------
(* recv.                                                                   *)

\* The flag is read before the wait begins.
RecvBegins ==
    /\ reader = "away"
    /\ flagged' = FALSE
    /\ told' = (told \/ flagged)
    /\ reader' = IF flagged THEN "away" ELSE "armed"
    /\ UNCHANGED <<sendVars, wire, taskVars, inbound, raising, permit, received, latest, faults>>

\* Only now is it a waiter of the notification.
RecvParks ==
    /\ reader = "armed"
    /\ reader' = "parked"
    /\ UNCHANGED <<sendVars, wire, taskVars, inbound, signalVars, received, latest, told, faults>>

\* The message a payload is, 0 for one nobody sent.
MessageOf(payload) ==
    LET senders == {m \in DOMAIN sent : payload = Payload(m, sent[m])}
    IN  IF senders = {} THEN 0 ELSE CHOOSE m \in senders : \A n \in senders : m >= n

RecvMessage ==
    /\ reader = "parked" /\ inbound # <<>>
    /\ inbound' = Tail(inbound)
    /\ reader' = "away"
    /\ latest' = MessageOf(Head(inbound))
    /\ received' = received \cup {latest'}
    /\ UNCHANGED <<sendVars, wire, taskVars, signalVars, told, faults>>

RecvClosed ==
    /\ reader = "parked" /\ inbound = <<>> /\ ~open
    /\ reader' = "ended"
    /\ UNCHANGED <<sendVars, wire, taskVars, inbound, signalVars, received, latest, told, faults>>

\* notified => continue: around to the flag again.
RecvWoken ==
    /\ reader = "parked" /\ permit
    /\ permit' = FALSE
    /\ reader' = "away"
    /\ UNCHANGED <<sendVars, wire, taskVars, inbound, raising, flagged, received, latest, told, faults>>

\* The future is dropped at its await, as the pump's select does.
RecvDropped ==
    /\ reader = "parked"
    /\ reader' = "away"
    /\ UNCHANGED <<sendVars, wire, taskVars, inbound, signalVars, received, latest, told, faults>>

-----------------------------------------------------------------------------
Sends == \E h \in Handles :
    \/ \E len \in Sizes : BeginSend(h, len)
    \/ LockSink(h)
    \/ WriteFragment(h)
    \/ WriteFails(h)

Reassembles == ReadGap \/ Receive \/ HandOver \/ Tick

Watches == WatchSeesLoss \/ WatchLags \/ WatchAborts

Recv == RecvBegins \/ RecvParks \/ RecvMessage \/ RecvClosed \/ RecvWoken

Next ==
    \/ Sends
    \/ Disturbs
    \/ Reassembles
    \/ Elapse
    \/ \E who \in {"reassembly", "watcher"} : Notify(who)
    \/ Watches
    \/ Recv
    \/ RecvDropped

Spec == Init /\ [][Next]_vars

\* Tasks that can run do run, and the application calls recv again.
Fairness ==
    /\ WF_vars(Reassembles)
    /\ \A who \in {"reassembly", "watcher"} : WF_vars(Notify(who))
    /\ WF_vars(WatchAborts)
    /\ WF_vars(Recv)

FairSpec == Spec /\ Fairness

-----------------------------------------------------------------------------
(* Properties.                                                             *)

\* The types, and the bounds the reassembler keeps whatever arrives: at most
\* max_concurrent_reassemblies partial messages, and a bounded queue behind it.
Payloads == Seq(Nat \X Nat)

Fragments == [kind : {"fragment"}, id : Nat, index : Nat, total : Nat, of : Nat, body : Payloads]

IsPartialMessage(p) ==
    LET held == DOMAIN p.bodies IN
    held \subseteq Nat /\ p \in [id : Nat, total : Nat, bodies : [held -> Payloads],
                                len : Nat, age : 0..Timeout]

TypeOK ==
    /\ sent \in Seq(Nat) /\ unsent \in [Handles -> Seq(Fragments)]
    /\ lock \in Handles \cup {NoHandle}
    /\ order \in Seq(Nat) /\ whole \subseteq Nat
    /\ wire \in Seq(Fragments \cup {Gap, TooShort})
    /\ partial \in Seq(Range(partial)) /\ Len(partial) <= MaxConcurrent
    /\ \A p \in Range(partial) : IsPartialMessage(p)
    /\ handing \in Seq(Payloads) /\ Len(handing) <= 1
    /\ inbound \in Seq(Payloads) /\ Len(inbound) <= QueueDepth
    /\ open \in BOOLEAN /\ watcher \in {"watching", "lagged", "done"} /\ expired \subseteq Nat
    /\ raising \subseteq {"reassembly", "watcher"} /\ {flagged, permit, told} \subseteq BOOLEAN
    /\ reader \in {"away", "armed", "parked", "ended"}
    /\ received \subseteq Nat /\ latest \in Nat
    /\ faults \in [FaultKinds -> Nat]

Queued == inbound \o handing

\* What recv returns was sent, byte for byte: no loss, repetition, reordering,
\* foreign write or aborted send makes reassembly join fragments of two messages
\* (reassembly.rs: a blend delivered as valid is its worst outcome), as long as
\* the ids have not gone round, for which fragment.rs makes them 32 bits wide.
DeliveredWasSent == 0 \notin received /\ \A k \in DOMAIN Queued : MessageOf(Queued[k]) # 0

\* The last message recv returned, and those it is about to.
Arrivals == (IF latest = 0 THEN <<>> ELSE <<latest>>) \o [k \in DOMAIN Queued |-> MessageOf(Queued[k])]

Turn(m) == Min({k \in DOMAIN order : order[k] = m})

\* Over a link that does not reorder, messages come out in the order in which
\* their sends got the sink, from whichever handle ("an ordered channel").
InOrder ==
    faults["swapped"] = 0 =>
        \A j, k \in DOMAIN Arrivals : j < k => Turn(Arrivals[j]) <= Turn(Arrivals[k])

\* Once everything in flight is taken in, a message that was written whole has
\* arrived, unless the radio lost or reordered a fragment, it timed out, it is
\* longer than the receiver allows, or the application was told of a gap.
\* Eviction, foreign writes, repetitions and full queues lose nothing.
NoSilentLoss ==
    open /\ wire = <<>> /\ handing = <<>> /\ ~flagged /\ ~told /\ faults["lost"] + faults["swapped"] = 0
        => \A m \in whole :
              \/ m \in received \/ \E k \in DOMAIN inbound : MessageOf(inbound[k]) = m
              \/ MsgId(m) \in expired
              \/ sent[m] > MaxMessageLen

\* A gap that was noticed is told to an application that keeps receiving, also
\* when it is parked in recv and nothing else will ever arrive; or the channel
\* has ended for it (OverflowSignal).
GapIsTold == flagged ~> (~flagged \/ reader = "ended")

\* The channel implements what DatagramService promises the receiver: every
\* message recv returns had its turn at the sink, no earlier than the last one,
\* and recv returns nothing after None ("an ordered channel", recv's comment).
Received == INSTANCE DatagramService WITH
    Messages <- 1..MaxMessages, turns <- order, got <- received, last <- latest,
    scrambled <- faults["swapped"] > 0, ended <- reader = "ended"
DatagramServiceSpec == Received!Spec

-----------------------------------------------------------------------------
(* What the proofs need beside these properties, for ids that are not       *)
(* reused: message m then has the id m - 1.                                 *)

Genuine(f) ==
    /\ f.of \in DOMAIN sent /\ f.index \in 0..FragmentsFor(sent[f.of]) - 1
    /\ f = Fragment(f.of, sent[f.of], f.index)

Ours(x) == x \notin {Gap} \cup ForeignWrites

Source(p) == p.id + 1

\* A send has still to write the last of its fragments, in order; two sends
\* never have the same message, and one that waits for the sink has them all.
SendsAreApart ==
    /\ Len(sent) <= MaxMessages
    /\ \A h \in Handles : \A k \in DOMAIN unsent[h] :
          /\ Genuine(unsent[h][k]) /\ unsent[h][k].of = unsent[h][1].of
          /\ unsent[h][k].index = FragmentsFor(sent[unsent[h][1].of]) - Len(unsent[h]) + k - 1
    /\ \A g, h \in Handles :
          unsent[g] # <<>> /\ unsent[h] # <<>> /\ unsent[g][1].of = unsent[h][1].of => g = h
    /\ \A h \in Handles : unsent[h] # <<>> /\ lock # h =>
          /\ Len(unsent[h]) = FragmentsFor(sent[unsent[h][1].of])
          /\ unsent[h][1].of \notin Range(order)

\* A message gets the sink once, and whoever has it writes the last to get it.
TurnsAreOnce ==
    /\ Range(order) \subseteq DOMAIN sent
    /\ \A j, k \in DOMAIN order : order[j] = order[k] => j = k
    /\ lock # NoHandle =>
          unsent[lock] # <<>> /\ order # <<>> /\ unsent[lock][1].of = order[Len(order)]
    /\ whole \subseteq Range(order)
    /\ lock # NoHandle => order[Len(order)] \notin whole

WireIsKnown ==
    \A k \in DOMAIN wire : Ours(wire[k]) => Genuine(wire[k]) /\ wire[k].of \in Range(order)

ProperPart(p) ==
    /\ Source(p) \in Range(order)
    /\ p.total = FragmentsFor(sent[Source(p)]) /\ p.total > 1
    /\ DOMAIN p.bodies \subseteq 0..p.total - 1 /\ DOMAIN p.bodies # 0..p.total - 1
    /\ \A i \in DOMAIN p.bodies : p.bodies[i] = Fragment(Source(p), sent[Source(p)], i).body

\* A partial message is a proper part of one message, and the oldest is first.
PartsOfOne ==
    /\ \A k \in DOMAIN partial : ProperPart(partial[k])
    /\ \A j, k \in DOMAIN partial : partial[j].id = partial[k].id => j = k
    /\ \A j, k \in DOMAIN partial : j < k => partial[j].age >= partial[k].age

QueuedWasSent ==
    /\ \A k \in DOMAIN Queued : \E m \in Range(order) : Queued[k] = Payload(m, sent[m])
    /\ received \subseteq DOMAIN sent /\ latest \in received \cup {0}

FaithfulInv ==
    TypeOK /\ SendsAreApart /\ TurnsAreOnce /\ WireIsKnown /\ PartsOfOne /\ QueuedWasSent

\* On a link that does not reorder, the wire is in the order of the writes, and
\* what was taken from it came before what it holds.
Before(f, g) ==
    \/ Turn(f.of) < Turn(g.of)
    \/ f.of = g.of /\ f.index <= g.index

WireInOrder ==
    faults["swapped"] = 0 =>
        /\ \A j, k \in DOMAIN wire :
              j < k /\ Ours(wire[j]) /\ Ours(wire[k]) => Before(wire[j], wire[k])
        /\ \A k \in DOMAIN wire : Ours(wire[k]) =>
              /\ \A j \in DOMAIN Arrivals : Turn(Arrivals[j]) <= Turn(wire[k].of)
              /\ \A j \in DOMAIN partial : Turn(Source(partial[j])) <= Turn(wire[k].of)
              /\ lock # NoHandle /\ wire[k].of = unsent[lock][1].of
                    => wire[k].index < unsent[lock][1].index

ArrivalsHadTheirTurn == Range(Arrivals) \subseteq Range(order)

OrderInv == FaithfulInv /\ WireInOrder /\ ArrivalsHadTheirTurn /\ InOrder

\* Nothing was lost or reordered, and no gap is on its way or was told.
Undisturbed ==
    /\ open /\ ~flagged /\ ~told /\ Gap \notin Range(wire)
    /\ faults["lost"] = 0 /\ faults["swapped"] = 0

Underway(m) == m \in whole \/ (lock # NoHandle /\ m = unsent[lock][1].of)

Excused(m) == MsgId(m) \in expired \/ sent[m] > MaxMessageLen

Arrived(m) == m \in received \/ \E k \in DOMAIN Queued : MessageOf(Queued[k]) = m

\* The reassembler has the first k fragments of m,
Taken(m, k) ==
    IF k = 0 THEN ~Holds(partial, MsgId(m))
    ELSE \E j \in DOMAIN partial :
            /\ partial[j].id = MsgId(m)
            /\ DOMAIN partial[j].bodies = 0..k - 1 /\ partial[j].len = k * Budget

\* and the others are on the wire or about to be.
Coming(m, i) ==
    \/ \E j \in DOMAIN wire : Ours(wire[j]) /\ wire[j].of = m /\ wire[j].index = i
    \/ lock # NoHandle /\ m = unsent[lock][1].of /\ unsent[lock][1].index <= i

Pending(m) ==
    \E k \in 0..FragmentsFor(sent[m]) - 1 :
        Taken(m, k) /\ \A i \in k..FragmentsFor(sent[m]) - 1 : Coming(m, i)

NothingIsLost ==
    Undisturbed => \A m \in DOMAIN sent : Underway(m) => Excused(m) \/ Arrived(m) \/ Pending(m)

StreamInv == OrderInv /\ NothingIsLost
=============================================================================
