--------------------------- MODULE LinuxDiscovery ---------------------------
(***************************************************************************)
(* The discovery the Linux driver shares between its scans                 *)
(* (ble-gatt/src/drivers/linux.rs, DiscoveryBus and ScanGuard).  BlueZ     *)
(* counts discovery per D-Bus client, so the first scan starts it, the     *)
(* last one stops it, and a dial first settles what the scans before it    *)
(* left on.  One asynchronous lock, `op', orders the calls; but a caller   *)
(* may be dropped, or stop waiting, while its call is still with BlueZ,    *)
(* and BlueZ starts discovery some time after it accepts the call.         *)
(***************************************************************************)
EXTENDS Naturals, Sequences, FiniteSets

CONSTANTS Scans,        \* callers of scan()
          Dials,        \* callers of connect()
          NoOne,        \* nobody holds the lock, or waits for an answer
          Disturbances  \* bound: cancelled callers, timeouts, refusals, radio

ASSUME DiscoveryAssumption ==
  /\ Scans \cap Dials = {}
  /\ NoOne \notin Scans \cup Dials
  /\ IsFiniteSet(Scans)
  /\ Disturbances \in Nat

VARIABLES op,        \* who holds DiscoveryBus::op
          running,   \* ScanState::running
          live,      \* ScanState::live
          scan,      \* scan[s]: how far the scan has come
          stop,      \* stop[a]: a's stop_if_idle, of a dropped guard or a dial
          dial,      \* dial[d]: how far the dial has come
          bus,       \* calls BlueZ has not read yet, in the order sent
          starting,  \* the callers whose StartDiscovery BlueZ has accepted
          answer,    \* answer[a]: BlueZ's answer to a's last call
          listed,    \* BlueZ has this client in its discovery list
          others,    \* another process keeps the adapter discovering
          powered,
          slipped,   \* a stop was written off while a start was unfinished
          left       \* disturbances still to come

state == <<running, live>>
bluez == <<bus, starting, listed, others, powered>>
vars  == <<op, state, scan, stop, dial, bluez, answer, slipped, left>>

Actors == Scans \cup Dials
Waiting == {"starting", "recovering", "restarting"}

Calls == [method : {"start", "stop"}, from : Actors \cup {NoOne}]
Call(method, a) == [method |-> method, from |-> a]
Send(method, a) == bus' = Append(bus, Call(method, a))

\* Nobody waits for the calls of a caller that was dropped or timed out: BlueZ
\* reads them all the same.
Disown(a) ==
  /\ bus' = [i \in DOMAIN bus |->
               IF bus[i].from = a THEN Call(bus[i].method, NoOne) ELSE bus[i]]
  /\ starting' = {IF c = a THEN NoOne ELSE c : c \in starting}

Heard(a, result) ==
  answer' = IF a = NoOne THEN answer ELSE [answer EXCEPT ![a] = result]

Disturb == left > 0 /\ left' = left - 1

IdleRunning == live = 0 /\ running
Discovering == listed \/ others
StartUnfinished ==
  \/ starting # {}
  \/ \E i \in DOMAIN bus : bus[i].method = "start"

TypeOK ==
  /\ op \in Actors \cup {NoOne}
  /\ running \in BOOLEAN /\ live \in Nat
  /\ scan \in [Scans -> {"idle", "waiting", "live"} \cup Waiting]
  /\ stop \in [Actors -> {"none", "waiting", "asked"}]
  /\ dial \in [Dials -> {"idle", "settling", "dialling"}]
  /\ bus \in Seq(Calls) /\ starting \subseteq Actors \cup {NoOne}
  /\ answer \in [Actors -> {"none", "ok", "inProgress", "failed", "noReply"}]
  /\ {listed, others, powered, slipped} \subseteq BOOLEAN /\ left \in Nat

Init ==
  /\ op = NoOne /\ running = FALSE /\ live = 0
  /\ scan = [s \in Scans |-> "idle"]
  /\ stop = [a \in Actors |-> "none"]
  /\ dial = [d \in Dials |-> "idle"]
  /\ bus = <<>> /\ starting = {} /\ listed = FALSE /\ others = FALSE
  /\ powered = TRUE /\ slipped = FALSE /\ left = Disturbances
  /\ answer = [a \in Actors |-> "none"]

-----------------------------------------------------------------------------
(* begin_scan and ScanGuard *)

ScanBegins(s) ==
  /\ scan[s] = "idle" /\ stop[s] = "none"
  /\ scan' = [scan EXCEPT ![s] = "waiting"]
  /\ UNCHANGED <<op, state, stop, dial, bluez, answer, slipped, left>>

\* Discovery is on already and the adapter agrees: the scan is counted.
SharesDiscovery(s) ==
  /\ scan[s] = "waiting" /\ op = NoOne
  /\ running /\ Discovering
  /\ scan' = [scan EXCEPT ![s] = "live"]
  /\ live' = live + 1
  /\ UNCHANGED <<op, running, stop, dial, bluez, answer, slipped, left>>

\* (fault) `running' is set only when BlueZ has answered.
MarksLater == running' = running

\* A stop is owed from before the call is sent.
Marks == running' = TRUE

StartsDiscovery(s) ==
  /\ scan[s] = "waiting" /\ op = NoOne
  /\ ~(running /\ Discovering)
  /\ op' = s /\ Marks
  /\ Send("start", s)
  /\ scan' = [scan EXCEPT ![s] = "starting"]
  /\ UNCHANGED <<live, stop, dial, starting, listed, others, powered, answer,
                 slipped, left>>

\* (fault) Every failed start is taken for proof that nothing runs.
AnyFailure(result) == result \in {"failed", "inProgress", "noReply"}

\* InProgress and a missing reply leave the stop owed.
ProvedNotRunning(result) == result = "failed"

StartAnswered(s) ==
  /\ scan[s] \in {"starting", "restarting"} /\ answer[s] # "none"
  /\ ~(scan[s] = "starting" /\ answer[s] = "inProgress")
  /\ op' = NoOne
  /\ answer' = [answer EXCEPT ![s] = "none"]
  /\ IF answer[s] = "ok"
     THEN /\ running' = TRUE /\ live' = live + 1
          /\ scan' = [scan EXCEPT ![s] = "live"]
     ELSE /\ running' = (running /\ ~ProvedNotRunning(answer[s]))
          /\ scan' = [scan EXCEPT ![s] = "idle"]
          /\ UNCHANGED live
  /\ UNCHANGED <<stop, dial, bluez, slipped, left>>

\* BlueZ still counts this client: StopDiscovery, then one more start.
ClearsWedge(s) ==
  /\ scan[s] = "starting" /\ answer[s] = "inProgress"
  /\ Send("stop", s)
  /\ scan' = [scan EXCEPT ![s] = "recovering"]
  /\ answer' = [answer EXCEPT ![s] = "none"]
  /\ UNCHANGED <<op, state, stop, dial, starting, listed, others, powered,
                 slipped, left>>

StartsAgain(s) ==
  /\ scan[s] = "recovering" /\ answer[s] # "none"
  /\ Send("start", s)
  /\ scan' = [scan EXCEPT ![s] = "restarting"]
  /\ answer' = [answer EXCEPT ![s] = "none"]
  /\ UNCHANGED <<op, state, stop, dial, starting, listed, others, powered,
                 slipped, left>>

\* The future of scan() is dropped before it returned.
ScanCancelled(s) ==
  /\ scan[s] \in Waiting \cup {"waiting"} /\ Disturb
  /\ scan' = [scan EXCEPT ![s] = "idle"]
  /\ op' = IF op = s THEN NoOne ELSE op
  /\ answer' = [answer EXCEPT ![s] = "none"]
  /\ Disown(s)
  /\ UNCHANGED <<state, stop, dial, listed, others, powered, slipped>>

\* The guard is dropped; the last one sends for a stop.
ScanEnds(s) ==
  /\ scan[s] = "live"
  /\ scan' = [scan EXCEPT ![s] = "idle"]
  /\ live' = live - 1
  /\ stop' = [stop EXCEPT ![s] = IF live' = 0 /\ running THEN "waiting" ELSE @]
  /\ UNCHANGED <<op, running, dial, bluez, answer, slipped, left>>

-----------------------------------------------------------------------------
(* stop_if_idle *)

StopSkipped(a) ==
  /\ stop[a] = "waiting" /\ op = NoOne /\ ~IdleRunning
  /\ stop' = [stop EXCEPT ![a] = "none"]
  /\ UNCHANGED <<op, state, scan, dial, bluez, answer, slipped, left>>

\* (fault) The state is read without the lock, and no lock is held.
AsksUnlocked(a) == IdleRunning /\ UNCHANGED op

\* The state is read under the lock, which is kept until BlueZ has answered.
Asks(a) == op = NoOne /\ IdleRunning /\ op' = a

StopAsked(a) ==
  /\ stop[a] = "waiting" /\ Asks(a)
  /\ Send("stop", a)
  /\ stop' = [stop EXCEPT ![a] = "asked"]
  /\ UNCHANGED <<state, scan, dial, starting, listed, others, powered, answer,
                 slipped, left>>

\* (fault) A failed stop is forgotten.
WrittenOff == running' = FALSE

\* After a failed stop only an adapter that is not discovering proves that
\* nothing is left to stop.
Owed == running' = (running /\ Discovering)

StopAnswered(a) ==
  /\ stop[a] = "asked" /\ answer[a] # "none"
  /\ IF answer[a] = "ok" THEN running' = FALSE /\ UNCHANGED slipped
     ELSE /\ Owed
          /\ slipped' = (slipped \/ (~Discovering /\ StartUnfinished))
  /\ op' = IF op = a THEN NoOne ELSE op
  /\ stop' = [stop EXCEPT ![a] = "none"]
  /\ answer' = [answer EXCEPT ![a] = "none"]
  /\ UNCHANGED <<live, scan, dial, bluez, left>>

-----------------------------------------------------------------------------
(* settle_discovery, before a dial *)

DialBegins(d) ==
  /\ dial[d] = "idle"
  /\ dial' = [dial EXCEPT ![d] = IF IdleRunning THEN "settling" ELSE "dialling"]
  /\ stop' = [stop EXCEPT ![d] = IF IdleRunning THEN "waiting" ELSE @]
  /\ UNCHANGED <<op, state, scan, bluez, answer, slipped, left>>

DialSettled(d) ==
  /\ dial[d] = "settling" /\ stop[d] = "none"
  /\ dial' = [dial EXCEPT ![d] = "dialling"]
  /\ UNCHANGED <<op, state, scan, stop, bluez, answer, slipped, left>>

\* DISCOVERY_STOP_TIMEOUT: the stop is dropped wherever it is.
DialGivesUp(d) ==
  /\ dial[d] = "settling" /\ stop[d] # "none" /\ Disturb
  /\ dial' = [dial EXCEPT ![d] = "dialling"]
  /\ stop' = [stop EXCEPT ![d] = "none"]
  /\ op' = IF op = d THEN NoOne ELSE op
  /\ answer' = [answer EXCEPT ![d] = "none"]
  /\ Disown(d)
  /\ UNCHANGED <<state, scan, listed, others, powered, slipped>>

DialEnds(d) ==
  /\ dial[d] = "dialling"
  /\ dial' = [dial EXCEPT ![d] = "idle"]
  /\ UNCHANGED <<op, state, scan, stop, bluez, answer, slipped, left>>

-----------------------------------------------------------------------------
(* BlueZ and the radio: external *)

Next1 == Head(bus)
Read  == bus # <<>> /\ bus' = Tail(bus)

\* BlueZ accepts a start, or refuses it at once.
BluezReadsStart ==
  /\ Read /\ Next1.method = "start"
  /\ IF powered /\ ~listed /\ starting = {}
     THEN starting' = {Next1.from} /\ UNCHANGED answer
     ELSE /\ Heard(Next1.from, IF powered THEN "inProgress" ELSE "failed")
          /\ UNCHANGED starting
  /\ UNCHANGED <<op, state, scan, stop, dial, listed, others, powered, slipped,
                 left>>

BluezStarts ==
  /\ \E a \in starting : Heard(a, "ok")
  /\ listed' = TRUE /\ starting' = {}
  /\ UNCHANGED <<op, state, scan, stop, dial, bus, others, powered, slipped,
                 left>>

BluezFailsStart ==
  /\ \E a \in starting : Heard(a, "failed")
  /\ starting' = {} /\ Disturb
  /\ UNCHANGED <<op, state, scan, stop, dial, bus, listed, others, powered,
                 slipped>>

\* A stop is refused while a start of this client is unfinished, and when
\* there is nothing to stop.
BluezStops ==
  /\ Read /\ Next1.method = "stop"
  /\ listed' = (listed /\ starting # {})
  /\ Heard(Next1.from, IF listed /\ starting = {} THEN "ok" ELSE "failed")
  /\ UNCHANGED <<op, state, scan, stop, dial, starting, others, powered,
                 slipped, left>>

\* The wedge: the stop fails and the client stays in the list.
BluezRefusesStop ==
  /\ Read /\ Next1.method = "stop" /\ listed /\ Disturb
  /\ Heard(Next1.from, "failed")
  /\ UNCHANGED <<op, state, scan, stop, dial, starting, listed, others,
                 powered, slipped>>

\* DISCOVERY_CALL_TIMEOUT on the D-Bus connection.
CallTimesOut(a) ==
  /\ \/ a \in starting
     \/ \E i \in DOMAIN bus : bus[i].from = a
  /\ Disturb /\ Disown(a) /\ Heard(a, "noReply")
  /\ UNCHANGED <<op, state, scan, stop, dial, listed, others, powered, slipped>>

\* BlueZ drops every client's discovery when the adapter loses power.
PowersOff ==
  /\ powered /\ Disturb
  /\ powered' = FALSE /\ listed' = FALSE /\ others' = FALSE /\ starting' = {}
  /\ answer' = [a \in Actors |-> IF a \in starting THEN "failed" ELSE answer[a]]
  /\ UNCHANGED <<op, state, scan, stop, dial, bus, slipped>>

PowersOn ==
  /\ ~powered /\ powered' = TRUE
  /\ UNCHANGED <<op, state, scan, stop, dial, bus, starting, answer, listed,
                 others, slipped, left>>

OthersScan ==
  /\ powered /\ ~others /\ Disturb /\ others' = TRUE
  /\ UNCHANGED <<op, state, scan, stop, dial, bus, starting, answer, listed,
                 powered, slipped>>

OthersStop ==
  /\ others /\ others' = FALSE
  /\ UNCHANGED <<op, state, scan, stop, dial, bus, starting, answer, listed,
                 powered, slipped, left>>

-----------------------------------------------------------------------------
Next ==
  \/ \E s \in Scans :
       \/ ScanBegins(s) \/ SharesDiscovery(s) \/ StartsDiscovery(s)
       \/ StartAnswered(s) \/ ClearsWedge(s) \/ StartsAgain(s)
       \/ ScanCancelled(s) \/ ScanEnds(s)
  \/ \E d \in Dials :
       DialBegins(d) \/ DialSettled(d) \/ DialGivesUp(d) \/ DialEnds(d)
  \/ \E a \in Actors :
       StopSkipped(a) \/ StopAsked(a) \/ StopAnswered(a) \/ CallTimesOut(a)
  \/ BluezReadsStart \/ BluezStarts \/ BluezFailsStart
  \/ BluezStops \/ BluezRefusesStop
  \/ PowersOff \/ PowersOn \/ OthersScan \/ OthersStop

Spec == Init /\ [][Next]_vars

-----------------------------------------------------------------------------
\* Discovery that is on is known to be on: whatever was cancelled, refused or
\* left unanswered, while BlueZ has this client in its list the driver owes a
\* stop, so the next dial settles it instead of dialling into it.  The one
\* excuse is a stop written off while a start was unfinished.
StopIsOwed == listed /\ ~slipped => running

\* The same without the excuse, as begin_scan's comment and the test of a
\* cancelled scan have it.
CancelledStartIsOwed == listed => running

\* What `op' is for: a stop_if_idle that its caller still waits for never takes
\* discovery from a scan that has been counted.
StopMeetsNoScan ==
  [][\A a \in Actors :
       stop[a] = "asked" /\ BluezStops /\ listed /\ Next1.from = a => live = 0]_vars

\* The same for every stop, as the comment on `op' has it.
StopNeverOvertakes == [][BluezStops /\ listed => live = 0]_vars

-----------------------------------------------------------------------------
(* The inductive invariant of LinuxDiscoveryProofs. *)

AsksStart(a) == a \in Scans /\ scan[a] \in {"starting", "restarting"}
AsksStop(a)  == stop[a] = "asked" \/ (a \in Scans /\ scan[a] = "recovering")

\* Who waits for BlueZ holds the lock; a stop is owed while a start is out; a
\* scan and the stop of its guard follow each other, as a dial and its settling.
LockIsHeld ==
  /\ \A s \in Scans : scan[s] \in Waiting => op = s /\ running
  /\ \A s \in Scans : scan[s] # "idle" => stop[s] = "none"
  /\ \A d \in Dials : dial[d] # "settling" => stop[d] = "none"
  /\ \A a \in Actors : stop[a] = "asked" => op = a /\ live = 0

LiveIsCounted == live = Cardinality({s \in Scans : scan[s] = "live"})

\* Nobody sends while another waits, so a call that is waited for is the last
\* one sent, and when it has been answered there is none left.
CallIsLast ==
  /\ \A i \in DOMAIN bus : bus[i].from # NoOne =>
       /\ i = Len(bus) /\ bus[i].from = op /\ answer[op] = "none"
       /\ bus[i].method = "start" => AsksStart(op)
       /\ bus[i].method = "stop" => AsksStop(op)
  /\ \A a \in starting : a # NoOne =>
       bus = <<>> /\ a = op /\ answer[a] = "none" /\ AsksStart(a)
  /\ \A a \in Actors : answer[a] # "none" =>
       op = a /\ (answer[a] # "noReply" => bus = <<>>)

\* BlueZ never has a start under way for a client that is in its list.
BluezIsSane ==
  /\ ~powered => ~listed /\ starting = {}
  /\ listed => starting = {}

\* A failed start, and a stop that succeeded, leave nothing on.
AnswersProve ==
  \A a \in Actors :
    \/ AsksStart(a) /\ answer[a] = "failed"
    \/ stop[a] = "asked" /\ answer[a] = "ok"
    => ~listed /\ starting = {}

\* What is not owed a stop is not on, nor about to be.
NothingIsForgotten == ~running /\ ~slipped => ~listed /\ ~StartUnfinished

DInv ==
  /\ TypeOK /\ LockIsHeld /\ LiveIsCounted /\ CallIsLast /\ BluezIsSane
  /\ AnswersProve /\ NothingIsForgotten
=============================================================================
