---------------------------- MODULE AndroidClient ----------------------------
(***************************************************************************)
(* Dialling and writing on Android (ble-gatt/src/drivers/android.rs and    *)
(* BleGattBridge.kt), for one address.  Both halves key what they know by  *)
(* address alone: Rust's `connections' entry, and Kotlin's connectedGatts, *)
(* its session and its queues of outstanding operation ids.  Rust's mutex  *)
(* is never held across a call into Kotlin; a Kotlin callback holds        *)
(* gattLock and calls into Rust.  The platform's callbacks carry no id, so *)
(* the bridge matches a completion to the oldest id it has queued.         *)
(* A connect() call, the session it mints and the BluetoothGatt opened for *)
(* it go by one name.  Reads and subscriptions take the same path as       *)
(* writes; REDIAL_GAP is a delay and no guard, and is left out.            *)
(***************************************************************************)
EXTENDS Naturals, Sequences, SequencesExt

CONSTANTS Calls,      \* connect() calls
          Writes,     \* write ids
          Retries,    \* GATT_BUSY_MAX_RETRIES
          RadioLosses \* bound: times the adapter is switched off

ASSUME AndroidAssumption ==
  /\ Retries \in Nat /\ RadioLosses \in Nat
  /\ {"none", "zero"} \cap Calls = {}
  /\ {"none", "connected", "services", "noServices", "disconnected"} \cap Writes = {}

VARIABLES entry,     \* Rust: connections[address]
          call,      \* call[c]: where a connect() call or its handle is
          rx,        \* rx[c]: what its connected_rx has received
          mine,      \* mine[c]: the session its handle holds
          op,        \* op[w]: where the future of a write is
          jni,       \* jni[w]: the call into Kotlin it has yet to make
          by,        \* by[w]: the handle that issued it
          current,   \* Kotlin: connectedGatts[address] and its session
          services,  \* Kotlin: pendingCharacteristics has the address
          queue,     \* Kotlin: pendingWriteIds[address]
          retry,     \* Kotlin: pendingRetries
          tries,     \* tries[w]: retries made
          gatt,      \* gatt[g]: the platform's BluetoothGatt
          callbacks, \* callbacks[g]: callbacks of g still to run
          inFlight,  \* inFlight[g]: the write g has accepted
          radio,     \* the adapter, or where its receiver is
          losses,    \* losses still to come
          crossed    \* (history) a call has acted on another call's session

rust     == <<entry, rx, op>>
callers  == <<call, mine, by>>
bridge   == <<current, services, queue, retry, tries>>
platform == <<gatt, callbacks, inFlight>>
vars == <<rust, jni, callers, bridge, platform, radio, losses, crossed>>

None == "none"
NoEntry == [here |-> FALSE, session |-> None, live |-> FALSE,
            waiter |-> None, write |-> None, leaving |-> None]
\* A new entry's session is 0, which no call mints.
Fresh == [NoEntry EXCEPT !.here = TRUE, !.session = "zero"]

Init ==
  /\ entry = NoEntry
  /\ call = [c \in Calls |-> "idle"] /\ rx = [c \in Calls |-> None]
  /\ mine = [c \in Calls |-> None]
  /\ op = [w \in Writes |-> "idle"] /\ jni = [w \in Writes |-> "none"]
  /\ by = [w \in Writes |-> None]
  /\ current = None /\ services = FALSE /\ queue = <<>> /\ retry = {}
  /\ tries = [w \in Writes |-> 0]
  /\ gatt = [g \in Calls |-> "none"] /\ callbacks = [g \in Calls |-> <<>>]
  /\ inFlight = [g \in Calls |-> None]
  /\ radio = "on" /\ losses = RadioLosses /\ crossed = FALSE

\* The receiver of the adapter's state holds gattLock throughout.
Unlocked == radio # "sweeping"
Goto(c, pc) == call' = [call EXCEPT ![c] = pc]

-----------------------------------------------------------------------------
(* What Rust does when the bridge calls it. *)

\* The entry goes, and with it the senders in it: a waiting connect() or write
\* fails, a waiting disconnect() succeeds.
Disconnected ==
  /\ entry' = NoEntry
  /\ rx' = [c \in Calls |-> IF c = entry.waiter THEN "gone" ELSE rx[c]]
  /\ op' = [w \in Writes |-> IF w = entry.write THEN "failed" ELSE op[w]]

\* onConnected makes an entry where there is none.
Connected ==
  /\ entry' = [(IF entry.here THEN entry ELSE Fresh)
                 EXCEPT !.live = TRUE, !.waiter = None]
  /\ rx' = [c \in Calls |-> IF c = entry.waiter THEN "ok" ELSE rx[c]]
  /\ UNCHANGED op

\* A result is for the write it names, if that still waits.
Answers(w) == entry.write = w

WriteResult(w, outcome) ==
  /\ IF Answers(w)
     THEN /\ entry' = [entry EXCEPT !.write = None]
          /\ op' = [op EXCEPT ![entry.write] = outcome]
     ELSE UNCHANGED <<entry, op>>
  /\ UNCHANGED rx

\* clear_pending_connect.  With the entry go the senders it still holds.
ClearPendingConnect ==
  LET idle == [entry EXCEPT !.waiter = None, !.live = FALSE] IN
  /\ rx' = [c \in Calls |-> IF c = entry.waiter THEN "gone" ELSE rx[c]]
  /\ IF entry.here /\ entry.leaving # None
     THEN entry' = idle /\ UNCHANGED op
     ELSE /\ entry' = NoEntry
          /\ op' = [w \in Writes |-> IF w = entry.write THEN "failed" ELSE op[w]]

-----------------------------------------------------------------------------
(* connect() *)

\* Refused while the entry is being dialled or is open, else the entry is this
\* call's.
Claim(c) ==
  /\ call[c] = "idle"
  /\ IF entry.waiter # None \/ entry.live
     THEN Goto(c, "failed") /\ UNCHANGED entry
     ELSE /\ Goto(c, "claimed")
          /\ entry' = [(IF entry.here THEN entry ELSE Fresh)
                         EXCEPT !.session = c, !.waiter = c]
  /\ UNCHANGED <<rx, op, jni, mine, by, bridge, platform, radio, losses, crossed>>

\* device.connectGatt, outside gattLock: callbacks may come from here on.
OpenGatt(c) ==
  /\ call[c] = "claimed" /\ radio = "on"
  /\ Goto(c, "opening") /\ gatt' = [gatt EXCEPT ![c] = "dialling"]
  /\ UNCHANGED <<rust, jni, mine, by, bridge, callbacks, inFlight, radio, losses,
                 crossed>>

\* The GATT is entered under its address, over any that is there.
Register(c) ==
  /\ call[c] = "opening" /\ Unlocked
  /\ Goto(c, "waiting") /\ current' = c
  /\ crossed' = (crossed \/ current # None)
  /\ UNCHANGED <<rust, jni, mine, by, services, queue, retry, tries, platform,
                 radio, losses>>

\* The call into Kotlin throws, as it does while the adapter is off; no guard
\* is armed yet.
DialThrows(c) ==
  /\ call[c] = "claimed"
  /\ Goto(c, "failed") /\ ClearPendingConnect
  /\ crossed' = (crossed \/ (entry.here /\ entry.session # c))
  /\ UNCHANGED <<jni, mine, by, bridge, platform, radio, losses>>

\* The session is read again: whatever the entry holds by now.
ConnectReturns(c) ==
  /\ call[c] = "waiting" /\ rx[c] = "ok"
  /\ Goto(c, "open") /\ mine' = [mine EXCEPT ![c] = entry.session]
  /\ UNCHANGED <<rust, jni, by, bridge, platform, radio, losses, crossed>>

\* The wait has failed, or the caller has dropped the future: the guard closes
\* whatever GATT the address has by now,
GuardCloses(c) ==
  /\ call[c] = "waiting" /\ Unlocked
  /\ IF current = None
     THEN Goto(c, "clearing") /\ UNCHANGED <<current, services, gatt>>
     ELSE /\ Goto(c, "closing")
          /\ current' = None /\ services' = FALSE
          /\ gatt' = [gatt EXCEPT ![current] = "closed"]
  /\ crossed' = (crossed \/ current \notin {c, None})
  /\ UNCHANGED <<rust, jni, mine, by, queue, retry, tries, callbacks, inFlight, radio,
                 losses>>

\* then, outside gattLock, forgets its operations,
GuardForgets(c) ==
  /\ call[c] = "closing"
  /\ Goto(c, "clearing") /\ queue' = <<>>
  /\ crossed' = (crossed \/ current # None)
  /\ UNCHANGED <<rust, jni, mine, by, current, services, retry, tries, platform,
                 radio, losses>>

\* and only then gives the address up.
GuardClears(c) ==
  /\ call[c] = "clearing"
  /\ Goto(c, "failed") /\ ClearPendingConnect
  /\ crossed' = (crossed \/ (entry.here /\ entry.session # c))
  /\ UNCHANGED <<jni, mine, by, bridge, platform, radio, losses>>

-----------------------------------------------------------------------------
(* The handle: disconnect() *)

\* The handle is borrowed until its last write and that write's guard are done.
Busy(c) == \E w \in Writes : by[w] = c /\ (op[w] = "waiting" \/ jni[w] # "none")

\* A handle without a session is taken for the address's.
OwnsEntry(c) == entry.here /\ mine[c] \in {None, entry.session}

\* Which link this was asked for shows later, in what the platform reports.
Disconnect(c) ==
  /\ call[c] = "open" /\ OwnsEntry(c)
  /\ ~Busy(c)
  /\ entry' = [entry EXCEPT !.leaving = c]
  /\ Goto(c, "leaving")
  /\ crossed' = (crossed \/ mine[c] # c)
  /\ UNCHANGED <<rx, op, jni, mine, by, bridge, platform, radio, losses>>

\* Answered, abandoned or timed out after DISCONNECT_TIMEOUT: the handle stays
\* with its owner, and what it left in the entry stays there.
DisconnectReturns(c) ==
  /\ call[c] = "leaving"
  /\ Goto(c, "open")
  /\ UNCHANGED <<rust, jni, mine, by, bridge, platform, radio, losses, crossed>>

-----------------------------------------------------------------------------
(* write(): the waiter is installed, the bridge tries, the guard cleans up. *)

\* A waiter that is there is replaced, and fails.
Install(c, w) ==
  /\ call[c] = "open" /\ OwnsEntry(c) /\ op[w] = "idle" /\ ~Busy(c)
  /\ entry' = [entry EXCEPT !.write = w]
  /\ op' = [v \in Writes |-> IF v = w THEN "waiting"
                             ELSE IF v = entry.write THEN "failed" ELSE op[v]]
  /\ by' = [by EXCEPT ![w] = c] /\ jni' = [jni EXCEPT ![w] = "write"]
  /\ crossed' = (crossed \/ mine[c] # c)
  /\ UNCHANGED <<rx, call, mine, bridge, platform, radio, losses>>

Removed(w) == RemoveFirst(queue, w)

\* The id joins the queue with the first attempt and stays through the retries.
Queued(w) == IF w \in ToSet(queue) THEN queue ELSE Append(queue, w)

\* attemptWrite.  The platform takes one operation at a time and may refuse
\* for reasons of its own; a refused attempt is made again later, up to a limit.
Attempt(w) ==
  LET held  == current # None /\ mine[by[w]] = current
      taken == gatt[current] = "ready" /\ inFlight[current] = None
  IN
  \/ /\ held /\ services /\ taken
     /\ inFlight' = [inFlight EXCEPT ![current] = w]
     /\ queue' = Queued(w) /\ retry' = retry \ {w}
     /\ UNCHANGED <<rust, tries>>
  \/ /\ held /\ services /\ tries[w] < Retries
     /\ queue' = Queued(w) /\ retry' = retry \cup {w}
     /\ tries' = [tries EXCEPT ![w] = @ + 1]
     /\ UNCHANGED <<rust, inFlight>>
  \/ /\ (held /\ services) => tries[w] = Retries
     /\ queue' = Removed(w) /\ retry' = retry \ {w}
     /\ WriteResult(w, "failed")
     /\ UNCHANGED <<tries, inFlight>>

WriteCall(w) ==
  /\ jni[w] = "write" /\ Unlocked
  /\ Attempt(w) /\ jni' = [jni EXCEPT ![w] = "none"]
  /\ UNCHANGED <<callers, current, services, gatt, callbacks, radio, losses,
                 crossed>>

RetryRuns(w) ==
  /\ w \in retry /\ Unlocked
  /\ Attempt(w)
  /\ UNCHANGED <<jni, callers, current, services, gatt, callbacks, radio, losses,
                 crossed>>

\* The future is dropped.  The guard frees the slot if it is still its own, and
\* tells the bridge once it has let go of the mutex.
WriteDropped(w) ==
  /\ op[w] = "waiting" /\ jni[w] = "none"
  /\ op' = [op EXCEPT ![w] = "dropped"]
  /\ IF entry.write = w
     THEN /\ entry' = [entry EXCEPT !.write = None]
          /\ jni' = [jni EXCEPT ![w] = "cancel"]
     ELSE UNCHANGED <<entry, jni>>
  /\ UNCHANGED <<rx, callers, bridge, platform, radio, losses, crossed>>

\* (fault) Its id is taken from the queue even if the platform has the write.
CancelsAnyway(w) == queue' = Removed(w)

\* (fault) Only the retry is taken back.
CancelsRetryOnly(w) == queue' = queue

\* Only a write the platform has not taken is taken back.
TakesBack(w) == queue' = IF w \in retry THEN Removed(w) ELSE queue

\* cancelPendingOperation.
CancelCall(w) ==
  /\ jni[w] = "cancel" /\ Unlocked
  /\ jni' = [jni EXCEPT ![w] = "none"]
  /\ TakesBack(w) /\ retry' = retry \ {w}
  /\ UNCHANGED <<rust, callers, current, services, tries, platform, radio,
                 losses, crossed>>

-----------------------------------------------------------------------------
(* The platform, and the callbacks it runs on threads of its own.  One that *)
(* has started still runs when its GATT is closed meanwhile.                *)

Up == {"dialling", "linked", "discovering", "ready"}

Reports(g, what) == callbacks' = [callbacks EXCEPT ![g] = Append(@, what)]

Links(g) ==
  /\ gatt[g] = "dialling" /\ radio = "on"
  /\ gatt' = [gatt EXCEPT ![g] = "linked"] /\ Reports(g, "connected")
  /\ UNCHANGED <<rust, jni, callers, bridge, inFlight, radio, losses, crossed>>

Discovers(g) ==
  /\ gatt[g] = "discovering"
  /\ \E what \in {"services", "noServices"} :
       gatt' = [gatt EXCEPT ![g] = "ready"] /\ Reports(g, what)
  /\ UNCHANGED <<rust, jni, callers, bridge, inFlight, radio, losses, crossed>>

\* The link is refused or lost, or was asked to end; what was in flight gets no
\* callback of its own.
Unlinks(g) ==
  /\ gatt[g] \in Up
  /\ gatt' = [gatt EXCEPT ![g] = "down"] /\ Reports(g, "disconnected")
  /\ inFlight' = [inFlight EXCEPT ![g] = None]
  /\ UNCHANGED <<rust, jni, callers, bridge, radio, losses, crossed>>

Completes(g) ==
  /\ gatt[g] = "ready" /\ inFlight[g] # None
  /\ inFlight' = [inFlight EXCEPT ![g] = None] /\ Reports(g, inFlight[g])
  /\ UNCHANGED <<rust, jni, callers, bridge, gatt, radio, losses, crossed>>

\* The callback of g that runs next.
Due(g) == IF callbacks[g] = <<>> THEN None ELSE Head(callbacks[g])
Runs(g) == callbacks' = [callbacks EXCEPT ![g] = Tail(@)]
Shut(g) == gatt' = [gatt EXCEPT ![g] = "closed"]

\* onConnectionStateChange, connected.  Where discovery does not start the
\* address is reported as gone, without gattLock and whoever has it by now.
RunConnected(g) ==
  /\ Due(g) = "connected" /\ Runs(g)
  /\ \/ /\ gatt[g] = "linked"
        /\ gatt' = [gatt EXCEPT ![g] = "discovering"]
        /\ UNCHANGED <<rust, crossed>>
     \/ /\ Disconnected /\ Shut(g)
        /\ crossed' = (crossed \/ (entry.here /\ entry.session # g))
  /\ UNCHANGED <<jni, callers, bridge, inFlight, radio, losses>>

\* (fault) A callback acts for whichever GATT has the address.
OwnedByAny(g) == TRUE

\* A superseded GATT's callback changes nothing and only closes it.
Owns(g) == current = g

\* onServicesDiscovered, under gattLock to its end.
RunDiscovered(g) ==
  /\ Due(g) \in {"services", "noServices"} /\ Unlocked /\ Runs(g)
  /\ IF ~Owns(g)
     THEN Shut(g) /\ UNCHANGED <<rust, current, services, queue, crossed>>
     ELSE /\ crossed' = (crossed \/ (entry.here /\ entry.session # g))
          /\ IF Due(g) = "services"
             THEN /\ services' = TRUE /\ Connected
                  /\ UNCHANGED <<current, queue, gatt>>
             ELSE /\ current' = None /\ services' = FALSE /\ queue' = <<>>
                  /\ Disconnected /\ Shut(g)
  /\ UNCHANGED <<jni, callers, retry, tries, inFlight, radio, losses>>

\* clearPendingOperations.
ClearsIds == queue' = <<>>

\* onConnectionStateChange, disconnected.
RunDisconnected(g) ==
  /\ Due(g) = "disconnected" /\ Unlocked /\ Runs(g) /\ Shut(g)
  /\ IF ~Owns(g)
     THEN UNCHANGED <<rust, current, services, queue, crossed>>
     ELSE /\ current' = None /\ services' = FALSE /\ ClearsIds
          /\ Disconnected
          /\ crossed' = (crossed \/ (entry.here /\ entry.session # g))
  /\ UNCHANGED <<jni, callers, retry, tries, inFlight, radio, losses>>

\* onCharacteristicWrite: the oldest id queued is the one that is answered.
RunWritten(g) ==
  /\ Due(g) \in Writes /\ Unlocked /\ Runs(g)
  /\ IF ~Owns(g) \/ queue = <<>>
     THEN UNCHANGED <<rust, queue>>
     ELSE /\ queue' = Tail(queue)
          /\ \E outcome \in {"ok", "failed"} : WriteResult(Head(queue), outcome)
  /\ UNCHANGED <<jni, callers, current, services, retry, tries, gatt, inFlight,
                 radio, losses, crossed>>

-----------------------------------------------------------------------------
(* The adapter. *)

\* Switching it off ends every link without a callback, so the receiver closes
\* what the bridge holds and reports it,
RadioGoes ==
  /\ radio = "on" /\ losses > 0
  /\ radio' = "sweeping" /\ losses' = losses - 1
  /\ gatt' = [g \in Calls |-> IF gatt[g] = "none" THEN "none" ELSE "closed"]
  /\ inFlight' = [g \in Calls |-> None]
  /\ current' = None /\ services' = FALSE /\ queue' = <<>>
  /\ IF current = None THEN UNCHANGED rust ELSE Disconnected
  /\ UNCHANGED <<jni, callers, retry, tries, callbacks, crossed>>

\* and onRadioState drains what is left in Rust.
RadioReported ==
  /\ radio = "sweeping"
  /\ radio' = "off" /\ Disconnected
  /\ UNCHANGED <<jni, callers, bridge, platform, losses, crossed>>

RadioReturns ==
  /\ radio = "off"
  /\ radio' = "on"
  /\ UNCHANGED <<rust, jni, callers, bridge, platform, losses, crossed>>

-----------------------------------------------------------------------------
Next ==
  \/ \E c \in Calls :
       \/ Claim(c) \/ OpenGatt(c) \/ Register(c) \/ DialThrows(c)
       \/ ConnectReturns(c)
       \/ GuardCloses(c) \/ GuardForgets(c) \/ GuardClears(c)
       \/ Disconnect(c) \/ DisconnectReturns(c)
       \/ Links(c) \/ Discovers(c) \/ Unlinks(c) \/ Completes(c)
       \/ RunConnected(c) \/ RunDiscovered(c) \/ RunDisconnected(c)
       \/ RunWritten(c)
  \/ \E w \in Writes :
       \/ \E c \in Calls : Install(c, w)
       \/ WriteCall(w) \/ RetryRuns(w) \/ WriteDropped(w) \/ CancelCall(w)
  \/ RadioGoes \/ RadioReported \/ RadioReturns

Spec == Init /\ [][Next]_vars

-----------------------------------------------------------------------------
(* Properties *)

\* What the comments claim and the code does not keep: a handle only acts on
\* its own session (android.rs:1221-1229), a guard only closes the attempt it
\* owns (2340-2348), and only the GATT that owns the address clears its state
\* (BleGattBridge.kt:457-461).
HandlesStayApart == ~crossed

\* As long as no call has acted on another's session, a write only succeeds
\* through the platform's completion of that very write, whatever was cancelled,
\* retried or cut off before it (KT onCharacteristicWrite, 716-753).
CompletionIsItsOwn ==
  [][\A w \in Writes :
       ~crossed /\ op[w] # "ok" /\ op'[w] = "ok" =>
         \E g \in Calls : Due(g) = w /\ callbacks'[g] = Tail(callbacks[g])]_vars

\* As long as no call has acted on another's session, a write that waits holds
\* the slot its result is sent through, and either a retry of it is scheduled,
\* or the platform has it, or the end of its GATT is still to be reported: it
\* never waits for a completion another id has swallowed.
WaiterIsAnswered ==
  \A w \in Writes : op[w] = "waiting" /\ jni[w] = "none" /\ ~crossed =>
    /\ entry.write = w
    /\ \/ w \in retry
       \/ /\ current # None
          /\ \/ inFlight[current] = w
             \/ \E k \in DOMAIN callbacks[current] :
                  callbacks[current][k] \in {w, "disconnected"}

\* The guard of a failed call has yet to give the address up.
Undoing(c) == call[c] \in {"closing", "clearing"} \/ (call[c] = "waiting" /\ rx[c] = "gone")

\* As long as no call has acted on another's session, an address that refuses
\* dials is being dialled by a call that is still there, or has an open GATT in
\* the bridge, or is about to be given up: no order of callbacks, drops and
\* radio losses leaves it refused with nothing behind it
\* (clear_pending_connect, onConnected, the radio's receiver).
NobodyLockedOut ==
  ~crossed =>
    /\ entry.waiter # None =>
         call[entry.waiter] \in {"claimed", "opening", "waiting", "closing", "clearing"}
    /\ entry.live => \/ current # None /\ gatt[current] # "closed"
                     \/ radio = "sweeping"
                     \/ \E c \in Calls : Undoing(c)

-----------------------------------------------------------------------------
(* The inductive invariant *)

Entries == [here : BOOLEAN, session : Calls \cup {None, "zero"}, live : BOOLEAN,
            waiter : Calls \cup {None}, write : Writes \cup {None},
            leaving : Calls \cup {None}]
First  == {"connected", "services", "noServices"}
Events == First \cup {"disconnected"} \cup Writes
Dialling == {"claimed", "opening", "waiting", "closing", "clearing"}

TypeOK ==
  /\ entry \in Entries
  /\ call \in [Calls -> Dialling \cup {"idle", "open", "leaving", "failed"}]
  /\ rx \in [Calls -> {None, "ok", "gone"}]
  /\ mine \in [Calls -> Calls \cup {None, "zero"}]
  /\ op \in [Writes -> {"idle", "waiting", "ok", "failed", "dropped"}]
  /\ jni \in [Writes -> {"none", "write", "cancel"}]
  /\ by \in [Writes -> Calls \cup {None}]
  /\ current \in Calls \cup {None} /\ services \in BOOLEAN
  /\ queue \in Seq(Writes) /\ retry \subseteq Writes
  /\ tries \in [Writes -> Nat]
  /\ gatt \in [Calls -> Up \cup {"none", "down", "closed"}]
  /\ callbacks \in [Calls -> Seq(Events)]
  /\ inFlight \in [Calls -> Writes \cup {None}]
  /\ radio \in {"on", "sweeping", "off"} /\ losses \in Nat /\ crossed \in BOOLEAN

\* The entry and the calls agree on who waits.
WaitersAgree ==
  /\ ~entry.here => entry = NoEntry
  /\ entry.waiter # None => /\ entry.session = entry.waiter
                            /\ rx[entry.waiter] = None
                            /\ call[entry.waiter] \in Dialling
  /\ \A c \in Calls : call[c] \in Dialling /\ rx[c] = None => entry.waiter = c
  /\ \A c \in Calls : /\ call[c] = "idle" => rx[c] = None
                      /\ call[c] \in {"open", "leaving"} => rx[c] = "ok"
                      /\ mine[c] # None => call[c] \in {"open", "leaving"}

\* The bridge and the platform only have GATTs of calls that opened them.
GattsHaveCalls ==
  /\ \A c \in Calls : gatt[c] = "none" => call[c] \in {"idle", "claimed", "failed"}
  /\ \A c \in Calls : call[c] \in {"idle", "claimed"} => gatt[c] = "none"
  /\ current # None => call[current] \in {"waiting", "open", "leaving"}
  /\ current = None => ~services
  /\ radio = "sweeping" => current = None

\* A write has the slot while it waits; what the bridge and the platform have of
\* it came through its one call; a handle has one operation at a time.
Active(w)  == op[w] = "waiting" \/ jni[w] # "none"
Started(w) == op[w] # "idle" /\ jni[w] # "write"

WritesAreKnown ==
  /\ \A w \in Writes : op[w] = "waiting" <=> entry.write = w
  /\ \A w \in Writes : /\ op[w] = "idle" => jni[w] = "none"
                       /\ op[w] # "idle" => by[w] # None
                       /\ jni[w] = "cancel" => op[w] = "dropped"
  /\ \A v, w \in Writes : Active(v) /\ Active(w) /\ by[v] = by[w] => v = w
  /\ \A w \in retry : Started(w)
  /\ \A i \in DOMAIN queue : Started(queue[i])
  /\ \A i, j \in DOMAIN queue : queue[i] = queue[j] => i = j
  /\ \A g \in Calls : inFlight[g] # None => Started(inFlight[g])
  /\ \A g \in Calls : \A i \in DOMAIN callbacks[g] :
       callbacks[g][i] \in Writes => Started(callbacks[g][i])

\* The order in which the callbacks of a GATT come.
CallbacksInOrder ==
  \A g \in Calls :
    /\ gatt[g] \in {"none", "dialling", "discovering"} => callbacks[g] = <<>>
    /\ gatt[g] \in Up => \A i \in DOMAIN callbacks[g] : callbacks[g][i] # "disconnected"
    /\ gatt[g] = "linked" => \A i \in DOMAIN callbacks[g] : callbacks[g][i] = "connected"
    /\ gatt[g] = "ready" => \A i \in DOMAIN callbacks[g] : callbacks[g][i] # "connected"
    /\ inFlight[g] # None => /\ gatt[g] \in {"ready", "closed"}
                             /\ \A i \in DOMAIN callbacks[g] :
                                  callbacks[g][i] # "disconnected"
    /\ \A i \in DOMAIN callbacks[g] :
         /\ callbacks[g][i] \in First => i = 1
         /\ callbacks[g][i] = "disconnected" => i = Len(callbacks[g])
         /\ callbacks[g][1] = "connected" /\ i # 1 => callbacks[g][i] = "disconnected"

\* A call that was told its link is up has that link in the bridge, until the
\* entry or the call goes; a GATT closed over an answer that is still to run has
\* failed its call.
LinksAreApart ==
  /\ \A c \in Calls : rx[c] = "ok" =>
       /\ gatt[c] \in {"ready", "down", "closed"} /\ call[c] \notin {"claimed", "opening"}
       /\ \A i \in DOMAIN callbacks[c] : callbacks[c][i] \notin First
       /\ entry.here /\ entry.session = c /\ call[c] \in {"waiting", "open", "leaving"}
            => current = c /\ entry.live
  /\ \A g \in Calls : inFlight[g] # None => rx[g] = "ok"
  /\ \A g \in Calls : \A i \in DOMAIN callbacks[g] :
       callbacks[g][i] \in Writes => rx[g] = "ok"
  /\ \A g \in Calls :
       gatt[g] = "closed" /\ call[g] \in {"opening", "waiting"} /\ Due(g) = "services"
         => rx[g] # None \/ radio = "sweeping"

\* A write acts for the session of its handle alone.
WritesAreApart ==
  /\ \A w \in Writes : by[w] # None => mine[by[w]] = by[w]
  /\ entry.write # None => by[entry.write] = entry.session
  /\ \A w \in Writes : by[w] = current /\ current # None =>
       /\ jni[w] = "write" => op[w] = "waiting"
       /\ w \in retry => Active(w)
  /\ \A i \in DOMAIN queue : by[queue[i]] = current

\* The ids queued are those the platform has or has answered, in its order, and
\* behind them the one that is to be tried again.
Accepted == Len(callbacks[current]) + (IF inFlight[current] = None THEN 0 ELSE 1)

QueueIsTheirs ==
  current # None =>
    /\ \A i \in DOMAIN callbacks[current] : callbacks[current][i] \in Writes =>
         /\ i \in DOMAIN queue /\ queue[i] = callbacks[current][i]
         /\ queue[i] \notin retry
    /\ inFlight[current] # None =>
         LET n == Len(callbacks[current]) + 1 IN
         n \in DOMAIN queue /\ queue[n] = inFlight[current] /\ queue[n] \notin retry
    /\ gatt[current] = "ready" =>
         \A i \in DOMAIN queue :
           i > Accepted => i = Accepted + 1 /\ queue[i] \in retry

AInv ==
  /\ TypeOK /\ WaitersAgree /\ GattsHaveCalls /\ WritesAreKnown /\ CallbacksInOrder
  /\ ~crossed => LinksAreApart /\ WritesAreApart /\ QueueIsTheirs
  /\ WaiterIsAnswered /\ NobodyLockedOut
=============================================================================
