---------------------------- MODULE LinuxConnect ----------------------------
(***************************************************************************)
(* Dialling on Linux (ble-gatt/src/drivers/linux.rs: connect, its guards,  *)
(* the cleanup they leave behind, the connection handle, the startup       *)
(* sweep).  A BlueZ device is an address: a call made for one link acts on *)
(* whatever link the address has when BlueZ gets to it, and dropping the   *)
(* Rust future does not take the call back.  So the driver keeps one lock  *)
(* per address, the generation that owns it (dialed), the addresses being  *)
(* dialled (in_flight), and those whose abandoned dial is still being      *)
(* cleaned up (pending_cleanup).                                           *)
(***************************************************************************)
EXTENDS Naturals, FiniteSets

CONSTANTS Peers,        \* addresses
          Centrals,     \* those that may come as centrals of our server too
          Leftover,     \* those an earlier process may have left a link to
          Calls,        \* callers of connect(), each then holding its handle
          Permits,      \* MAX_CONCURRENT_CLEANUP_DISCONNECTS
          MaxSession,   \* bound: dials issued
          Disturbances  \* bound: failing or abandoned calls, watches refused

ASSUME ConnectAssumption ==
  /\ Centrals \subseteq Peers /\ Leftover \subseteq Peers
  /\ Permits \in Nat \ {0} /\ MaxSession \in Nat /\ Disturbances \in Nat
  /\ Calls \cap {"free", "cleanup", "sweep", "nobody"} = {}

VARIABLES call,        \* call[c]: where the caller is, its peer, its generation
          dialed,      \* dialed[p]: the generation that owns p, or None
          inFlight,    \* LinuxDriver::in_flight
          quarantine,  \* LinuxDriver::pending_cleanup
          permits,     \* cleanup permits free
          lock,        \* lock[p]: who holds p's dial_lock
          admission,   \* who holds notify_writers
          served,      \* served[p]: p is in served_peers
          cleanup,     \* cleanup[p]: the task an abandoned dial to p left
          sweep,       \* sweep[p]: the startup sweep of p
          watch,       \* watch[g]: the loss watcher of generation g
          session,     \* next_session
          acl,         \* acl[p]: BlueZ has a link to p
          requests,    \* Connect and Disconnect calls BlueZ has not answered
          left         \* disturbances still to come

locks    == <<lock, admission>>
tables   == <<dialed, inFlight, quarantine, permits>>
platform == <<acl, requests>>
vars == <<call, tables, locks, served, cleanup, sweep, watch, session, platform,
          left>>

None == 0
Generations == 1 .. MaxSession
Idle == [pc |-> "idle", peer |-> "none", gen |-> None]

Request(kind, p, g, who) == [kind |-> kind, peer |-> p, gen |-> g, for |-> who]
\* The calls of `who' about p, once nobody waits for them.
Forsaken(who, p) ==
  {IF r.for = who /\ r.peer = p THEN [r EXCEPT !.for = "nobody"] ELSE r :
     r \in requests}

Disturb == left > 0 /\ left' = left - 1
Goto(c, pc) == call' = [call EXCEPT ![c].pc = pc]
Returns(c)  == call' = [call EXCEPT ![c] = Idle]
\* dialed without p's entry, if that is generation g's.
Disowned(g, p) == [dialed EXCEPT ![p] = IF @ = g THEN None ELSE @]

Init ==
  /\ call = [c \in Calls |-> Idle]
  /\ dialed = [p \in Peers |-> None]
  /\ inFlight = {} /\ quarantine = {} /\ permits = Permits
  /\ lock = [p \in Peers |-> "free"] /\ admission = "free"
  /\ served = [p \in Peers |-> FALSE]
  /\ cleanup = [p \in Peers |-> "none"]
  /\ sweep = [p \in Peers |-> IF p \in Leftover THEN "due" ELSE "done"]
  /\ watch = [g \in Generations |-> [st |-> "none", peer |-> "none"]]
  /\ session = 1 /\ requests = {} /\ left = Disturbances
  \* BlueZ keeps the links of a process that died.
  /\ \E kept \in SUBSET Leftover : acl = [p \in Peers |-> p \in kept]

-----------------------------------------------------------------------------
(* connect *)

\* Refused while the address is quarantined or being dialled.
ConnectBegins(c, p) ==
  /\ call[c].pc = "idle" /\ session <= MaxSession
  /\ p \notin quarantine /\ p \notin inFlight
  /\ inFlight' = inFlight \cup {p}
  /\ call' = [call EXCEPT ![c] = [Idle EXCEPT !.pc = "queued", !.peer = p]]
  /\ UNCHANGED <<dialed, quarantine, permits, locks, served, cleanup, sweep,
                 watch, session, platform, left>>

\* The generation takes the address over, whoever held it.  Without a permit
\* to clean up after it, the call is not made and the entry goes again.
Dials(c) ==
  LET p == call[c].peer IN
  /\ call[c].pc = "queued" /\ lock[p] = "free"
  /\ p \notin quarantine /\ session <= MaxSession
  /\ session' = session + 1
  /\ IF permits = 0
     THEN /\ dialed' = [dialed EXCEPT ![p] = None]
          /\ inFlight' = inFlight \ {p}
          /\ Returns(c)
          /\ UNCHANGED <<permits, lock, requests>>
     ELSE /\ dialed' = [dialed EXCEPT ![p] = session]
          /\ permits' = permits - 1
          /\ lock' = [lock EXCEPT ![p] = c]
          /\ requests' = requests \cup {Request("connect", p, session, c)}
          /\ call' = [call EXCEPT ![c].pc = "dialling", ![c].gen = session]
          /\ UNCHANGED inFlight
  /\ UNCHANGED <<quarantine, admission, served, cleanup, sweep, watch, acl, left>>

\* Quarantined meanwhile, or (bound) no generation is left; also a caller that
\* gives up while it is queued.
ConnectRefused(c) ==
  /\ call[c].pc = "queued"
  /\ inFlight' = inFlight \ {call[c].peer}
  /\ Returns(c)
  /\ UNCHANGED <<dialed, quarantine, permits, locks, served, cleanup, sweep,
                 watch, session, platform, left>>

ConnectSucceeds(c) ==
  LET p == call[c].peer IN
  /\ call[c].pc = "connected"
  /\ Goto(c, "up")
  /\ permits' = permits + 1
  /\ lock' = [lock EXCEPT ![p] = "free"]
  /\ inFlight' = inFlight \ {p}
  /\ watch' = [watch EXCEPT ![call[c].gen] = [st |-> "arming", peer |-> p]]
  /\ UNCHANGED <<dialed, quarantine, admission, served, cleanup, sweep, session,
                 platform, left>>

ConnectFails(c) ==
  LET p == call[c].peer IN
  /\ call[c].pc = "refused"
  /\ Returns(c)
  /\ dialed' = Disowned(call[c].gen, p)
  /\ permits' = permits + 1
  /\ lock' = [lock EXCEPT ![p] = "free"]
  /\ inFlight' = inFlight \ {p}
  /\ UNCHANGED <<quarantine, admission, served, cleanup, sweep, watch, session,
                 platform, left>>

\* (fault) The cleanup task publishes the quarantine when it first runs.
QuarantineLater(p) == quarantine' = quarantine

\* Published by the guard itself, before anything of the call is released.
Quarantine(p) == quarantine' = quarantine \cup {p}

\* LinuxConnectGuard's Drop, still armed: CONNECT_TIMEOUT, or the caller drops
\* the future while BlueZ has not answered, or has and nobody has looked.
Abandons(c) ==
  LET p == call[c].peer IN
  /\ call[c].pc \in {"dialling", "connected", "refused"}
  /\ Goto(c, "dropping")
  /\ dialed' = Disowned(call[c].gen, p)
  /\ Quarantine(p)
  /\ cleanup' = [cleanup EXCEPT ![p] = "wanted"]
  /\ requests' = Forsaken(c, p)
  /\ UNCHANGED <<inFlight, permits, locks, served, sweep, watch, session, acl,
                 left>>

\* The lock, then InFlightGuard.
Dropped(c) ==
  LET p == call[c].peer IN
  /\ call[c].pc = "dropping"
  /\ Returns(c)
  /\ lock' = [lock EXCEPT ![p] = "free"]
  /\ inFlight' = inFlight \ {p}
  /\ UNCHANGED <<dialed, quarantine, permits, admission, served, cleanup, sweep,
                 watch, session, platform, left>>

-----------------------------------------------------------------------------
(* The cleanup task of an abandoned dial *)

\* The lock is held only while the Disconnect is sent.
CleanupAsks(p) ==
  /\ cleanup[p] = "wanted" /\ lock[p] = "free"
  /\ IF dialed[p] # None
     THEN /\ cleanup' = [cleanup EXCEPT ![p] = "clean"]
          /\ UNCHANGED requests
     ELSE /\ cleanup' = [cleanup EXCEPT ![p] = "asked"]
          /\ requests' = requests \cup {Request("disconnect", p, None, "cleanup")}
  /\ UNCHANGED <<call, tables, locks, served, sweep, watch, session, acl, left>>

\* (fault) A Disconnect that failed is waited for like one not answered.
WaitsOn == "asked"

\* A Disconnect that failed is sent again, after PENDING_CLEANUP_RETRY_DELAY.
\* One that has not been answered is waited for, without end.
CleansAgain == "wanted"

CleanupEnds(p) ==
  /\ cleanup[p] = "clean"
  /\ cleanup' = [cleanup EXCEPT ![p] = "none"]
  /\ quarantine' = quarantine \ {p}
  /\ permits' = permits + 1
  /\ UNCHANGED <<call, dialed, inFlight, locks, served, sweep, watch, session,
                 platform, left>>

-----------------------------------------------------------------------------
(* LinuxGattConnection *)

\* ensure_current: a missing entry is not ownership.
EnsureCurrent(g, p) == dialed[p] = g

\* A read, a write or a subscription, under the address's lock; (bound) one for
\* each handle.
UseBegins(c) ==
  LET p == call[c].peer IN
  /\ call[c].pc = "up" /\ lock[p] = "free"
  /\ EnsureCurrent(call[c].gen, p)
  /\ Goto(c, "using")
  /\ lock' = [lock EXCEPT ![p] = c]
  /\ UNCHANGED <<tables, admission, served, cleanup, sweep, watch, session,
                 platform, left>>

UseEnds(c) ==
  /\ call[c].pc = "using"
  /\ Goto(c, "used")
  /\ lock' = [lock EXCEPT ![call[c].peer] = "free"]
  /\ UNCHANGED <<tables, admission, served, cleanup, sweep, watch, session,
                 platform, left>>

DisconnectBegins(c) ==
  /\ call[c].pc \in {"up", "used"} /\ Goto(c, "closing")
  /\ UNCHANGED <<tables, locks, served, cleanup, sweep, watch, session, platform,
                 left>>

\* A handle has no Drop: its link stays.
HandleDropped(c) ==
  /\ call[c].pc \in {"up", "used"} /\ Returns(c)
  /\ UNCHANGED <<tables, locks, served, cleanup, sweep, watch, session, platform,
                 left>>

\* (fault) served_peers is looked at without keeping centrals out.
AdmitsMeanwhile(c) == admission' = admission

\* No central is admitted from the look at served_peers to BlueZ's answer.
KeepsOut(c) == admission' = c

\* A superseded handle does nothing; one whose peer is served as well reports
\* its loss and leaves the shared link up.
Disconnects(c) ==
  LET p == call[c].peer
      g == call[c].gen
  IN
  /\ call[c].pc = "closing" /\ lock[p] = "free"
  /\ IF ~EnsureCurrent(g, p)
     THEN Returns(c) /\ UNCHANGED <<dialed, locks, requests>>
     ELSE /\ admission = "free"
          /\ IF served[p]
             THEN /\ dialed' = Disowned(g, p) /\ Returns(c)
                  /\ UNCHANGED <<locks, requests>>
             ELSE /\ Goto(c, "leaving")
                  /\ lock' = [lock EXCEPT ![p] = c] /\ KeepsOut(c)
                  /\ requests' = requests \cup {Request("disconnect", p, g, c)}
                  /\ UNCHANGED dialed
  /\ UNCHANGED <<inFlight, quarantine, permits, served, cleanup, sweep, watch,
                 session, acl, left>>

Released(c) ==
  /\ lock' = [lock EXCEPT ![call[c].peer] = "free"]
  /\ admission' = IF admission = c THEN "free" ELSE admission

Disconnected(c) ==
  /\ call[c].pc = "gone" /\ Returns(c) /\ Released(c)
  /\ UNCHANGED <<tables, served, cleanup, sweep, watch, session, platform, left>>

\* The caller drops disconnect() before BlueZ has answered.
DisconnectDropped(c) ==
  /\ call[c].pc = "leaving" /\ Disturb /\ Returns(c) /\ Released(c)
  /\ requests' = Forsaken(c, call[c].peer)
  /\ UNCHANGED <<tables, served, cleanup, sweep, watch, session, acl>>

-----------------------------------------------------------------------------
(* The watcher of a dialled link, and served centrals *)

\* report_central_loss, by a watcher that has seen the link go: only for the
\* generation that still owns the address.
Reports(g, p) ==
  /\ watch' = [watch EXCEPT ![g].st = "done"]
  /\ dialed' = Disowned(g, p)

\* (fault) The link is not looked at once the subscription stands.
TakenForUp(p) == TRUE

SeenUp(p) == acl[p]

\* It subscribes, then looks once: a link lost before that is lost.
WatchBegins(g) ==
  LET p == watch[g].peer IN
  /\ watch[g].st = "arming"
  /\ IF SeenUp(p)
     THEN watch' = [watch EXCEPT ![g].st = "on"] /\ UNCHANGED dialed
     ELSE Reports(g, p)
  /\ UNCHANGED <<call, inFlight, quarantine, permits, locks, served, cleanup,
                 sweep, session, platform, left>>

\* Subscribing fails and the task returns: nobody watches this link.
WatchRefused(g) ==
  /\ watch[g].st = "arming" /\ Disturb
  /\ watch' = [watch EXCEPT ![g].st = "refused"]
  /\ UNCHANGED <<call, tables, locks, served, cleanup, sweep, session, platform>>

WatchReports(g) ==
  /\ watch[g].st = "told" /\ Reports(g, watch[g].peer)
  /\ UNCHANGED <<call, inFlight, quarantine, permits, locks, served, cleanup,
                 sweep, session, platform, left>>

\* A central is admitted under the writers lock; it may be the one that made
\* the link.
CentralAdmitted(p) ==
  /\ p \in Centrals /\ ~served[p] /\ admission = "free"
  /\ served' = [served EXCEPT ![p] = TRUE]
  /\ acl' = [acl EXCEPT ![p] = TRUE]
  /\ UNCHANGED <<call, tables, locks, cleanup, sweep, watch, session, requests,
                 left>>

CentralRetired(p) ==
  /\ served[p] /\ admission = "free"
  /\ served' = [served EXCEPT ![p] = FALSE]
  /\ UNCHANGED <<call, tables, locks, cleanup, sweep, watch, session, platform,
                 left>>

-----------------------------------------------------------------------------
(* The startup sweep *)

\* A link nobody here made, as far as the tables say now.
SweepSees(p) ==
  /\ sweep[p] = "due"
  /\ sweep' = [sweep EXCEPT ![p] =
                 IF acl[p] /\ dialed[p] = None /\ ~served[p] THEN "seen" ELSE "done"]
  /\ UNCHANGED <<call, tables, locks, served, cleanup, watch, session, platform,
                 left>>

SweepAsks(p) ==
  /\ sweep[p] = "seen" /\ lock[p] = "free"
  /\ sweep' = [sweep EXCEPT ![p] = "asked"]
  /\ lock' = [lock EXCEPT ![p] = "sweep"]
  /\ requests' = requests \cup {Request("disconnect", p, None, "sweep")}
  /\ UNCHANGED <<call, tables, admission, served, cleanup, watch, session, acl,
                 left>>

\* Answered, or CLEANUP_DISCONNECT_TIMEOUT has passed.
SweepEnds(p) ==
  /\ sweep[p] = "asked"
  /\ sweep' = [sweep EXCEPT ![p] = "done"]
  /\ lock' = [lock EXCEPT ![p] = "free"]
  /\ requests' = Forsaken("sweep", p)
  /\ UNCHANGED <<call, tables, admission, served, cleanup, watch, session, acl,
                 left>>

-----------------------------------------------------------------------------
(* BlueZ and the radio: external *)

\* Every subscribed watcher of p will read Connected(false).
Told(p) == [g \in Generations |->
              IF watch[g].peer = p /\ watch[g].st = "on"
              THEN [watch[g] EXCEPT !.st = "told"] ELSE watch[g]]

\* A call nobody waits for makes no difference to anybody's step.
Answered(r, kind, pc) ==
  call' = IF r.for \in Calls /\ r.kind = kind
          THEN [call EXCEPT ![r.for].pc = pc] ELSE call

BluezConnects(r) ==
  /\ r \in requests /\ r.kind = "connect"
  /\ requests' = requests \ {r}
  /\ acl' = [acl EXCEPT ![r.peer] = TRUE]
  /\ Answered(r, "connect", "connected")
  /\ UNCHANGED <<tables, locks, served, cleanup, sweep, watch, session, left>>

BluezRefuses(r) ==
  /\ r \in requests /\ r.kind = "connect" /\ Disturb
  /\ requests' = requests \ {r}
  /\ Answered(r, "connect", "refused")
  /\ UNCHANGED <<tables, locks, served, cleanup, sweep, watch, session, acl>>

\* The link goes, and a Connect that is still under way is cancelled; a device
\* that is not connected, or not known any more, is as good.
BluezDisconnects(r) ==
  LET cancelled == {q \in requests : q.kind = "connect" /\ q.peer = r.peer} IN
  /\ r \in requests /\ r.kind = "disconnect"
  /\ requests' = requests \ ({r} \cup cancelled)
  /\ acl' = [acl EXCEPT ![r.peer] = FALSE]
  /\ watch' = IF acl[r.peer] THEN Told(r.peer) ELSE watch
  /\ call' = [c \in Calls |->
                IF c = r.for THEN [call[c] EXCEPT !.pc = "gone"]
                ELSE IF \E q \in cancelled : q.for = c
                     THEN [call[c] EXCEPT !.pc = "refused"] ELSE call[c]]
  /\ cleanup' = [cleanup EXCEPT ![r.peer] = IF r.for = "cleanup" THEN "clean" ELSE @]
  /\ UNCHANGED <<tables, locks, served, sweep, session, left>>

BluezFailsDisconnect(r) ==
  /\ r \in requests /\ r.kind = "disconnect" /\ Disturb
  /\ requests' = requests \ {r}
  /\ Answered(r, "disconnect", "gone")
  /\ cleanup' = [cleanup EXCEPT ![r.peer] =
                   IF r.for = "cleanup" THEN CleansAgain ELSE @]
  /\ UNCHANGED <<tables, locks, served, sweep, watch, session, acl>>

LinkDrops(p) ==
  /\ acl[p]
  /\ acl' = [acl EXCEPT ![p] = FALSE]
  /\ watch' = Told(p)
  /\ UNCHANGED <<call, tables, locks, served, cleanup, sweep, session, requests,
                 left>>

-----------------------------------------------------------------------------
CallStep(c) ==
  \/ \E p \in Peers : ConnectBegins(c, p)
  \/ Dials(c) \/ ConnectRefused(c) \/ ConnectSucceeds(c) \/ ConnectFails(c)
  \/ Abandons(c) \/ Dropped(c)
  \/ UseBegins(c) \/ UseEnds(c) \/ HandleDropped(c)
  \/ DisconnectBegins(c) \/ Disconnects(c) \/ Disconnected(c)
  \/ DisconnectDropped(c)

Next ==
  \/ \E c \in Calls : CallStep(c)
  \/ \E p \in Peers :
       \/ CleanupAsks(p) \/ CleanupEnds(p)
       \/ CentralAdmitted(p) \/ CentralRetired(p)
       \/ SweepSees(p) \/ SweepAsks(p) \/ SweepEnds(p)
       \/ LinkDrops(p)
  \/ \E g \in Generations : WatchBegins(g) \/ WatchRefused(g) \/ WatchReports(g)
  \/ \E r \in requests :
       \/ BluezConnects(r) \/ BluezRefuses(r)
       \/ BluezDisconnects(r) \/ BluezFailsDisconnect(r)

Spec == Init /\ [][Next]_vars

\* Tasks run, and tokio's locks are handed over in the order they were asked
\* for.  A dial ends within CONNECT_TIMEOUT, the sweep within
\* CLEANUP_DISCONNECT_TIMEOUT and a use with the reply or the D-Bus timeout.
\* BlueZ answers a Disconnect in the end, which connect() relies on for the
\* quarantine; it need never answer a Connect.
CallGoesOn(c) ==
  \/ Dials(c) \/ ConnectRefused(c) \/ ConnectSucceeds(c) \/ ConnectFails(c)
  \/ Abandons(c) \/ Dropped(c) \/ UseEnds(c) \/ Disconnects(c) \/ Disconnected(c)

CleanupGoesOn(p) ==
  \/ CleanupAsks(p) \/ CleanupEnds(p) \/ SweepEnds(p)
  \/ \E r \in requests : r.peer = p /\ BluezDisconnects(r)

WatchGoesOn(g) == WatchBegins(g) \/ WatchReports(g)

Fairness ==
  /\ \A c \in Calls : WF_vars(CallGoesOn(c))
  /\ \A p \in Peers : WF_vars(CleanupGoesOn(p))
  /\ \A g \in Generations : WF_vars(WatchGoesOn(g))

FairSpec == Spec /\ Fairness

-----------------------------------------------------------------------------
\* A call that BlueZ has and nobody waits for meets no link but its own: while
\* the Connect of an abandoned dial or the Disconnect that cleans up after it is
\* outstanding, its address is quarantined and no generation owns it.
StaleCallsMeetNoLink ==
  \A r \in requests :
    r.for = "cleanup" \/ (r.kind = "connect" /\ r.for = "nobody")
      => r.peer \in quarantine /\ dialed[r.peer] = None

\* A handle acts on its own link, or on none: from its look at dialed to BlueZ's
\* answer no other generation takes the address, and no central is admitted
\* whose link the Disconnect would take down.
HandlesKeepToTheirLink ==
  \A c \in Calls :
    /\ call[c].pc \in {"using", "leaving"}
         => dialed[call[c].peer] \in {None, call[c].gen}
    /\ call[c].pc = "leaving" => ~served[call[c].peer]

\* No refusal is for ever: every address that is in flight or quarantined can be
\* dialled again later, however its dial ended and whatever BlueZ refused.
Refused(p) == p \in inFlight \cup quarantine

RefusalsEnd == \A p \in Peers : Refused(p) ~> ~Refused(p)

\* A link that is gone is given up by the generation that owned it, and so
\* reported, even if it went before its watcher had subscribed.  The excuse is a
\* subscription that BlueZ refuses.
OwnsLostLink(g) ==
  /\ watch[g].st \in {"arming", "on", "told"}
  /\ dialed[watch[g].peer] = g /\ ~acl[watch[g].peer]

LossIsReported == \A g \in Generations : OwnsLostLink(g) ~> ~OwnsLostLink(g)

\* No Disconnect is outstanding while another generation owns its address, as
\* the comment on dial_lock has it: the check and the call exclude a dial for
\* their whole duration.
NoDisconnectMeetsAnother ==
  \A r \in requests :
    r.kind = "disconnect" => dialed[r.peer] \in {None, r.gen}

-----------------------------------------------------------------------------
(* The inductive invariant of LinuxConnectProofs. *)

\* Where a call is its address's dial, where it owns the address, and where it
\* holds the address's lock.
Underway == {"queued", "dialling", "connected", "refused", "dropping"}
Owning   == {"dialling", "connected", "refused"}
Locking  == Owning \cup {"dropping", "using", "leaving", "gone"}

TypeOK ==
  /\ call \in [Calls -> [pc : {"idle", "up", "used", "closing"} \cup Underway \cup Locking,
                        peer : Peers \cup {"none"}, gen : Nat]]
  /\ \A c \in Calls : call[c].pc # "idle" => call[c].peer \in Peers
  /\ dialed \in [Peers -> Nat] /\ {inFlight, quarantine} \subseteq SUBSET Peers
  /\ lock \in [Peers -> Calls \cup {"free", "sweep"}]
  /\ admission \in Calls \cup {"free"}
  /\ served \in [Peers -> BOOLEAN]
  /\ cleanup \in [Peers -> {"none", "wanted", "asked", "clean"}]
  /\ sweep \in [Peers -> {"due", "seen", "asked", "done"}]
  /\ watch \in [Generations -> [st : {"none", "arming", "on", "told", "done", "refused"},
                               peer : Peers \cup {"none"}]]
  /\ \A g \in Generations : watch[g].st # "none" => watch[g].peer \in Peers
  /\ session \in Nat \ {0}
  /\ requests \subseteq [kind : {"connect", "disconnect"}, peer : Peers, gen : Nat,
                          for : Calls \cup {"cleanup", "sweep", "nobody"}]

LocksAreHeld ==
  /\ \A c \in Calls : call[c].pc \in Locking => lock[call[c].peer] = c
  /\ \A c \in Calls : call[c].pc \in {"leaving", "gone"} => admission = c
  /\ \A p \in Peers : sweep[p] = "asked" => lock[p] = "sweep"

\* An address has one dial at a time,
DialsAreAlone ==
  /\ \A c \in Calls : call[c].pc \in Underway => call[c].peer \in inFlight
  /\ \A c, d \in Calls :
       /\ call[c].pc \in Underway /\ call[d].pc \in Underway
       /\ call[c].peer = call[d].peer
       => c = d

\* which owns it and meets no quarantine,
DialsOwn ==
  \A c \in Calls : call[c].pc \in Owning =>
    dialed[call[c].peer] = call[c].gen /\ call[c].peer \notin quarantine

\* under a generation that no other dial and no watcher goes by.
GenerationsAreNew ==
  /\ \A c \in Calls : call[c].pc \in Owning =>
       /\ call[c].gen \in Generations /\ call[c].gen < session
       /\ watch[call[c].gen].st = "none"
  /\ \A g \in Generations : watch[g].st # "none" => g < session
  /\ \A c, d \in Calls :
       /\ call[c].pc \in Owning /\ call[d].pc \in Owning
       /\ call[c].gen = call[d].gen
       => c = d

\* Who is said to wait for a call does, and for that one only.
RequestsAreKnown ==
  \A r \in requests :
    /\ r.for \in Calls /\ r.kind = "connect" =>
         /\ call[r.for].pc = "dialling"
         /\ r.peer = call[r.for].peer /\ r.gen = call[r.for].gen
    /\ r.for \in Calls /\ r.kind = "disconnect" =>
         /\ call[r.for].pc = "leaving"
         /\ r.peer = call[r.for].peer /\ r.gen = call[r.for].gen
    /\ r.for = "cleanup" => r = Request("disconnect", r.peer, None, "cleanup")
    /\ r.for = "sweep" => r.kind = "disconnect"

\* A quarantined address has no owner.  It is quarantined as long as its
\* cleanup runs, and the cleanup has come to its end only when no call of a
\* dial is left.
QuarantineHolds ==
  /\ \A p \in Peers : p \in quarantine <=> cleanup[p] # "none"
  /\ \A p \in quarantine : dialed[p] = None
  /\ \A r \in requests :
       /\ r.for = "cleanup" => cleanup[r.peer] = "asked"
       /\ r.kind = "connect" /\ r.for = "nobody" => cleanup[r.peer] \in {"wanted", "asked"}

CInv ==
  /\ TypeOK /\ LocksAreHeld /\ DialsAreAlone /\ DialsOwn /\ GenerationsAreNew
  /\ RequestsAreKnown /\ QuarantineHolds /\ HandlesKeepToTheirLink
=============================================================================
