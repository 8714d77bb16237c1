------------------------- MODULE LinuxConnectProofs -------------------------
(***************************************************************************)
(* Proofs about LinuxConnect, for any addresses, callers, permits and      *)
(* bounds.  The inductive invariant CInv follows the order in which        *)
(* connect() gives things up: while a dial owns its address it holds the   *)
(* lock and goes by a generation nobody else has (LocksAreHeld, DialsOwn,  *)
(* GenerationsAreNew), so nothing but its own guard takes the entry from   *)
(* it; the guard quarantines the address in the same step, and the         *)
(* quarantine outlasts every call the dial left with BlueZ                 *)
(* (QuarantineHolds, RequestsAreKnown).                                    *)
(***************************************************************************)
EXTENDS LinuxConnect, TLAPS

-----------------------------------------------------------------------------
(* The initial state, and one lemma per action. *)

\* Nobody has begun.
LEMMA InitKeeps == Init => CInv
  <1> USE ConnectAssumption
      DEF ConnectAssumption, Init, Idle, None, Underway, Owning, Locking
  <1> SUFFICES ASSUME Init PROVE CInv
    OBVIOUS
  <1>1. TypeOK
    BY DEF TypeOK
  <1>2. LocksAreHeld /\ DialsAreAlone /\ DialsOwn /\ HandlesKeepToTheirLink
    BY DEF LocksAreHeld, DialsAreAlone, DialsOwn, HandlesKeepToTheirLink
  <1>3. GenerationsAreNew /\ RequestsAreKnown /\ QuarantineHolds
    BY DEF GenerationsAreNew, RequestsAreKnown, QuarantineHolds
  <1>4. QED BY <1>1, <1>2, <1>3 DEF CInv

\* An answer moves the call that waits for it, and no other.
LEMMA AnswerMoves ==
  ASSUME CInv, NEW r \in requests, NEW kind, NEW pc, r.kind = kind,
         Answered(r, kind, pc)
  PROVE  call' = [c \in Calls |->
                    IF c = r.for
                    THEN [pc |-> pc, peer |-> call[c].peer, gen |-> call[c].gen]
                    ELSE call[c]]
  <1>1. \A c \in Calls : [call[c] EXCEPT !.pc = pc]
                        = [pc |-> pc, peer |-> call[c].peer, gen |-> call[c].gen]
    BY DEF CInv, TypeOK
  <1>2. CASE r.for \in Calls
    <2>1. call' = [call EXCEPT ![r.for].pc = pc]
      BY <1>2 DEF Answered
    <2>2. call' = [c \in Calls |-> IF c = r.for THEN [call[c] EXCEPT !.pc = pc] ELSE call[c]]
      BY <2>1, <1>2 DEF CInv, TypeOK
    <2>3. QED BY <1>1, <2>2
  <1>3. CASE r.for \notin Calls
    <2>1. call' = call
      BY <1>3 DEF Answered
    <2>2. QED BY <2>1, <1>3 DEF CInv, TypeOK
  <1>4. QED BY <1>2, <1>3

\* A call queues for its address, which nobody else dials.
LEMMA ConnectBeginsKeeps ==
  ASSUME CInv, NEW c \in Calls, NEW p \in Peers, ConnectBegins(c, p)
  PROVE  CInv'
  <1> USE ConnectAssumption
      DEF ConnectAssumption, CInv, TypeOK, ConnectBegins, Idle, locks, tables,
          platform, Underway, Owning, Locking, None
  <1>1. TypeOK'
    OBVIOUS
  <1>2. LocksAreHeld'
    BY DEF LocksAreHeld
  <1>3. DialsAreAlone'
    BY DEF DialsAreAlone
  <1>4. DialsOwn'
    BY DEF DialsOwn
  <1>5. GenerationsAreNew'
    BY DEF GenerationsAreNew
  <1>6. RequestsAreKnown'
    BY DEF RequestsAreKnown
  <1>7. QuarantineHolds'
    BY DEF QuarantineHolds
  <1>8. HandlesKeepToTheirLink'
    BY DEF HandlesKeepToTheirLink
  <1>9. QED BY <1>1, <1>2, <1>3, <1>4, <1>5, <1>6, <1>7, <1>8

\* A new generation takes the address, or is refused for lack of a permit.
LEMMA DialsKeeps ==
  ASSUME CInv, NEW c \in Calls, Dials(c)
  PROVE  CInv'
  <1> USE ConnectAssumption
      DEF ConnectAssumption, CInv, TypeOK, Dials, Returns, Idle, Request,
          locks, tables, platform, Underway, Owning, Locking, None
  <1>1. TypeOK'
    <2>1. CASE permits = 0
      <3>1. \A d \in Calls : call'[d] = IF d = c THEN Idle ELSE call[d]
        BY <2>1
      <3>2. call' \in [Calls -> [pc : {"idle", "up", "used", "closing"} \cup Underway \cup Locking,
                              peer : Peers \cup {"none"}, gen : Nat]]
        BY <2>1
      <3>3. QED BY <2>1, <3>1, <3>2
    <2>2. CASE permits # 0
      <3>1. \A d \in Calls :
              call'[d] = IF d = c
                         THEN [pc |-> "dialling", peer |-> call[c].peer, gen |-> session]
                         ELSE call[d]
        BY <2>2
      <3>2. call' \in [Calls -> [pc : {"idle", "up", "used", "closing"} \cup Underway \cup Locking,
                              peer : Peers \cup {"none"}, gen : Nat]]
        BY <2>2
      <3>3. requests' \subseteq [kind : {"connect", "disconnect"}, peer : Peers, gen : Nat,
                                for : Calls \cup {"cleanup", "sweep", "nobody"}]
        BY <2>2
      <3>4. \A d \in Calls : call'[d].pc # "idle" => call'[d].peer \in Peers
        BY <3>1
      <3>5. /\ session' \in Nat /\ lock' \in [Peers -> Calls \cup {"free", "sweep"}]
            /\ dialed' \in [Peers -> Nat]
        BY <2>2
      <3>6. QED BY <3>2, <3>3, <3>4, <3>5
    <2>3. QED BY <2>1, <2>2
  <1>2. LocksAreHeld'
    <2>1. CASE permits = 0
      BY <2>1 DEF LocksAreHeld
    <2>2. CASE permits # 0
      BY SMTT(60), <2>2 DEF LocksAreHeld
    <2>3. QED BY <2>1, <2>2
  <1>3. DialsAreAlone'
    BY DEF DialsAreAlone
  <1>4. DialsOwn'
    BY SMTT(60) DEF DialsOwn, LocksAreHeld
  <1>5. GenerationsAreNew'
    <2>1. /\ session' = session + 1 /\ session \in Generations /\ UNCHANGED watch
          /\ \A d \in Calls : d # c => call'[d] = call[d]
          /\ call'[c].pc \in Owning => call'[c].gen = session
      BY DEF Generations
    <2>2. \A g \in Generations : g < session => g < session + 1
      BY DEF Generations
    <2>3. watch[session].st = "none" /\ session < session + 1
      BY <2>1 DEF GenerationsAreNew
    <2> HIDE DEF CInv, TypeOK, Dials
    <2>4. QED BY <2>1, <2>2, <2>3 DEF CInv, GenerationsAreNew, Generations
  <1>6. RequestsAreKnown'
    BY DEF RequestsAreKnown
  <1>7. QuarantineHolds'
    BY DEF QuarantineHolds
  <1>8. HandlesKeepToTheirLink'
    <2>1. CASE permits = 0
      BY <2>1 DEF HandlesKeepToTheirLink, LocksAreHeld
    <2>2. CASE permits # 0
      BY <2>2 DEF HandlesKeepToTheirLink, LocksAreHeld
    <2>3. QED BY <2>1, <2>2
  <1>9. QED BY <1>1, <1>2, <1>3, <1>4, <1>5, <1>6, <1>7, <1>8

\* A queued call returns.
LEMMA ConnectRefusedKeeps ==
  ASSUME CInv, NEW c \in Calls, ConnectRefused(c)
  PROVE  CInv'
  <1> USE ConnectAssumption
      DEF ConnectAssumption, CInv, TypeOK, ConnectRefused, Returns, Idle,
          locks, tables, platform, Underway, Owning, Locking, None
  <1>1. TypeOK'
    OBVIOUS
  <1>2. LocksAreHeld'
    BY DEF LocksAreHeld
  <1>3. DialsAreAlone'
    BY DEF DialsAreAlone
  <1>4. DialsOwn'
    BY DEF DialsOwn
  <1>5. GenerationsAreNew'
    BY DEF GenerationsAreNew
  <1>6. RequestsAreKnown'
    BY DEF RequestsAreKnown
  <1>7. QuarantineHolds'
    BY DEF QuarantineHolds
  <1>8. HandlesKeepToTheirLink'
    BY DEF HandlesKeepToTheirLink
  <1>9. QED BY <1>1, <1>2, <1>3, <1>4, <1>5, <1>6, <1>7, <1>8

\* The watcher of a generation begins as its dial ends.
LEMMA ConnectSucceedsKeeps ==
  ASSUME CInv, NEW c \in Calls, ConnectSucceeds(c)
  PROVE  CInv'
  <1> USE ConnectAssumption
      DEF ConnectAssumption, CInv, TypeOK, ConnectSucceeds, Goto, locks,
          tables, platform, Underway, Owning, Locking, None
  <1>1. TypeOK'
    <2>1. call[c].gen \in Generations
      BY DEF GenerationsAreNew
    <2>2. watch' = [watch EXCEPT ![call[c].gen] = [st |-> "arming", peer |-> call[c].peer]]
      OBVIOUS
    <2>3. \A g \in Generations : watch'[g] = IF g = call[c].gen
                                 THEN [st |-> "arming", peer |-> call[c].peer] ELSE watch[g]
      BY <2>1, <2>2
    <2>4. QED BY <2>1, <2>2, <2>3
  <1>2. LocksAreHeld'
    BY DEF LocksAreHeld
  <1>3. DialsAreAlone'
    BY DEF DialsAreAlone
  <1>4. DialsOwn'
    BY DEF DialsOwn
  <1>5. GenerationsAreNew'
    BY DEF GenerationsAreNew
  <1>6. RequestsAreKnown'
    BY DEF RequestsAreKnown
  <1>7. QuarantineHolds'
    BY DEF QuarantineHolds
  <1>8. HandlesKeepToTheirLink'
    BY DEF HandlesKeepToTheirLink
  <1>9. QED BY <1>1, <1>2, <1>3, <1>4, <1>5, <1>6, <1>7, <1>8

\* A dial that BlueZ refused gives the address up.
LEMMA ConnectFailsKeeps ==
  ASSUME CInv, NEW c \in Calls, ConnectFails(c)
  PROVE  CInv'
  <1> USE ConnectAssumption
      DEF ConnectAssumption, CInv, TypeOK, ConnectFails, Returns, Idle,
          Disowned, locks, tables, platform, Underway, Owning, Locking, None
  <1>1. TypeOK'
    OBVIOUS
  <1>2. LocksAreHeld'
    BY DEF LocksAreHeld
  <1>3. DialsAreAlone'
    BY DEF DialsAreAlone
  <1>4. DialsOwn'
    BY DEF DialsOwn, LocksAreHeld
  <1>5. GenerationsAreNew'
    BY DEF GenerationsAreNew
  <1>6. RequestsAreKnown'
    BY DEF RequestsAreKnown
  <1>7. QuarantineHolds'
    BY DEF QuarantineHolds
  <1>8. HandlesKeepToTheirLink'
    BY DEF HandlesKeepToTheirLink
  <1>9. QED BY <1>1, <1>2, <1>3, <1>4, <1>5, <1>6, <1>7, <1>8

\* The guard quarantines the address before anything is released.
LEMMA AbandonsKeeps ==
  ASSUME CInv, NEW c \in Calls, Abandons(c)
  PROVE  CInv'
  <1> USE ConnectAssumption
      DEF ConnectAssumption, CInv, TypeOK, Abandons, Goto, Disowned,
          Quarantine, Forsaken, locks, tables, platform, Underway, Owning,
          Locking, None
  <1>1. TypeOK'
    OBVIOUS
  <1>2. LocksAreHeld'
    BY DEF LocksAreHeld
  <1>3. DialsAreAlone'
    BY DEF DialsAreAlone
  <1>4. DialsOwn'
    BY DEF DialsOwn, LocksAreHeld
  <1>5. GenerationsAreNew'
    BY DEF GenerationsAreNew
  <1>6. RequestsAreKnown'
    BY DEF RequestsAreKnown
  <1>7. QuarantineHolds'
    BY SMTT(60) DEF QuarantineHolds, DialsOwn
  <1>8. HandlesKeepToTheirLink'
    BY DEF HandlesKeepToTheirLink
  <1>9. QED BY <1>1, <1>2, <1>3, <1>4, <1>5, <1>6, <1>7, <1>8

\* The rest of an abandoned call is dropped.
LEMMA DroppedKeeps ==
  ASSUME CInv, NEW c \in Calls, Dropped(c)
  PROVE  CInv'
  <1> USE ConnectAssumption
      DEF ConnectAssumption, CInv, TypeOK, Dropped, Returns, Idle, locks,
          tables, platform, Underway, Owning, Locking, None
  <1>1. TypeOK'
    OBVIOUS
  <1>2. LocksAreHeld'
    BY DEF LocksAreHeld
  <1>3. DialsAreAlone'
    BY DEF DialsAreAlone
  <1>4. DialsOwn'
    BY DEF DialsOwn
  <1>5. GenerationsAreNew'
    BY DEF GenerationsAreNew
  <1>6. RequestsAreKnown'
    BY DEF RequestsAreKnown
  <1>7. QuarantineHolds'
    BY DEF QuarantineHolds
  <1>8. HandlesKeepToTheirLink'
    BY DEF HandlesKeepToTheirLink
  <1>9. QED BY <1>1, <1>2, <1>3, <1>4, <1>5, <1>6, <1>7, <1>8

\* The cleanup sends its Disconnect.
LEMMA CleanupAsksKeeps ==
  ASSUME CInv, NEW p \in Peers, CleanupAsks(p)
  PROVE  CInv'
  <1> USE ConnectAssumption
      DEF ConnectAssumption, CInv, TypeOK, CleanupAsks, Request, locks,
          tables, platform, Underway, Owning, Locking, None
  <1>1. TypeOK'
    OBVIOUS
  <1>2. LocksAreHeld'
    BY DEF LocksAreHeld
  <1>3. DialsAreAlone'
    BY DEF DialsAreAlone
  <1>4. DialsOwn'
    BY DEF DialsOwn
  <1>5. GenerationsAreNew'
    BY DEF GenerationsAreNew
  <1>6. RequestsAreKnown'
    BY DEF RequestsAreKnown
  <1>7. QuarantineHolds'
    BY DEF QuarantineHolds
  <1>8. HandlesKeepToTheirLink'
    BY DEF HandlesKeepToTheirLink
  <1>9. QED BY <1>1, <1>2, <1>3, <1>4, <1>5, <1>6, <1>7, <1>8

\* The quarantine is lifted; no call of a dial is left by then.
LEMMA CleanupEndsKeeps ==
  ASSUME CInv, NEW p \in Peers, CleanupEnds(p)
  PROVE  CInv'
  <1> USE ConnectAssumption
      DEF ConnectAssumption, CInv, TypeOK, CleanupEnds, locks, tables,
          platform, Underway, Owning, Locking, None
  <1>1. TypeOK'
    OBVIOUS
  <1>2. LocksAreHeld'
    BY DEF LocksAreHeld
  <1>3. DialsAreAlone'
    BY DEF DialsAreAlone
  <1>4. DialsOwn'
    BY DEF DialsOwn
  <1>5. GenerationsAreNew'
    BY DEF GenerationsAreNew
  <1>6. RequestsAreKnown'
    BY DEF RequestsAreKnown
  <1>7. QuarantineHolds'
    BY DEF QuarantineHolds
  <1>8. HandlesKeepToTheirLink'
    BY DEF HandlesKeepToTheirLink
  <1>9. QED BY <1>1, <1>2, <1>3, <1>4, <1>5, <1>6, <1>7, <1>8

\* A handle that is current takes the lock.
LEMMA UseBeginsKeeps ==
  ASSUME CInv, NEW c \in Calls, UseBegins(c)
  PROVE  CInv'
  <1> USE ConnectAssumption
      DEF ConnectAssumption, CInv, TypeOK, UseBegins, Goto, EnsureCurrent,
          locks, tables, platform, Underway, Owning, Locking, None
  <1>1. TypeOK'
    OBVIOUS
  <1>2. LocksAreHeld'
    BY DEF LocksAreHeld
  <1>3. DialsAreAlone'
    BY DEF DialsAreAlone
  <1>4. DialsOwn'
    BY DEF DialsOwn
  <1>5. GenerationsAreNew'
    BY DEF GenerationsAreNew
  <1>6. RequestsAreKnown'
    BY DEF RequestsAreKnown
  <1>7. QuarantineHolds'
    BY DEF QuarantineHolds
  <1>8. HandlesKeepToTheirLink'
    BY DEF HandlesKeepToTheirLink
  <1>9. QED BY <1>1, <1>2, <1>3, <1>4, <1>5, <1>6, <1>7, <1>8

\* It gives it back.
LEMMA UseEndsKeeps ==
  ASSUME CInv, NEW c \in Calls, UseEnds(c)
  PROVE  CInv'
  <1> USE ConnectAssumption
      DEF ConnectAssumption, CInv, TypeOK, UseEnds, Goto, locks, tables,
          platform, Underway, Owning, Locking, None
  <1>1. TypeOK'
    OBVIOUS
  <1>2. LocksAreHeld'
    BY DEF LocksAreHeld
  <1>3. DialsAreAlone'
    BY DEF DialsAreAlone
  <1>4. DialsOwn'
    BY DEF DialsOwn
  <1>5. GenerationsAreNew'
    BY DEF GenerationsAreNew
  <1>6. RequestsAreKnown'
    BY DEF RequestsAreKnown
  <1>7. QuarantineHolds'
    BY DEF QuarantineHolds
  <1>8. HandlesKeepToTheirLink'
    BY DEF HandlesKeepToTheirLink
  <1>9. QED BY <1>1, <1>2, <1>3, <1>4, <1>5, <1>6, <1>7, <1>8

\* A handle is to be disconnected.
LEMMA DisconnectBeginsKeeps ==
  ASSUME CInv, NEW c \in Calls, DisconnectBegins(c)
  PROVE  CInv'
  <1> USE ConnectAssumption
      DEF ConnectAssumption, CInv, TypeOK, DisconnectBegins, Goto, locks,
          tables, platform, Underway, Owning, Locking, None
  <1>1. TypeOK'
    OBVIOUS
  <1>2. LocksAreHeld'
    BY DEF LocksAreHeld
  <1>3. DialsAreAlone'
    BY DEF DialsAreAlone
  <1>4. DialsOwn'
    BY DEF DialsOwn
  <1>5. GenerationsAreNew'
    BY DEF GenerationsAreNew
  <1>6. RequestsAreKnown'
    BY DEF RequestsAreKnown
  <1>7. QuarantineHolds'
    BY DEF QuarantineHolds
  <1>8. HandlesKeepToTheirLink'
    BY DEF HandlesKeepToTheirLink
  <1>9. QED BY <1>1, <1>2, <1>3, <1>4, <1>5, <1>6, <1>7, <1>8

\* A handle is dropped, its link stays.
LEMMA HandleDroppedKeeps ==
  ASSUME CInv, NEW c \in Calls, HandleDropped(c)
  PROVE  CInv'
  <1> USE ConnectAssumption
      DEF ConnectAssumption, CInv, TypeOK, HandleDropped, Returns, Idle,
          locks, tables, platform, Underway, Owning, Locking, None
  <1>1. TypeOK'
    OBVIOUS
  <1>2. LocksAreHeld'
    BY DEF LocksAreHeld
  <1>3. DialsAreAlone'
    BY DEF DialsAreAlone
  <1>4. DialsOwn'
    BY DEF DialsOwn
  <1>5. GenerationsAreNew'
    BY DEF GenerationsAreNew
  <1>6. RequestsAreKnown'
    BY DEF RequestsAreKnown
  <1>7. QuarantineHolds'
    BY DEF QuarantineHolds
  <1>8. HandlesKeepToTheirLink'
    BY DEF HandlesKeepToTheirLink
  <1>9. QED BY <1>1, <1>2, <1>3, <1>4, <1>5, <1>6, <1>7, <1>8

\* A handle that is current, and shares its link with no central, disconnects.
LEMMA DisconnectsKeeps ==
  ASSUME CInv, NEW c \in Calls, Disconnects(c)
  PROVE  CInv'
  <1> USE ConnectAssumption
      DEF ConnectAssumption, CInv, TypeOK, Disconnects, Returns, Idle, Goto,
          Disowned, EnsureCurrent, KeepsOut, Request, locks, tables, platform,
          Underway, Owning, Locking, None
  <1>1. TypeOK'
    BY SMTT(60)
  <1>2. LocksAreHeld'
    BY DEF LocksAreHeld
  <1>3. DialsAreAlone'
    <2>1. \A d \in Calls : call'[d].pc \in Underway => call'[d] = call[d]
      OBVIOUS
    <2>2. UNCHANGED inFlight
      OBVIOUS
    <2> HIDE DEF CInv, TypeOK, Disconnects
    <2>3. QED BY <2>1, <2>2 DEF CInv, DialsAreAlone
  <1>4. DialsOwn'
    BY DEF DialsOwn, LocksAreHeld
  <1>5. GenerationsAreNew'
    <2>1. \A d \in Calls : call'[d].pc \in Owning => call'[d] = call[d]
      OBVIOUS
    <2>2. UNCHANGED <<session, watch>>
      OBVIOUS
    <2> HIDE DEF CInv, TypeOK, Disconnects
    <2>3. QED BY <2>1, <2>2 DEF CInv, GenerationsAreNew
  <1>6. RequestsAreKnown'
    BY DEF RequestsAreKnown
  <1>7. QuarantineHolds'
    BY DEF QuarantineHolds
  <1>8. HandlesKeepToTheirLink'
    BY DEF HandlesKeepToTheirLink
  <1>9. QED BY <1>1, <1>2, <1>3, <1>4, <1>5, <1>6, <1>7, <1>8

\* Its Disconnect was answered.
LEMMA DisconnectedKeeps ==
  ASSUME CInv, NEW c \in Calls, Disconnected(c)
  PROVE  CInv'
  <1> USE ConnectAssumption
      DEF ConnectAssumption, CInv, TypeOK, Disconnected, Returns, Idle,
          Released, locks, tables, platform, Underway, Owning, Locking, None
  <1>1. TypeOK'
    OBVIOUS
  <1>2. LocksAreHeld'
    BY DEF LocksAreHeld
  <1>3. DialsAreAlone'
    BY DEF DialsAreAlone
  <1>4. DialsOwn'
    BY DEF DialsOwn
  <1>5. GenerationsAreNew'
    BY DEF GenerationsAreNew
  <1>6. RequestsAreKnown'
    BY DEF RequestsAreKnown
  <1>7. QuarantineHolds'
    BY DEF QuarantineHolds
  <1>8. HandlesKeepToTheirLink'
    BY DEF HandlesKeepToTheirLink
  <1>9. QED BY <1>1, <1>2, <1>3, <1>4, <1>5, <1>6, <1>7, <1>8

\* Its caller is dropped and leaves the Disconnect with BlueZ.
LEMMA DisconnectDroppedKeeps ==
  ASSUME CInv, NEW c \in Calls, DisconnectDropped(c)
  PROVE  CInv'
  <1> USE ConnectAssumption
      DEF ConnectAssumption, CInv, TypeOK, DisconnectDropped, Returns, Idle,
          Released, Forsaken, Disturb, locks, tables, platform, Underway,
          Owning, Locking, None
  <1>1. TypeOK'
    OBVIOUS
  <1>2. LocksAreHeld'
    BY DEF LocksAreHeld
  <1>3. DialsAreAlone'
    BY DEF DialsAreAlone
  <1>4. DialsOwn'
    BY DEF DialsOwn
  <1>5. GenerationsAreNew'
    BY DEF GenerationsAreNew
  <1>6. RequestsAreKnown'
    BY DEF RequestsAreKnown
  <1>7. QuarantineHolds'
    BY DEF QuarantineHolds, RequestsAreKnown
  <1>8. HandlesKeepToTheirLink'
    BY DEF HandlesKeepToTheirLink
  <1>9. QED BY <1>1, <1>2, <1>3, <1>4, <1>5, <1>6, <1>7, <1>8

\* A watcher subscribes and looks once.
LEMMA WatchBeginsKeeps ==
  ASSUME CInv, NEW g \in Generations, WatchBegins(g)
  PROVE  CInv'
  <1> USE ConnectAssumption
      DEF ConnectAssumption, CInv, TypeOK, WatchBegins, SeenUp, Reports,
          Disowned, locks, tables, platform, Underway, Owning, Locking, None
  <1>1. TypeOK'
    BY SMTT(60)
  <1>2. LocksAreHeld'
    BY DEF LocksAreHeld
  <1>3. DialsAreAlone'
    BY DEF DialsAreAlone
  <1>4. DialsOwn'
    BY DEF DialsOwn, GenerationsAreNew
  <1>5. GenerationsAreNew'
    BY DEF GenerationsAreNew
  <1>6. RequestsAreKnown'
    BY DEF RequestsAreKnown
  <1>7. QuarantineHolds'
    BY DEF QuarantineHolds
  <1>8. HandlesKeepToTheirLink'
    BY DEF HandlesKeepToTheirLink
  <1>9. QED BY <1>1, <1>2, <1>3, <1>4, <1>5, <1>6, <1>7, <1>8

\* A watcher cannot subscribe.
LEMMA WatchRefusedKeeps ==
  ASSUME CInv, NEW g \in Generations, WatchRefused(g)
  PROVE  CInv'
  <1> USE ConnectAssumption
      DEF ConnectAssumption, CInv, TypeOK, WatchRefused, Disturb, locks,
          tables, platform, Underway, Owning, Locking, None
  <1>1. TypeOK'
    OBVIOUS
  <1>2. LocksAreHeld'
    BY DEF LocksAreHeld
  <1>3. DialsAreAlone'
    BY DEF DialsAreAlone
  <1>4. DialsOwn'
    BY DEF DialsOwn
  <1>5. GenerationsAreNew'
    BY DEF GenerationsAreNew
  <1>6. RequestsAreKnown'
    BY DEF RequestsAreKnown
  <1>7. QuarantineHolds'
    BY DEF QuarantineHolds
  <1>8. HandlesKeepToTheirLink'
    BY DEF HandlesKeepToTheirLink
  <1>9. QED BY <1>1, <1>2, <1>3, <1>4, <1>5, <1>6, <1>7, <1>8

\* A watcher reports a loss, for its own generation only.
LEMMA WatchReportsKeeps ==
  ASSUME CInv, NEW g \in Generations, WatchReports(g)
  PROVE  CInv'
  <1> USE ConnectAssumption
      DEF ConnectAssumption, CInv, TypeOK, WatchReports, Reports, Disowned,
          locks, tables, platform, Underway, Owning, Locking, None
  <1>1. TypeOK'
    OBVIOUS
  <1>2. LocksAreHeld'
    BY DEF LocksAreHeld
  <1>3. DialsAreAlone'
    BY DEF DialsAreAlone
  <1>4. DialsOwn'
    BY DEF DialsOwn, GenerationsAreNew
  <1>5. GenerationsAreNew'
    BY DEF GenerationsAreNew
  <1>6. RequestsAreKnown'
    BY DEF RequestsAreKnown
  <1>7. QuarantineHolds'
    BY DEF QuarantineHolds
  <1>8. HandlesKeepToTheirLink'
    BY DEF HandlesKeepToTheirLink
  <1>9. QED BY <1>1, <1>2, <1>3, <1>4, <1>5, <1>6, <1>7, <1>8

\* A central is admitted while nobody disconnects.
LEMMA CentralAdmittedKeeps ==
  ASSUME CInv, NEW p \in Peers, CentralAdmitted(p)
  PROVE  CInv'
  <1> USE ConnectAssumption
      DEF ConnectAssumption, CInv, TypeOK, CentralAdmitted, locks, tables,
          platform, Underway, Owning, Locking, None
  <1>1. TypeOK'
    OBVIOUS
  <1>2. LocksAreHeld'
    BY DEF LocksAreHeld
  <1>3. DialsAreAlone'
    BY DEF DialsAreAlone
  <1>4. DialsOwn'
    BY DEF DialsOwn
  <1>5. GenerationsAreNew'
    BY DEF GenerationsAreNew
  <1>6. RequestsAreKnown'
    BY DEF RequestsAreKnown
  <1>7. QuarantineHolds'
    BY DEF QuarantineHolds
  <1>8. HandlesKeepToTheirLink'
    BY DEF HandlesKeepToTheirLink, LocksAreHeld
  <1>9. QED BY <1>1, <1>2, <1>3, <1>4, <1>5, <1>6, <1>7, <1>8

\* A central is retired.
LEMMA CentralRetiredKeeps ==
  ASSUME CInv, NEW p \in Peers, CentralRetired(p)
  PROVE  CInv'
  <1> USE ConnectAssumption
      DEF ConnectAssumption, CInv, TypeOK, CentralRetired, locks, tables,
          platform, Underway, Owning, Locking, None
  <1>1. TypeOK'
    OBVIOUS
  <1>2. LocksAreHeld'
    BY DEF LocksAreHeld
  <1>3. DialsAreAlone'
    BY DEF DialsAreAlone
  <1>4. DialsOwn'
    BY DEF DialsOwn
  <1>5. GenerationsAreNew'
    BY DEF GenerationsAreNew
  <1>6. RequestsAreKnown'
    BY DEF RequestsAreKnown
  <1>7. QuarantineHolds'
    BY DEF QuarantineHolds
  <1>8. HandlesKeepToTheirLink'
    BY DEF HandlesKeepToTheirLink
  <1>9. QED BY <1>1, <1>2, <1>3, <1>4, <1>5, <1>6, <1>7, <1>8

\* The sweep looks at the tables.
LEMMA SweepSeesKeeps ==
  ASSUME CInv, NEW p \in Peers, SweepSees(p)
  PROVE  CInv'
  <1> USE ConnectAssumption
      DEF ConnectAssumption, CInv, TypeOK, SweepSees, locks, tables, platform,
          Underway, Owning, Locking, None
  <1>1. TypeOK'
    OBVIOUS
  <1>2. LocksAreHeld'
    BY DEF LocksAreHeld
  <1>3. DialsAreAlone'
    BY DEF DialsAreAlone
  <1>4. DialsOwn'
    BY DEF DialsOwn
  <1>5. GenerationsAreNew'
    BY DEF GenerationsAreNew
  <1>6. RequestsAreKnown'
    BY DEF RequestsAreKnown
  <1>7. QuarantineHolds'
    BY DEF QuarantineHolds
  <1>8. HandlesKeepToTheirLink'
    BY DEF HandlesKeepToTheirLink
  <1>9. QED BY <1>1, <1>2, <1>3, <1>4, <1>5, <1>6, <1>7, <1>8

\* The sweep takes the lock and sends its Disconnect.
LEMMA SweepAsksKeeps ==
  ASSUME CInv, NEW p \in Peers, SweepAsks(p)
  PROVE  CInv'
  <1> USE ConnectAssumption
      DEF ConnectAssumption, CInv, TypeOK, SweepAsks, Request, locks, tables,
          platform, Underway, Owning, Locking, None
  <1>1. TypeOK'
    OBVIOUS
  <1>2. LocksAreHeld'
    BY DEF LocksAreHeld
  <1>3. DialsAreAlone'
    BY DEF DialsAreAlone
  <1>4. DialsOwn'
    BY DEF DialsOwn
  <1>5. GenerationsAreNew'
    BY DEF GenerationsAreNew
  <1>6. RequestsAreKnown'
    BY DEF RequestsAreKnown
  <1>7. QuarantineHolds'
    BY DEF QuarantineHolds
  <1>8. HandlesKeepToTheirLink'
    BY DEF HandlesKeepToTheirLink
  <1>9. QED BY <1>1, <1>2, <1>3, <1>4, <1>5, <1>6, <1>7, <1>8

\* The sweep was answered, or waits no longer.
LEMMA SweepEndsKeeps ==
  ASSUME CInv, NEW p \in Peers, SweepEnds(p)
  PROVE  CInv'
  <1> USE ConnectAssumption
      DEF ConnectAssumption, CInv, TypeOK, SweepEnds, Forsaken, locks, tables,
          platform, Underway, Owning, Locking, None
  <1>1. TypeOK'
    OBVIOUS
  <1>2. LocksAreHeld'
    BY DEF LocksAreHeld
  <1>3. DialsAreAlone'
    BY DEF DialsAreAlone
  <1>4. DialsOwn'
    BY DEF DialsOwn
  <1>5. GenerationsAreNew'
    BY DEF GenerationsAreNew
  <1>6. RequestsAreKnown'
    BY DEF RequestsAreKnown
  <1>7. QuarantineHolds'
    BY DEF QuarantineHolds, RequestsAreKnown
  <1>8. HandlesKeepToTheirLink'
    BY DEF HandlesKeepToTheirLink
  <1>9. QED BY <1>1, <1>2, <1>3, <1>4, <1>5, <1>6, <1>7, <1>8

\* BlueZ connects.
LEMMA BluezConnectsKeeps ==
  ASSUME CInv, NEW r \in requests, BluezConnects(r)
  PROVE  CInv'
  <1>0. call' = [c \in Calls |->
                  IF c = r.for
                  THEN [pc |-> "connected", peer |-> call[c].peer, gen |-> call[c].gen]
                  ELSE call[c]]
    <2>1. r.kind = "connect" /\ Answered(r, "connect", "connected")
      BY DEF BluezConnects
    <2>2. QED BY <2>1, AnswerMoves
  <1> USE ConnectAssumption
      DEF ConnectAssumption, CInv, TypeOK, BluezConnects, locks, tables,
          platform, Underway, Owning, Locking, None
  <1>1. TypeOK'
    BY <1>0 DEF RequestsAreKnown
  <1>2. LocksAreHeld'
    BY <1>0 DEF LocksAreHeld, RequestsAreKnown
  <1>3. DialsAreAlone'
    BY <1>0 DEF DialsAreAlone, RequestsAreKnown
  <1>4. DialsOwn'
    BY <1>0 DEF DialsOwn, RequestsAreKnown
  <1>5. GenerationsAreNew'
    BY <1>0 DEF GenerationsAreNew, RequestsAreKnown
  <1>6. RequestsAreKnown'
    BY <1>0 DEF RequestsAreKnown
  <1>7. QuarantineHolds'
    BY <1>0 DEF QuarantineHolds
  <1>8. HandlesKeepToTheirLink'
    BY <1>0 DEF HandlesKeepToTheirLink
  <1>9. QED BY <1>1, <1>2, <1>3, <1>4, <1>5, <1>6, <1>7, <1>8

\* BlueZ refuses to.
LEMMA BluezRefusesKeeps ==
  ASSUME CInv, NEW r \in requests, BluezRefuses(r)
  PROVE  CInv'
  <1>0. call' = [c \in Calls |->
                  IF c = r.for
                  THEN [pc |-> "refused", peer |-> call[c].peer, gen |-> call[c].gen]
                  ELSE call[c]]
    <2>1. r.kind = "connect" /\ Answered(r, "connect", "refused")
      BY DEF BluezRefuses
    <2>2. QED BY <2>1, AnswerMoves
  <1> USE ConnectAssumption
      DEF ConnectAssumption, CInv, TypeOK, BluezRefuses, Disturb, locks,
          tables, platform, Underway, Owning, Locking, None
  <1>1. TypeOK'
    BY <1>0 DEF RequestsAreKnown
  <1>2. LocksAreHeld'
    BY <1>0 DEF LocksAreHeld, RequestsAreKnown
  <1>3. DialsAreAlone'
    BY <1>0 DEF DialsAreAlone, RequestsAreKnown
  <1>4. DialsOwn'
    BY <1>0 DEF DialsOwn, RequestsAreKnown
  <1>5. GenerationsAreNew'
    BY <1>0 DEF GenerationsAreNew, RequestsAreKnown
  <1>6. RequestsAreKnown'
    BY <1>0 DEF RequestsAreKnown
  <1>7. QuarantineHolds'
    BY <1>0 DEF QuarantineHolds
  <1>8. HandlesKeepToTheirLink'
    BY <1>0 DEF HandlesKeepToTheirLink
  <1>9. QED BY <1>1, <1>2, <1>3, <1>4, <1>5, <1>6, <1>7, <1>8

\* BlueZ disconnects, and cancels what dials are left.
LEMMA BluezDisconnectsKeeps ==
  ASSUME CInv, NEW r \in requests, BluezDisconnects(r)
  PROVE  CInv'
  <1>0. call' = [c \in Calls |->
                  IF c = r.for
                  THEN [pc |-> "gone", peer |-> call[c].peer, gen |-> call[c].gen]
                  ELSE IF \E q \in requests :
                            q.kind = "connect" /\ q.peer = r.peer /\ q.for = c
                  THEN [pc |-> "refused", peer |-> call[c].peer, gen |-> call[c].gen]
                  ELSE call[c]]
    BY DEF CInv, TypeOK, RequestsAreKnown, BluezDisconnects
  <1> USE ConnectAssumption
      DEF ConnectAssumption, CInv, TypeOK, BluezDisconnects, Told, locks,
          tables, platform, Underway, Owning, Locking, None
  <1>1. TypeOK'
    BY <1>0 DEF RequestsAreKnown
  <1>2. LocksAreHeld'
    BY <1>0 DEF LocksAreHeld, RequestsAreKnown
  <1>3. DialsAreAlone'
    BY <1>0 DEF DialsAreAlone, RequestsAreKnown
  <1>4. DialsOwn'
    BY <1>0 DEF DialsOwn, RequestsAreKnown
  <1>5. GenerationsAreNew'
    BY <1>0 DEF GenerationsAreNew, RequestsAreKnown
  <1>6. RequestsAreKnown'
    BY <1>0 DEF RequestsAreKnown
  <1>7. QuarantineHolds'
    BY <1>0 DEF QuarantineHolds, RequestsAreKnown
  <1>8. HandlesKeepToTheirLink'
    BY <1>0 DEF HandlesKeepToTheirLink
  <1>9. QED BY <1>1, <1>2, <1>3, <1>4, <1>5, <1>6, <1>7, <1>8

\* BlueZ fails to.
LEMMA BluezFailsDisconnectKeeps ==
  ASSUME CInv, NEW r \in requests, BluezFailsDisconnect(r)
  PROVE  CInv'
  <1>0. call' = [c \in Calls |->
                  IF c = r.for
                  THEN [pc |-> "gone", peer |-> call[c].peer, gen |-> call[c].gen]
                  ELSE call[c]]
    <2>1. r.kind = "disconnect" /\ Answered(r, "disconnect", "gone")
      BY DEF BluezFailsDisconnect
    <2>2. QED BY <2>1, AnswerMoves
  <1> USE ConnectAssumption
      DEF ConnectAssumption, CInv, TypeOK, BluezFailsDisconnect, CleansAgain,
          Disturb, locks, tables, platform, Underway, Owning, Locking, None
  <1>1. TypeOK'
    BY <1>0 DEF RequestsAreKnown
  <1>2. LocksAreHeld'
    BY <1>0 DEF LocksAreHeld, RequestsAreKnown
  <1>3. DialsAreAlone'
    BY <1>0 DEF DialsAreAlone
  <1>4. DialsOwn'
    BY <1>0 DEF DialsOwn
  <1>5. GenerationsAreNew'
    BY <1>0 DEF GenerationsAreNew
  <1>6. RequestsAreKnown'
    BY <1>0 DEF RequestsAreKnown
  <1>7. QuarantineHolds'
    BY <1>0 DEF QuarantineHolds, RequestsAreKnown
  <1>8. HandlesKeepToTheirLink'
    BY <1>0 DEF HandlesKeepToTheirLink
  <1>9. QED BY <1>1, <1>2, <1>3, <1>4, <1>5, <1>6, <1>7, <1>8

\* A link drops.
LEMMA LinkDropsKeeps ==
  ASSUME CInv, NEW p \in Peers, LinkDrops(p)
  PROVE  CInv'
  <1> USE ConnectAssumption
      DEF ConnectAssumption, CInv, TypeOK, LinkDrops, Told, locks, tables,
          platform, Underway, Owning, Locking, None
  <1>1. TypeOK'
    OBVIOUS
  <1>2. LocksAreHeld'
    BY DEF LocksAreHeld
  <1>3. DialsAreAlone'
    BY DEF DialsAreAlone
  <1>4. DialsOwn'
    BY DEF DialsOwn
  <1>5. GenerationsAreNew'
    BY DEF GenerationsAreNew
  <1>6. RequestsAreKnown'
    BY DEF RequestsAreKnown
  <1>7. QuarantineHolds'
    BY DEF QuarantineHolds
  <1>8. HandlesKeepToTheirLink'
    BY DEF HandlesKeepToTheirLink
  <1>9. QED BY <1>1, <1>2, <1>3, <1>4, <1>5, <1>6, <1>7, <1>8

-----------------------------------------------------------------------------
(* Theorems *)

\* Every step, and every stutter, keeps the invariant.
LEMMA StepKeeps == CInv /\ [Next]_vars => CInv'
  <1> SUFFICES ASSUME CInv, [Next]_vars PROVE CInv'
    OBVIOUS
  <1>1. ASSUME NEW c \in Calls, CallStep(c)
        PROVE  CInv'
    BY <1>1, ConnectBeginsKeeps, DialsKeeps, ConnectRefusedKeeps,
       ConnectSucceedsKeeps, ConnectFailsKeeps, AbandonsKeeps, DroppedKeeps,
       UseBeginsKeeps, UseEndsKeeps, HandleDroppedKeeps, DisconnectBeginsKeeps,
       DisconnectsKeeps, DisconnectedKeeps, DisconnectDroppedKeeps DEF CallStep
  <1>2. ASSUME NEW p \in Peers,
               \/ CleanupAsks(p) \/ CleanupEnds(p)
               \/ CentralAdmitted(p) \/ CentralRetired(p)
               \/ SweepSees(p) \/ SweepAsks(p) \/ SweepEnds(p)
               \/ LinkDrops(p)
        PROVE  CInv'
    BY <1>2, CleanupAsksKeeps, CleanupEndsKeeps, CentralAdmittedKeeps,
       CentralRetiredKeeps, SweepSeesKeeps, SweepAsksKeeps, SweepEndsKeeps,
       LinkDropsKeeps
  <1>3. ASSUME NEW g \in Generations,
               WatchBegins(g) \/ WatchRefused(g) \/ WatchReports(g)
        PROVE  CInv'
    BY <1>3, WatchBeginsKeeps, WatchRefusedKeeps, WatchReportsKeeps
  <1>4. ASSUME NEW r \in requests,
               \/ BluezConnects(r) \/ BluezRefuses(r)
               \/ BluezDisconnects(r) \/ BluezFailsDisconnect(r)
        PROVE  CInv'
    BY <1>4, BluezConnectsKeeps, BluezRefusesKeeps, BluezDisconnectsKeeps,
       BluezFailsDisconnectKeeps
  <1>5. CASE UNCHANGED vars
    BY <1>5 DEF vars, tables, locks, platform, CInv, TypeOK, LocksAreHeld,
                DialsAreAlone, DialsOwn, GenerationsAreNew, RequestsAreKnown,
                QuarantineHolds, HandlesKeepToTheirLink
  <1>6. QED BY <1>1, <1>2, <1>3, <1>4, <1>5 DEF Next

\* The invariant holds in every reachable state, for any addresses, callers and
\* permits, whatever is abandoned, refused or left unanswered.
THEOREM ConnectInvariance == Spec => []CInv
  BY InitKeeps, StepKeeps, PTL DEF Spec

\* A Connect or Disconnect that an abandoned dial left with BlueZ never meets a
\* later dial's link: its address is quarantined and nobody owns it.
THEOREM StaleCallsNeverMeet == Spec => []StaleCallsMeetNoLink
  <1>1. CInv => StaleCallsMeetNoLink
    BY DEF CInv, TypeOK, QuarantineHolds, StaleCallsMeetNoLink
  <1>2. QED BY <1>1, ConnectInvariance, PTL

\* From a handle's look at dialed to BlueZ's answer no other dial takes the
\* address, and no central is admitted whose link a Disconnect would end.
THEOREM HandlesKeepApart == Spec => []HandlesKeepToTheirLink
  <1>1. CInv => HandlesKeepToTheirLink
    BY DEF CInv
  <1>2. QED BY <1>1, ConnectInvariance, PTL
=============================================================================
