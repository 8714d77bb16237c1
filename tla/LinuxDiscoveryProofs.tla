------------------------ MODULE LinuxDiscoveryProofs ------------------------
(***************************************************************************)
(* Proofs about LinuxDiscovery, for any number of scans and dials.  The    *)
(* inductive invariant DInv rests on the lock: nobody sends while another  *)
(* waits for BlueZ (CallIsLast).  So when a start fails, or a stop         *)
(* succeeds, every call sent before it has been read as well and nothing is *)
(* left on (AnswersProve), and the driver may take back what it owes.      *)
(***************************************************************************)
EXTENDS LinuxDiscovery, TLAPS, FiniteSetTheorems, SequenceTheorems

-----------------------------------------------------------------------------
(* Lemmas *)

\* Disowning calls changes whom they are from and nothing else.
LEMMA DisownTypes ==
  ASSUME DInv, NEW a \in Actors, Disown(a)
  PROVE  bus' \in Seq(Calls) /\ starting' \subseteq Actors \cup {NoOne}
  <1> DEFINE caller(i) == IF bus[i].from = a THEN Call(bus[i].method, NoOne) ELSE bus[i]
  <1>1. bus \in Seq(Calls) /\ starting \subseteq Actors \cup {NoOne}
    BY DEF DInv, TypeOK
  <1>2. \A i \in 1..Len(bus) : caller(i) \in Calls
    <2> SUFFICES ASSUME NEW i \in 1..Len(bus) PROVE caller(i) \in Calls
      OBVIOUS
    <2>1. bus[i] \in Calls
      BY <1>1
    <2>2. Call(bus[i].method, NoOne) \in Calls
      BY <2>1 DEF Calls, Call
    <2>3. QED BY <2>1, <2>2
  <1>3. bus' = [i \in 1..Len(bus) |-> caller(i)]
    BY <1>1 DEF Disown
  <1> HIDE DEF caller
  <1>4. bus' \in Seq(Calls)
    BY <1>1, <1>2, <1>3
  <1>5. QED BY <1>1, <1>4 DEF Disown

\* BlueZ reads the oldest call.
LEMMA ReadTypes ==
  ASSUME DInv, Read
  PROVE  /\ Next1 \in Calls /\ bus' \in Seq(Calls)
         /\ bus' = Tail(bus) /\ 1 \in DOMAIN bus /\ Next1 = bus[1]
  BY DEF DInv, TypeOK, Read, Next1

\* The scan that ends was counted.
LEMMA LiveIsLive ==
  ASSUME DInv, NEW s \in Scans, scan[s] = "live"
  PROVE  /\ live > 0
         /\ live - 1 = Cardinality({x \in Scans : scan[x] = "live"} \ {s})
  <1> DEFINE L == {x \in Scans : scan[x] = "live"}
  <1>1. IsFiniteSet(L)
    BY DiscoveryAssumption, FS_Subset DEF DiscoveryAssumption
  <1>2. s \in L /\ live = Cardinality(L)
    BY DEF DInv, LiveIsCounted
  <1> HIDE DEF L
  <1>3. Cardinality(L \ {s}) = Cardinality(L) - 1
    BY <1>1, <1>2, FS_RemoveElement
  <1>4. Cardinality(L \ {s}) \in Nat /\ Cardinality(L) \in Nat
    BY <1>1, FS_CardinalityType, FS_Subset
  <1>5. QED BY <1>2, <1>3, <1>4 DEF L

\* A scan that becomes live is counted once.
LEMMA OneMoreLive ==
  ASSUME DInv, NEW s \in Scans, scan[s] # "live"
  PROVE  live + 1 = Cardinality({x \in Scans : scan[x] = "live"} \cup {s})
  <1> DEFINE L == {x \in Scans : scan[x] = "live"}
  <1>1. IsFiniteSet(L)
    BY DiscoveryAssumption, FS_Subset DEF DiscoveryAssumption
  <1>2. s \notin L /\ live = Cardinality(L)
    BY DEF DInv, LiveIsCounted
  <1> HIDE DEF L
  <1>3. QED BY <1>1, <1>2, FS_AddElement DEF L

-----------------------------------------------------------------------------
(* The initial state, and one lemma per action. *)

\* Nothing is on and nothing is owed.
LEMMA InitKeeps == Init => DInv
  <1> USE DiscoveryAssumption DEF DiscoveryAssumption, Init, Actors
  <1> SUFFICES ASSUME Init PROVE DInv
    OBVIOUS
  <1>1. TypeOK
    <2>1. bus \in Seq(Calls)
      BY DEF Calls
    <2>2. op \in Actors \cup {NoOne} /\ running \in BOOLEAN /\ live \in Nat /\ left \in Nat
      OBVIOUS
    <2>3. {listed, others, powered, slipped} \subseteq BOOLEAN /\ starting \subseteq Actors
      OBVIOUS
    <2>4. QED BY <2>1, <2>2, <2>3 DEF TypeOK
  <1>2. LiveIsCounted
    <2>1. {s \in Scans : scan[s] = "live"} = {}
      OBVIOUS
    <2>2. QED BY <2>1, FS_EmptySet DEF LiveIsCounted
  <1>3. LockIsHeld /\ CallIsLast /\ BluezIsSane /\ AnswersProve /\ NothingIsForgotten
    BY DEF LockIsHeld, CallIsLast, BluezIsSane, AnswersProve, NothingIsForgotten,
           Waiting, AsksStart, AsksStop, StartUnfinished
  <1>4. QED BY <1>1, <1>2, <1>3 DEF DInv

\* A scan asks for the lock.
LEMMA ScanBeginsKeeps ==
  ASSUME DInv, NEW s \in Scans, ScanBegins(s)
  PROVE  DInv'
  <1> USE DiscoveryAssumption
      DEF DiscoveryAssumption, DInv, ScanBegins, state, bluez, TypeOK, Actors,
          Calls, Waiting
  <1>1. TypeOK'
    OBVIOUS
  <1>2. LiveIsCounted'
    <2>1. {x \in Scans : scan'[x] = "live"} = {x \in Scans : scan[x] = "live"}
      OBVIOUS
    <2>2. QED BY <2>1 DEF LiveIsCounted
  <1>3. LockIsHeld'
    BY DEF LockIsHeld
  <1>4. CallIsLast'
    BY DEF CallIsLast, AsksStart, AsksStop
  <1>5. BluezIsSane'
    BY DEF BluezIsSane
  <1>6. AnswersProve'
    BY DEF AnswersProve, AsksStart
  <1>7. NothingIsForgotten'
    BY DEF NothingIsForgotten, StartUnfinished
  <1>8. QED BY <1>1, <1>2, <1>3, <1>4, <1>5, <1>6, <1>7

\* A scan is counted into a discovery that is on.
LEMMA SharesDiscoveryKeeps ==
  ASSUME DInv, NEW s \in Scans, SharesDiscovery(s)
  PROVE  DInv'
  <1> USE DiscoveryAssumption
      DEF DiscoveryAssumption, DInv, SharesDiscovery, bluez, Discovering,
          TypeOK, Actors, Calls, Waiting
  <1>1. TypeOK'
    OBVIOUS
  <1>2. LiveIsCounted'
    <2>1. {x \in Scans : scan'[x] = "live"} = {x \in Scans : scan[x] = "live"} \cup {s}
      OBVIOUS
    <2>2. QED BY <2>1, OneMoreLive DEF LiveIsCounted
  <1>3. LockIsHeld'
    BY DEF LockIsHeld
  <1>4. CallIsLast'
    BY DEF CallIsLast, AsksStart, AsksStop
  <1>5. BluezIsSane'
    BY DEF BluezIsSane
  <1>6. AnswersProve'
    BY DEF AnswersProve, AsksStart
  <1>7. NothingIsForgotten'
    BY DEF NothingIsForgotten, StartUnfinished
  <1>8. QED BY <1>1, <1>2, <1>3, <1>4, <1>5, <1>6, <1>7

\* The first scan marks the stop as owed and sends its start.
LEMMA StartsDiscoveryKeeps ==
  ASSUME DInv, NEW s \in Scans, StartsDiscovery(s)
  PROVE  DInv'
  <1> USE DiscoveryAssumption
      DEF DiscoveryAssumption, DInv, StartsDiscovery, Send, Call, Marks,
          Discovering, TypeOK, Actors, Calls, Waiting
  <1>1. TypeOK'
    OBVIOUS
  <1>2. LiveIsCounted'
    <2>1. {x \in Scans : scan'[x] = "live"} = {x \in Scans : scan[x] = "live"}
      OBVIOUS
    <2>2. QED BY <2>1 DEF LiveIsCounted
  <1>3. LockIsHeld'
    BY DEF LockIsHeld
  <1>4. CallIsLast'
    BY DEF CallIsLast, AsksStart, AsksStop
  <1>5. BluezIsSane'
    BY DEF BluezIsSane
  <1>6. AnswersProve'
    BY DEF AnswersProve, AsksStart, CallIsLast
  <1>7. NothingIsForgotten'
    BY DEF NothingIsForgotten, StartUnfinished
  <1>8. QED BY <1>1, <1>2, <1>3, <1>4, <1>5, <1>6, <1>7

\* A start is answered; only a failure that proves it takes back what is owed.
LEMMA StartAnsweredKeeps ==
  ASSUME DInv, NEW s \in Scans, StartAnswered(s)
  PROVE  DInv'
  <1> USE DiscoveryAssumption
      DEF DiscoveryAssumption, DInv, StartAnswered, bluez, ProvedNotRunning,
          TypeOK, Actors, Calls, Waiting
  <1>1. TypeOK'
    <2>1. running' \in BOOLEAN
      BY Zenon
    <2>2. QED BY <2>1
  <1>2. LiveIsCounted'
    <2>1. CASE answer[s] = "ok"
      <3>1. {x \in Scans : scan'[x] = "live"} = {x \in Scans : scan[x] = "live"} \cup {s}
        BY <2>1
      <3>2. QED BY <2>1, <3>1, OneMoreLive DEF LiveIsCounted
    <2>2. CASE answer[s] # "ok"
      <3>1. {x \in Scans : scan'[x] = "live"} = {x \in Scans : scan[x] = "live"}
        BY <2>2
      <3>2. QED BY <2>2, <3>1 DEF LiveIsCounted
    <2>3. QED BY <2>1, <2>2
  <1>3. LockIsHeld'
    BY DEF LockIsHeld
  <1>4. CallIsLast'
    BY DEF CallIsLast, AsksStart, AsksStop
  <1>5. BluezIsSane'
    BY DEF BluezIsSane
  <1>6. AnswersProve'
    BY DEF AnswersProve, AsksStart
  <1>7. NothingIsForgotten'
    BY DEF NothingIsForgotten, StartUnfinished, AnswersProve, CallIsLast,
           LockIsHeld, BluezIsSane, AsksStart
  <1>8. QED BY <1>1, <1>2, <1>3, <1>4, <1>5, <1>6, <1>7

\* A wedged start sends for a stop.
LEMMA ClearsWedgeKeeps ==
  ASSUME DInv, NEW s \in Scans, ClearsWedge(s)
  PROVE  DInv'
  <1> USE DiscoveryAssumption
      DEF DiscoveryAssumption, DInv, ClearsWedge, state, Send, Call, TypeOK,
          Actors, Calls, Waiting
  <1>1. TypeOK'
    OBVIOUS
  <1>2. LiveIsCounted'
    <2>1. {x \in Scans : scan'[x] = "live"} = {x \in Scans : scan[x] = "live"}
      OBVIOUS
    <2>2. QED BY <2>1 DEF LiveIsCounted
  <1>3. LockIsHeld'
    BY DEF LockIsHeld
  <1>4. CallIsLast'
    BY DEF CallIsLast, AsksStart, AsksStop
  <1>5. BluezIsSane'
    BY DEF BluezIsSane
  <1>6. AnswersProve'
    BY DEF AnswersProve, AsksStart
  <1>7. NothingIsForgotten'
    BY DEF NothingIsForgotten, StartUnfinished
  <1>8. QED BY <1>1, <1>2, <1>3, <1>4, <1>5, <1>6, <1>7

\* The start that follows the stop.
LEMMA StartsAgainKeeps ==
  ASSUME DInv, NEW s \in Scans, StartsAgain(s)
  PROVE  DInv'
  <1> USE DiscoveryAssumption
      DEF DiscoveryAssumption, DInv, StartsAgain, state, Send, Call, TypeOK,
          Actors, Calls, Waiting
  <1>1. TypeOK'
    OBVIOUS
  <1>2. LiveIsCounted'
    <2>1. {x \in Scans : scan'[x] = "live"} = {x \in Scans : scan[x] = "live"}
      OBVIOUS
    <2>2. QED BY <2>1 DEF LiveIsCounted
  <1>3. LockIsHeld'
    BY DEF LockIsHeld
  <1>4. CallIsLast'
    BY DEF CallIsLast, AsksStart, AsksStop
  <1>5. BluezIsSane'
    BY DEF BluezIsSane
  <1>6. AnswersProve'
    BY DEF AnswersProve, AsksStart
  <1>7. NothingIsForgotten'
    BY DEF NothingIsForgotten, StartUnfinished, LockIsHeld
  <1>8. QED BY <1>1, <1>2, <1>3, <1>4, <1>5, <1>6, <1>7

\* A dropped scan leaves its call with BlueZ, and nobody to hear the answer.
LEMMA ScanCancelledKeeps ==
  ASSUME DInv, NEW s \in Scans, ScanCancelled(s)
  PROVE  DInv'
  <1>0. bus' \in Seq(Calls) /\ starting' \subseteq Actors \cup {NoOne}
    BY DisownTypes DEF ScanCancelled, Actors
  <1> USE DiscoveryAssumption
      DEF DiscoveryAssumption, DInv, ScanCancelled, state, Disturb, Call,
          Disown, TypeOK, Actors, Calls, Waiting
  <1>1. TypeOK'
    BY <1>0
  <1>2. LiveIsCounted'
    <2>1. {x \in Scans : scan'[x] = "live"} = {x \in Scans : scan[x] = "live"}
      OBVIOUS
    <2>2. QED BY <2>1 DEF LiveIsCounted
  <1>3. LockIsHeld'
    BY DEF LockIsHeld
  <1>4. CallIsLast'
    BY DEF CallIsLast, AsksStart, AsksStop
  <1>5. BluezIsSane'
    BY DEF BluezIsSane
  <1>6. AnswersProve'
    BY DEF AnswersProve, AsksStart
  <1>7. NothingIsForgotten'
    BY DEF NothingIsForgotten, StartUnfinished
  <1>8. QED BY <1>1, <1>2, <1>3, <1>4, <1>5, <1>6, <1>7

\* A guard is dropped.
LEMMA ScanEndsKeeps ==
  ASSUME DInv, NEW s \in Scans, ScanEnds(s)
  PROVE  DInv'
  <1> USE DiscoveryAssumption
      DEF DiscoveryAssumption, DInv, ScanEnds, bluez, TypeOK, Actors, Calls,
          Waiting
  <1>0. live > 0 /\ live - 1 \in Nat
    <2>1. scan[s] = "live" /\ live \in Nat
      OBVIOUS
    <2>2. live > 0
      BY <2>1, LiveIsLive
    <2>3. QED BY <2>1, <2>2
  <1>1. TypeOK'
    BY <1>0
  <1>2. LiveIsCounted'
    <2>1. {x \in Scans : scan'[x] = "live"} = {x \in Scans : scan[x] = "live"} \ {s}
      OBVIOUS
    <2>2. QED BY <2>1, LiveIsLive DEF LiveIsCounted
  <1>3. LockIsHeld'
    BY <1>0 DEF LockIsHeld, CallIsLast
  <1>4. CallIsLast'
    BY DEF CallIsLast, LockIsHeld, AsksStart, AsksStop
  <1>5. BluezIsSane'
    BY DEF BluezIsSane
  <1>6. AnswersProve'
    BY DEF AnswersProve, AsksStart
  <1>7. NothingIsForgotten'
    BY DEF NothingIsForgotten, StartUnfinished
  <1>8. QED BY <1>1, <1>2, <1>3, <1>4, <1>5, <1>6, <1>7

\* A dial looks whether a stop is owed.
LEMMA DialBeginsKeeps ==
  ASSUME DInv, NEW d \in Dials, DialBegins(d)
  PROVE  DInv'
  <1> USE DiscoveryAssumption
      DEF DiscoveryAssumption, DInv, DialBegins, state, bluez, IdleRunning,
          TypeOK, Actors, Calls, Waiting
  <1>1. TypeOK'
    OBVIOUS
  <1>2. LiveIsCounted'
    <2>1. {x \in Scans : scan'[x] = "live"} = {x \in Scans : scan[x] = "live"}
      OBVIOUS
    <2>2. QED BY <2>1 DEF LiveIsCounted
  <1>3. LockIsHeld'
    BY DEF LockIsHeld
  <1>4. CallIsLast'
    BY DEF CallIsLast, LockIsHeld, AsksStart, AsksStop
  <1>5. BluezIsSane'
    BY DEF BluezIsSane
  <1>6. AnswersProve'
    BY DEF AnswersProve, AsksStart
  <1>7. NothingIsForgotten'
    BY DEF NothingIsForgotten, StartUnfinished
  <1>8. QED BY <1>1, <1>2, <1>3, <1>4, <1>5, <1>6, <1>7

\* A dial has settled.
LEMMA DialSettledKeeps ==
  ASSUME DInv, NEW d \in Dials, DialSettled(d)
  PROVE  DInv'
  <1> USE DiscoveryAssumption
      DEF DiscoveryAssumption, DInv, DialSettled, state, bluez, TypeOK,
          Actors, Calls, Waiting
  <1>1. TypeOK'
    OBVIOUS
  <1>2. LiveIsCounted'
    <2>1. {x \in Scans : scan'[x] = "live"} = {x \in Scans : scan[x] = "live"}
      OBVIOUS
    <2>2. QED BY <2>1 DEF LiveIsCounted
  <1>3. LockIsHeld'
    BY DEF LockIsHeld
  <1>4. CallIsLast'
    BY DEF CallIsLast, AsksStart, AsksStop
  <1>5. BluezIsSane'
    BY DEF BluezIsSane
  <1>6. AnswersProve'
    BY DEF AnswersProve, AsksStart
  <1>7. NothingIsForgotten'
    BY DEF NothingIsForgotten, StartUnfinished
  <1>8. QED BY <1>1, <1>2, <1>3, <1>4, <1>5, <1>6, <1>7

\* A dial stops waiting: its stop stays with BlueZ.
LEMMA DialGivesUpKeeps ==
  ASSUME DInv, NEW d \in Dials, DialGivesUp(d)
  PROVE  DInv'
  <1>0. bus' \in Seq(Calls) /\ starting' \subseteq Actors \cup {NoOne}
    BY DisownTypes DEF DialGivesUp, Actors
  <1> USE DiscoveryAssumption
      DEF DiscoveryAssumption, DInv, DialGivesUp, state, Disturb, Call,
          Disown, TypeOK, Actors, Calls, Waiting
  <1>1. TypeOK'
    BY <1>0
  <1>2. LiveIsCounted'
    <2>1. {x \in Scans : scan'[x] = "live"} = {x \in Scans : scan[x] = "live"}
      OBVIOUS
    <2>2. QED BY <2>1 DEF LiveIsCounted
  <1>3. LockIsHeld'
    BY DEF LockIsHeld
  <1>4. CallIsLast'
    BY DEF CallIsLast, AsksStart, AsksStop
  <1>5. BluezIsSane'
    BY DEF BluezIsSane
  <1>6. AnswersProve'
    BY DEF AnswersProve, AsksStart
  <1>7. NothingIsForgotten'
    BY DEF NothingIsForgotten, StartUnfinished
  <1>8. QED BY <1>1, <1>2, <1>3, <1>4, <1>5, <1>6, <1>7

\* A dial ends.
LEMMA DialEndsKeeps ==
  ASSUME DInv, NEW d \in Dials, DialEnds(d)
  PROVE  DInv'
  <1> USE DiscoveryAssumption
      DEF DiscoveryAssumption, DInv, DialEnds, state, bluez, TypeOK, Actors,
          Calls, Waiting
  <1>1. TypeOK'
    OBVIOUS
  <1>2. LiveIsCounted'
    <2>1. {x \in Scans : scan'[x] = "live"} = {x \in Scans : scan[x] = "live"}
      OBVIOUS
    <2>2. QED BY <2>1 DEF LiveIsCounted
  <1>3. LockIsHeld'
    BY DEF LockIsHeld
  <1>4. CallIsLast'
    BY DEF CallIsLast, AsksStart, AsksStop
  <1>5. BluezIsSane'
    BY DEF BluezIsSane
  <1>6. AnswersProve'
    BY DEF AnswersProve, AsksStart
  <1>7. NothingIsForgotten'
    BY DEF NothingIsForgotten, StartUnfinished
  <1>8. QED BY <1>1, <1>2, <1>3, <1>4, <1>5, <1>6, <1>7

\* A stop nobody owes any more.
LEMMA StopSkippedKeeps ==
  ASSUME DInv, NEW a \in Actors, StopSkipped(a)
  PROVE  DInv'
  <1> USE DiscoveryAssumption
      DEF DiscoveryAssumption, DInv, StopSkipped, state, bluez, IdleRunning,
          TypeOK, Actors, Calls, Waiting
  <1>1. TypeOK'
    OBVIOUS
  <1>2. LiveIsCounted'
    <2>1. {x \in Scans : scan'[x] = "live"} = {x \in Scans : scan[x] = "live"}
      OBVIOUS
    <2>2. QED BY <2>1 DEF LiveIsCounted
  <1>3. LockIsHeld'
    BY DEF LockIsHeld
  <1>4. CallIsLast'
    BY DEF CallIsLast, AsksStart, AsksStop
  <1>5. BluezIsSane'
    BY DEF BluezIsSane
  <1>6. AnswersProve'
    BY DEF AnswersProve, AsksStart
  <1>7. NothingIsForgotten'
    BY DEF NothingIsForgotten, StartUnfinished
  <1>8. QED BY <1>1, <1>2, <1>3, <1>4, <1>5, <1>6, <1>7

\* A stop is sent with the lock held and no scan live.
LEMMA StopAskedKeeps ==
  ASSUME DInv, NEW a \in Actors, StopAsked(a)
  PROVE  DInv'
  <1> USE DiscoveryAssumption
      DEF DiscoveryAssumption, DInv, StopAsked, state, Send, Call,
          IdleRunning, Asks, TypeOK, Actors, Calls, Waiting
  <1>1. TypeOK'
    OBVIOUS
  <1>2. LiveIsCounted'
    <2>1. {x \in Scans : scan'[x] = "live"} = {x \in Scans : scan[x] = "live"}
      OBVIOUS
    <2>2. QED BY <2>1 DEF LiveIsCounted
  <1>3. LockIsHeld'
    BY DEF LockIsHeld
  <1>4. CallIsLast'
    BY DEF CallIsLast, AsksStart, AsksStop
  <1>5. BluezIsSane'
    BY DEF BluezIsSane
  <1>6. AnswersProve'
    BY DEF AnswersProve, AsksStart, CallIsLast
  <1>7. NothingIsForgotten'
    BY DEF NothingIsForgotten, StartUnfinished
  <1>8. QED BY <1>1, <1>2, <1>3, <1>4, <1>5, <1>6, <1>7

\* A stop is answered; a failed one is written off only if the adapter is not
\* discovering.
LEMMA StopAnsweredKeeps ==
  ASSUME DInv, NEW a \in Actors, StopAnswered(a)
  PROVE  DInv'
  <1> USE DiscoveryAssumption
      DEF DiscoveryAssumption, DInv, StopAnswered, bluez, Discovering, Owed,
          TypeOK, Actors, Calls, Waiting
  <1>1. TypeOK'
    OBVIOUS
  <1>2. LiveIsCounted'
    <2>1. {x \in Scans : scan'[x] = "live"} = {x \in Scans : scan[x] = "live"}
      OBVIOUS
    <2>2. QED BY <2>1 DEF LiveIsCounted
  <1>3. LockIsHeld'
    BY DEF LockIsHeld
  <1>4. CallIsLast'
    BY DEF CallIsLast, AsksStart, AsksStop
  <1>5. BluezIsSane'
    BY DEF BluezIsSane
  <1>6. AnswersProve'
    BY DEF AnswersProve, AsksStart
  <1>7. NothingIsForgotten'
    BY DEF NothingIsForgotten, StartUnfinished, AnswersProve, CallIsLast,
           LockIsHeld, BluezIsSane, AsksStart
  <1>8. QED BY <1>1, <1>2, <1>3, <1>4, <1>5, <1>6, <1>7

\* The caller hears that no reply came.
LEMMA CallTimesOutKeeps ==
  ASSUME DInv, NEW a \in Actors, CallTimesOut(a)
  PROVE  DInv'
  <1> USE DiscoveryAssumption
      DEF DiscoveryAssumption, DInv, CallTimesOut, state, Disturb, Call,
          Heard, Disown, TypeOK, Actors, Calls, Waiting
  <1>1. TypeOK'
    <2>1. bus' \in Seq(Calls) /\ starting' \subseteq Actors \cup {NoOne}
      BY DisownTypes
    <2>2. QED BY <2>1
  <1>2. LiveIsCounted'
    <2>1. {x \in Scans : scan'[x] = "live"} = {x \in Scans : scan[x] = "live"}
      OBVIOUS
    <2>2. QED BY <2>1 DEF LiveIsCounted
  <1>3. LockIsHeld'
    BY DEF LockIsHeld
  <1>4. CallIsLast'
    BY DEF CallIsLast, AsksStart, AsksStop
  <1>5. BluezIsSane'
    BY DEF BluezIsSane
  <1>6. AnswersProve'
    BY DEF AnswersProve, AsksStart
  <1>7. NothingIsForgotten'
    BY DEF NothingIsForgotten, StartUnfinished
  <1>8. QED BY <1>1, <1>2, <1>3, <1>4, <1>5, <1>6, <1>7

\* BlueZ accepts or refuses a start.
LEMMA BluezReadsStartKeeps ==
  ASSUME DInv, BluezReadsStart
  PROVE  DInv'
  <1> USE DiscoveryAssumption
      DEF DiscoveryAssumption, DInv, BluezReadsStart, state, Heard, Next1,
          Read, TypeOK, Actors, Calls, Waiting
  <1>1. TypeOK'
    <2>1. Next1 \in Calls /\ bus' \in Seq(Calls)
      BY ReadTypes
    <2>2. QED BY <2>1
  <1>2. LiveIsCounted'
    <2>1. {x \in Scans : scan'[x] = "live"} = {x \in Scans : scan[x] = "live"}
      OBVIOUS
    <2>2. QED BY <2>1 DEF LiveIsCounted
  <1>3. LockIsHeld'
    BY DEF LockIsHeld
  <1>4. CallIsLast'
    BY DEF CallIsLast, AsksStart, AsksStop
  <1>5. BluezIsSane'
    BY DEF BluezIsSane
  <1>6. AnswersProve'
    BY SMTT(60) DEF AnswersProve, CallIsLast, LockIsHeld, BluezIsSane, AsksStart, AsksStop
  <1>7. NothingIsForgotten'
    BY DEF NothingIsForgotten, StartUnfinished
  <1>8. QED BY <1>1, <1>2, <1>3, <1>4, <1>5, <1>6, <1>7

\* Discovery comes on.
LEMMA BluezStartsKeeps ==
  ASSUME DInv, BluezStarts
  PROVE  DInv'
  <1> USE DiscoveryAssumption
      DEF DiscoveryAssumption, DInv, BluezStarts, state, Heard, TypeOK,
          Actors, Calls, Waiting
  <1>1. TypeOK'
    OBVIOUS
  <1>2. LiveIsCounted'
    <2>1. {x \in Scans : scan'[x] = "live"} = {x \in Scans : scan[x] = "live"}
      OBVIOUS
    <2>2. QED BY <2>1 DEF LiveIsCounted
  <1>3. LockIsHeld'
    BY DEF LockIsHeld
  <1>4. CallIsLast'
    BY DEF CallIsLast, AsksStart, AsksStop
  <1>5. BluezIsSane'
    BY DEF BluezIsSane
  <1>6. AnswersProve'
    BY DEF AnswersProve, AsksStart, LockIsHeld, CallIsLast
  <1>7. NothingIsForgotten'
    BY DEF NothingIsForgotten, StartUnfinished
  <1>8. QED BY <1>1, <1>2, <1>3, <1>4, <1>5, <1>6, <1>7

\* A start that was accepted fails.
LEMMA BluezFailsStartKeeps ==
  ASSUME DInv, BluezFailsStart
  PROVE  DInv'
  <1> USE DiscoveryAssumption
      DEF DiscoveryAssumption, DInv, BluezFailsStart, state, Disturb, Heard,
          TypeOK, Actors, Calls, Waiting
  <1>1. TypeOK'
    OBVIOUS
  <1>2. LiveIsCounted'
    <2>1. {x \in Scans : scan'[x] = "live"} = {x \in Scans : scan[x] = "live"}
      OBVIOUS
    <2>2. QED BY <2>1 DEF LiveIsCounted
  <1>3. LockIsHeld'
    BY DEF LockIsHeld
  <1>4. CallIsLast'
    BY DEF CallIsLast, AsksStart, AsksStop
  <1>5. BluezIsSane'
    BY DEF BluezIsSane
  <1>6. AnswersProve'
    BY DEF AnswersProve, CallIsLast, LockIsHeld, BluezIsSane, AsksStart, AsksStop
  <1>7. NothingIsForgotten'
    BY DEF NothingIsForgotten, StartUnfinished
  <1>8. QED BY <1>1, <1>2, <1>3, <1>4, <1>5, <1>6, <1>7

\* BlueZ reads a stop.
LEMMA BluezStopsKeeps ==
  ASSUME DInv, BluezStops
  PROVE  DInv'
  <1> USE DiscoveryAssumption
      DEF DiscoveryAssumption, DInv, BluezStops, state, Heard, Next1, Read,
          TypeOK, Actors, Calls, Waiting
  <1>1. TypeOK'
    <2>1. Next1 \in Calls /\ bus' \in Seq(Calls)
      BY ReadTypes
    <2>2. QED BY <2>1
  <1>2. LiveIsCounted'
    <2>1. {x \in Scans : scan'[x] = "live"} = {x \in Scans : scan[x] = "live"}
      OBVIOUS
    <2>2. QED BY <2>1 DEF LiveIsCounted
  <1>3. LockIsHeld'
    BY DEF LockIsHeld
  <1>4. CallIsLast'
    BY DEF CallIsLast, AsksStart, AsksStop
  <1>5. BluezIsSane'
    BY DEF BluezIsSane
  <1>6. AnswersProve'
    <2> SUFFICES ASSUME NEW a \in Actors,
                        \/ AsksStart(a)' /\ answer'[a] = "failed"
                        \/ stop'[a] = "asked" /\ answer'[a] = "ok"
                 PROVE  ~listed' /\ starting' = {}
      BY DEF AnswersProve
    <2>1. CASE Next1.from = a
      <3>1. AsksStop(a) /\ a = op
        BY <2>1, ReadTypes DEF CallIsLast
      <3>2. ~AsksStart(a)
        BY <3>1 DEF AsksStart, AsksStop, LockIsHeld
      <3>3. answer'[a] = "ok"
        BY <3>2 DEF AsksStart
      <3>4. QED BY <2>1, <3>3
    <2>2. CASE Next1.from # a
      BY <2>2, ReadTypes DEF AnswersProve, CallIsLast, BluezIsSane, AsksStart, AsksStop
    <2>3. QED BY <2>1, <2>2
  <1>7. NothingIsForgotten'
    BY DEF NothingIsForgotten, StartUnfinished
  <1>8. QED BY <1>1, <1>2, <1>3, <1>4, <1>5, <1>6, <1>7

\* The wedge.
LEMMA BluezRefusesStopKeeps ==
  ASSUME DInv, BluezRefusesStop
  PROVE  DInv'
  <1> USE DiscoveryAssumption
      DEF DiscoveryAssumption, DInv, BluezRefusesStop, state, Disturb, Heard,
          Next1, Read, TypeOK, Actors, Calls, Waiting
  <1>1. TypeOK'
    <2>1. Next1 \in Calls /\ bus' \in Seq(Calls)
      BY ReadTypes
    <2>2. QED BY <2>1
  <1>2. LiveIsCounted'
    <2>1. {x \in Scans : scan'[x] = "live"} = {x \in Scans : scan[x] = "live"}
      OBVIOUS
    <2>2. QED BY <2>1 DEF LiveIsCounted
  <1>3. LockIsHeld'
    BY DEF LockIsHeld
  <1>4. CallIsLast'
    BY DEF CallIsLast, AsksStart, AsksStop
  <1>5. BluezIsSane'
    BY DEF BluezIsSane
  <1>6. AnswersProve'
    BY DEF AnswersProve, CallIsLast, LockIsHeld, BluezIsSane, AsksStart, AsksStop
  <1>7. NothingIsForgotten'
    BY DEF NothingIsForgotten, StartUnfinished
  <1>8. QED BY <1>1, <1>2, <1>3, <1>4, <1>5, <1>6, <1>7

\* The adapter loses power.
LEMMA PowersOffKeeps ==
  ASSUME DInv, PowersOff
  PROVE  DInv'
  <1> USE DiscoveryAssumption
      DEF DiscoveryAssumption, DInv, PowersOff, state, Disturb, TypeOK,
          Actors, Calls, Waiting
  <1>1. TypeOK'
    <2>1. answer' \in [Actors -> {"none", "ok", "inProgress", "failed", "noReply"}]
      OBVIOUS
    <2>2. /\ {listed', others', powered', slipped'} \subseteq BOOLEAN
          /\ starting' \subseteq Actors
      OBVIOUS
    <2>3. /\ op' \in Actors \cup {NoOne} /\ running' \in BOOLEAN
          /\ live' \in Nat /\ left' \in Nat /\ bus' \in Seq(Calls)
      OBVIOUS
    <2>4. QED BY <2>1, <2>2, <2>3
  <1>2. LiveIsCounted'
    <2>1. {x \in Scans : scan'[x] = "live"} = {x \in Scans : scan[x] = "live"}
      OBVIOUS
    <2>2. QED BY <2>1 DEF LiveIsCounted
  <1>3. LockIsHeld'
    BY DEF LockIsHeld
  <1>4. CallIsLast'
    BY DEF CallIsLast, AsksStart, AsksStop
  <1>5. BluezIsSane'
    BY DEF BluezIsSane
  <1>6. AnswersProve'
    BY DEF AnswersProve, AsksStart
  <1>7. NothingIsForgotten'
    BY DEF NothingIsForgotten, StartUnfinished
  <1>8. QED BY <1>1, <1>2, <1>3, <1>4, <1>5, <1>6, <1>7

\* The adapter comes back.
LEMMA PowersOnKeeps ==
  ASSUME DInv, PowersOn
  PROVE  DInv'
  <1> USE DiscoveryAssumption
      DEF DiscoveryAssumption, DInv, PowersOn, state, TypeOK, Actors, Calls,
          Waiting
  <1>1. TypeOK'
    OBVIOUS
  <1>2. LiveIsCounted'
    <2>1. {x \in Scans : scan'[x] = "live"} = {x \in Scans : scan[x] = "live"}
      OBVIOUS
    <2>2. QED BY <2>1 DEF LiveIsCounted
  <1>3. LockIsHeld'
    BY DEF LockIsHeld
  <1>4. CallIsLast'
    BY DEF CallIsLast, AsksStart, AsksStop
  <1>5. BluezIsSane'
    BY DEF BluezIsSane
  <1>6. AnswersProve'
    BY DEF AnswersProve, AsksStart
  <1>7. NothingIsForgotten'
    BY DEF NothingIsForgotten, StartUnfinished
  <1>8. QED BY <1>1, <1>2, <1>3, <1>4, <1>5, <1>6, <1>7

\* Another process starts discovery.
LEMMA OthersScanKeeps ==
  ASSUME DInv, OthersScan
  PROVE  DInv'
  <1> USE DiscoveryAssumption
      DEF DiscoveryAssumption, DInv, OthersScan, state, Disturb, TypeOK,
          Actors, Calls, Waiting
  <1>1. TypeOK'
    OBVIOUS
  <1>2. LiveIsCounted'
    <2>1. {x \in Scans : scan'[x] = "live"} = {x \in Scans : scan[x] = "live"}
      OBVIOUS
    <2>2. QED BY <2>1 DEF LiveIsCounted
  <1>3. LockIsHeld'
    BY DEF LockIsHeld
  <1>4. CallIsLast'
    BY DEF CallIsLast, AsksStart, AsksStop
  <1>5. BluezIsSane'
    BY DEF BluezIsSane
  <1>6. AnswersProve'
    BY DEF AnswersProve, AsksStart
  <1>7. NothingIsForgotten'
    BY DEF NothingIsForgotten, StartUnfinished
  <1>8. QED BY <1>1, <1>2, <1>3, <1>4, <1>5, <1>6, <1>7

\* Another process stops discovery.
LEMMA OthersStopKeeps ==
  ASSUME DInv, OthersStop
  PROVE  DInv'
  <1> USE DiscoveryAssumption
      DEF DiscoveryAssumption, DInv, OthersStop, state, TypeOK, Actors, Calls,
          Waiting
  <1>1. TypeOK'
    OBVIOUS
  <1>2. LiveIsCounted'
    <2>1. {x \in Scans : scan'[x] = "live"} = {x \in Scans : scan[x] = "live"}
      OBVIOUS
    <2>2. QED BY <2>1 DEF LiveIsCounted
  <1>3. LockIsHeld'
    BY DEF LockIsHeld
  <1>4. CallIsLast'
    BY DEF CallIsLast, AsksStart, AsksStop
  <1>5. BluezIsSane'
    BY DEF BluezIsSane
  <1>6. AnswersProve'
    BY DEF AnswersProve, AsksStart
  <1>7. NothingIsForgotten'
    BY DEF NothingIsForgotten, StartUnfinished
  <1>8. QED BY <1>1, <1>2, <1>3, <1>4, <1>5, <1>6, <1>7

-----------------------------------------------------------------------------
(* Theorems *)

\* Every step, and every stutter, keeps the invariant.
LEMMA StepKeeps == DInv /\ [Next]_vars => DInv'
  <1> SUFFICES ASSUME DInv, [Next]_vars PROVE DInv'
    OBVIOUS
  <1>1. ASSUME NEW s \in Scans,
               \/ ScanBegins(s) \/ SharesDiscovery(s) \/ StartsDiscovery(s)
               \/ StartAnswered(s) \/ ClearsWedge(s) \/ StartsAgain(s)
               \/ ScanCancelled(s) \/ ScanEnds(s)
        PROVE  DInv'
    BY <1>1, ScanBeginsKeeps, SharesDiscoveryKeeps, StartsDiscoveryKeeps,
       StartAnsweredKeeps, ClearsWedgeKeeps, StartsAgainKeeps,
       ScanCancelledKeeps, ScanEndsKeeps
  <1>2. ASSUME NEW d \in Dials,
               DialBegins(d) \/ DialSettled(d) \/ DialGivesUp(d) \/ DialEnds(d)
        PROVE  DInv'
    BY <1>2, DialBeginsKeeps, DialSettledKeeps, DialGivesUpKeeps, DialEndsKeeps
  <1>3. ASSUME NEW a \in Actors,
               StopSkipped(a) \/ StopAsked(a) \/ StopAnswered(a) \/ CallTimesOut(a)
        PROVE  DInv'
    BY <1>3, StopSkippedKeeps, StopAskedKeeps, StopAnsweredKeeps, CallTimesOutKeeps
  <1>4. ASSUME \/ BluezReadsStart \/ BluezStarts \/ BluezFailsStart
               \/ BluezStops \/ BluezRefusesStop
               \/ PowersOff \/ PowersOn \/ OthersScan \/ OthersStop
        PROVE  DInv'
    BY <1>4, BluezReadsStartKeeps, BluezStartsKeeps, BluezFailsStartKeeps,
       BluezStopsKeeps, BluezRefusesStopKeeps, PowersOffKeeps,
       PowersOnKeeps, OthersScanKeeps, OthersStopKeeps
  <1>5. CASE UNCHANGED vars
    BY <1>5 DEF vars, state, bluez, DInv, TypeOK, LockIsHeld, LiveIsCounted,
                CallIsLast, BluezIsSane, AnswersProve, NothingIsForgotten,
                AsksStart, AsksStop, StartUnfinished
  <1>6. QED BY <1>1, <1>2, <1>3, <1>4, <1>5 DEF Next

\* The invariant holds in every reachable state, for any scans, dials and number
\* of disturbances.
THEOREM DiscoveryInvariance == Spec => []DInv
  BY InitKeeps, StepKeeps, PTL DEF Spec

\* Whatever was cancelled, refused or left unanswered, a client in BlueZ's list
\* is owed a stop, unless a stop was written off while a start was unfinished.
THEOREM StopStaysOwed == Spec => []StopIsOwed
  <1>1. DInv => StopIsOwed
    BY DEF DInv, NothingIsForgotten, StopIsOwed
  <1>2. QED BY <1>1, DiscoveryInvariance, PTL

\* A stop that is still waited for never takes discovery from a counted scan.
THEOREM AwaitedStopsMeetNoScan == Spec => StopMeetsNoScan
  <1>1. DInv /\ [Next]_vars =>
          [\A a \in Actors :
             stop[a] = "asked" /\ BluezStops /\ listed /\ Next1.from = a => live = 0]_vars
    BY DEF DInv, LockIsHeld
  <1>2. QED BY <1>1, DiscoveryInvariance, PTL DEF Spec, StopMeetsNoScan
=============================================================================
