-------------------------- MODULE DatagramServeProofs --------------------------
(***************************************************************************)
(* What the serve task promises of its slot, its channels and the events   *)
(* it reads, for any number of centrals and any depth of its queues.       *)
(***************************************************************************)
EXTENDS DatagramServe, TLAPS, FiniteSetTheorems, SequenceTheorems

-----------------------------------------------------------------------------
(* Sequences *)

\* A queue without its head holds what stood behind it.
LEMMA TailHolds ==
  ASSUME NEW S, NEW q \in Seq(S), q # <<>>
  PROVE  /\ Tail(q) \in Seq(S) /\ Head(q) \in S /\ Head(q) = q[1] /\ 1 \in DOMAIN q
         /\ Len(Tail(q)) = Len(q) - 1 /\ DOMAIN Tail(q) = 1..(Len(q) - 1)
         /\ \A i \in DOMAIN Tail(q) : i + 1 \in DOMAIN q /\ Tail(q)[i] = q[i + 1]
<1>1. Len(q) \in Nat /\ DOMAIN q = 1..Len(q) /\ Len(q) # 0
  BY EmptySeq, LenProperties
<1>2. /\ Head(q) \in S /\ Tail(q) \in Seq(S)
      /\ Len(Tail(q)) = Len(q) - 1
      /\ \A i \in 1..Len(Tail(q)) : Tail(q)[i] = q[i + 1]
  BY HeadTailProperties
<1>3. DOMAIN Tail(q) = 1..(Len(q) - 1)
  BY <1>2, LenProperties
<1>4. Head(q) = q[1]
  OBVIOUS
<1> QED BY <1>1, <1>2, <1>3, <1>4

\* A permutation of a finite set mentions each of its members.
LEMMA OrderCovers ==
  ASSUME NEW S, IsFiniteSet(S), NEW order \in SetToSeqs(S)
  PROVE  /\ order \in Seq(S)
         /\ \A x \in S : \E i \in DOMAIN order : order[i] = x
<1> DEFINE n == Cardinality(S)
<1>1. n \in Nat
  BY FS_CardinalityType
<1>2. order \in [1..n -> S] /\ \A i, j \in 1..n : i # j => order[i] # order[j]
  BY DEF SetToSeqs
<1>3. IsFiniteSet(1..n) /\ Cardinality(1..n) = n
  <2>1. 1 \in Int /\ n \in Int /\ (1 > n => n = 0)
    BY <1>1
  <2>2. IsFiniteSet(1..n) /\ Cardinality(1..n) = (IF 1 > n THEN 0 ELSE n - 1 + 1)
    BY <2>1, FS_Interval
  <2> QED BY <1>1, <2>2
<1>4. order \in Injection(1..n, S)
  BY <1>2 DEF Injection, IsInjective
<1>5. order \in Surjection(1..n, S)
  BY <1>3, <1>4, FS_Injection
<1>6. \A x \in S : \E i \in 1..n : order[i] = x
  BY <1>5 DEF Surjection
<1>7. order \in Seq(S) /\ DOMAIN order = 1..n
  BY <1>1, <1>2, IsASeq
<1> QED BY <1>6, <1>7

-----------------------------------------------------------------------------
(* What the operators on channels keep *)

GensUnique(cs) == \A c, d \in cs : c.gen = d.gen => c = d

\* d is what a step made of c: it never comes back to life.
Follows(d, c) ==
  /\ d.gen = c.gen /\ d.peer = c.peer
  /\ c.place = "dropped" => d.place = "dropped"
  /\ d.active => c.active

Descend(ds, cs) ==
  /\ ds \subseteq Channels /\ GensUnique(ds)
  /\ \A d \in ds : \E c \in cs : Follows(d, c)

\* Nobody loses a channel.
Keep(ds, cs) ==
  \A c \in cs : c.place # "dropped" => \E d \in ds : d.gen = c.gen /\ d.place # "dropped"

\* Deactivated silences the generations it is given and forgets only channels
\* that were dropped.
LEMMA DeactivatedSilences ==
  ASSUME NEW cs \in SUBSET Channels, GensUnique(cs), NEW gens
  PROVE  LET ds == Deactivated(cs, gens) IN
         /\ Descend(ds, cs) /\ Keep(ds, cs)
         /\ \A d \in ds : /\ d.active => d.gen \notin gens
                          /\ d.place = "dropped" => d.active
                          /\ \E c \in cs : /\ c.gen = d.gen /\ c.place = d.place
                                           /\ (d.hole => c.hole) /\ (c.told => d.told)
<1> DEFINE f(c) == [c EXCEPT !.active = @ /\ c.gen \notin gens]
           ds == Deactivated(cs, gens)
<1>1. ASSUME NEW c \in cs
      PROVE  /\ f(c) \in Channels /\ Follows(f(c), c)
             /\ f(c).place = c.place /\ f(c).hole = c.hole /\ f(c).told = c.told
             /\ f(c).active => c.gen \notin gens
  BY DEF Channels, Follows
<1>2. \A d \in ds : (d.place # "dropped" \/ d.active) /\ \E c \in cs : d = f(c)
  BY DEF Deactivated, Remembered
<1>3. \A c \in cs : c.place # "dropped" => f(c) \in ds
  <2> SUFFICES ASSUME NEW c \in cs, c.place # "dropped" PROVE f(c) \in ds
    OBVIOUS
  <2>1. f(c).place # "dropped"
    BY <1>1
  <2>2. f(c) \in {f(e) : e \in cs}
    OBVIOUS
  <2> QED BY <2>1, <2>2 DEF Deactivated, Remembered
<1> HIDE DEF f, ds
<1>4. \A d \in ds : \E c \in cs : d = f(c) /\ d \in Channels /\ Follows(d, c)
  BY <1>1, <1>2
<1>5. GensUnique(ds)
  BY <1>4 DEF GensUnique, Follows
<1>6. Descend(ds, cs)
  BY <1>4, <1>5 DEF Descend
<1>7. Keep(ds, cs)
  BY <1>1, <1>3 DEF Keep, Follows
<1>8. ASSUME NEW d \in ds
      PROVE  /\ d.active => d.gen \notin gens
             /\ d.place = "dropped" => d.active
             /\ \E c \in cs : /\ c.gen = d.gen /\ c.place = d.place
                              /\ (d.hole => c.hole) /\ (c.told => d.told)
  <2>1. PICK c \in cs : d = f(c)
    BY <1>2
  <2> QED BY <1>1, <1>2, <2>1 DEF Follows
<1> QED BY <1>6, <1>7, <1>8 DEF ds

\* Raised tells the receivers of the generations it is given, and no more.
LEMMA RaisedTells ==
  ASSUME NEW cs \in SUBSET Channels, GensUnique(cs), NEW gens
  PROVE  LET ds == Raised(cs, gens) IN
         /\ Descend(ds, cs) /\ Keep(ds, cs)
         /\ \A d \in ds : /\ d.gen \in gens => d.told
                          /\ \E c \in cs : /\ c.gen = d.gen /\ c.place = d.place
                                           /\ (d.hole => c.hole) /\ (c.told => d.told)
<1> DEFINE f(c) == [c EXCEPT !.told = @ \/ c.gen \in gens]
           ds == Raised(cs, gens)
<1>1. ASSUME NEW c \in cs
      PROVE  /\ f(c) \in Channels /\ Follows(f(c), c)
             /\ f(c).place = c.place /\ f(c).hole = c.hole
             /\ (c.told \/ c.gen \in gens) => f(c).told
  BY DEF Channels, Follows
<1>2. ds = {f(c) : c \in cs}
  BY DEF Raised
<1> HIDE DEF f, ds
<1>3. GensUnique(ds)
  BY <1>1, <1>2 DEF GensUnique, Follows
<1>4. Descend(ds, cs)
  BY <1>1, <1>2, <1>3 DEF Descend
<1>5. Keep(ds, cs)
  BY <1>1, <1>2 DEF Keep, Follows
<1>6. ASSUME NEW d \in ds
      PROVE  /\ d.gen \in gens => d.told
             /\ \E c \in cs : /\ c.gen = d.gen /\ c.place = d.place
                              /\ (d.hole => c.hole) /\ (c.told => d.told)
  <2>1. PICK c \in cs : d = f(c)
    BY <1>2
  <2> QED BY <1>1, <2>1 DEF Follows
<1> QED BY <1>4, <1>5, <1>6 DEF ds

\* Holed leaves a hole in the generations it is given, and no more.
LEMMA HoledMarks ==
  ASSUME NEW cs \in SUBSET Channels, GensUnique(cs), NEW gens
  PROVE  LET ds == Holed(cs, gens) IN
         /\ Descend(ds, cs) /\ Keep(ds, cs)
         /\ \A d \in ds : \E c \in cs : /\ c.gen = d.gen /\ c.place = d.place
                                        /\ (d.hole => c.hole \/ c.gen \in gens)
                                        /\ (c.told => d.told)
<1> DEFINE f(c) == [c EXCEPT !.hole = @ \/ c.gen \in gens]
           ds == Holed(cs, gens)
<1>1. ASSUME NEW c \in cs
      PROVE  /\ f(c) \in Channels /\ Follows(f(c), c)
             /\ f(c).place = c.place /\ f(c).told = c.told
             /\ f(c).hole => (c.hole \/ c.gen \in gens)
  BY DEF Channels, Follows
<1>2. ds = {f(c) : c \in cs}
  BY DEF Holed
<1> HIDE DEF f, ds
<1>3. GensUnique(ds)
  BY <1>1, <1>2 DEF GensUnique, Follows
<1>4. Descend(ds, cs)
  BY <1>1, <1>2, <1>3 DEF Descend
<1>5. Keep(ds, cs)
  BY <1>1, <1>2 DEF Keep, Follows
<1>6. ASSUME NEW d \in ds
      PROVE  \E c \in cs : /\ c.gen = d.gen /\ c.place = d.place
                           /\ (d.hole => c.hole \/ c.gen \in gens)
                           /\ (c.told => d.told)
  <2>1. PICK c \in cs : d = f(c)
    BY <1>2
  <2> QED BY <1>1, <2>1 DEF Follows
<1> QED BY <1>4, <1>5, <1>6 DEF ds

\* Two steps in a row make one.
LEMMA DescentComposes ==
  ASSUME NEW cs, NEW ds, NEW es, Descend(ds, cs), Descend(es, ds), Keep(ds, cs), Keep(es, ds)
  PROVE  Descend(es, cs) /\ Keep(es, cs)
<1>1. \A e \in es : \E c \in cs : Follows(e, c)
  <2> TAKE e \in es
  <2>1. PICK d \in ds : Follows(e, d)
    BY DEF Descend
  <2>2. PICK c \in cs : Follows(d, c)
    BY DEF Descend
  <2> QED BY <2>1, <2>2 DEF Follows
<1> QED BY <1>1 DEF Descend, Keep

-----------------------------------------------------------------------------
(* Slots that come free *)

\* The generations of the slots that are freed are theirs alone.
LEMMA FreedGens ==
  ASSUME TypeOK, NEW ps \in SUBSET Peers
  PROVE  /\ Freed(inbound, ps) \in [Peers -> Slots]
         /\ \A p \in Peers : Freed(inbound, ps)[p] = IF p \in ps THEN NoEntry ELSE inbound[p]
         /\ \A g : g \in GensOf(ps) <=> \E p \in ps : inbound[p].gen = g /\ g # 0
         /\ Holders(Freed(inbound, ps)) = Holders(inbound) \ ps
<1>1. NoEntry \in Slots /\ NoEntry.gen = 0
  BY DEF NoEntry, Slots, NoSession
<1>2. inbound \in [Peers -> Slots]
  BY DEF TypeOK
<1>3. /\ Freed(inbound, ps) \in [Peers -> Slots]
      /\ \A p \in Peers : Freed(inbound, ps)[p] = IF p \in ps THEN NoEntry ELSE inbound[p]
  BY <1>1, <1>2 DEF Freed
<1>4. \A g : g \in GensOf(ps) <=> \E p \in ps : inbound[p].gen = g /\ g # 0
  BY DEF GensOf, Holders
<1>5. Holders(Freed(inbound, ps)) = Holders(inbound) \ ps
  BY <1>1, <1>3 DEF Holders
<1> QED BY <1>3, <1>4, <1>5

\* Freeing slots and silencing their channels keeps the slots in order, as
\* long as the releases of the others stay queued.
LEMMA SlotsCanBeFreed ==
  ASSUME TypeOK, SlotCore, NEW ps \in SUBSET Peers,
         NEW cs, Descend(cs, channels), Keep(cs, channels),
         inbound' = Freed(inbound, ps),
         channels' = Deactivated(cs, GensOf(ps)),
         \A i \in DOMAIN releaseQ' :
            \/ \E j \in DOMAIN releaseQ : releaseQ'[i] = releaseQ[j]
            \/ releaseQ'[i].gen = nextGeneration,
         \A p \in Peers \ ps, j \in DOMAIN releaseQ :
            Releases(releaseQ[j], p) => \E i \in DOMAIN releaseQ' : releaseQ'[i] = releaseQ[j]
  PROVE  /\ SlotCore'
         /\ inbound' \in [Peers -> Slots] /\ \A p \in Peers : inbound'[p].gen < nextGeneration
         /\ channels' \subseteq Channels /\ \A c \in channels' : c.gen < nextGeneration
<1>0. /\ inbound \in [Peers -> Slots] /\ \A p \in Peers : inbound[p].gen < nextGeneration
      /\ channels \subseteq Channels /\ \A c \in channels : c.gen < nextGeneration
      /\ nextGeneration \in Nat \ {0}
  BY DEF TypeOK
<1>1. /\ inbound' \in [Peers -> Slots]
      /\ \A p \in Peers : inbound'[p] = IF p \in ps THEN NoEntry ELSE inbound[p]
      /\ \A g : g \in GensOf(ps) <=> \E p \in ps : inbound[p].gen = g /\ g # 0
  BY FreedGens
<1>2. NoEntry.gen = 0
  BY DEF NoEntry
<1>3. cs \in SUBSET Channels /\ GensUnique(cs)
  BY DEF Descend
<1>4. /\ Descend(channels', cs) /\ Keep(channels', cs)
      /\ \A d \in channels' : d.active => d.gen \notin GensOf(ps)
  BY <1>3, DeactivatedSilences
<1>5. Descend(channels', channels) /\ Keep(channels', channels)
  BY <1>4, DescentComposes
<1>6. \A d \in channels' : \E c \in channels : Follows(d, c)
  BY <1>5 DEF Descend
<1>7. OneHolder'
  BY <1>1, <1>2 DEF OneHolder, SlotCore, Held, Holders
<1>8. GensDiffer'
  BY <1>5 DEF GensDiffer, Descend, GensUnique
<1>9. \A c \in channels : c.gen # 0
  BY <1>0 DEF Channels
<1>10. SlotIsItsPeers'
  BY <1>1, <1>2, <1>6, <1>9 DEF SlotIsItsPeers, SlotCore, Follows
<1>11. OnlyTheSlotSends'
  <2> SUFFICES ASSUME NEW d \in channels', d.active PROVE inbound'[d.peer].gen = d.gen
    BY DEF OnlyTheSlotSends
  <2>1. PICK c \in channels : Follows(d, c)
    BY <1>6
  <2>2. c.peer \in Peers /\ d.peer = c.peer /\ d.gen = c.gen /\ c.gen # 0
    BY <1>0, <1>9, <2>1 DEF Follows, Channels
  <2>3. inbound[c.peer].gen = c.gen
    BY <2>1 DEF OnlyTheSlotSends, SlotCore, Follows
  <2>4. c.peer \notin ps
    BY <1>1, <1>4, <2>2, <2>3
  <2> QED BY <1>1, <2>2, <2>3, <2>4
<1>12. ReleasedAreGone'
  <2> SUFFICES ASSUME NEW i \in DOMAIN releaseQ', NEW d \in channels',
                      releaseQ'[i].gen = d.gen
               PROVE  d.place = "dropped"
    BY DEF ReleasedAreGone
  <2>1. PICK c \in channels : Follows(d, c)
    BY <1>6
  <2>2. c.gen < nextGeneration /\ c.gen \in Nat
    BY <1>0 DEF Channels
  <2>3. d.gen = c.gen /\ (c.place = "dropped" => d.place = "dropped")
    BY <2>1 DEF Follows
  <2>4. releaseQ'[i].gen # nextGeneration
    BY <1>0, <2>2, <2>3
  <2>5. PICK j \in DOMAIN releaseQ : releaseQ'[i] = releaseQ[j]
    BY <2>4
  <2> QED BY <2>3, <2>5 DEF ReleasedAreGone, SlotCore
<1>13. SlotHasOwner'
  <2> SUFFICES ASSUME NEW p \in Peers, Held(p)'
               PROVE  \/ \E d \in channels' : d.gen = inbound'[p].gen /\ d.place # "dropped"
                      \/ \E r \in ToSet(releaseQ') :
                           r.peer = p /\ Held(p)' /\ inbound'[p].gen = r.gen
    BY DEF SlotHasOwner, Releases
  <2>1. p \notin ps /\ inbound'[p] = inbound[p] /\ Held(p)
    BY <1>1, <1>2 DEF Held, Holders
  <2>2. CASE \E c \in channels : c.gen = inbound[p].gen /\ c.place # "dropped"
    BY <1>5, <2>1, <2>2 DEF Keep
  <2>3. CASE \E r \in ToSet(releaseQ) : Releases(r, p)
    <3>1. PICK j \in DOMAIN releaseQ : Releases(releaseQ[j], p)
      BY <2>3 DEF ToSet
    <3>2. PICK i \in DOMAIN releaseQ' : releaseQ'[i] = releaseQ[j]
      BY <2>1, <3>1
    <3>3. releaseQ'[i].peer = p /\ inbound'[p].gen = releaseQ'[i].gen
      BY <2>1, <3>1, <3>2 DEF Releases
    <3>4. releaseQ'[i] \in ToSet(releaseQ')
      BY DEF ToSet
    <3> QED BY <3>3, <3>4
  <2> QED BY <2>1, <2>2, <2>3 DEF SlotHasOwner, SlotCore
<1>14. channels' \subseteq Channels /\ \A d \in channels' : d.gen < nextGeneration
  BY <1>0, <1>5, <1>6 DEF Descend, Follows
<1>15. \A p \in Peers : inbound'[p].gen < nextGeneration
  BY <1>0, <1>1, <1>2
<1> QED BY <1>1, <1>7, <1>8, <1>10, <1>11, <1>12, <1>13, <1>14, <1>15 DEF SlotCore

\* Whatever a step makes of the channels alone, without bringing one back or
\* losing one, keeps the slots in order.
LEMMA SlotsStayInOrder ==
  ASSUME TypeOK, SlotCore, inbound' = inbound, releaseQ' = releaseQ,
         Descend(channels', channels), Keep(channels', channels)
  PROVE  SlotCore' /\ \A c \in channels' : c.gen < nextGeneration
<1>1. \A d \in channels' : \E c \in channels : Follows(d, c)
  BY DEF Descend
<1>2. OneHolder'
  BY DEF OneHolder, SlotCore, Held, Holders
<1>3. GensDiffer'
  BY DEF GensDiffer, Descend, GensUnique
<1>4. SlotIsItsPeers'
  BY <1>1 DEF SlotIsItsPeers, SlotCore, Follows
<1>5. OnlyTheSlotSends'
  BY <1>1 DEF OnlyTheSlotSends, SlotCore, Follows
<1>6. ReleasedAreGone'
  BY <1>1 DEF ReleasedAreGone, SlotCore, Follows
<1>7. SlotHasOwner'
  BY DEF SlotHasOwner, SlotCore, Held, Holders, Releases, Keep
<1>8. \A d \in channels' : d.gen < nextGeneration
  BY <1>1 DEF TypeOK, Follows
<1> QED BY <1>2, <1>3, <1>4, <1>5, <1>6, <1>7, <1>8 DEF SlotCore

-----------------------------------------------------------------------------
(* The arms of the loop *)

\* The part of the types an arm of the loop can disturb.
LoopTypes ==
  /\ phase \in {"running", "ended"}
  /\ acceptClosed \in BOOLEAN /\ recovering \in BOOLEAN
  /\ nextGeneration \in Nat \ {0}
  /\ inbound \in [Peers -> Slots]
  /\ \A p \in Peers : inbound[p].gen < nextGeneration
  /\ channels \subseteq Channels /\ \A c \in channels : c.gen < nextGeneration
  /\ releaseQ \in Seq(Requests)
  /\ \A i \in DOMAIN releaseQ : releaseQ[i].gen < nextGeneration
  /\ gone \subseteq Peers

\* Asking the driver to disconnect only makes centrals leave.
LEMMA DisconnectsCentrals ==
  ASSUME gone \subseteq Peers, NEW targets, \A t \in targets : t.peer \in Peers,
         Disconnects(targets)
  PROVE  gone' \subseteq Peers
  BY DEF Disconnects

\* What the driver is asked to disconnect is a central.
LEMMA TargetsAreCentrals ==
  /\ \A ps \in SUBSET Peers : \A t \in SlotTargets(ps) : t.peer \in Peers
  /\ \A p, s : Target(p, s).peer = p
  BY DEF SlotTargets, Target

\* A slot that is freed with its gap told of, or not in doubt, leaves no gap.
LEMMA FreedHidesNoGap ==
  ASSUME TypeOK, SlotInv, NEW gens, NEW cs \in SUBSET Channels, GensUnique(cs),
         channels' = Deactivated(cs, gens),
         \A c \in cs : c.hole => c.told
  PROVE  GapIsInSlot'
<1>1. \A d \in channels' : \E c \in cs : (d.hole => c.hole) /\ (c.told => d.told)
  BY DeactivatedSilences
<1> QED BY <1>1 DEF GapIsInSlot

\* The loop's task ends only with an empty slot.
LEMMA EndsEmpty ==
  ASSUME TypeOK, phase = "running", EndsOnceEmpty(inbound')
  PROVE  EndsUnheld' /\ phase' \in {"running", "ended"}
  BY DEF EndsOnceEmpty, EndsUnheld, Holders, TypeOK

\* A loop that goes on ends nothing.
LEMMA StaysRunning ==
  ASSUME TypeOK, phase = "running", phase' = phase
  PROVE  EndsUnheld' /\ phase' \in {"running", "ended"}
  BY DEF EndsUnheld

\* The end of the accept stream frees no slot (channels_tx.closed()).
LEMMA ClosedKeeps ==
  ASSUME DInv, LoopClosed
  PROVE  TypeOK' /\ SlotInv'
<1> USE DEF LoopClosed, Turn, consumerVars, sessionVars, eventVars, serverVars, envVars
<1>0. TypeOK /\ SlotInv
  BY DEF DInv
<1>1. EndsUnheld' /\ phase' \in {"running", "ended"}
  BY <1>0 DEF EndsOnceEmpty, EndsUnheld, Holders, TypeOK
<1>2. TypeOK'
  BY <1>0, <1>1 DEF TypeOK
<1>3. SlotCore'
  BY <1>0 DEF SlotInv, SlotCore, OneHolder, GensDiffer, SlotIsItsPeers, OnlyTheSlotSends,
              ReleasedAreGone, SlotHasOwner, Held, Holders, Releases
<1>4. GapIsInSlot'
  BY <1>0 DEF SlotInv, GapIsInSlot
<1> QED BY <1>1, <1>2, <1>3, <1>4 DEF SlotInv

\* A release frees only the slot of the channel that was released, and that
\* channel is gone: a gap it still had is nobody's any more.
LEMMA ReleaseKeeps ==
  ASSUME DInv, LoopRelease
  PROVE  TypeOK' /\ SlotInv'
<1> DEFINE rs == <<Head(releaseQ)>>
           ps == ReleasedBy(rs)
<1>0. TypeOK /\ SlotInv /\ SlotCore /\ phase = "running"
  BY DEF DInv, SlotInv, LoopRelease, Turn
<1>1. /\ releaseQ # <<>> /\ releaseQ' = Tail(releaseQ)
      /\ inbound' = Freed(inbound, ps)
      /\ channels' = Deactivated(channels, GensOf(ps))
      /\ Disconnects(SlotTargets(EvictedBy(rs)))
      /\ EndsOnceEmpty(inbound')
  BY DEF LoopRelease
<1>2. UNCHANGED <<acceptClosed, nextGeneration, recovering, acceptOpen, served, nextSession,
                  unwatched, eventVars, serverVars, envVars>>
  BY DEF LoopRelease
<1>3. releaseQ \in Seq(Requests)
  BY <1>0 DEF TypeOK
<1>4. /\ Tail(releaseQ) \in Seq(Requests) /\ Head(releaseQ) \in Requests
      /\ Head(releaseQ) = releaseQ[1] /\ 1 \in DOMAIN releaseQ
      /\ DOMAIN releaseQ = 1..Len(releaseQ) /\ Len(releaseQ) \in Nat
      /\ DOMAIN Tail(releaseQ) = 1..(Len(releaseQ) - 1)
      /\ \A i \in DOMAIN Tail(releaseQ) :
            i + 1 \in DOMAIN releaseQ /\ Tail(releaseQ)[i] = releaseQ[i + 1]
  BY <1>1, <1>3, TailHolds, LenProperties
<1>5. ps \in SUBSET Peers /\ \A p \in Peers : p \in ps <=> Releases(releaseQ[1], p)
  <2>1. DOMAIN rs = {1} /\ rs[1] = Head(releaseQ)
    OBVIOUS
  <2> QED BY <1>4, <2>1 DEF ReleasedBy
<1>6. \A p \in Peers \ ps, j \in DOMAIN releaseQ :
        Releases(releaseQ[j], p) => \E i \in DOMAIN releaseQ' : releaseQ'[i] = releaseQ[j]
  <2> SUFFICES ASSUME NEW p \in Peers \ ps, NEW j \in DOMAIN releaseQ, Releases(releaseQ[j], p)
               PROVE  \E i \in DOMAIN releaseQ' : releaseQ'[i] = releaseQ[j]
    OBVIOUS
  <2>1. j # 1
    BY <1>5
  <2>2. j - 1 \in DOMAIN Tail(releaseQ) /\ (j - 1) + 1 = j
    BY <1>4, <2>1
  <2> QED BY <1>1, <1>4, <2>2
<1>7. \A i \in DOMAIN releaseQ' : \E j \in DOMAIN releaseQ : releaseQ'[i] = releaseQ[j]
  BY <1>1, <1>4
<1>8. channels \in SUBSET Channels /\ GensUnique(channels)
  BY <1>0 DEF TypeOK, SlotCore, GensDiffer, GensUnique
<1>9. Descend(channels, channels) /\ Keep(channels, channels)
  BY <1>8 DEF Descend, Keep, Follows
<1>10. /\ SlotCore'
       /\ inbound' \in [Peers -> Slots] /\ \A p \in Peers : inbound'[p].gen < nextGeneration
       /\ channels' \subseteq Channels /\ \A c \in channels' : c.gen < nextGeneration
  BY <1>0, <1>1, <1>5, <1>6, <1>7, <1>9, SlotsCanBeFreed
<1>11. EndsUnheld' /\ phase' \in {"running", "ended"}
  BY <1>0, <1>1, EndsEmpty
<1>12. GapIsInSlot'
  <2> SUFFICES ASSUME NEW d \in channels', d.hole, ~d.told
               PROVE  missed' /\ \E p \in Peers : inbound'[p].gen = d.gen
    BY DEF GapIsInSlot
  <2>1. /\ d.active => d.gen \notin GensOf(ps)
        /\ d.place = "dropped" => d.active
    BY <1>1, <1>8, DeactivatedSilences
  <2>2. PICK c \in channels : /\ c.gen = d.gen /\ c.place = d.place
                              /\ (d.hole => c.hole) /\ (c.told => d.told)
    BY <1>1, <1>8, DeactivatedSilences
  <2>3. missed /\ \E p \in Peers : inbound[p].gen = c.gen
    BY <1>0, <2>2 DEF SlotInv, GapIsInSlot
  <2>4. PICK p \in Peers : inbound[p].gen = c.gen
    BY <2>3
  <2>5. p \notin ps
    <3> SUFFICES ASSUME p \in ps PROVE FALSE
      OBVIOUS
    <3>1. releaseQ[1].gen = c.gen
      BY <1>5, <2>4 DEF Releases
    <3>2. c.place = "dropped"
      BY <1>0, <1>4, <3>1 DEF SlotCore, ReleasedAreGone
    <3>3. c.gen # 0
      BY <1>8 DEF Channels
    <3>4. c.gen \in GensOf(ps)
      BY <1>0, <1>5, <2>4, <3>3, FreedGens
    <3> QED BY <2>1, <2>2, <3>2, <3>4
  <2>6. inbound'[p] = inbound[p]
    BY <1>0, <1>1, <1>5, <2>5, FreedGens
  <2> QED BY <1>2, <2>2, <2>3, <2>4, <2>6 DEF eventVars
<1>13. gone' \subseteq Peers
  <2>1. EvictedBy(rs) \in SUBSET Peers
    BY DEF EvictedBy
  <2> QED BY <1>0, <1>1, <2>1, DisconnectsCentrals, TargetsAreCentrals DEF TypeOK
<1>14. releaseQ' \in Seq(Requests) /\ \A i \in DOMAIN releaseQ' : releaseQ'[i].gen < nextGeneration
  BY <1>0, <1>1, <1>4, <1>7 DEF TypeOK
<1>15. TypeOK'
  BY <1>0, <1>2, <1>10, <1>11, <1>13, <1>14
     DEF TypeOK, eventVars, serverVars, envVars
<1> QED BY <1>10, <1>11, <1>12, <1>15 DEF SlotInv

\* Nothing that was told of, and no miss outstanding: no gap is in doubt.
LEMMA NoGapInDoubt ==
  ASSUME TypeOK, SlotInv, ~missed
  PROVE  /\ \A c \in channels : c.hole => c.told
         /\ channels \in SUBSET Channels /\ GensUnique(channels)
         /\ Descend(channels, channels) /\ Keep(channels, channels)
<1>1. channels \in SUBSET Channels /\ GensUnique(channels)
  BY DEF TypeOK, SlotInv, SlotCore, GensDiffer, GensUnique
<1>2. Descend(channels, channels) /\ Keep(channels, channels)
  BY <1>1 DEF Descend, Keep, Follows
<1>3. \A c \in channels : c.hole => c.told
  BY DEF SlotInv, GapIsInSlot
<1> QED BY <1>1, <1>2, <1>3

\* What the arms that free slots for a Disconnected or a lost radio have in
\* common: the releases stay where they are.
LEMMA ArmFrees ==
  ASSUME TypeOK, SlotInv, phase = "running", NEW ps \in SUBSET Peers,
         NEW cs, Descend(cs, channels), Keep(cs, channels), \A c \in cs : c.hole => c.told,
         inbound' = Freed(inbound, ps), channels' = Deactivated(cs, GensOf(ps)),
         UNCHANGED <<acceptClosed, nextGeneration, recovering, releaseQ>>,
         EndsOnceEmpty(inbound'), gone' \subseteq Peers
  PROVE  LoopTypes' /\ SlotInv'
<1>1. SlotCore
  BY DEF SlotInv
<1>2. /\ SlotCore'
      /\ inbound' \in [Peers -> Slots] /\ \A p \in Peers : inbound'[p].gen < nextGeneration
      /\ channels' \subseteq Channels /\ \A c \in channels' : c.gen < nextGeneration
  BY <1>1, SlotsCanBeFreed
<1>3. EndsUnheld' /\ phase' \in {"running", "ended"}
  BY EndsEmpty
<1>4. cs \in SUBSET Channels /\ GensUnique(cs)
  BY DEF Descend
<1>5. GapIsInSlot'
  BY <1>4, FreedHidesNoGap
<1>6. LoopTypes'
  BY <1>2, <1>3 DEF LoopTypes, TypeOK
<1> QED BY <1>2, <1>3, <1>5, <1>6 DEF SlotInv

\* Silent arms: the channels may change, the slots do not.
LEMMA ArmLeavesSlots ==
  ASSUME TypeOK, SlotInv, phase = "running", phase' = phase,
         Descend(channels', channels), Keep(channels', channels),
         GapIsInSlot', recovering' \in BOOLEAN,
         UNCHANGED <<acceptClosed, inbound, nextGeneration, releaseQ, gone>>
  PROVE  LoopTypes' /\ SlotInv'
<1>1. SlotCore
  BY DEF SlotInv
<1>2. SlotCore' /\ \A c \in channels' : c.gen < nextGeneration
  BY <1>1, SlotsStayInOrder
<1>3. EndsUnheld' /\ phase' \in {"running", "ended"}
  BY StaysRunning
<1>4. LoopTypes'
  BY <1>2, <1>3 DEF LoopTypes, TypeOK, Descend
<1> QED BY <1>2, <1>3, <1>4 DEF SlotInv

\* A Disconnected frees the slot of its central, or, when stale, nothing.
LEMMA DisconnectedKeeps ==
  ASSUME TypeOK, SlotInv, phase = "running", ~missed, ~missed',
         NEW p \in Peers, NEW s, OnDisconnected(p, s)
  PROVE  LoopTypes' /\ SlotInv'
<1>1. /\ \A c \in channels : c.hole => c.told
      /\ Descend(channels, channels) /\ Keep(channels, channels)
  BY NoGapInDoubt
<1>2. UNCHANGED <<acceptClosed, nextGeneration, recovering, releaseQ, gone>>
  BY DEF OnDisconnected
<1>3. CASE inbound' = inbound /\ channels' = channels /\ phase' = phase
  <2>1. GapIsInSlot'
    BY <1>1, <1>3 DEF GapIsInSlot
  <2>2. recovering' \in BOOLEAN
    BY <1>2 DEF TypeOK
  <2> QED BY <1>1, <1>2, <1>3, <2>1, <2>2, ArmLeavesSlots
<1>4. CASE /\ inbound' = Freed(inbound, {p}) /\ channels' = Deactivated(channels, GensOf({p}))
           /\ EndsOnceEmpty(inbound')
  <2>1. {p} \in SUBSET Peers /\ gone' \subseteq Peers
    BY <1>2 DEF TypeOK
  <2> QED BY <1>1, <1>2, <1>4, <2>1, ArmFrees
<1> QED BY <1>3, <1>4 DEF OnDisconnected

\* The loss of the radio frees every slot.
LEMMA RadioOffKeeps ==
  ASSUME TypeOK, SlotInv, phase = "running", ~missed, ~missed', OnRadioOff
  PROVE  LoopTypes' /\ SlotInv'
<1>1. /\ \A c \in channels : c.hole => c.told
      /\ Descend(channels, channels) /\ Keep(channels, channels)
  BY NoGapInDoubt
<1>2. UNCHANGED <<acceptClosed, nextGeneration, recovering, releaseQ, gone>>
  BY DEF OnRadioOff
<1>3. /\ inbound' = Freed(inbound, Peers) /\ channels' = Deactivated(channels, GensOf(Peers))
      /\ EndsOnceEmpty(inbound')
  BY DEF OnRadioOff
<1>4. Peers \in SUBSET Peers /\ gone' \subseteq Peers
  BY <1>2 DEF TypeOK
<1> QED BY <1>1, <1>2, <1>3, <1>4, ArmFrees

\* The return of the radio touches no slot; it may start a recovery.
LEMMA RadioOnKeeps ==
  ASSUME TypeOK, SlotInv, phase = "running", ~missed, ~missed', OnRadioOn
  PROVE  LoopTypes' /\ SlotInv'
<1>1. /\ \A c \in channels : c.hole => c.told
      /\ Descend(channels, channels) /\ Keep(channels, channels)
  BY NoGapInDoubt
<1>2. /\ phase' = phase /\ channels' = channels /\ recovering' \in BOOLEAN
      /\ UNCHANGED <<acceptClosed, inbound, nextGeneration, releaseQ, gone>>
  BY DEF OnRadioOn
<1>3. GapIsInSlot'
  BY <1>1, <1>2 DEF GapIsInSlot
<1> QED BY <1>1, <1>2, <1>3, ArmLeavesSlots

\* A write that is lost is told of in the same step.
LEMMA WrittenKeeps ==
  ASSUME TypeOK, SlotInv, phase = "running", ~missed, ~missed',
         NEW p \in Peers, OnWritten(p)
  PROVE  LoopTypes' /\ SlotInv'
<1>1. /\ \A c \in channels : c.hole => c.told
      /\ channels \in SUBSET Channels /\ GensUnique(channels)
      /\ Descend(channels, channels) /\ Keep(channels, channels)
  BY NoGapInDoubt
<1>2. /\ phase' = phase /\ recovering' = recovering
      /\ UNCHANGED <<acceptClosed, inbound, nextGeneration, releaseQ, gone>>
  BY DEF OnWritten
<1>3. recovering' \in BOOLEAN
  BY <1>2 DEF TypeOK
<1>4. CASE channels' = channels
  <2>1. GapIsInSlot'
    BY <1>1, <1>4 DEF GapIsInSlot
  <2> QED BY <1>1, <1>2, <1>3, <1>4, <2>1, ArmLeavesSlots
<1>5. CASE channels' = LosesWrite(channels, GensOf({p}))
  <2> DEFINE gens == GensOf({p})
             cs   == Holed(channels, gens)
  <2> HIDE DEF gens
  <2>1. /\ Descend(cs, channels) /\ Keep(cs, channels)
        /\ \A d \in cs : \E c \in channels : /\ c.gen = d.gen
                                             /\ (d.hole => c.hole \/ c.gen \in gens)
                                             /\ (c.told => d.told)
    BY <1>1, HoledMarks
  <2>2. channels' = Raised(cs, gens)
    BY <1>5 DEF LosesWrite, gens
  <2> HIDE DEF cs
  <2>3. cs \in SUBSET Channels /\ GensUnique(cs)
    BY <2>1 DEF Descend
  <2>4. /\ Descend(channels', cs) /\ Keep(channels', cs)
        /\ \A d \in channels' : /\ d.gen \in gens => d.told
                                /\ \E c \in cs : /\ c.gen = d.gen
                                                 /\ (d.hole => c.hole) /\ (c.told => d.told)
    BY <2>2, <2>3, RaisedTells
  <2>5. Descend(channels', channels) /\ Keep(channels', channels)
    BY <2>1, <2>4, DescentComposes
  <2>6. \A d \in channels' : d.hole => d.told
    <3> SUFFICES ASSUME NEW d \in channels', d.hole, d.gen \notin gens PROVE d.told
      BY <2>4
    <3>1. PICK e \in cs : e.gen = d.gen /\ (d.hole => e.hole) /\ (e.told => d.told)
      BY <2>4
    <3>2. PICK c \in channels : /\ c.gen = e.gen
                                /\ (e.hole => c.hole \/ c.gen \in gens)
                                /\ (c.told => e.told)
      BY <2>1
    <3> QED BY <1>1, <3>1, <3>2
  <2>7. GapIsInSlot'
    BY <2>6 DEF GapIsInSlot
  <2> QED BY <1>2, <1>3, <2>5, <2>7, ArmLeavesSlots
<1> QED BY <1>4, <1>5 DEF OnWritten

\* Every receiver that still had a slot is told before the slots are freed.
LEMMA LaggedKeeps ==
  ASSUME TypeOK, SlotInv, phase = "running", OnLagged
  PROVE  LoopTypes' /\ SlotInv'
<1> DEFINE gens == GensOf(Peers)
           cs   == Raised(channels, gens)
<1>1. channels \in SUBSET Channels /\ GensUnique(channels)
  BY DEF TypeOK, SlotInv, SlotCore, GensDiffer, GensUnique
<1>2. \A g : g \in gens <=> \E p \in Peers : inbound[p].gen = g /\ g # 0
  <2>1. Peers \in SUBSET Peers
    OBVIOUS
  <2> QED BY <2>1, FreedGens
<1>3. UNCHANGED <<acceptClosed, nextGeneration, recovering, releaseQ>>
  BY DEF OnLagged
<1>4. /\ inbound' = Freed(inbound, Peers) /\ channels' = Deactivated(cs, gens)
      /\ EndsOnceEmpty(inbound')
  BY DEF OnLagged
<1>5. gone' \subseteq Peers
  <2>1. Holders(inbound) \in SUBSET Peers
    BY DEF Holders
  <2>2. \A t \in SlotTargets(Holders(inbound)) : t.peer \in Peers
    BY <2>1, TargetsAreCentrals
  <2> QED BY <2>2, DisconnectsCentrals DEF OnLagged, TypeOK
<1> HIDE DEF gens
<1>6. /\ Descend(cs, channels) /\ Keep(cs, channels)
      /\ \A d \in cs : /\ d.gen \in gens => d.told
                       /\ \E c \in channels : /\ c.gen = d.gen
                                              /\ (d.hole => c.hole) /\ (c.told => d.told)
  BY <1>1, RaisedTells
<1> HIDE DEF cs
<1>7. \A d \in cs : d.hole => d.told
  <2> SUFFICES ASSUME NEW d \in cs, d.hole, d.gen \notin gens PROVE d.told
    BY <1>6
  <2>1. PICK c \in channels : c.gen = d.gen /\ (d.hole => c.hole) /\ (c.told => d.told)
    BY <1>6
  <2>2. c.gen # 0
    BY <1>1 DEF Channels
  <2>3. c.told \/ \E p \in Peers : inbound[p].gen = c.gen
    BY <2>1 DEF SlotInv, GapIsInSlot
  <2> QED BY <1>2, <2>1, <2>2, <2>3
<1>8. Peers \in SUBSET Peers
  OBVIOUS
<1> QED BY <1>3, <1>4, <1>5, <1>6, <1>7, <1>8, ArmFrees DEF gens

\* A Connected first takes the queued releases; what it then does with the
\* central fills the slot only where it is empty, with a channel of its own.
LEMMA ConnectedKeeps ==
  ASSUME TypeOK, SlotInv, phase = "running", ~missed, ~missed',
         NEW p \in Peers, NEW s \in Nat, OnConnected(p, s)
  PROVE  LoopTypes' /\ SlotInv'
<1> DEFINE ps == ReleasedBy(releaseQ)
           cs == Deactivated(channels, GensOf(ps))
           request == [peer |-> p, gen |-> nextGeneration, keep |-> FALSE]
<1>1. /\ \A c \in channels : c.hole => c.told
      /\ channels \in SUBSET Channels /\ GensUnique(channels)
      /\ Descend(channels, channels) /\ Keep(channels, channels)
  BY NoGapInDoubt
<1>2. ps \in SUBSET Peers /\ SlotCore
  BY DEF ReleasedBy, SlotInv
<1>3. /\ Freed(inbound, ps) \in [Peers -> Slots]
      /\ \A q \in Peers : Freed(inbound, ps)[q] = IF q \in ps THEN NoEntry ELSE inbound[q]
      /\ \A g : g \in GensOf(ps) <=> \E q \in ps : inbound[q].gen = g /\ g # 0
      /\ Holders(Freed(inbound, ps)) = Holders(inbound) \ ps
  BY <1>2, FreedGens
<1>4. /\ Descend(cs, channels)
      /\ \A d \in cs : /\ d.active => d.gen \notin GensOf(ps)
                       /\ \E c \in channels : (d.hole => c.hole) /\ (c.told => d.told)
  BY <1>1, DeactivatedSilences
<1>5. Drained = Freed(inbound, ps) /\ recovering' = recovering
  BY DEF Drained, OnConnected
<1>6. \A q \in Peers \ ps, j \in DOMAIN releaseQ : ~Releases(releaseQ[j], q)
  BY DEF ReleasedBy
<1>7. /\ nextGeneration \in Nat \ {0} /\ gone \subseteq Peers
      /\ \A c \in channels : c.gen < nextGeneration
      /\ \A q \in Peers : inbound[q].gen < nextGeneration
      /\ acceptClosed \in BOOLEAN /\ recovering \in BOOLEAN
  BY DEF TypeOK
<1>8. \A t \in SlotTargets(EvictedBy(releaseQ)) : t.peer \in Peers
  <2>1. EvictedBy(releaseQ) \in SUBSET Peers
    BY DEF EvictedBy
  <2> QED BY <2>1, TargetsAreCentrals
<1>9. request \in Requests /\ request.gen = nextGeneration
  BY <1>7 DEF Requests
<1>10. ASSUME NEW rq \in Seq(Requests), releaseQ' = rq,
              \A i \in DOMAIN rq : rq[i].gen = nextGeneration,
              inbound' = Drained, channels' = cs,
              nextGeneration' \in Nat, nextGeneration' >= nextGeneration,
              \A i \in DOMAIN rq : nextGeneration < nextGeneration',
              EndsUnheld', phase' \in {"running", "ended"},
              acceptClosed' \in BOOLEAN, gone' \subseteq Peers
       PROVE  LoopTypes' /\ SlotInv'
  <2>1. \A i \in DOMAIN releaseQ' :
            \/ \E j \in DOMAIN releaseQ : releaseQ'[i] = releaseQ[j]
            \/ releaseQ'[i].gen = nextGeneration
    BY <1>10
  <2>2. /\ SlotCore'
        /\ inbound' \in [Peers -> Slots] /\ \A q \in Peers : inbound'[q].gen < nextGeneration
        /\ channels' \subseteq Channels /\ \A c \in channels' : c.gen < nextGeneration
    BY <1>1, <1>2, <1>5, <1>6, <1>10, <2>1, SlotsCanBeFreed
  <2>3. GapIsInSlot'
    BY <1>1, <1>10, FreedHidesNoGap
  <2>4. \A q \in Peers : inbound'[q].gen \in Nat
    BY <2>2 DEF Slots
  <2>5. \A q \in Peers : inbound'[q].gen < nextGeneration'
    BY <1>7, <1>10, <2>2, <2>4
  <2>6. \A c \in channels' : c.gen \in Nat
    BY <2>2 DEF Channels
  <2>7. \A c \in channels' : c.gen < nextGeneration'
    BY <1>7, <1>10, <2>2, <2>6
  <2>8. nextGeneration' \in Nat \ {0}
    BY <1>7, <1>10
  <2>9. /\ releaseQ' \in Seq(Requests)
        /\ \A i \in DOMAIN releaseQ' : releaseQ'[i].gen < nextGeneration'
    BY <1>10
  <2>10. recovering' \in BOOLEAN
    BY <1>5, <1>7
  <2>11. LoopTypes'
    BY <1>10, <2>2, <2>5, <2>7, <2>8, <2>9, <2>10 DEF LoopTypes
  <2> QED BY <1>10, <2>2, <2>3, <2>11 DEF SlotInv
<1>11. CASE /\ inbound' = Drained /\ channels' = cs /\ releaseQ' = <<>>
            /\ Disconnects(SlotTargets(EvictedBy(releaseQ))
                           \cup (IF Refused(p) THEN {Target(p, s)} ELSE {}))
            /\ UNCHANGED <<phase, acceptClosed, nextGeneration>>
  <2>1. releaseQ' \in Seq(Requests) /\ DOMAIN releaseQ' = {}
    BY <1>11
  <2>2. gone' \subseteq Peers
    <3>1. \A t \in (IF Refused(p) THEN {Target(p, s)} ELSE {}) : t.peer \in Peers
      BY TargetsAreCentrals
    <3> QED BY <1>7, <1>8, <1>11, <3>1 DEF Disconnects
  <2>3. EndsUnheld' /\ phase' \in {"running", "ended"}
    BY <1>11, StaysRunning
  <2>4. nextGeneration' \in Nat /\ nextGeneration' >= nextGeneration /\ acceptClosed' \in BOOLEAN
    BY <1>7, <1>11
  <2> HIDE DEF cs
  <2> QED BY <1>10, <1>11, <2>1, <2>2, <2>3, <2>4
<1>12. CASE /\ ~Quiet(p) /\ ~Refused(p) /\ HandsOver(p, s, cs)
            /\ nextGeneration' = nextGeneration + 1
  <2>1. /\ nextGeneration' \in Nat \ {0} /\ nextGeneration' >= nextGeneration
        /\ nextGeneration < nextGeneration'
    BY <1>7, <1>12
  <2>2. CASE /\ channels' = cs /\ inbound' = Drained /\ releaseQ' = <<request>>
             /\ EndsUnheld' /\ phase' \in {"running", "ended"}
             /\ acceptClosed' \in BOOLEAN /\ gone' \subseteq Peers
    <3> HIDE DEF cs, request
    <3>1. <<request>> \in Seq(Requests) /\ \A i \in DOMAIN <<request>> : <<request>>[i] = request
      BY <1>9
    <3>2. \A i \in DOMAIN <<request>> : <<request>>[i].gen = nextGeneration
      BY <1>9, <3>1
    <3> QED BY <1>10, <2>1, <2>2, <3>1, <3>2
  <2>3. CASE /\ acceptOpen /\ Full /\ channels' = cs /\ inbound' = Drained
             /\ releaseQ' = <<request>>
             /\ Disconnects(SlotTargets(EvictedBy(releaseQ)) \cup {Target(p, s)})
             /\ UNCHANGED <<phase, acceptClosed>>
    <3>1. EndsUnheld' /\ phase' \in {"running", "ended"}
      BY <2>3, StaysRunning
    <3>2. gone' \subseteq Peers
      <4>1. \A t \in {Target(p, s)} : t.peer \in Peers
        BY TargetsAreCentrals
      <4> QED BY <1>7, <1>8, <2>3, <4>1 DEF Disconnects
    <3> QED BY <1>7, <2>2, <2>3, <3>1, <3>2
  <2>4. CASE /\ ~acceptOpen /\ channels' = cs /\ inbound' = Drained
             /\ releaseQ' = <<request>>
             /\ Disconnects(SlotTargets(EvictedBy(releaseQ)))
             /\ acceptClosed' = TRUE /\ EndsOnceEmpty(Drained)
    <3>1. EndsUnheld' /\ phase' \in {"running", "ended"}
      <4>1. EndsOnceEmpty(inbound')
        BY <2>4 DEF EndsOnceEmpty
      <4> QED BY <4>1, EndsEmpty
    <3>2. gone' \subseteq Peers
      BY <1>7, <1>8, <2>4 DEF Disconnects
    <3> QED BY <2>2, <2>4, <3>1, <3>2
  <2>5. CASE /\ channels' = cs \cup {NewChannel(p, s)}
             /\ inbound' = [Drained EXCEPT ![p] = [session |-> s, gen |-> nextGeneration]]
             /\ releaseQ' = <<>>
             /\ Disconnects(SlotTargets(EvictedBy(releaseQ)))
             /\ UNCHANGED <<phase, acceptClosed>>
    <3> DEFINE n == NewChannel(p, s)
    <3>1. /\ n \in Channels /\ n.gen = nextGeneration /\ n.peer = p
          /\ n.place = "queued" /\ n.hole = FALSE
      BY <1>7 DEF NewChannel, Channels
    <3> HIDE DEF n, cs
    <3>2. \A q \in Peers : Drained[q].gen = 0
      BY <1>12 DEF Quiet, Refused, Holders
    <3>3. /\ inbound' \in [Peers -> Slots] /\ inbound'[p].gen = nextGeneration
          /\ \A q \in Peers : q # p => inbound'[q].gen = 0
      <4>1. [session |-> s, gen |-> nextGeneration] \in Slots
        BY <1>7 DEF Slots
      <4> QED BY <1>3, <1>5, <2>5, <3>2, <4>1
    <3>4. \A d \in channels' : d = n \/ d \in cs
      BY <2>5 DEF n
    <3>5. ASSUME NEW d \in cs
          PROVE  /\ d.gen \in Nat \ {0} /\ d.gen < nextGeneration /\ ~d.active
                 /\ (d.hole => d.told) /\ d \in Channels
      <4>1. PICK c \in channels : Follows(d, c)
        BY <1>4 DEF Descend
      <4>2. d \in Channels /\ c \in Channels
        BY <1>1, <1>4 DEF Descend
      <4>3. d.gen \in Nat \ {0} /\ d.gen = c.gen /\ c.peer \in Peers
        BY <4>1, <4>2 DEF Channels, Follows
      <4>4. ~d.active
        <5> SUFFICES ASSUME d.active PROVE FALSE
          OBVIOUS
        <5>1. inbound[c.peer].gen = c.gen
          BY <1>2, <4>1 DEF SlotCore, OnlyTheSlotSends, Follows
        <5>2. c.peer \in ps
          BY <1>3, <1>5, <3>2, <4>3, <5>1
        <5> QED BY <1>3, <1>4, <4>3, <5>1, <5>2
      <4>5. d.hole => d.told
        BY <1>1, <1>4
      <4> QED BY <1>7, <4>2, <4>3, <4>4, <4>5
    <3>6. n \in channels'
      BY <2>5 DEF n
    <3>7. OneHolder'
      BY <3>3 DEF OneHolder, Held, Holders
    <3>8. GensDiffer'
      <4>1. GensUnique(cs)
        BY <1>4 DEF Descend
      <4> QED BY <1>7, <3>1, <3>4, <3>5, <4>1 DEF GensDiffer, GensUnique
    <3>9. SlotIsItsPeers'
      BY <1>7, <3>1, <3>3, <3>4, <3>5 DEF SlotIsItsPeers
    <3>10. OnlyTheSlotSends'
      BY <3>1, <3>3, <3>4, <3>5 DEF OnlyTheSlotSends
    <3>11. ReleasedAreGone'
      <4>1. DOMAIN releaseQ' = {}
        BY <2>5
      <4> QED BY <4>1 DEF ReleasedAreGone
    <3>12. SlotHasOwner'
      BY <3>1, <3>3, <3>6 DEF SlotHasOwner, Held, Holders
    <3>13. GapIsInSlot'
      BY <3>1, <3>4, <3>5 DEF GapIsInSlot
    <3>14. EndsUnheld' /\ phase' \in {"running", "ended"}
      BY <2>5, StaysRunning
    <3>15. \A q \in Peers : inbound'[q].gen < nextGeneration'
      BY <1>7, <1>12, <3>3
    <3>16. channels' \subseteq Channels /\ \A c \in channels' : c.gen < nextGeneration'
      BY <1>7, <1>12, <3>1, <3>4, <3>5
    <3>17. releaseQ' \in Seq(Requests) /\ \A i \in DOMAIN releaseQ' : releaseQ'[i].gen < nextGeneration'
      BY <2>5
    <3>18. gone' \subseteq Peers
      BY <1>7, <1>8, <2>5 DEF Disconnects
    <3>19. acceptClosed' \in BOOLEAN /\ recovering' \in BOOLEAN
      BY <1>5, <1>7, <2>5
    <3>20. LoopTypes'
      BY <2>1, <3>3, <3>14, <3>15, <3>16, <3>17, <3>18, <3>19 DEF LoopTypes
    <3>21. SlotCore'
      BY <3>7, <3>8, <3>9, <3>10, <3>11, <3>12 DEF SlotCore
    <3> QED BY <3>13, <3>14, <3>20, <3>21 DEF SlotInv
  <2> QED BY <1>12, <2>3, <2>4, <2>5 DEF HandsOver
<1> QED BY <1>11, <1>12 DEF OnConnected

-----------------------------------------------------------------------------
(* The event the loop reads *)

\* What an arm may do to the slot of q when e is read: leave it, if e is no
\* news of its session; free it; or give it to the session e announces.
ReadsRight(e, q) ==
  \/ inbound'[q] = inbound[q] /\ ~IsNews(e, q, inbound[q].session)
  \/ inbound'[q].gen = 0
  \/ /\ e.type = "Connected" /\ e.peer = q
     /\ inbound'[q].session = e.session /\ e.session # NoSession

\* A slot changes hands only through a release or the news of its session.
LeavesFor(q) ==
  Held(q) /\ inbound'[q].gen # inbound[q].gen =>
    \/ \E r \in ToSet(releaseQ) : Releases(r, q)
    \/ events # <<>> /\ IsNews(Head(events), q, inbound[q].session)

\* Reading an event takes nothing else off the queue, and the arm does what
\* the event says.
LEMMA ReadKeepsNews ==
  ASSUME TypeOK, NewsInv, ~missed, events # <<>>, events' = Tail(events),
         UNCHANGED <<missed, served>>,
         \A q \in Peers : ReadsRight(Head(events), q)
  PROVE  NewsInv'
<1> DEFINE e == Head(events)
<1>1. /\ events \in Seq(Events) /\ inbound \in [Peers -> Slots]
      /\ DOMAIN events = 1..Len(events) /\ Len(events) \in Nat
  BY LenProperties DEF TypeOK
<1>2. /\ Tail(events) \in Seq(Events) /\ e \in Events /\ e = events[1] /\ 1 \in DOMAIN events
      /\ DOMAIN Tail(events) = 1..(Len(events) - 1)
      /\ \A i \in DOMAIN Tail(events) : i + 1 \in DOMAIN events /\ Tail(events)[i] = events[i + 1]
  BY <1>1, TailHolds
<1> HIDE DEF e
<1>3. ASSUME NEW j \in DOMAIN events, j # 1
      PROVE  \E k \in DOMAIN events' : k + 1 = j /\ events'[k] = events[j]
  <2>1. j - 1 \in DOMAIN Tail(events) /\ (j - 1) + 1 = j
    BY <1>1, <1>2, <1>3
  <2>2. events'[j - 1] = events[j]
    BY <1>2, <2>1
  <2> QED BY <2>1, <2>2
<1>4. \A i \in DOMAIN events' : i + 1 \in DOMAIN events /\ events'[i] = events[i + 1] /\ i \in Nat \ {0}
  BY <1>1, <1>2
<1>5. \A q \in Peers : ReadsRight(e, q)
  BY DEF e
<1>6. SessionsAreReal'
  <2>1. \A q \in Peers : Held(q)' => inbound'[q].session # NoSession
    BY <1>5 DEF ReadsRight, Held, Holders, NewsInv, SessionsAreReal
  <2>2. \A i \in DOMAIN events' :
          events'[i].type = "Connected" => events'[i].session # NoSession
    BY <1>4 DEF NewsInv, SessionsAreReal
  <2> QED BY <2>1, <2>2 DEF SessionsAreReal
<1>7. NewsFollows'
  <2> SUFFICES ASSUME NEW i \in DOMAIN events', events'[i].type = "Connected",
                      served[events'[i].peer] # events'[i].session
               PROVE  \E j \in DOMAIN events' :
                        j > i /\ IsNews(events'[j], events'[i].peer, events'[i].session)
    BY DEF NewsFollows, IsNews
  <2>1. PICK j \in DOMAIN events :
          j > i + 1 /\ IsNews(events[j], events'[i].peer, events'[i].session)
    BY <1>4 DEF NewsInv, NewsFollows
  <2>2. PICK k \in DOMAIN events' : k + 1 = j /\ events'[k] = events[j]
    BY <1>3, <1>4, <2>1
  <2>3. k > i
    BY <1>4, <2>1, <2>2
  <2> QED BY <2>1, <2>2, <2>3
<1>8. LossIsAhead'
  <2> SUFFICES ASSUME NEW q \in Peers, inbound'[q].gen # 0, served[q] # inbound'[q].session
               PROVE  \E x \in ToSet(events') : IsNews(x, q, inbound'[q].session)
    BY DEF LossIsAhead, Held, Holders, IsNews
  <2>0. \A k \in DOMAIN events' : events'[k] \in ToSet(events')
    BY DEF ToSet
  <2>1. CASE inbound'[q] = inbound[q] /\ ~IsNews(e, q, inbound[q].session)
    <3>1. PICK x \in ToSet(events) : IsNews(x, q, inbound[q].session)
      BY <2>1 DEF NewsInv, LossIsAhead, Held, Holders
    <3>2. PICK j \in DOMAIN events : x = events[j]
      BY DEF ToSet
    <3>3. j # 1
      BY <1>2, <2>1, <3>1, <3>2
    <3>4. PICK k \in DOMAIN events' : events'[k] = events[j]
      BY <1>3, <3>3
    <3> QED BY <2>0, <2>1, <3>1, <3>2, <3>4
  <2>2. CASE e.type = "Connected" /\ e.peer = q /\ inbound'[q].session = e.session
    <3>1. PICK j \in DOMAIN events : j > 1 /\ IsNews(events[j], e.peer, e.session)
      BY <1>2, <2>2 DEF NewsInv, NewsFollows
    <3>2. PICK k \in DOMAIN events' : events'[k] = events[j]
      BY <1>3, <3>1
    <3> QED BY <2>0, <2>2, <3>1, <3>2
  <2> QED BY <1>5, <2>1, <2>2 DEF ReadsRight
<1> QED BY <1>6, <1>7, <1>8 DEF NewsInv

\* Each arm treats each slot as the event demands.
LEMMA ArmsReadRight ==
  ASSUME DInv, ~missed, events # <<>>, Handles(Head(events)), NEW q \in Peers
  PROVE  ReadsRight(Head(events), q) /\ LeavesFor(q)
<1> DEFINE e == Head(events)
<1>0. TypeOK /\ inbound \in [Peers -> Slots] /\ events \in Seq(Events)
  BY DEF DInv, TypeOK
<1>1. e \in Events /\ e = events[1] /\ 1 \in DOMAIN events
  BY <1>0, TailHolds
<1>2. \A ps \in SUBSET Peers : Freed(inbound, ps)[q] = IF q \in ps THEN NoEntry ELSE inbound[q]
  BY <1>0, FreedGens
<1>3. NoEntry.gen = 0
  BY DEF NoEntry
<1> HIDE DEF e
<1>4. CASE e.type = "Connected" /\ OnConnected(e.peer, e.session)
  <2> DEFINE p == e.peer
             s == e.session
  <2>1. p \in Peers /\ s \in Nat /\ s # NoSession
    <3>1. p \in Peers /\ s \in Nat
      BY <1>1, <1>4 DEF Events
    <3>2. s # NoSession
      BY <1>1, <1>4 DEF DInv, NewsInv, SessionsAreReal
    <3> QED BY <3>1, <3>2
  <2>2. ~IsNews(e, q, inbound[q].session)
    BY <1>4 DEF IsNews
  <2>3. ReleasedBy(releaseQ) \in SUBSET Peers
    BY DEF ReleasedBy
  <2>4. /\ Drained[q] = IF q \in ReleasedBy(releaseQ) THEN NoEntry ELSE inbound[q]
        /\ DOMAIN Drained = Peers
    BY <1>2, <2>3 DEF Drained, Freed
  <2>5. \/ inbound' = Drained
        \/ /\ ~Quiet(p) /\ ~Refused(p)
           /\ inbound' = [Drained EXCEPT ![p] = [session |-> s, gen |-> nextGeneration]]
    BY <1>4 DEF OnConnected, HandsOver
  <2>6. q \in ReleasedBy(releaseQ) => \E r \in ToSet(releaseQ) : Releases(r, q)
    BY DEF ReleasedBy, ToSet
  <2>7. CASE inbound' = Drained
    BY <1>3, <2>2, <2>4, <2>6, <2>7 DEF ReadsRight, LeavesFor, e
  <2>8. CASE /\ ~Quiet(p) /\ ~Refused(p)
             /\ inbound' = [Drained EXCEPT ![p] = [session |-> s, gen |-> nextGeneration]]
    <3>1. Drained[q].gen = 0
      BY <2>8 DEF Quiet, Refused, Holders
    <3>2. inbound'[q] = IF q = p THEN [session |-> s, gen |-> nextGeneration] ELSE Drained[q]
      BY <2>1, <2>4, <2>8
    <3>3. ReadsRight(e, q)
      BY <1>4, <2>1, <3>1, <3>2 DEF ReadsRight
    <3>4. Held(q) => q \in ReleasedBy(releaseQ)
      BY <2>4, <3>1 DEF Held, Holders
    <3> QED BY <2>6, <3>3, <3>4 DEF LeavesFor, e
  <2> QED BY <2>5, <2>7, <2>8 DEF e
<1>5. CASE e.type = "Written" /\ OnWritten(e.peer)
  BY <1>5 DEF OnWritten, ReadsRight, LeavesFor, IsNews, e
<1>6. CASE e.type = "Disconnected" /\ OnDisconnected(e.peer, e.session)
  <2>1. e.peer \in Peers /\ e.session \in Nat
    BY <1>1, <1>6 DEF Events
  <2>2. CASE Stale(e.peer, e.session) /\ inbound' = inbound
    <3>1. ~IsNews(e, q, inbound[q].session)
      BY <1>6, <2>2 DEF Stale, IsNews
    <3> QED BY <2>2, <3>1 DEF ReadsRight, LeavesFor, e
  <2>3. CASE ~Stale(e.peer, e.session) /\ inbound' = Freed(inbound, {e.peer})
    <3>1. inbound'[q] = IF q = e.peer THEN NoEntry ELSE inbound[q]
      BY <1>2, <2>1, <2>3
    <3>2. CASE q # e.peer
      <4>1. ~IsNews(e, q, inbound[q].session)
        BY <1>6, <3>2 DEF IsNews
      <4> QED BY <3>1, <3>2, <4>1 DEF ReadsRight, LeavesFor, e
    <3>3. CASE q = e.peer
      <4>1. inbound[q].session # NoSession /\ Held(q) => IsNews(e, q, inbound[q].session)
        BY <1>6, <2>3, <3>3 DEF Stale, IsNews
      <4>2. Held(q) => inbound[q].session # NoSession
        BY DEF DInv, NewsInv, SessionsAreReal
      <4> QED BY <1>3, <3>1, <3>3, <4>1, <4>2 DEF ReadsRight, LeavesFor, e
    <3> QED BY <3>2, <3>3
  <2> QED BY <1>6, <2>2, <2>3 DEF OnDisconnected, e
<1>7. CASE e.type = "RadioOff" /\ OnRadioOff
  <2>1. inbound'[q].gen = 0
    BY <1>2, <1>3, <1>7 DEF OnRadioOff
  <2> QED BY <1>7, <2>1 DEF ReadsRight, LeavesFor, IsNews, e
<1>8. CASE e.type = "RadioOn" /\ OnRadioOn
  BY <1>8 DEF OnRadioOn, ReadsRight, LeavesFor, IsNews, e
<1> QED BY <1>4, <1>5, <1>6, <1>7, <1>8 DEF Handles, e

\* An iteration that reads keeps every part of the invariant.
LEMMA ReadsKeeps ==
  ASSUME DInv, LoopReads
  PROVE  DInv'
<1>0. TypeOK /\ SlotInv /\ NewsInv /\ phase = "running"
  BY DEF DInv, LoopReads, Turn
<1>1. UNCHANGED <<acceptOpen, served, nextSession, unwatched, serverVars, envVars>>
  BY DEF LoopReads
<1>2. ASSUME LoopTypes', events' \in Seq(Events), Len(events') <= EventCapacity, missed' = FALSE
      PROVE  TypeOK'
  BY <1>0, <1>1, <1>2 DEF TypeOK, LoopTypes, serverVars, envVars
<1>3. CASE missed /\ missed' = FALSE /\ events' = events /\ OnLagged
  <2>1. LoopTypes' /\ SlotInv'
    BY <1>0, <1>3, LaggedKeeps
  <2>2. TypeOK'
    <3>1. events' \in Seq(Events) /\ Len(events') <= EventCapacity
      BY <1>0, <1>3 DEF TypeOK
    <3> QED BY <1>2, <1>3, <2>1, <3>1
  <2>3. \A q \in Peers : ~Held(q)'
    <3>1. Peers \in SUBSET Peers /\ inbound' = Freed(inbound, Peers)
      BY <1>3 DEF OnLagged
    <3>2. \A q \in Peers : inbound'[q] = NoEntry
      BY <1>0, <3>1, FreedGens
    <3> QED BY <3>2 DEF Held, Holders, NoEntry
  <2>4. SessionsAreReal'
    BY <1>0, <1>3, <2>3 DEF NewsInv, SessionsAreReal
  <2>5. NewsFollows'
    BY <1>0, <1>1, <1>3 DEF NewsInv, NewsFollows
  <2>6. LossIsAhead'
    BY <2>3 DEF LossIsAhead
  <2> QED BY <2>1, <2>2, <2>4, <2>5, <2>6 DEF DInv, NewsInv
<1>4. CASE /\ ~missed /\ events # <<>> /\ events' = Tail(events) /\ missed' = missed
           /\ Handles(Head(events))
  <2> DEFINE e == Head(events)
  <2>1. /\ events \in Seq(Events) /\ Len(events) <= EventCapacity
        /\ Len(events) \in Nat /\ EventCapacity \in Nat
    BY <1>0, DatagramServeAssumption, LenProperties DEF TypeOK
  <2>2. e \in Events /\ events' \in Seq(Events) /\ Len(events') = Len(events) - 1
        /\ e = events[1] /\ 1 \in DOMAIN events
    BY <1>4, <2>1, TailHolds
  <2>3. Len(events') <= EventCapacity /\ missed' = FALSE
    <3>1. Len(events) - 1 <= EventCapacity
      BY <2>1
    <3> QED BY <1>0, <1>4, <2>2, <3>1 DEF TypeOK
  <2>4. NewsInv'
    <3>1. \A q \in Peers : ReadsRight(Head(events), q)
      BY <1>4, ArmsReadRight
    <3> QED BY <1>0, <1>1, <1>4, <3>1, ReadKeepsNews
  <2>5. LoopTypes' /\ SlotInv'
    <3> HIDE DEF e
    <3>1. CASE e.type = "Connected" /\ OnConnected(e.peer, e.session)
      <4>1. e.peer \in Peers /\ e.session \in Nat
        BY <2>2, <3>1 DEF Events
      <4> QED BY <1>0, <1>4, <2>3, <3>1, <4>1, ConnectedKeeps
    <3>2. CASE e.type = "Written" /\ OnWritten(e.peer)
      <4>1. e.peer \in Peers
        BY <2>2, <3>2 DEF Events
      <4> QED BY <1>0, <1>4, <2>3, <3>2, <4>1, WrittenKeeps
    <3>3. CASE e.type = "Disconnected" /\ OnDisconnected(e.peer, e.session)
      <4>1. e.peer \in Peers
        BY <2>2, <3>3 DEF Events
      <4> QED BY <1>0, <1>4, <2>3, <3>3, <4>1, DisconnectedKeeps
    <3>4. CASE OnRadioOff
      BY <1>0, <1>4, <2>3, <3>4, RadioOffKeeps
    <3>5. CASE OnRadioOn
      BY <1>0, <1>4, <2>3, <3>5, RadioOnKeeps
    <3> QED BY <1>4, <3>1, <3>2, <3>3, <3>4, <3>5 DEF Handles, e
  <2>6. TypeOK'
    BY <1>2, <2>2, <2>3, <2>5
  <2> QED BY <2>4, <2>5, <2>6 DEF DInv
<1> QED BY <1>3, <1>4 DEF LoopReads

-----------------------------------------------------------------------------
(* What the driver announces *)

\* The broadcast keeps the latest events, in their order, and says so when it
\* had to give up others.
LEMMA PublishesLatest ==
  ASSUME NEW es \in Seq(Events), events \in Seq(Events), missed \in BOOLEAN, Publishes(es)
  PROVE  \E over \in Nat, holes \in SUBSET Peers :
           /\ events' \in Seq(Events) /\ Len(events') <= EventCapacity
           /\ DOMAIN events' = 1..(Len(events) + Len(es) - over)
           /\ \A k \in DOMAIN events' :
                \/ /\ over + k \in DOMAIN events
                   /\ events'[k] = events[over + k]
                \/ /\ over + k - Len(events) \in DOMAIN es
                   /\ events'[k] = es[over + k - Len(events)]
           /\ missed' \in BOOLEAN /\ (missed => missed') /\ (over > 0 => missed')
           /\ (~missed' => over = 0)
           /\ over = 0 => holes = {}
           /\ channels' = Holed(channels, GensOf(holes))
<1> DEFINE all  == events \o es
           over == IF Len(all) > EventCapacity THEN Len(all) - EventCapacity ELSE 0
           lost == {all[i] : i \in 1..over}
           holes == {p \in Peers : \E e \in lost : e.type = "Written" /\ e.peer = p}
<1>1. /\ events' = SubSeq(all, over + 1, Len(all))
      /\ missed' = (missed \/ over > 0)
      /\ channels' = Holed(channels, GensOf(holes))
  BY DEF Publishes
<1>2. /\ all \in Seq(Events) /\ Len(all) = Len(events) + Len(es)
      /\ \A i \in 1..(Len(events) + Len(es)) :
            all[i] = IF i <= Len(events) THEN events[i] ELSE es[i - Len(events)]
  BY ConcatProperties
<1>3. /\ Len(events) \in Nat /\ DOMAIN events = 1..Len(events)
      /\ Len(es) \in Nat /\ DOMAIN es = 1..Len(es) /\ EventCapacity \in Nat
  BY LenProperties, DatagramServeAssumption
<1> HIDE DEF all
<1>4. over \in Nat /\ over <= Len(all) /\ Len(all) - over <= EventCapacity /\ Len(all) \in Nat
  BY <1>2, <1>3
<1>5. over = 0 => holes = {}
  OBVIOUS
<1> HIDE DEF over, lost
<1>6. holes \in SUBSET Peers
  OBVIOUS
<1> HIDE DEF holes
<1>7. over + 1 \in 1..(Len(all) + 1)
  BY <1>4
<1>8. /\ events' \in Seq(Events)
      /\ Len(events') = Len(all) - over
      /\ \A k \in 1..(Len(all) - over) : events'[k] = all[over + k]
  <2>1. \A i \in (over + 1)..Len(all) : all[i] \in Events
    <3>1. DOMAIN all = 1..Len(all)
      BY <1>2, LenProperties
    <3>2. \A i \in 1..Len(all) : all[i] \in Events
      BY <1>2, <3>1, ElementOfSeq
    <3> QED BY <1>4, <3>2
  <2>2. events' = [i \in 1..(Len(all) - over) |-> all[over + i]]
    BY <1>1, <1>2, <1>4
  <2>3. Len(all) - over \in Nat
    BY <1>4
  <2>4. \A i \in 1..(Len(all) - over) : over + i \in (over + 1)..Len(all)
    BY <1>4
  <2>5. \A i \in 1..(Len(all) - over) : all[over + i] \in Events
    BY <2>1, <2>4
  <2>6. [i \in 1..(Len(all) - over) |-> all[over + i]] \in Seq(Events)
    BY <2>3, <2>5, IsASeq
  <2>7. DOMAIN events' = 1..(Len(all) - over)
    BY <2>2
  <2>8. Len(events') = Len(all) - over
    BY <2>2, <2>3, <2>6, <2>7, LenProperties
  <2> QED BY <2>2, <2>6, <2>8
<1>9. DOMAIN events' = 1..(Len(events) + Len(es) - over)
  <2>1. DOMAIN events' = 1..Len(events')
    BY <1>8, LenProperties
  <2>2. Len(events') = Len(events) + Len(es) - over
    BY <1>2, <1>3, <1>4, <1>8
  <2> QED BY <2>1, <2>2
<1>10. ASSUME NEW k \in DOMAIN events'
       PROVE  \/ /\ over + k \in DOMAIN events
                 /\ events'[k] = events[over + k]
              \/ /\ over + k - Len(events) \in DOMAIN es
                 /\ events'[k] = es[over + k - Len(events)]
  <2>1. k \in 1..(Len(all) - over) /\ over + k \in 1..(Len(events) + Len(es))
    BY <1>2, <1>3, <1>4, <1>9
  <2>2. events'[k] = all[over + k]
    BY <1>8, <2>1
  <2> DEFINE j == over + k
  <2>3. j \in 1..(Len(events) + Len(es)) /\ events'[k] = all[j]
    BY <2>1, <2>2
  <2> HIDE DEF j
  <2>4. events'[k] = IF j <= Len(events) THEN events[j] ELSE es[j - Len(events)]
    BY <1>2, <2>3
  <2>5. j <= Len(events) => j \in DOMAIN events
    BY <1>3, <2>3
  <2>6. ~(j <= Len(events)) => j - Len(events) \in DOMAIN es
    BY <1>3, <2>3
  <2>7. \/ j \in DOMAIN events /\ events'[k] = events[j]
        \/ j - Len(events) \in DOMAIN es /\ events'[k] = es[j - Len(events)]
    BY <2>4, <2>5, <2>6
  <2> QED BY <1>3, <1>4, <2>1, <2>7 DEF j
<1>11. Len(events') <= EventCapacity
  BY <1>4, <1>8
<1>12. /\ missed' \in BOOLEAN /\ (missed => missed') /\ (over > 0 => missed')
       /\ (~missed' => over = 0)
  <2>1. over = 0 \/ over > 0
    BY <1>4
  <2> QED BY <1>1, <2>1, Zenon
<1>13. over \in Nat
  BY <1>4
<1> WITNESS over \in Nat, holes \in SUBSET Peers
<1> QED BY <1>1, <1>5, <1>8, <1>9, <1>10, <1>11, <1>12

\* A step that only publishes keeps the invariant, if it announces a session
\* as it stands and ends none without saying so.
LEMMA PublishingKeeps ==
  ASSUME TypeOK, SlotInv, NewsInv, NEW es \in Seq(Events), Publishes(es),
         UNCHANGED <<phase, inbound, nextGeneration, releaseQ>>,
         \A i \in DOMAIN es : es[i].type = "Connected" =>
           es[i].session # NoSession /\ served'[es[i].peer] = es[i].session,
         \A p \in Peers : served[p] # NoSession /\ served'[p] # served[p] =>
           \E i \in DOMAIN es : IsNews(es[i], p, served[p])
  PROVE  /\ SlotInv' /\ NewsInv'
         /\ events' \in Seq(Events) /\ Len(events') <= EventCapacity /\ missed' \in BOOLEAN
         /\ channels' \subseteq Channels /\ \A c \in channels' : c.gen < nextGeneration
<1>1. /\ events \in Seq(Events) /\ missed \in BOOLEAN /\ inbound \in [Peers -> Slots]
      /\ channels \in SUBSET Channels /\ GensUnique(channels) /\ SlotCore
      /\ Len(events) \in Nat /\ DOMAIN events = 1..Len(events)
      /\ Len(es) \in Nat /\ DOMAIN es = 1..Len(es)
  BY LenProperties DEF TypeOK, SlotInv, SlotCore, GensDiffer, GensUnique
<1>2. PICK over \in Nat, holes \in SUBSET Peers :
           /\ events' \in Seq(Events) /\ Len(events') <= EventCapacity
           /\ DOMAIN events' = 1..(Len(events) + Len(es) - over)
           /\ \A k \in DOMAIN events' :
                \/ /\ over + k \in DOMAIN events
                   /\ events'[k] = events[over + k]
                \/ /\ over + k - Len(events) \in DOMAIN es
                   /\ events'[k] = es[over + k - Len(events)]
           /\ missed' \in BOOLEAN /\ (missed => missed') /\ (over > 0 => missed')
           /\ (~missed' => over = 0)
           /\ over = 0 => holes = {}
           /\ channels' = Holed(channels, GensOf(holes))
  BY <1>1, PublishesLatest
<1>3. /\ Descend(channels', channels) /\ Keep(channels', channels)
      /\ \A d \in channels' : \E c \in channels :
            /\ c.gen = d.gen /\ (d.hole => c.hole \/ c.gen \in GensOf(holes))
            /\ (c.told => d.told)
  BY <1>1, <1>2, HoledMarks
<1>4. SlotCore' /\ \A c \in channels' : c.gen < nextGeneration
  BY <1>1, <1>3, SlotsStayInOrder
<1>5. GapIsInSlot'
  <2> SUFFICES ASSUME NEW d \in channels', d.hole, ~d.told
               PROVE  missed' /\ \E p \in Peers : inbound'[p].gen = d.gen
    BY DEF GapIsInSlot
  <2>1. PICK c \in channels : /\ c.gen = d.gen /\ (d.hole => c.hole \/ c.gen \in GensOf(holes))
                              /\ (c.told => d.told)
    BY <1>3
  <2>2. CASE c.hole
    <3>1. missed /\ \E p \in Peers : inbound[p].gen = c.gen
      BY <2>1, <2>2 DEF SlotInv, GapIsInSlot
    <3> QED BY <1>2, <2>1, <3>1
  <2>3. CASE c.gen \in GensOf(holes)
    <3>1. \E p \in holes : inbound[p].gen = c.gen
      BY <2>3, FreedGens
    <3>2. missed'
      BY <1>2, <3>1
    <3> QED BY <2>1, <3>1, <3>2
  <2> QED BY <2>1, <2>2, <2>3
<1>6. EndsUnheld'
  BY DEF SlotInv, EndsUnheld, Holders
<1>7. \* an event that is still queued, and what comes after it
      ASSUME NEW j \in DOMAIN events, j > over
      PROVE  \E k \in DOMAIN events' : over + k = j /\ events'[k] = events[j]
  <2>1. j - over \in DOMAIN events' /\ over + (j - over) = j
    BY <1>1, <1>2, <1>7
  <2>2. ~(j - Len(events) \in DOMAIN es)
    BY <1>1
  <2> DEFINE k == j - over
  <2>3. k \in DOMAIN events' /\ over + k = j
    BY <2>1
  <2> HIDE DEF k
  <2> QED BY <1>2, <2>2, <2>3
<1>8. ASSUME NEW i \in DOMAIN es, over <= Len(events)
      PROVE  \E k \in DOMAIN events' : over + k - Len(events) = i /\ events'[k] = es[i]
  <2> DEFINE k == i + Len(events) - over
  <2>1. k \in DOMAIN events' /\ over + k - Len(events) = i /\ over + k \notin DOMAIN events
    BY <1>1, <1>2, <1>8
  <2> HIDE DEF k
  <2> QED BY <1>2, <2>1
<1>9. SessionsAreReal'
  <2>1. \A p \in Peers : Held(p)' => inbound'[p].session # NoSession
    BY DEF NewsInv, SessionsAreReal, Held, Holders
  <2>2. \A k \in DOMAIN events' :
          events'[k].type = "Connected" => events'[k].session # NoSession
    BY <1>2 DEF NewsInv, SessionsAreReal
  <2> QED BY <2>1, <2>2 DEF SessionsAreReal
<1>10. NewsFollows'
  <2> SUFFICES ASSUME NEW k \in DOMAIN events', events'[k].type = "Connected",
                      served'[events'[k].peer] # events'[k].session
               PROVE  \E n \in DOMAIN events' :
                        n > k /\ IsNews(events'[n], events'[k].peer, events'[k].session)
    BY DEF NewsFollows, IsNews
  <2> DEFINE e == events'[k]
  <2>1. over + k \in DOMAIN events /\ e = events[over + k]
    BY <1>2
  <2>2. k \in Nat \ {0} /\ over <= Len(events)
    BY <1>1, <1>2, <2>1
  <2>3. e.peer \in Peers /\ e.session # NoSession
    <3>1. e \in Events
      BY <1>1, <2>1, ElementOfSeq
    <3>2. e.session # NoSession
      BY <1>9 DEF SessionsAreReal
    <3> QED BY <3>1, <3>2 DEF Events
  <2> HIDE DEF e
  <2>4. CASE \E j \in DOMAIN events : j > over + k /\ IsNews(events[j], e.peer, e.session)
    <3>1. PICK j \in DOMAIN events : j > over + k /\ IsNews(events[j], e.peer, e.session)
      BY <2>4
    <3>2. j > over
      BY <1>1, <2>2, <3>1
    <3>3. PICK n \in DOMAIN events' : over + n = j /\ events'[n] = events[j]
      BY <1>7, <3>2
    <3>4. n > k
      BY <1>1, <1>2, <2>2, <3>1, <3>3
    <3> QED BY <3>1, <3>3, <3>4 DEF e
  <2>5. CASE served[e.peer] = e.session
    <3>1. PICK i \in DOMAIN es : IsNews(es[i], e.peer, e.session)
      BY <2>3, <2>5 DEF e
    <3>2. PICK n \in DOMAIN events' : over + n - Len(events) = i /\ events'[n] = es[i]
      BY <1>8, <2>2
    <3>3. n > k
      BY <1>1, <1>2, <2>1, <2>2, <3>2
    <3> QED BY <3>1, <3>2, <3>3 DEF e
  <2> QED BY <2>1, <2>4, <2>5 DEF NewsInv, NewsFollows, e
<1>11. LossIsAhead'
  <2> SUFFICES ASSUME NEW p \in Peers, Held(p), served'[p] # inbound[p].session, ~missed'
               PROVE  \E x \in ToSet(events') : IsNews(x, p, inbound[p].session)
    BY DEF LossIsAhead, Held, Holders, IsNews
  <2>1. over = 0 /\ ~missed
    BY <1>2
  <2>2. inbound[p].session # NoSession
    BY DEF NewsInv, SessionsAreReal
  <2>3. \A k \in DOMAIN events' : events'[k] \in ToSet(events')
    BY DEF ToSet
  <2>4. CASE served[p] # inbound[p].session
    <3>1. PICK j \in DOMAIN events : IsNews(events[j], p, inbound[p].session)
      BY <2>1, <2>4 DEF NewsInv, LossIsAhead, ToSet
    <3>2. j > over
      BY <1>1, <2>1
    <3>3. PICK k \in DOMAIN events' : events'[k] = events[j]
      BY <1>7, <3>2
    <3> QED BY <2>3, <3>1, <3>3
  <2>5. CASE served[p] = inbound[p].session
    <3>1. PICK i \in DOMAIN es : IsNews(es[i], p, inbound[p].session)
      BY <2>2, <2>5
    <3>2. over <= Len(events)
      BY <1>1, <2>1
    <3>3. PICK k \in DOMAIN events' : events'[k] = es[i]
      BY <1>8, <3>2
    <3> QED BY <2>3, <3>1, <3>3
  <2> QED BY <2>4, <2>5
<1>12. missed' \in BOOLEAN /\ channels' \subseteq Channels
  BY <1>2, <1>3 DEF Descend
<1> QED BY <1>2, <1>4, <1>5, <1>6, <1>9, <1>10, <1>11, <1>12 DEF SlotInv, NewsInv

\* The part of the types the driver can disturb.
DriverTypes ==
  /\ nextSession \in Nat \ {0}
  /\ channels \subseteq Channels /\ \A c \in channels : c.gen < nextGeneration
  /\ served \in [Peers -> Nat] /\ \A p \in Peers : served[p] < nextSession
  /\ gone \subseteq Peers /\ unwatched \subseteq Peers
  /\ events \in Seq(Events) /\ Len(events) <= EventCapacity /\ missed \in BOOLEAN

\* Whoever is forgotten is announced first.
LEMMA ReleaseServedKeeps ==
  ASSUME DInv, ReleaseServed, UNCHANGED <<phase, inbound, nextGeneration, releaseQ>>
  PROVE  SlotInv' /\ NewsInv' /\ DriverTypes'
<1> DEFINE all == {p \in Peers : served[p] # NoSession}
<1>0. TypeOK /\ SlotInv /\ NewsInv
  BY DEF DInv
<1>1. PICK order \in SetToSeqs(all) :
        Publishes([i \in DOMAIN order |-> Event("Disconnected", order[i], NoSession)])
  BY DEF ReleaseServed
<1> DEFINE es == [i \in DOMAIN order |-> Event("Disconnected", order[i], NoSession)]
<1>2. /\ served' = [p \in Peers |-> NoSession] /\ gone' = {} /\ unwatched' = {}
      /\ nextSession' = nextSession /\ Publishes(es)
  BY <1>1 DEF ReleaseServed
<1>3. IsFiniteSet(all)
  BY FS_Subset, DatagramServeAssumption
<1>4. order \in Seq(all) /\ \A p \in all : \E i \in DOMAIN order : order[i] = p
  BY <1>3, OrderCovers
<1>5. Len(order) \in Nat /\ DOMAIN order = 1..Len(order) /\ \A i \in DOMAIN order : order[i] \in Peers
  BY <1>4, LenProperties, ElementOfSeq
<1>6. ASSUME NEW i \in DOMAIN order
      PROVE  /\ es[i] \in Events /\ es[i].type = "Disconnected"
             /\ es[i].peer = order[i] /\ es[i].session = NoSession
  BY <1>5 DEF Event, Events, NoSession
<1>7. es \in Seq(Events) /\ DOMAIN es = DOMAIN order
  <2>1. \A i \in 1..Len(order) : Event("Disconnected", order[i], NoSession) \in Events
    BY <1>5, <1>6
  <2>2. [i \in 1..Len(order) |-> Event("Disconnected", order[i], NoSession)] \in Seq(Events)
    BY <1>5, <2>1, IsASeq
  <2> QED BY <1>5, <2>2
<1> HIDE DEF es
<1>8. \A i \in DOMAIN es : es[i].type = "Connected" =>
        es[i].session # NoSession /\ served'[es[i].peer] = es[i].session
  BY <1>6, <1>7
<1>9. \A p \in Peers : served[p] # NoSession /\ served'[p] # served[p] =>
        \E i \in DOMAIN es : IsNews(es[i], p, served[p])
  <2> SUFFICES ASSUME NEW p \in Peers, served[p] # NoSession
               PROVE  \E i \in DOMAIN es : IsNews(es[i], p, served[p])
    OBVIOUS
  <2>1. PICK i \in DOMAIN order : order[i] = p
    BY <1>4
  <2> QED BY <1>6, <1>7, <2>1 DEF IsNews
<1>10. /\ SlotInv' /\ NewsInv'
       /\ events' \in Seq(Events) /\ Len(events') <= EventCapacity /\ missed' \in BOOLEAN
       /\ channels' \subseteq Channels /\ \A c \in channels' : c.gen < nextGeneration
  BY <1>0, <1>2, <1>7, <1>8, <1>9, PublishingKeeps
<1>11. /\ nextSession \in Nat \ {0} /\ served' \in [Peers -> Nat]
       /\ \A p \in Peers : served'[p] < nextSession'
  BY <1>0, <1>2 DEF TypeOK, NoSession
<1> QED BY <1>2, <1>10, <1>11 DEF DriverTypes

\* What is left alone keeps its part of the invariant.
LEMMA NothingAnnounced ==
  ASSUME DInv, UNCHANGED <<phase, inbound, nextGeneration, releaseQ, served, nextSession,
                           eventVars, channels>>,
         gone' \subseteq Peers, unwatched' \subseteq Peers
  PROVE  SlotInv' /\ NewsInv' /\ DriverTypes'
<1> USE DEF eventVars
<1>1. SlotInv'
  BY DEF DInv, SlotInv, SlotCore, OneHolder, GensDiffer, SlotIsItsPeers, OnlyTheSlotSends,
         ReleasedAreGone, SlotHasOwner, Held, Holders, Releases, GapIsInSlot, EndsUnheld
<1>2. NewsInv'
  BY DEF DInv, NewsInv, SessionsAreReal, NewsFollows, LossIsAhead, Held, Holders
<1>3. DriverTypes'
  BY DEF DInv, TypeOK, DriverTypes
<1> QED BY <1>1, <1>2, <1>3

\* advertise announces whom it forgets, whatever BlueZ answers.
LEMMA AdvertiseKeeps ==
  ASSUME DInv, Advertise, UNCHANGED <<phase, inbound, nextGeneration, releaseQ>>
  PROVE  /\ SlotInv' /\ NewsInv' /\ DriverTypes'
         /\ {registered', announcing', servedSpec'} \subseteq BOOLEAN
<1>1. CASE ApplicationRejected
  <2>1. gone' \subseteq Peers /\ unwatched' \subseteq Peers
    BY <1>1 DEF ApplicationRejected, DInv, TypeOK
  <2>2. UNCHANGED <<served, nextSession, eventVars, channels>>
    BY <1>1 DEF ApplicationRejected
  <2>3. {registered', announcing', servedSpec'} \subseteq BOOLEAN
    BY <1>1 DEF ApplicationRejected, DInv, TypeOK
  <2> QED BY <2>1, <2>2, <2>3, NothingAnnounced
<1>2. ASSUME NEW adAccepted \in BOOLEAN, ApplicationServed(adAccepted)
      PROVE  /\ SlotInv' /\ NewsInv' /\ DriverTypes'
             /\ {registered', announcing', servedSpec'} \subseteq BOOLEAN
  <2>1. {registered', announcing', servedSpec'} \subseteq BOOLEAN
    BY <1>2 DEF ApplicationServed
  <2>2. ReleaseServed
    BY <1>2 DEF ApplicationServed
  <2> QED BY <2>1, <2>2, ReleaseServedKeeps
<1> QED BY <1>1, <1>2 DEF Advertise

\* A step of the driver's that changes nothing of the loop's.
LEMMA DriverStepKeeps ==
  ASSUME DInv, SlotInv', NewsInv', DriverTypes',
         UNCHANGED <<phase, acceptClosed, inbound, nextGeneration, acceptOpen, releaseQ>>,
         recovering' \in BOOLEAN,
         {registered', announcing', servedSpec', powered', stopped'} \subseteq BOOLEAN,
         arrivals' \in 0..Arrivals, fuel' \in 0..Disruptions
  PROVE  DInv'
  BY DEF DInv, TypeOK, DriverTypes

\* The loop's re-advertisement is an advertise like any other.
LEMMA RecoverKeeps ==
  ASSUME DInv, Recover
  PROVE  DInv'
<1>1. /\ Advertise /\ recovering' \in BOOLEAN
      /\ UNCHANGED <<phase, acceptClosed, inbound, nextGeneration, acceptOpen, releaseQ, envVars>>
  BY DEF Recover
<1>2. /\ SlotInv' /\ NewsInv' /\ DriverTypes'
      /\ {registered', announcing', servedSpec'} \subseteq BOOLEAN
  BY <1>1, AdvertiseKeeps
<1>3. /\ {powered', stopped'} \subseteq BOOLEAN
      /\ arrivals' \in 0..Arrivals /\ fuel' \in 0..Disruptions
  BY <1>1 DEF DInv, TypeOK, envVars
<1> QED BY <1>1, <1>2, <1>3, DriverStepKeeps

-----------------------------------------------------------------------------
(* The centrals, the watchers, the radio and the application *)

\* A central that is admitted keeps its session or takes a new one.
LEMMA AdmitsCentral ==
  ASSUME TypeOK, NEW p \in Peers, Admits(p)
  PROVE  /\ SessionOf(p) \in Nat \ {0} /\ served'[p] = SessionOf(p)
         /\ \A q \in Peers : served[q] # NoSession => served'[q] = served[q]
         /\ nextSession' \in Nat \ {0}
         /\ served' \in [Peers -> Nat] /\ \A q \in Peers : served'[q] < nextSession'
<1>1. /\ nextSession \in Nat \ {0} /\ served \in [Peers -> Nat]
      /\ \A q \in Peers : served[q] < nextSession
  BY DEF TypeOK
<1>2. SessionOf(p) \in Nat \ {0} /\ (served[p] # NoSession => SessionOf(p) = served[p])
  BY <1>1 DEF SessionOf, NoSession
<1>3. /\ served' = [served EXCEPT ![p] = SessionOf(p)]
      /\ nextSession' = IF served[p] = NoSession THEN nextSession + 1 ELSE nextSession
  BY DEF Admits
<1>4. \A q \in Peers : served'[q] = IF q = p THEN SessionOf(p) ELSE served[q]
  BY <1>1, <1>3
<1>5. SessionOf(p) < nextSession' /\ nextSession' \in Nat \ {0} /\ nextSession <= nextSession'
  BY <1>1, <1>3 DEF SessionOf
<1>6. \A q \in Peers : served'[q] < nextSession'
  BY <1>1, <1>4, <1>5
<1>7. served' \in [Peers -> Nat]
  BY <1>1, <1>2, <1>3
<1> QED BY <1>2, <1>4, <1>5, <1>6, <1>7

\* A central announces itself with the session it then has.
LEMMA ArrivalKeeps ==
  ASSUME DInv, NEW p \in Peers, Admits(p), NEW es \in Seq(Events), Publishes(es),
         \A i \in DOMAIN es :
           es[i].type = "Connected" => es[i].peer = p /\ es[i].session = SessionOf(p),
         UNCHANGED <<phase, inbound, nextGeneration, releaseQ, gone, unwatched>>
  PROVE  SlotInv' /\ NewsInv' /\ DriverTypes'
<1>0. TypeOK /\ SlotInv /\ NewsInv
  BY DEF DInv
<1>1. /\ SessionOf(p) \in Nat \ {0} /\ served'[p] = SessionOf(p)
      /\ \A q \in Peers : served[q] # NoSession => served'[q] = served[q]
      /\ nextSession' \in Nat \ {0}
      /\ served' \in [Peers -> Nat] /\ \A q \in Peers : served'[q] < nextSession'
  BY <1>0, AdmitsCentral
<1>2. \A i \in DOMAIN es : es[i].type = "Connected" =>
        es[i].session # NoSession /\ served'[es[i].peer] = es[i].session
  BY <1>1 DEF NoSession
<1>3. /\ SlotInv' /\ NewsInv'
      /\ events' \in Seq(Events) /\ Len(events') <= EventCapacity /\ missed' \in BOOLEAN
      /\ channels' \subseteq Channels /\ \A c \in channels' : c.gen < nextGeneration
  BY <1>0, <1>1, <1>2, PublishingKeeps
<1>4. gone' \subseteq Peers /\ unwatched' \subseteq Peers
  BY <1>0 DEF TypeOK
<1> QED BY <1>1, <1>3, <1>4 DEF DriverTypes

\* A subscription announces the central with its session.
LEMMA SubscribesKeeps ==
  ASSUME DInv, NEW p \in Peers, CentralSubscribes(p)
  PROVE  DInv'
<1> DEFINE e == Event("Connected", p, SessionOf(p))
<1>1. /\ Admits(p) /\ Publishes(<<e>>) /\ Arrives
      /\ UNCHANGED <<loopVars, acceptOpen, releaseQ, gone, unwatched, serverVars,
                     powered, stopped>>
  BY DEF CentralSubscribes
<1>2. TypeOK /\ SessionOf(p) \in Nat
  BY <1>1, AdmitsCentral DEF DInv
<1>3. e \in Events /\ e.peer = p /\ e.session = SessionOf(p)
  BY <1>2 DEF Event, Events
<1> HIDE DEF e
<1>4. <<e>> \in Seq(Events) /\ \A i \in DOMAIN <<e>> : <<e>>[i] = e
  BY <1>3
<1>5. SlotInv' /\ NewsInv' /\ DriverTypes'
  <2>1. UNCHANGED <<phase, inbound, nextGeneration, releaseQ, gone, unwatched>>
    BY <1>1 DEF loopVars
  <2> QED BY <1>1, <1>3, <1>4, <2>1, ArrivalKeeps
<1>6. /\ {registered', announcing', servedSpec', powered', stopped'} \subseteq BOOLEAN
      /\ arrivals' \in 0..Arrivals /\ fuel' \in 0..Disruptions /\ recovering' \in BOOLEAN
  BY <1>1, <1>2, DatagramServeAssumption DEF TypeOK, Arrives, serverVars, loopVars
<1> QED BY <1>1, <1>5, <1>6, DriverStepKeeps DEF loopVars

\* A write announces the central before it is forwarded.
LEMMA WritesKeeps ==
  ASSUME DInv, NEW p \in Peers, CentralWrites(p)
  PROVE  DInv'
<1> DEFINE e == Event("Connected", p, SessionOf(p))
           w == Event("Written", p, SessionOf(p))
<1>1. /\ Admits(p) /\ Publishes(<<e, w>>) /\ Arrives
      /\ UNCHANGED <<loopVars, acceptOpen, releaseQ, gone, unwatched, serverVars,
                     powered, stopped>>
  BY DEF CentralWrites
<1>2. TypeOK /\ SessionOf(p) \in Nat
  BY <1>1, AdmitsCentral DEF DInv
<1>3. /\ e \in Events /\ e.peer = p /\ e.session = SessionOf(p)
      /\ w \in Events /\ w.type # "Connected"
  BY <1>2 DEF Event, Events
<1> HIDE DEF e, w
<1>4. <<e, w>> \in Seq(Events) /\ \A i \in DOMAIN <<e, w>> : <<e, w>>[i] \in {e, w}
  BY <1>3
<1>5. SlotInv' /\ NewsInv' /\ DriverTypes'
  <2>1. UNCHANGED <<phase, inbound, nextGeneration, releaseQ, gone, unwatched>>
    BY <1>1 DEF loopVars
  <2> QED BY <1>1, <1>3, <1>4, <2>1, ArrivalKeeps
<1>6. /\ {registered', announcing', servedSpec', powered', stopped'} \subseteq BOOLEAN
      /\ arrivals' \in 0..Arrivals /\ fuel' \in 0..Disruptions /\ recovering' \in BOOLEAN
  BY <1>1, <1>2, DatagramServeAssumption DEF TypeOK, Arrives, serverVars, loopVars
<1> QED BY <1>1, <1>5, <1>6, DriverStepKeeps DEF loopVars

\* A central that leaves is not forgotten before its watcher reports it.
LEMMA LeavesKeeps ==
  ASSUME DInv, NEW p \in Peers, CentralLeaves(p)
  PROVE  DInv'
<1>1. /\ gone' = gone \cup {p} /\ Spends
      /\ UNCHANGED <<loopVars, consumerVars, served, nextSession, unwatched,
                     eventVars, serverVars, powered, stopped>>
  BY DEF CentralLeaves
<1>2. TypeOK
  BY DEF DInv
<1>3. SlotInv' /\ NewsInv' /\ DriverTypes'
  <2>1. gone' \subseteq Peers /\ unwatched' \subseteq Peers
    BY <1>1, <1>2 DEF TypeOK
  <2>2. UNCHANGED <<phase, inbound, nextGeneration, releaseQ, served, nextSession,
                    eventVars, channels>>
    BY <1>1 DEF loopVars, consumerVars
  <2> QED BY <2>1, <2>2, NothingAnnounced
<1>4. /\ {registered', announcing', servedSpec', powered', stopped'} \subseteq BOOLEAN
      /\ arrivals' \in 0..Arrivals /\ fuel' \in 0..Disruptions /\ recovering' \in BOOLEAN
  BY <1>1, <1>2, DatagramServeAssumption DEF TypeOK, Spends, serverVars, loopVars
<1> QED BY <1>1, <1>3, <1>4, DriverStepKeeps DEF loopVars, consumerVars

\* The watcher forgets the central together with the news of it.
LEMMA ReportKeeps ==
  ASSUME DInv, NEW p \in Peers, WatcherReports(p)
  PROVE  DInv'
<1> DEFINE e == Event("Disconnected", p, served[p])
<1>1. /\ served' = [served EXCEPT ![p] = NoSession] /\ Publishes(<<e>>)
      /\ gone' = gone \ {p}
      /\ UNCHANGED <<loopVars, acceptOpen, releaseQ, nextSession, unwatched, serverVars, envVars>>
  BY DEF WatcherReports
<1>2. TypeOK /\ SlotInv /\ NewsInv
  BY DEF DInv
<1>3. served \in [Peers -> Nat] /\ \A q \in Peers : served[q] < nextSession
  BY <1>2 DEF TypeOK
<1>4. e \in Events /\ e.type = "Disconnected" /\ e.peer = p /\ e.session = served[p]
  BY <1>3 DEF Event, Events
<1> HIDE DEF e
<1>5. <<e>> \in Seq(Events) /\ DOMAIN <<e>> = {1} /\ <<e>>[1] = e
  BY <1>4
<1>6. \A q \in Peers : served'[q] = IF q = p THEN NoSession ELSE served[q]
  BY <1>1, <1>3
<1>7. /\ SlotInv' /\ NewsInv'
      /\ events' \in Seq(Events) /\ Len(events') <= EventCapacity /\ missed' \in BOOLEAN
      /\ channels' \subseteq Channels /\ \A c \in channels' : c.gen < nextGeneration
  <2>1. \A i \in DOMAIN <<e>> : <<e>>[i].type # "Connected"
    BY <1>4, <1>5
  <2>2. \A q \in Peers : served[q] # NoSession /\ served'[q] # served[q] =>
          \E i \in DOMAIN <<e>> : IsNews(<<e>>[i], q, served[q])
    BY <1>4, <1>5, <1>6 DEF IsNews
  <2>3. UNCHANGED <<phase, inbound, nextGeneration, releaseQ>>
    BY <1>1 DEF loopVars
  <2> QED BY <1>1, <1>2, <1>5, <2>1, <2>2, <2>3, PublishingKeeps
<1>8. DriverTypes'
  <2>1. served' \in [Peers -> Nat]
    BY <1>1, <1>3 DEF NoSession
  <2>2. \A q \in Peers : served'[q] < nextSession'
    BY <1>1, <1>2, <1>3, <1>6 DEF NoSession, TypeOK
  <2> QED BY <1>1, <1>2, <1>7, <2>1, <2>2 DEF DriverTypes, TypeOK, loopVars
<1>9. /\ {registered', announcing', servedSpec', powered', stopped'} \subseteq BOOLEAN
      /\ arrivals' \in 0..Arrivals /\ fuel' \in 0..Disruptions /\ recovering' \in BOOLEAN
  BY <1>1, <1>2 DEF TypeOK, serverVars, loopVars, envVars
<1> QED BY <1>1, <1>7, <1>8, <1>9, DriverStepKeeps DEF loopVars

\* The radio is announced, and nobody's session with it.
LEMMA RadioKeeps ==
  ASSUME DInv, NEW type \in {"RadioOff", "RadioOn"}, Publishes(<<RadioEvent(type)>>),
         gone' \subseteq Peers,
         UNCHANGED <<loopVars, acceptOpen, releaseQ, served, nextSession, unwatched>>,
         {registered', announcing', servedSpec', powered', stopped'} \subseteq BOOLEAN,
         arrivals' \in 0..Arrivals, fuel' \in 0..Disruptions
  PROVE  DInv'
<1> DEFINE e == RadioEvent(type)
<1>1. TypeOK /\ SlotInv /\ NewsInv
  BY DEF DInv
<1>2. e \in Events /\ e.type # "Connected"
  BY DEF RadioEvent, Events
<1>3. Publishes(<<e>>)
  OBVIOUS
<1> HIDE DEF e
<1>4. <<e>> \in Seq(Events) /\ \A i \in DOMAIN <<e>> : <<e>>[i] = e
  BY <1>2
<1>5. /\ SlotInv' /\ NewsInv'
      /\ events' \in Seq(Events) /\ Len(events') <= EventCapacity /\ missed' \in BOOLEAN
      /\ channels' \subseteq Channels /\ \A c \in channels' : c.gen < nextGeneration
  <2>1. \A i \in DOMAIN <<e>> : <<e>>[i].type # "Connected"
    BY <1>2, <1>4
  <2>2. \A q \in Peers : served'[q] = served[q]
    OBVIOUS
  <2>3. UNCHANGED <<phase, inbound, nextGeneration, releaseQ>>
    BY DEF loopVars
  <2> QED BY <1>1, <1>3, <1>4, <2>1, <2>2, <2>3, PublishingKeeps
<1>6. DriverTypes'
  BY <1>1, <1>5 DEF DriverTypes, TypeOK, loopVars
<1>7. recovering' \in BOOLEAN
  BY <1>1 DEF TypeOK, loopVars
<1> QED BY <1>5, <1>6, <1>7, DriverStepKeeps DEF loopVars

\* The radio goes and comes as its events say.
LEMMA RadioActionsKeep ==
  ASSUME DInv, RadioGoesOff \/ RadioComesBack
  PROVE  DInv'
<1>1. TypeOK
  BY DEF DInv
<1>2. CASE RadioGoesOff
  <2>1. /\ gone' = {p \in Peers : served[p] # NoSession}
        /\ Publishes(<<RadioEvent("RadioOff")>>)
        /\ UNCHANGED <<loopVars, acceptOpen, releaseQ, served, nextSession, unwatched>>
    BY <1>2 DEF RadioGoesOff
  <2>2. /\ {registered', announcing', servedSpec', powered', stopped'} \subseteq BOOLEAN
        /\ arrivals' \in 0..Arrivals /\ fuel' \in 0..Disruptions
    <3>1. /\ registered' = FALSE /\ announcing' = FALSE /\ powered' = FALSE
          /\ servedSpec' = servedSpec /\ stopped' = stopped
          /\ arrivals' = arrivals /\ fuel > 0 /\ fuel' = fuel - 1
      BY <1>2 DEF RadioGoesOff, Spends
    <3>2. {registered', announcing', servedSpec', powered', stopped'} \subseteq BOOLEAN
      BY <1>1, <3>1 DEF TypeOK
    <3>3. arrivals' \in 0..Arrivals /\ fuel' \in 0..Disruptions
      BY <1>1, <3>1, DatagramServeAssumption DEF TypeOK
    <3> QED BY <3>2, <3>3
  <2>3. gone' \subseteq Peers
    BY <2>1
  <2> QED BY <2>1, <2>2, <2>3, RadioKeeps
<1>3. CASE RadioComesBack
  <2>1. /\ Publishes(<<RadioEvent("RadioOn")>>)
        /\ UNCHANGED <<loopVars, acceptOpen, releaseQ, served, nextSession, unwatched>>
    BY <1>3 DEF RadioComesBack, sessionVars
  <2>2. /\ {registered', announcing', servedSpec', powered', stopped'} \subseteq BOOLEAN
        /\ arrivals' \in 0..Arrivals /\ fuel' \in 0..Disruptions
    <3>1. /\ UNCHANGED serverVars /\ powered' = TRUE /\ stopped' = stopped
          /\ arrivals' = arrivals /\ fuel > 0 /\ fuel' = fuel - 1
      BY <1>3 DEF RadioComesBack, Spends
    <3>2. {registered', announcing', servedSpec', powered', stopped'} \subseteq BOOLEAN
      BY <1>1, <3>1 DEF TypeOK, serverVars
    <3>3. arrivals' \in 0..Arrivals /\ fuel' \in 0..Disruptions
      BY <1>1, <3>1, DatagramServeAssumption DEF TypeOK
    <3> QED BY <3>2, <3>3
  <2>3. gone' \subseteq Peers
    BY <1>1, <1>3 DEF RadioComesBack, TypeOK, sessionVars
  <2> QED BY <2>1, <2>2, <2>3, RadioKeeps
<1> QED BY <1>2, <1>3

\* stop_serving and another serve announce whom they forget.
LEMMA ApplicationKeeps ==
  ASSUME DInv, StopServing \/ ServeAgain
  PROVE  DInv'
<1>1. TypeOK
  BY DEF DInv
<1>2. /\ UNCHANGED <<loopVars, acceptOpen, releaseQ, powered>> /\ Spends /\ stopped' \in BOOLEAN
  BY DEF StopServing, ServeAgain
<1>3. /\ SlotInv' /\ NewsInv' /\ DriverTypes'
      /\ {registered', announcing', servedSpec'} \subseteq BOOLEAN
  <2>1. UNCHANGED <<phase, inbound, nextGeneration, releaseQ>>
    BY <1>2 DEF loopVars
  <2>2. CASE StopServing
    BY <2>1, <2>2, ReleaseServedKeeps DEF StopServing
  <2>3. CASE ServeAgain
    BY <2>1, <2>3, AdvertiseKeeps DEF ServeAgain
  <2> QED BY <2>2, <2>3
<1>4. /\ {registered', announcing', servedSpec', powered', stopped'} \subseteq BOOLEAN
      /\ arrivals' \in 0..Arrivals /\ fuel' \in 0..Disruptions /\ recovering' \in BOOLEAN
  BY <1>1, <1>2, <1>3, DatagramServeAssumption DEF TypeOK, Spends, loopVars
<1> QED BY <1>2, <1>3, <1>4, DriverStepKeeps DEF loopVars

-----------------------------------------------------------------------------
(* The consumer *)

\* A channel that changes hands, or its flags, stays the same channel.
LEMMA MovedKeeps ==
  ASSUME NEW c \in channels, channels \subseteq Channels, GensUnique(channels),
         NEW d \in Channels, Follows(d, c), Moved(c, d)
  PROVE  /\ Descend(channels', channels)
         /\ \A x \in channels : x.place # "dropped" /\ x # c => x \in channels'
         /\ d.place # "dropped" => d \in channels' /\ Keep(channels', channels)
         /\ \A x \in channels' : x = d \/ (x \in channels /\ x # c)
<1>1. channels' \subseteq (channels \ {c}) \cup {d}
  BY DEF Moved, Remembered
<1>2. \A x \in (channels \ {c}) \cup {d} : x.place # "dropped" => x \in channels'
  BY DEF Moved, Remembered
<1>3. \A x \in channels' : \E y \in channels : Follows(x, y)
  BY <1>1 DEF Follows
<1>4. GensUnique(channels')
  BY <1>1 DEF GensUnique, Follows
<1>5. d.place # "dropped" => Keep(channels', channels)
  BY <1>2 DEF Keep, Follows
<1> QED BY <1>1, <1>2, <1>3, <1>4, <1>5 DEF Descend

\* What the consumer can disturb of the types.
LEMMA ConsumerStepKeeps ==
  ASSUME DInv, SlotInv',
         UNCHANGED <<loopVars, served, nextSession, unwatched, eventVars, serverVars, envVars>>,
         acceptOpen' \in BOOLEAN, gone' \subseteq Peers,
         channels' \subseteq Channels, \A c \in channels' : c.gen < nextGeneration,
         releaseQ' \in Seq(Requests),
         \A i \in DOMAIN releaseQ' : releaseQ'[i].gen < nextGeneration
  PROVE  DInv'
<1> USE DEF loopVars, eventVars, serverVars, envVars
<1>1. TypeOK'
  BY DEF DInv, TypeOK
<1>2. NewsInv'
  BY DEF DInv, NewsInv, SessionsAreReal, NewsFollows, LossIsAhead, Held, Holders
<1> QED BY <1>1, <1>2 DEF DInv

\* The consumer holds on to the channel: no slot is affected.
LEMMA HeldChannelKeeps ==
  ASSUME DInv, NEW c \in channels, NEW d \in Channels, Follows(d, c), Moved(c, d),
         d.place # "dropped", d.hole = c.hole, d.told = c.told,
         UNCHANGED <<loopVars, releaseQ, eventVars>>
  PROVE  /\ SlotInv' /\ channels' \subseteq Channels
         /\ \A x \in channels' : x.gen < nextGeneration
<1>0. TypeOK /\ SlotInv /\ SlotCore /\ channels \subseteq Channels /\ GensUnique(channels)
  BY DEF DInv, SlotInv, SlotCore, TypeOK, GensDiffer, GensUnique
<1>1. /\ Descend(channels', channels) /\ Keep(channels', channels)
      /\ \A x \in channels' : x = d \/ (x \in channels /\ x # c)
  BY <1>0, MovedKeeps
<1>2. SlotCore' /\ \A x \in channels' : x.gen < nextGeneration
  <2>1. inbound' = inbound /\ releaseQ' = releaseQ
    BY DEF loopVars
  <2> QED BY <1>0, <1>1, <2>1, SlotsStayInOrder
<1>3. GapIsInSlot'
  <2>1. \A x \in channels' : \E y \in channels : y.gen = x.gen /\ (x.hole => y.hole) /\ (y.told => x.told)
    BY <1>1 DEF Follows
  <2> QED BY <1>0, <2>1 DEF SlotInv, GapIsInSlot, loopVars, eventVars
<1>4. EndsUnheld'
  BY <1>0 DEF SlotInv, EndsUnheld, Holders, loopVars
<1> QED BY <1>1, <1>2, <1>3, <1>4 DEF SlotInv, Descend

\* Accepting, closing and disconnecting a channel leave it with its holder.
LEMMA HoldingKeeps ==
  ASSUME DInv, NEW c \in channels, Accept(c) \/ CloseChannel(c) \/ DisconnectChannel(c)
  PROVE  DInv'
<1>0. TypeOK /\ c \in Channels
  BY DEF DInv, TypeOK
<1>1. /\ UNCHANGED <<loopVars, releaseQ, eventVars>>
      /\ UNCHANGED <<served, nextSession, unwatched, serverVars, envVars>>
      /\ acceptOpen' = acceptOpen
  BY DEF Accept, CloseChannel, DisconnectChannel, sessionVars
<1>2. gone' \subseteq Peers
  <2>1. CASE Accept(c) \/ CloseChannel(c)
    BY <1>0, <2>1 DEF Accept, CloseChannel, sessionVars, TypeOK
  <2>2. CASE DisconnectChannel(c)
    <3>1. \A t \in {Target(c.peer, c.session)} : t.peer \in Peers
      BY <1>0, TargetsAreCentrals DEF Channels
    <3> QED BY <1>0, <2>2, <3>1 DEF DisconnectChannel, Disconnects, TypeOK
  <2> QED BY <2>1, <2>2
<1>3. PICK d \in Channels : /\ Follows(d, c) /\ Moved(c, d) /\ d.place # "dropped"
                            /\ d.hole = c.hole /\ d.told = c.told
  <2>1. CASE Accept(c)
    <3> DEFINE d == [c EXCEPT !.place = "held"]
    <3>1. Moved(c, d) /\ c.place # "dropped"
      BY <2>1 DEF Accept, Queued
    <3>2. d \in Channels /\ Follows(d, c) /\ d.place # "dropped" /\ d.hole = c.hole /\ d.told = c.told
      BY <1>0, <3>1 DEF Channels, Follows
    <3> QED BY <3>1, <3>2
  <2>2. CASE CloseChannel(c)
    <3> DEFINE d == [c EXCEPT !.keep = TRUE]
    <3>1. Moved(c, d) /\ c.place # "dropped"
      BY <2>2 DEF CloseChannel
    <3>2. d \in Channels /\ Follows(d, c) /\ d.place # "dropped" /\ d.hole = c.hole /\ d.told = c.told
      BY <1>0, <3>1 DEF Channels, Follows
    <3> QED BY <3>1, <3>2
  <2>3. CASE DisconnectChannel(c)
    <3> DEFINE d == [c EXCEPT !.active = FALSE]
    <3>1. Moved(c, d) /\ c.place # "dropped"
      BY <2>3 DEF DisconnectChannel
    <3>2. d \in Channels /\ Follows(d, c) /\ d.place # "dropped" /\ d.hole = c.hole /\ d.told = c.told
      BY <1>0, <3>1 DEF Channels, Follows
    <3> QED BY <3>1, <3>2
  <2> QED BY <2>1, <2>2, <2>3
<1>4. /\ SlotInv' /\ channels' \subseteq Channels
      /\ \A x \in channels' : x.gen < nextGeneration
  BY <1>1, <1>3, HeldChannelKeeps
<1>5. /\ acceptOpen' \in BOOLEAN /\ releaseQ' \in Seq(Requests)
      /\ \A i \in DOMAIN releaseQ' : releaseQ'[i].gen < nextGeneration
  BY <1>0, <1>1 DEF TypeOK
<1> QED BY <1>1, <1>2, <1>4, <1>5, ConsumerStepKeeps

\* Channels the consumer drops leave their releases behind, so that no slot is
\* left without an owner.
LEMMA DroppingKeeps ==
  ASSUME DInv, NEW Q \in SUBSET channels, \A c \in Q : c.place # "dropped",
         channels' = Remembered((channels \ Q) \cup {Dropped(c) : c \in Q}),
         \A i \in DOMAIN releaseQ' :
            \/ \E j \in DOMAIN releaseQ : releaseQ'[i] = releaseQ[j]
            \/ \E c \in Q : releaseQ'[i] = ReleaseOf(c),
         \A j \in DOMAIN releaseQ : \E i \in DOMAIN releaseQ' : releaseQ'[i] = releaseQ[j],
         \A c \in Q : \E i \in DOMAIN releaseQ' : releaseQ'[i] = ReleaseOf(c),
         UNCHANGED <<loopVars, eventVars>>
  PROVE  /\ SlotInv' /\ channels' \subseteq Channels
         /\ \A x \in channels' : x.gen < nextGeneration
         /\ \A i \in DOMAIN releaseQ' : releaseQ'[i].gen < nextGeneration
<1>0. /\ TypeOK /\ SlotInv /\ SlotCore /\ channels \subseteq Channels /\ GensUnique(channels)
      /\ \A c \in channels : c.gen < nextGeneration
  BY DEF DInv, SlotInv, SlotCore, TypeOK, GensDiffer, GensUnique
<1>1. ASSUME NEW c \in Q
      PROVE  /\ Dropped(c) \in Channels /\ Follows(Dropped(c), c)
             /\ Dropped(c).place = "dropped" /\ ~Dropped(c).hole
  <2>1. c \in Channels
    BY <1>0
  <2> QED BY <2>1 DEF Dropped, Channels, Follows
<1>a. \A c \in Q : ReleaseOf(c).peer = c.peer /\ ReleaseOf(c).gen = c.gen
  BY DEF ReleaseOf
<1>2. ASSUME NEW x \in channels'
      PROVE  \E c \in channels : Follows(x, c) /\ x \in Channels /\ (x.hole => x = c)
                                 /\ IF c \in Q THEN x = Dropped(c) ELSE x = c
  <2>1. x \in channels \ Q \/ \E c \in Q : x = Dropped(c)
    BY DEF Remembered
  <2>2. CASE x \in channels \ Q
    BY <1>0, <2>2 DEF Follows
  <2>3. CASE \E c \in Q : x = Dropped(c)
    BY <1>1, <2>3
  <2> QED BY <2>1, <2>2, <2>3
<1>3. \A c \in channels \ Q : c.place # "dropped" => c \in channels'
  BY DEF Remembered
<1>4. UNCHANGED <<phase, inbound, nextGeneration, missed>>
  BY DEF loopVars, eventVars
<1>5. OneHolder'
  BY <1>0, <1>4 DEF SlotCore, OneHolder, Held, Holders
<1>6. GensDiffer'
  BY <1>0, <1>2 DEF GensDiffer, GensUnique, Follows
<1>7. SlotIsItsPeers'
  BY <1>0, <1>2, <1>4 DEF SlotCore, SlotIsItsPeers, Follows
<1>8. OnlyTheSlotSends'
  BY <1>0, <1>2, <1>4 DEF SlotCore, OnlyTheSlotSends, Follows
<1>9. ReleasedAreGone'
  <2> SUFFICES ASSUME NEW i \in DOMAIN releaseQ', NEW x \in channels', releaseQ'[i].gen = x.gen
               PROVE  x.place = "dropped"
    BY DEF ReleasedAreGone
  <2>1. PICK c \in channels : Follows(x, c) /\ IF c \in Q THEN x = Dropped(c) ELSE x = c
    BY <1>2
  <2>2. CASE \E j \in DOMAIN releaseQ : releaseQ'[i] = releaseQ[j]
    BY <1>0, <2>1, <2>2 DEF SlotCore, ReleasedAreGone, Follows
  <2>3. CASE \E d \in Q : releaseQ'[i] = ReleaseOf(d)
    <3>1. PICK d \in Q : releaseQ'[i] = ReleaseOf(d)
      BY <2>3
    <3>2. c = d
      BY <1>0, <1>a, <2>1, <3>1 DEF GensUnique, Follows
    <3> QED BY <1>1, <2>1, <3>2
  <2> QED BY <2>2, <2>3
<1>10. SlotHasOwner'
  <2> SUFFICES ASSUME NEW p \in Peers, Held(p)
               PROVE  \/ \E d \in channels' : d.gen = inbound[p].gen /\ d.place # "dropped"
                      \/ \E r \in ToSet(releaseQ') :
                           r.peer = p /\ inbound[p].gen = r.gen
    BY <1>4 DEF SlotHasOwner, Releases, Held, Holders
  <2>0. \A i \in DOMAIN releaseQ' : releaseQ'[i] \in ToSet(releaseQ')
    BY DEF ToSet
  <2>1. CASE \E c \in channels : c.gen = inbound[p].gen /\ c.place # "dropped"
    <3>1. PICK c \in channels : c.gen = inbound[p].gen /\ c.place # "dropped"
      BY <2>1
    <3>2. CASE c \in Q
      <4>1. c.peer = p
        BY <1>0, <3>1 DEF SlotCore, SlotIsItsPeers
      <4>2. PICK i \in DOMAIN releaseQ' : releaseQ'[i] = ReleaseOf(c)
        BY <3>2
      <4> QED BY <1>a, <2>0, <3>1, <3>2, <4>1, <4>2
    <3>3. CASE c \notin Q
      BY <1>3, <3>1, <3>3
    <3> QED BY <3>2, <3>3
  <2>2. CASE \E r \in ToSet(releaseQ) : Releases(r, p)
    <3>1. PICK j \in DOMAIN releaseQ : Releases(releaseQ[j], p)
      BY <2>2 DEF ToSet
    <3>2. PICK i \in DOMAIN releaseQ' : releaseQ'[i] = releaseQ[j]
      OBVIOUS
    <3> QED BY <2>0, <3>1, <3>2 DEF Releases
  <2> QED BY <1>0, <2>1, <2>2 DEF SlotCore, SlotHasOwner
<1>11. GapIsInSlot'
  BY <1>0, <1>2, <1>4 DEF SlotInv, GapIsInSlot
<1>12. EndsUnheld'
  BY <1>0, <1>4 DEF SlotInv, EndsUnheld, Holders
<1>13. channels' \subseteq Channels /\ \A x \in channels' : x.gen < nextGeneration
  BY <1>0, <1>2 DEF Follows
<1>14. \A i \in DOMAIN releaseQ' : releaseQ'[i].gen < nextGeneration
  <2> SUFFICES ASSUME NEW i \in DOMAIN releaseQ' PROVE releaseQ'[i].gen < nextGeneration
    OBVIOUS
  <2>1. CASE \E j \in DOMAIN releaseQ : releaseQ'[i] = releaseQ[j]
    BY <1>0, <2>1 DEF TypeOK
  <2>2. CASE \E c \in Q : releaseQ'[i] = ReleaseOf(c)
    BY <1>0, <1>a, <2>2
  <2> QED BY <2>1, <2>2
<1>15. SlotCore'
  BY <1>5, <1>6, <1>7, <1>8, <1>9, <1>10 DEF SlotCore
<1> QED BY <1>11, <1>12, <1>13, <1>14, <1>15 DEF SlotInv

\* Releases that are queued come behind those that are there already.
LEMMA ReleasesQueued ==
  ASSUME releaseQ \in Seq(Requests), NEW rs \in Seq(Requests), releaseQ' = releaseQ \o rs
  PROVE  /\ releaseQ' \in Seq(Requests)
         /\ \A i \in DOMAIN releaseQ' : \/ \E j \in DOMAIN releaseQ : releaseQ'[i] = releaseQ[j]
                                        \/ \E j \in DOMAIN rs : releaseQ'[i] = rs[j]
         /\ \A j \in DOMAIN releaseQ : \E i \in DOMAIN releaseQ' : releaseQ'[i] = releaseQ[j]
         /\ \A j \in DOMAIN rs : \E i \in DOMAIN releaseQ' : releaseQ'[i] = rs[j]
<1> DEFINE all == releaseQ \o rs
<1>1. /\ all \in Seq(Requests) /\ Len(all) = Len(releaseQ) + Len(rs)
      /\ \A i \in 1..(Len(releaseQ) + Len(rs)) :
            all[i] = IF i <= Len(releaseQ) THEN releaseQ[i] ELSE rs[i - Len(releaseQ)]
  BY ConcatProperties
<1>2. /\ Len(releaseQ) \in Nat /\ DOMAIN releaseQ = 1..Len(releaseQ)
      /\ Len(rs) \in Nat /\ DOMAIN rs = 1..Len(rs)
  BY LenProperties
<1> HIDE DEF all
<1>3. DOMAIN all = 1..(Len(releaseQ) + Len(rs))
  BY <1>1, LenProperties
<1>4. ASSUME NEW i \in DOMAIN all
      PROVE  (\E j \in DOMAIN releaseQ : all[i] = releaseQ[j]) \/ (\E j \in DOMAIN rs : all[i] = rs[j])
  <2>1. CASE i <= Len(releaseQ)
    BY <1>1, <1>2, <1>3, <2>1
  <2>2. CASE i > Len(releaseQ)
    <3>1. i - Len(releaseQ) \in DOMAIN rs
      BY <1>2, <1>3, <2>2
    <3>2. all[i] = rs[i - Len(releaseQ)]
      BY <1>1, <1>2, <1>3, <2>2
    <3> QED BY <3>1, <3>2
  <2> QED BY <1>2, <1>3, <2>1, <2>2
<1>5. \A j \in DOMAIN releaseQ : j \in DOMAIN all /\ all[j] = releaseQ[j]
  BY <1>1, <1>2, <1>3
<1>6. ASSUME NEW j \in DOMAIN rs
      PROVE  \E i \in DOMAIN all : all[i] = rs[j]
  <2> DEFINE i == Len(releaseQ) + j
  <2>1. i \in 1..(Len(releaseQ) + Len(rs)) /\ ~(i <= Len(releaseQ)) /\ i - Len(releaseQ) = j
    BY <1>2
  <2> HIDE DEF i
  <2>2. all[i] = rs[j]
    BY <1>1, <2>1
  <2> QED BY <1>3, <2>1, <2>2
<1>7. releaseQ' = all
  BY DEF all
<1> QED BY <1>1, <1>4, <1>5, <1>6, <1>7

\* A channel that is dropped queues its release (DatagramChannel::drop).
LEMMA DropKeeps ==
  ASSUME DInv, NEW c \in channels, DropChannel(c)
  PROVE  DInv'
<1>0. TypeOK /\ c \in Channels /\ releaseQ \in Seq(Requests)
  BY DEF DInv, TypeOK
<1> DEFINE r == ReleaseOf(c)
<1>1. /\ c.place = "held" /\ Moved(c, Dropped(c)) /\ releaseQ' = Append(releaseQ, r)
      /\ UNCHANGED <<loopVars, acceptOpen, sessionVars, eventVars, serverVars, envVars>>
  BY DEF DropChannel
<1>2. r \in Requests
  BY <1>0 DEF ReleaseOf, Requests, Channels
<1> HIDE DEF r
<1>3. <<r>> \in Seq(Requests) /\ DOMAIN <<r>> = {1} /\ <<r>>[1] = r
  BY <1>2
<1>4. releaseQ' = releaseQ \o <<r>>
  BY <1>0, <1>1, <1>2, AppendIsConcat
<1>5. /\ releaseQ' \in Seq(Requests)
      /\ \A i \in DOMAIN releaseQ' : \/ \E j \in DOMAIN releaseQ : releaseQ'[i] = releaseQ[j]
                                     \/ \E j \in DOMAIN <<r>> : releaseQ'[i] = <<r>>[j]
      /\ \A j \in DOMAIN releaseQ : \E i \in DOMAIN releaseQ' : releaseQ'[i] = releaseQ[j]
      /\ \A j \in DOMAIN <<r>> : \E i \in DOMAIN releaseQ' : releaseQ'[i] = <<r>>[j]
  <2>1. releaseQ \in Seq(Requests) /\ <<r>> \in Seq(Requests)
    BY <1>0, <1>3
  <2> QED BY <1>4, <2>1, ReleasesQueued
<1>6. /\ SlotInv' /\ channels' \subseteq Channels
      /\ \A x \in channels' : x.gen < nextGeneration
      /\ \A i \in DOMAIN releaseQ' : releaseQ'[i].gen < nextGeneration
  <2> DEFINE Q == {c}
  <2>1. Q \in SUBSET channels /\ \A d \in Q : d.place # "dropped"
    BY <1>1
  <2>2. {Dropped(c)} = {Dropped(d) : d \in Q}
    OBVIOUS
  <2>3. channels' = Remembered((channels \ Q) \cup {Dropped(d) : d \in Q})
    BY <1>1, <2>2 DEF Moved
  <2>4. /\ \A i \in DOMAIN releaseQ' : \/ \E j \in DOMAIN releaseQ : releaseQ'[i] = releaseQ[j]
                                       \/ \E d \in Q : releaseQ'[i] = ReleaseOf(d)
        /\ \A d \in Q : \E i \in DOMAIN releaseQ' : releaseQ'[i] = ReleaseOf(d)
    BY <1>3, <1>5 DEF r
  <2> HIDE DEF Q
  <2>5. UNCHANGED <<loopVars, eventVars>>
    BY <1>1
  <2> QED BY <1>5, <2>1, <2>3, <2>4, <2>5, DroppingKeeps
<1>7. acceptOpen' \in BOOLEAN /\ gone' \subseteq Peers
  BY <1>0, <1>1 DEF TypeOK, sessionVars
<1>8. UNCHANGED <<loopVars, served, nextSession, unwatched, eventVars, serverVars, envVars>>
  BY <1>1 DEF sessionVars
<1> QED BY <1>5, <1>6, <1>7, <1>8, ConsumerStepKeeps

\* Each channel nobody accepted is released when the stream is dropped.
LEMMA CloseStreamKeeps ==
  ASSUME DInv, CloseStream
  PROVE  DInv'
<1>0. TypeOK /\ channels \subseteq Channels /\ releaseQ \in Seq(Requests)
  BY DEF DInv, TypeOK
<1>1. PICK order \in SetToSeqs(Queued) :
        releaseQ' = releaseQ \o [i \in DOMAIN order |-> ReleaseOf(order[i])]
  BY DEF CloseStream
<1>2. /\ acceptOpen' = FALSE
      /\ channels' = Remembered((channels \ Queued) \cup {Dropped(c) : c \in Queued})
      /\ UNCHANGED <<loopVars, sessionVars, eventVars, serverVars, envVars>>
  BY DEF CloseStream
<1>3. Queued \in SUBSET channels /\ \A c \in Queued : c.place # "dropped"
  BY DEF Queued
<1>4. IsFiniteSet(Queued)
  <2> DEFINE f == [c \in Queued |-> c.gen]
             N == nextGeneration - 1
  <2>1. nextGeneration \in Nat \ {0} /\ N \in Nat
    BY <1>0 DEF TypeOK
  <2>2. \A c \in Queued : c.gen \in 1..N
    BY <1>0, <1>3, <2>1 DEF TypeOK, Channels
  <2>3. IsFiniteSet(1..N)
    BY <2>1, FS_Interval
  <2>4. \A c, d \in Queued : c.gen = d.gen => c = d
    BY <1>3 DEF DInv, SlotInv, SlotCore, GensDiffer
  <2>5. f \in Injection(Queued, 1..N)
    BY <2>2, <2>4 DEF Injection, IsInjective
  <2> QED BY <2>3, <2>5, FS_Injection
<1>5. order \in Seq(Queued) /\ \A c \in Queued : \E i \in DOMAIN order : order[i] = c
  BY <1>4, OrderCovers
<1>6. Len(order) \in Nat /\ DOMAIN order = 1..Len(order) /\ \A i \in DOMAIN order : order[i] \in Queued
  BY <1>5, LenProperties, ElementOfSeq
<1> DEFINE rs == [i \in DOMAIN order |-> ReleaseOf(order[i])]
<1>7. DOMAIN rs = DOMAIN order /\ \A i \in DOMAIN order : rs[i] = ReleaseOf(order[i])
  OBVIOUS
<1>8. rs \in Seq(Requests)
  <2>1. \A c \in Queued : ReleaseOf(c) \in Requests
    BY <1>0, <1>3 DEF ReleaseOf, Requests, Channels
  <2>2. \A i \in 1..Len(order) : ReleaseOf(order[i]) \in Requests
    BY <1>6, <2>1
  <2>3. [i \in 1..Len(order) |-> ReleaseOf(order[i])] \in Seq(Requests)
    BY <1>6, <2>2, IsASeq
  <2> QED BY <1>6, <2>3
<1>9. releaseQ' = releaseQ \o rs
  BY <1>1
<1> HIDE DEF rs
<1>10. /\ releaseQ' \in Seq(Requests)
       /\ \A i \in DOMAIN releaseQ' : \/ \E j \in DOMAIN releaseQ : releaseQ'[i] = releaseQ[j]
                                      \/ \E j \in DOMAIN rs : releaseQ'[i] = rs[j]
       /\ \A j \in DOMAIN releaseQ : \E i \in DOMAIN releaseQ' : releaseQ'[i] = releaseQ[j]
       /\ \A j \in DOMAIN rs : \E i \in DOMAIN releaseQ' : releaseQ'[i] = rs[j]
  <2>1. releaseQ \in Seq(Requests) /\ rs \in Seq(Requests)
    BY <1>0, <1>8
  <2> QED BY <1>9, <2>1, ReleasesQueued
<1>11. /\ \A i \in DOMAIN releaseQ' : \/ \E j \in DOMAIN releaseQ : releaseQ'[i] = releaseQ[j]
                                      \/ \E c \in Queued : releaseQ'[i] = ReleaseOf(c)
       /\ \A c \in Queued : \E i \in DOMAIN releaseQ' : releaseQ'[i] = ReleaseOf(c)
  BY <1>5, <1>6, <1>7, <1>10
<1>12. UNCHANGED <<loopVars, eventVars>>
  BY <1>2
<1>13. /\ SlotInv' /\ channels' \subseteq Channels
       /\ \A x \in channels' : x.gen < nextGeneration
       /\ \A i \in DOMAIN releaseQ' : releaseQ'[i].gen < nextGeneration
  BY <1>2, <1>3, <1>10, <1>11, <1>12, DroppingKeeps
<1>14. acceptOpen' \in BOOLEAN /\ gone' \subseteq Peers
  BY <1>0, <1>2 DEF TypeOK, sessionVars
<1>15. UNCHANGED <<loopVars, served, nextSession, unwatched, eventVars, serverVars, envVars>>
  BY <1>2 DEF sessionVars
<1> QED BY <1>10, <1>13, <1>14, <1>15, ConsumerStepKeeps

-----------------------------------------------------------------------------
(* The theorems *)

\* The loop starts with an empty slot and nothing to read.
LEMMA InitHolds == Init => DInv
<1> SUFFICES ASSUME Init PROVE DInv
  OBVIOUS
<1>1. NoEntry \in Slots /\ NoEntry.gen = 0 /\ \A p \in Peers : inbound[p] = NoEntry
  BY DEF Init, NoEntry, Slots, NoSession
<1>2. events = <<>> /\ releaseQ = <<>> /\ channels = {} /\ ~missed /\ phase = "running"
  BY DEF Init
<1>3. /\ events \in Seq(Events) /\ Len(events) = 0 /\ DOMAIN events = {}
      /\ releaseQ \in Seq(Requests) /\ DOMAIN releaseQ = {}
  BY <1>2
<1>4. 0 <= EventCapacity /\ Arrivals \in 0..Arrivals /\ Disruptions \in 0..Disruptions
  BY DatagramServeAssumption
<1>5. TypeOK
  <2>1. inbound \in [Peers -> Slots] /\ served \in [Peers -> Nat]
    BY <1>1 DEF Init, NoSession
  <2>2. /\ \A p \in Peers : inbound[p].gen < nextGeneration
        /\ \A p \in Peers : served[p] < nextSession
    BY <1>1 DEF Init, NoSession
  <2>3. /\ {registered, announcing, servedSpec, powered, stopped} \subseteq BOOLEAN
        /\ acceptClosed \in BOOLEAN /\ recovering \in BOOLEAN /\ acceptOpen \in BOOLEAN
        /\ missed \in BOOLEAN /\ phase \in {"running", "ended"}
    BY DEF Init
  <2>4. /\ nextGeneration \in Nat \ {0} /\ nextSession \in Nat \ {0}
        /\ gone \subseteq Peers /\ unwatched \subseteq Peers
        /\ arrivals \in 0..Arrivals /\ fuel \in 0..Disruptions
    BY <1>4 DEF Init
  <2> QED BY <1>2, <1>3, <1>4, <2>1, <2>2, <2>3, <2>4 DEF TypeOK
<1>6. SlotInv
  BY <1>1, <1>2, <1>3
     DEF SlotInv, SlotCore, OneHolder, GensDiffer, SlotIsItsPeers, OnlyTheSlotSends,
         ReleasedAreGone, SlotHasOwner, Held, Holders, GapIsInSlot, EndsUnheld
<1>7. NewsInv
  BY <1>1, <1>3 DEF NewsInv, SessionsAreReal, NewsFollows, LossIsAhead, Held, Holders
<1> QED BY <1>5, <1>6, <1>7 DEF DInv

\* A step of nobody's changes nothing.
LEMMA NothingHappens ==
  ASSUME DInv, UNCHANGED vars
  PROVE  DInv'
<1> USE DEF vars, loopVars, consumerVars, sessionVars, eventVars, serverVars, envVars
<1>1. TypeOK'
  BY DEF DInv, TypeOK
<1>2. SlotInv' /\ NewsInv'
  <2>1. gone' \subseteq Peers /\ unwatched' \subseteq Peers
    BY <1>1 DEF TypeOK
  <2> QED BY <2>1, NothingAnnounced
<1> QED BY <1>1, <1>2 DEF DInv

\* Every step of the loop, the consumer and the environment keeps the invariant.
LEMMA StepHolds ==
  ASSUME DInv, [Next]_vars
  PROVE  DInv'
<1>1. CASE LoopClosed
  <2>1. TypeOK' /\ SlotInv'
    BY <1>1, ClosedKeeps
  <2>2. NewsInv'
    BY <1>1 DEF LoopClosed, sessionVars, eventVars, DInv, NewsInv, SessionsAreReal,
                NewsFollows, LossIsAhead, Held, Holders
  <2> QED BY <2>1, <2>2 DEF DInv
<1>2. CASE LoopRelease
  <2>1. TypeOK' /\ SlotInv'
    BY <1>2, ReleaseKeeps
  <2>2. UNCHANGED <<served, events, missed>>
    BY <1>2 DEF LoopRelease, eventVars
  <2>3. \A p \in Peers : Held(p)' => Held(p) /\ inbound'[p] = inbound[p]
    <3>1. ReleasedBy(<<Head(releaseQ)>>) \in SUBSET Peers
      BY DEF ReleasedBy
    <3>2. \A p \in Peers : inbound'[p] = inbound[p] \/ inbound'[p] = NoEntry
      BY <1>2, <3>1, FreedGens DEF LoopRelease, DInv
    <3> QED BY <3>2 DEF Held, Holders, NoEntry
  <2>4. NewsInv'
    BY <2>2, <2>3 DEF DInv, NewsInv, SessionsAreReal, NewsFollows, LossIsAhead
  <2> QED BY <2>1, <2>4 DEF DInv
<1>3. CASE LoopReads
  BY <1>3, ReadsKeeps
<1>4. CASE Recover
  BY <1>4, RecoverKeeps
<1>5. CASE Consumer
  BY <1>5, CloseStreamKeeps, HoldingKeeps, DropKeeps DEF Consumer
<1>6. CASE Environment
  BY <1>6, SubscribesKeeps, WritesKeeps, LeavesKeeps, ReportKeeps, RadioActionsKeep,
     ApplicationKeeps DEF Environment
<1>7. CASE UNCHANGED vars
  BY <1>7, NothingHappens
<1> QED BY <1>1, <1>2, <1>3, <1>4, <1>5, <1>6, <1>7 DEF Next, Loop

\* Every reachable state has the slots, the channels, the releases and the
\* events in order.
THEOREM ServeInvariance == Spec => []DInv
<1>1. Init => DInv
  BY InitHolds
<1>2. DInv /\ [Next]_vars => DInv'
  BY StepHolds
<1> QED BY <1>1, <1>2, PTL DEF Spec

\* The variables keep their types (serve_driver, LinuxDriver).
THEOREM ServeTypes == Spec => []TypeOK
<1>1. DInv => TypeOK
  BY DEF DInv
<1> QED BY <1>1, ServeInvariance, PTL

\* At most one channel sends: the two that did would share a slot, and a slot
\* has one generation (serve_driver).
THEOREM SenderIsAlone == Spec => []OneSender
<1>1. ASSUME DInv PROVE OneSender
  <2> SUFFICES ASSUME NEW c \in channels, NEW d \in channels, c.active, d.active
               PROVE  c = d
    BY DEF OneSender
  <2>1. c \in Channels /\ d \in Channels
    BY <1>1 DEF DInv, TypeOK
  <2>2. c.peer \in Peers /\ d.peer \in Peers /\ c.gen # 0 /\ d.gen # 0
    BY <2>1 DEF Channels
  <2>3. inbound[c.peer].gen = c.gen /\ inbound[d.peer].gen = d.gen
    BY <1>1 DEF DInv, SlotInv, SlotCore, OnlyTheSlotSends
  <2>4. c.peer = d.peer
    BY <1>1, <2>2, <2>3 DEF DInv, SlotInv, SlotCore, OneHolder, Held, Holders
  <2> QED BY <1>1, <2>3, <2>4 DEF DInv, SlotInv, SlotCore, GensDiffer
<1> QED BY <1>1, ServeInvariance, PTL

\* Whoever may send is in the slot (set_active(false) on every way out of it).
THEOREM SendersHoldTheSlot == Spec => []OnlyTheSlotSends
<1>1. DInv => OnlyTheSlotSends
  BY DEF DInv, SlotInv, SlotCore
<1> QED BY <1>1, ServeInvariance, PTL

\* A held slot has a channel the consumer can still reach, or a release that
\* the loop will read (DatagramChannel::drop).
THEOREM SlotsHaveOwners == Spec => []SlotHasOwner
<1>1. DInv => SlotHasOwner
  BY DEF DInv, SlotInv, SlotCore
<1> QED BY <1>1, ServeInvariance, PTL

\* The loop learns of the end of every session it serves (events.next()).
THEOREM LossesAreAhead == Spec => []LossIsAhead
<1>1. DInv => LossIsAhead
  BY DEF DInv, NewsInv
<1> QED BY <1>1, ServeInvariance, PTL

\* No acknowledged write is lost in silence (OverflowSignal::raise).
THEOREM GapsAreReported == Spec => []GapIsReported
<1>1. DInv => GapIsReported
  BY DEF DInv, SlotInv, GapIsInSlot, GapIsReported
<1> QED BY <1>1, ServeInvariance, PTL

\* The task ends only once nobody can count on it (the loop's returns).
THEOREM LoopEndsLast == Spec => []LoopOutlivesChannels
<1>1. ASSUME DInv PROVE LoopOutlivesChannels
  <2> SUFFICES ASSUME phase = "ended"
               PROVE  Holders(inbound) = {} /\ \A c \in channels : ~c.active
    BY DEF LoopOutlivesChannels
  <2>1. Holders(inbound) = {}
    BY <1>1 DEF DInv, SlotInv, EndsUnheld
  <2>2. \A c \in channels : c \in Channels
    BY <1>1 DEF DInv, TypeOK
  <2>3. \A c \in channels : c.peer \in Peers /\ c.gen # 0
    BY <2>2 DEF Channels
  <2>4. \A c \in channels : c.active => c.peer \in Holders(inbound)
    BY <1>1, <2>3 DEF DInv, SlotInv, SlotCore, OnlyTheSlotSends, Holders
  <2> QED BY <2>1, <2>4
<1> QED BY <1>1, ServeInvariance, PTL

\* A slot changes hands only for a cause that is about its holder: the arms of
\* the select! take the releases, the events and the lag one at a time.
THEOREM SlotsLeaveForCause == Spec => SlotLeftForCause
<1> DEFINE Cause(p) == \/ \E r \in ToSet(releaseQ) : Releases(r, p)
                       \/ missed
                       \/ events # <<>> /\ IsNews(Head(events), p, inbound[p].session)
           A == \A p \in Peers : Held(p) /\ inbound'[p].gen # inbound[p].gen => Cause(p)
<1>1. ASSUME DInv, [Next]_vars
      PROVE  [A]_vars
  <2>1. CASE LoopRelease
    <3> SUFFICES ASSUME NEW p \in Peers, inbound'[p].gen # inbound[p].gen
                 PROVE  \E r \in ToSet(releaseQ) : Releases(r, p)
      OBVIOUS
    <3>1. releaseQ \in Seq(Requests) /\ TypeOK
      BY <1>1 DEF DInv, TypeOK
    <3>2. releaseQ # <<>> /\ inbound' = Freed(inbound, ReleasedBy(<<Head(releaseQ)>>))
      BY <2>1 DEF LoopRelease
    <3>3. ReleasedBy(<<Head(releaseQ)>>) \in SUBSET Peers
      BY DEF ReleasedBy
    <3>4. p \in ReleasedBy(<<Head(releaseQ)>>)
      BY <3>1, <3>2, <3>3, FreedGens
    <3>5. DOMAIN <<Head(releaseQ)>> = {1} /\ <<Head(releaseQ)>>[1] = Head(releaseQ)
      OBVIOUS
    <3>6. Releases(Head(releaseQ), p)
      BY <3>4, <3>5 DEF ReleasedBy
    <3>7. Head(releaseQ) = releaseQ[1] /\ 1 \in DOMAIN releaseQ
      BY <3>1, <3>2, TailHolds
    <3>8. Head(releaseQ) \in ToSet(releaseQ)
      BY <3>7 DEF ToSet
    <3> QED BY <3>6, <3>8
  <2>2. CASE LoopReads
    <3>1. CASE missed
      BY <3>1
    <3>2. CASE ~missed
      <4>1. events # <<>> /\ Handles(Head(events))
        BY <2>2, <3>2 DEF LoopReads
      <4>2. \A p \in Peers : LeavesFor(p)
        BY <1>1, <3>2, <4>1, ArmsReadRight
      <4> QED BY <4>2 DEF LeavesFor
    <3> QED BY <3>1, <3>2
  <2>3. CASE LoopClosed \/ Recover
    BY <2>3 DEF LoopClosed, Recover
  <2>4. CASE Consumer
    BY <2>4 DEF Consumer, CloseStream, Accept, DropChannel, CloseChannel, DisconnectChannel,
                loopVars
  <2>5. CASE Environment
    BY <2>5 DEF Environment, CentralSubscribes, CentralWrites, CentralLeaves, WatcherReports,
                RadioGoesOff, RadioComesBack, StopServing, ServeAgain, loopVars
  <2> QED BY <1>1, <2>1, <2>2, <2>3, <2>4, <2>5 DEF Next, Loop
<1> QED BY <1>1, ServeInvariance, PTL DEF Spec, SlotLeftForCause

=============================================================================
