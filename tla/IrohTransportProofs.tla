-------------------------- MODULE IrohTransportProofs --------------------------
(***************************************************************************)
(* The newest link of an address is used, no release is lost and none cuts *)
(* a CONNECTION_CLOSE off, for any number of addresses, connections and    *)
(* links and any depth of their queues.                                    *)
(***************************************************************************)
EXTENDS IrohTransport, TLAPS, FiniteSetTheorems, SequenceTheorems

-----------------------------------------------------------------------------
(* Queues *)

\* What is put in a queue stands behind everything else.
LEMMA AppendHolds ==
  ASSUME NEW S, NEW q \in Seq(S), NEW x \in S
  PROVE  /\ Append(q, x) \in Seq(S) /\ Len(q) \in Nat
         /\ DOMAIN q = 1 .. Len(q) /\ DOMAIN Append(q, x) = 1 .. (Len(q) + 1)
         /\ \A i \in DOMAIN q : Append(q, x)[i] = q[i]
         /\ Append(q, x)[Len(q) + 1] = x
  BY AppendProperties, LenProperties

\* A queue without its head holds what stood behind it.
LEMMA TailHolds ==
  ASSUME NEW S, NEW q \in Seq(S), q # <<>>
  PROVE  /\ Tail(q) \in Seq(S) /\ Head(q) \in S /\ Head(q) = q[1] /\ 1 \in DOMAIN q
         /\ DOMAIN q \subseteq Nat \ {0} /\ DOMAIN Tail(q) \subseteq Nat \ {0}
         /\ \A i \in DOMAIN Tail(q) : i + 1 \in DOMAIN q /\ Tail(q)[i] = q[i + 1]
<1>1. Len(q) \in Nat /\ DOMAIN q = 1 .. Len(q) /\ Len(q) # 0
  BY EmptySeq, LenProperties
<1>2. /\ Head(q) \in S /\ Tail(q) \in Seq(S)
      /\ Len(Tail(q)) = Len(q) - 1
      /\ \A i \in 1 .. Len(Tail(q)) : Tail(q)[i] = q[i + 1]
  BY HeadTailProperties
<1>3. DOMAIN Tail(q) = 1 .. (Len(q) - 1)
  BY <1>2, LenProperties
<1>4. Head(q) = q[1]
  OBVIOUS
<1> QED BY <1>1, <1>2, <1>3, <1>4

\* A sequence of one packet.
LEMMA OnePacket ==
  ASSUME NEW S, NEW x \in S
  PROVE  <<x>> \in Seq(S) /\ DOMAIN <<x>> = {1} /\ <<x>>[1] = x
  OBVIOUS

\* What the queues tell apart is told apart.
LEMMA EntriesDiffer ==
  ASSUME NEW k, NEW m
  PROVE  /\ Entry("close", k) # Other /\ Entry("barrier", k) # Other
         /\ Entry("close", k) # Entry("barrier", m)
         /\ Entry("close", k) = Entry("close", m) => k = m
         /\ Entry("barrier", k) = Entry("barrier", m) => k = m
  BY DEF Entry, Other

\* They are entries.
LEMMA EntriesTyped ==
  /\ Other \in Entries
  /\ \A k \in Conns : Entry("close", k) \in Entries /\ Entry("barrier", k) \in Entries
  BY DEF Entry, Entries, Other

-----------------------------------------------------------------------------
(* Links *)

\* The fields of a link.
LEMMA LinkFields ==
  ASSUME TypeOK, NEW l \in Links
  PROVE  /\ link[l] \in LinkStates
         /\ link[l].st \in {"none", "dialling", "spawned", "up", "closing", "down"}
         /\ link[l].addr \in Addrs \cup {None}
         /\ link[l].signal \in BOOLEAN /\ link[l].armed \in BOOLEAN
  BY DEF TypeOK, LinkStates

\* What the hooks mark of a link, and what they leave alone.
LEMMA LinkMarks ==
  ASSUME NEW r \in LinkStates, NEW c, NEW s,
         c = [r EXCEPT !.carried = TRUE], s = [r EXCEPT !.signal = TRUE]
  PROVE  /\ c.st = r.st /\ c.addr = r.addr /\ c.signal = r.signal /\ c.armed = r.armed
         /\ s.st = r.st /\ s.addr = r.addr /\ s.signal = TRUE /\ s.armed = r.armed
         /\ s.carried = r.carried
  BY DEF LinkStates

\* The bounds of the numbers.
LEMMA LinksAreNumbers ==
  ASSUME IrohAssumption
  PROVE  Links \subseteq Nat \ {0} /\ None \notin Links /\ None \notin Addrs
         /\ \A l \in Links : l <= MaxLinks
<1>1. MaxLinks \in Nat /\ 0 \notin Addrs
  BY DEF IrohAssumption
<1> QED BY <1>1 DEF Links, None

\* The next link to come has the number after the last.
LEMMA NextIsFresh ==
  ASSUME TypeOK, Numbered, IrohAssumption
  PROVE  /\ Next0 \in Nat \ {0}
         /\ {l \in Links : link[l].st # "none"} = 1 .. (Next0 - 1)
         /\ Next0 - 1 <= MaxLinks
         /\ attaching # {} => Next0 \in Links
         /\ Next0 \in Links => link[Next0].st = "none"
         /\ \A l \in Links : link[l].st # "none" => l < Next0
<1> DEFINE born == {l \in Links : link[l].st # "none"}
<1>1. PICK n \in 0 .. MaxLinks : born = 1 .. n /\ (attaching # {} => n < MaxLinks)
  BY DEF Numbered
<1>2. n \in Nat /\ MaxLinks \in Nat /\ n <= MaxLinks
  BY <1>1 DEF IrohAssumption
<1>3. Cardinality(1 .. n) = n
  <2>1. 1 \in Int /\ n \in Int
    BY <1>2
  <2>2. Cardinality(1 .. n) = IF 1 > n THEN 0 ELSE n - 1 + 1
    BY <2>1, FS_Interval
  <2> QED BY <1>2, <2>2
<1>4. Next0 = n + 1
  BY <1>1, <1>3 DEF Next0
<1> HIDE DEF Next0
<1>5. attaching # {} => Next0 \in Links
  BY <1>1, <1>2, <1>4 DEF Links
<1>6. \A l \in Links : link[l].st # "none" => l \in 1 .. n
  BY <1>1
<1>7. Next0 \in Links => link[Next0].st = "none"
  BY <1>2, <1>4, <1>6
<1>8. \A l \in Links : link[l].st # "none" => l < Next0
  BY <1>2, <1>4, <1>6
<1> QED BY <1>1, <1>2, <1>4, <1>5, <1>7, <1>8

\* A link that has come is one of an address.
LEMMA BornHasAddr ==
  ASSUME TypeOK, Numbered, NEW l \in Links, link[l].st # "none"
  PROVE  link[l].addr \in Addrs
  BY LinkFields DEF Numbered

-----------------------------------------------------------------------------
(* What a packet does *)

\* A packet goes behind those of the current link.
Put(a, packet) ==
  /\ links[a] # None
  /\ queue' = [queue EXCEPT ![links[a]] = Append(@, packet)]
  /\ UNCHANGED <<links, link, waits, lossy>>

\* It is dropped, or held back.
Lost ==
  /\ UNCHANGED <<links, link, queue, waits>>
  /\ lossy' \subseteq Conns

\* A new link takes the place of its address.
Takes(a, n, st, role) ==
  /\ links' = [links EXCEPT ![a] = n]
  /\ link' = [link EXCEPT ![n] = [Unborn EXCEPT !.st = st, !.addr = a, !.role = role]]

\* It starts a dial.
Starts(a, packet) ==
  /\ Next0 + Cardinality(attaching) \in Links
  /\ Takes(a, Next0, "dialling", "central")
  /\ queue' = [queue EXCEPT ![Next0] = <<packet>>]
  /\ waits' = [waits EXCEPT ![Next0] = ClosingElsewhere(a)]
  /\ UNCHANGED lossy

\* Sender::send does one of the three, with a close or with another packet.
LEMMA SendEffect ==
  ASSUME TypeOK, NEW a \in Addrs, NEW kind, NEW k \in Conns, Send(a, kind, k)
  PROVE  \E packet \in {Other, Entry("close", k)} :
           /\ packet = IF kind = "close" THEN Entry("close", k) ELSE Other
           /\ Put(a, packet) \/ Lost \/ Starts(a, packet)
<1> DEFINE packet == IF kind = "close" THEN Entry(kind, k) ELSE Other
<1>1. /\ packet \in {Other, Entry("close", k)}
      /\ packet = IF kind = "close" THEN Entry("close", k) ELSE Other
  OBVIOUS
<1>2. CASE links[a] # None /\ Len(queue[links[a]]) < QueueDepth
  BY <1>1, <1>2 DEF Send, Put
<1>3. CASE links[a] # None /\ ~(Len(queue[links[a]]) < QueueDepth)
  <2>1. lossy' \subseteq Conns
    BY <1>3 DEF Send, Drop, TypeOK, Uses
  <2> QED BY <1>1, <1>3, <2>1 DEF Send, Lost
<1>4. CASE links[a] = None /\ HoldsBack(a, kind)
  <2>1. lossy' \subseteq Conns
    BY <1>4 DEF Send, TypeOK
  <2> QED BY <1>1, <1>4, <2>1 DEF Send, Lost
<1>5. CASE links[a] = None /\ ~HoldsBack(a, kind)
  BY <1>1, <1>5 DEF Send, Starts, Takes
<1> QED BY <1>2, <1>3, <1>4, <1>5

\* A link that starts is a link, with what it has queued.
LEMMA StartTypes ==
  ASSUME TypeOK, Numbered, IrohAssumption, NEW a \in Addrs, NEW packet \in Entries,
         Starts(a, packet)
  PROVE  /\ Next0 \in Links
         /\ attaching # {} => Next0 + 1 \in Links
         /\ ClosingElsewhere(a) \subseteq Links
<1> USE LinksAreNumbers
<1>1. Next0 \in Nat \ {0}
  BY NextIsFresh
<1>2. /\ Cardinality(attaching) \in Nat
      /\ attaching # {} => Cardinality(attaching) = 1
  <2>1. CASE attaching = {}
    BY <2>1, FS_EmptySet
  <2>2. CASE \E b \in Addrs : attaching = {b}
    <3>1. PICK b \in Addrs : attaching = {b}
      BY <2>2
    <3>2. Cardinality({b}) = 1
      BY FS_Singleton
    <3> QED BY <3>1, <3>2
  <2> QED BY <2>1, <2>2 DEF Numbered
<1>3. MaxLinks \in Nat
  BY DEF IrohAssumption
<1>4. ClosingElsewhere(a) \subseteq Links
  BY DEF ClosingElsewhere
<1>5. Next0 + Cardinality(attaching) \in Links
  BY DEF Starts
<1> HIDE DEF Next0
<1>6. Next0 \in Links /\ (attaching # {} => Next0 + 1 \in Links)
  BY <1>1, <1>2, <1>3, <1>5 DEF Links
<1> QED BY <1>4, <1>6

\* What Sender::send changes keeps its type.
LEMMA SendTypes ==
  ASSUME TypeOK, Numbered, IrohAssumption, NEW a \in Addrs, NEW packet \in Entries,
         Put(a, packet) \/ Lost \/ Starts(a, packet)
  PROVE  /\ links' \in [Addrs -> Links \cup {None}] /\ link' \in [Links -> LinkStates]
         /\ queue' \in [Links -> Seq(Entries)] /\ waits' \in [Links -> SUBSET Links]
         /\ lossy' \subseteq Conns
<1> USE LinksAreNumbers
<1>1. CASE Put(a, packet)
  <2>1. links[a] \in Links /\ Append(queue[links[a]], packet) \in Seq(Entries)
    BY <1>1, AppendHolds DEF TypeOK, Put
  <2> QED BY <1>1, <2>1 DEF TypeOK, Put
<1>2. CASE Lost
  BY <1>2 DEF TypeOK, Lost
<1>3. CASE Starts(a, packet)
  <2>1. Next0 \in Links /\ ClosingElsewhere(a) \subseteq Links
    BY <1>3, StartTypes
  <2>2. <<packet>> \in Seq(Entries)
    BY OnePacket
  <2>3. [Unborn EXCEPT !.st = "dialling", !.addr = a, !.role = "central"] \in LinkStates
    BY DEF Unborn, LinkStates
  <2> HIDE DEF Next0, ClosingElsewhere
  <2>4. /\ links' \in [Addrs -> Links \cup {None}] /\ link' \in [Links -> LinkStates]
    BY <1>3, <2>1, <2>3 DEF TypeOK, Starts, Takes
  <2>5. /\ queue' \in [Links -> Seq(Entries)] /\ waits' \in [Links -> SUBSET Links]
    BY <1>3, <2>1, <2>2 DEF TypeOK, Starts
  <2> QED BY <1>3, <2>4, <2>5 DEF TypeOK, Starts
<1> QED BY <1>1, <1>2, <1>3

-----------------------------------------------------------------------------
(* Types *)

\* The dial and attach steps keep the types.
LEMMA DialTypes ==
  ASSUME TypeOK, Numbered, IrohAssumption, NEW l \in Links, NEW a \in Addrs,
         \/ DialWaited(l) \/ DialWaitsNoMore(l) \/ DialSucceeds(l) \/ DialEnds(l)
         \/ Registered(l) \/ AttachBegins(a) \/ Attached(a) \/ SetPeerAddress(a)
         \/ YieldEnds(a)
  PROVE  TypeOK'
<1> USE LinksAreNumbers
<1>1. CASE DialWaited(l) \/ DialWaitsNoMore(l)
  <2>1. waits' \in [Links -> SUBSET Links]
    <3>1. CASE DialWaited(l)
      BY <3>1 DEF TypeOK, DialWaited
    <3>2. CASE DialWaitsNoMore(l)
      BY <3>2 DEF TypeOK, DialWaitsNoMore
    <3> QED BY <1>1, <3>1, <3>2
  <2> QED BY <1>1, <2>1 DEF TypeOK, DialWaited, DialWaitsNoMore, hooks, book
<1>2. CASE DialSucceeds(l)
  <2>1. [link[l] EXCEPT !.st = "spawned"] \in LinkStates
    BY LinkFields DEF LinkStates
  <2>2. link' \in [Links -> LinkStates]
    BY <1>2, <2>1 DEF TypeOK, DialSucceeds, Becomes
  <2> QED BY <1>2, <2>2 DEF TypeOK, DialSucceeds, hooks, book
<1>3. CASE DialEnds(l)
  <2>1. [Unborn EXCEPT !.st = "down", !.addr = link[l].addr] \in LinkStates
    BY LinkFields DEF LinkStates, Unborn
  <2>2. link' \in [Links -> LinkStates]
    BY <1>3, <2>1 DEF TypeOK, DialEnds, Gone
  <2>3. links' \in [Addrs -> Links \cup {None}]
    BY <1>3 DEF TypeOK, DialEnds, LeavesPlace
  <2>4. <<>> \in Seq(Entries)
    OBVIOUS
  <2>5. /\ queue' \in [Links -> Seq(Entries)] /\ waits' \in [Links -> SUBSET Links]
        /\ barriers' \in [Conns -> SUBSET Links]
    BY <1>3, <2>4 DEF TypeOK, DialEnds
  <2> QED BY <1>3, <2>2, <2>3, <2>5 DEF TypeOK, DialEnds, book
<1>4. CASE Registered(l)
  <2>1. [link[l] EXCEPT !.st = "up", !.carried = InUse(link[l].addr)] \in LinkStates
    BY LinkFields DEF LinkStates, InUse
  <2>2. link' = [link EXCEPT ![l] = [link[l] EXCEPT !.st = "up",
                                       !.carried = InUse(link[l].addr)]]
    BY <1>4 DEF Registered, TypeOK
  <2>3. link' \in [Links -> LinkStates]
    BY <2>1, <2>2 DEF TypeOK
  <2> QED BY <1>4, <2>3 DEF TypeOK, Registered, hooks, book
<1>5. CASE AttachBegins(a)
  BY <1>5 DEF TypeOK, AttachBegins, hooks
<1>6. CASE Attached(a)
  <2>1. Next0 \in Links
    BY <1>6, NextIsFresh DEF Attached
  <2>2. [Unborn EXCEPT !.st = "spawned", !.addr = a, !.role = "peripheral"] \in LinkStates
    BY DEF Unborn, LinkStates
  <2> HIDE DEF Next0
  <2>3. links' \in [Addrs -> Links \cup {None}] /\ link' \in [Links -> LinkStates]
    BY <1>6, <2>1, <2>2 DEF TypeOK, Attached
  <2> QED BY <1>6, <2>3 DEF TypeOK, Attached, hooks
<1>7. CASE SetPeerAddress(a)
  BY <1>7 DEF TypeOK, SetPeerAddress, hooks
<1>8. CASE YieldEnds(a)
  BY <1>8 DEF TypeOK, YieldEnds, hooks, book
<1> QED BY <1>1, <1>2, <1>3, <1>4, <1>5, <1>6, <1>7, <1>8

\* So do the steps of a running link.
LEMMA RunTypes ==
  ASSUME TypeOK, Numbered, IrohAssumption, NEW l \in Links,
         \/ Sent(l) \/ ReleaseHeard(l) \/ ReleaseCalledOff(l) \/ Releases(l)
         \/ ApplicationCloses(l) \/ ChannelDrops(l) \/ Down(l)
  PROVE  TypeOK'
<1> USE LinksAreNumbers
<1>0. <<>> \in Seq(Entries)
  OBVIOUS
<1>1. CASE Sent(l)
  <2>1. Tail(queue[l]) \in Seq(Entries)
    BY <1>1, TailHolds DEF TypeOK, Sent
  <2>2. queue' \in [Links -> Seq(Entries)]
    BY <1>1, <2>1 DEF TypeOK, Sent
  <2>3. barriers' \in [Conns -> SUBSET Links]
    BY <1>1 DEF TypeOK, Sent
  <2> QED BY <1>1, <2>2, <2>3 DEF TypeOK, Sent, book
<1>2. CASE ReleaseHeard(l)
  <2>1. [link[l] EXCEPT !.signal = FALSE,
                        !.armed = link[l].armed \/ ~InUse(link[l].addr)] \in LinkStates
    BY LinkFields DEF LinkStates, InUse
  <2>2. link' = [link EXCEPT ![l] = [link[l] EXCEPT !.signal = FALSE,
                                  !.armed = link[l].armed \/ ~InUse(link[l].addr)]]
    BY <1>2 DEF ReleaseHeard, TypeOK
  <2>3. link' \in [Links -> LinkStates]
    BY <2>1, <2>2 DEF TypeOK
  <2> QED BY <1>2, <2>3 DEF TypeOK, ReleaseHeard, hooks, book
<1>3. CASE ReleaseCalledOff(l)
  <2>1. [link[l] EXCEPT !.armed = FALSE] \in LinkStates
    BY LinkFields DEF LinkStates
  <2>2. link' \in [Links -> LinkStates]
    BY <1>3, <2>1 DEF TypeOK, ReleaseCalledOff
  <2> QED BY <1>3, <2>2 DEF TypeOK, ReleaseCalledOff, hooks, book
<1>4. CASE Releases(l) \/ ApplicationCloses(l) \/ ChannelDrops(l)
  <2>1. PICK h \in BOOLEAN : Ends(l, h)
    BY <1>4 DEF Releases, ApplicationCloses, ChannelDrops
  <2> DEFINE last == [link[l] EXCEPT !.st = "closing", !.here = h, !.signal = FALSE,
                                     !.armed = FALSE, !.carried = FALSE]
  <2>2. last \in LinkStates
    BY <2>1, LinkFields DEF LinkStates
  <2>3. link' = [link EXCEPT ![l] = last]
    BY <2>1 DEF Ends, TypeOK
  <2> HIDE DEF last
  <2>4. link' \in [Links -> LinkStates]
    BY <2>2, <2>3 DEF TypeOK
  <2>5. queue' \in [Links -> Seq(Entries)] /\ barriers' \in [Conns -> SUBSET Links]
    BY <1>0, <2>1 DEF TypeOK, Ends
  <2> QED BY <2>1, <2>4, <2>5 DEF TypeOK, Ends, book
<1>5. CASE Down(l)
  <2>1. [Unborn EXCEPT !.st = "down", !.addr = link[l].addr] \in LinkStates
    BY LinkFields DEF LinkStates, Unborn
  <2>2. link' \in [Links -> LinkStates]
    BY <1>5, <2>1 DEF TypeOK, Down, Gone
  <2>3. links' \in [Addrs -> Links \cup {None}]
    BY <1>5 DEF TypeOK, Down, LeavesPlace
  <2>4. queue' \in [Links -> Seq(Entries)] /\ barriers' \in [Conns -> SUBSET Links]
    BY <1>0, <1>5 DEF TypeOK, Down
  <2>5. answered' \in [Addrs -> {"no", "yield", "over"}]
    BY <1>5 DEF TypeOK, Down
  <2>6. NoneLearned \in Uses
    BY DEF NoneLearned, Uses
  <2>7. learned' \in [Addrs -> Uses]
    BY <1>5, <2>6 DEF TypeOK, Down
  <2> QED BY <1>5, <2>2, <2>3, <2>4, <2>5, <2>7 DEF TypeOK, Down, book
<1> QED BY <1>1, <1>2, <1>3, <1>4, <1>5

\* So does a packet iroh sends.
LEMMA SendKeepsTypes ==
  ASSUME TypeOK, Numbered, IrohAssumption, NEW k \in Conns, NEW a \in Addrs,
         IrohSends(k, a)
  PROVE  TypeOK'
<1>1. PICK kind \in {"initial", "data", "again"} : Send(a, kind, k)
  BY DEF IrohSends
<1>2. Put(a, Other) \/ Lost \/ Starts(a, Other)
  BY <1>1, SendEffect
<1>3. /\ links' \in [Addrs -> Links \cup {None}] /\ link' \in [Links -> LinkStates]
      /\ queue' \in [Links -> Seq(Entries)] /\ waits' \in [Links -> SUBSET Links]
      /\ lossy' \subseteq Conns
  BY <1>2, EntriesTyped, SendTypes
<1>4. UNCHANGED <<learned, hooks, answered, book>>
  BY DEF IrohSends
<1> QED BY <1>3, <1>4 DEF TypeOK, hooks, book

\* What the hooks make of the connections of an address.
LEMMA UseEdits ==
  ASSUME NEW u \in Uses, NEW k \in Conns
  PROVE  /\ [u EXCEPT !.known = TRUE, !.connections = @ \cup {k}, !.open = @ \cup {k}] \in Uses
         /\ [u EXCEPT !.open = @ \ {k}] \in Uses
         /\ [u EXCEPT !.connections = @ \ {k}, !.ended = @ \cup {k}] \in Uses
         /\ [u EXCEPT !.ended = @ \ {k}] \in Uses
<1>1. u.connections \subseteq Conns /\ u.open \subseteq Conns /\ u.ended \subseteq Conns
  BY DEF Uses
<1>2. /\ u.connections \cup {k} \in SUBSET Conns /\ u.connections \ {k} \in SUBSET Conns
      /\ u.open \cup {k} \in SUBSET Conns /\ u.open \ {k} \in SUBSET Conns
      /\ u.ended \cup {k} \in SUBSET Conns /\ u.ended \ {k} \in SUBSET Conns
  BY <1>1
<1> DEFINE c1 == u.connections \cup {k}
           c2 == u.connections \ {k}
           o1 == u.open \cup {k}
           o2 == u.open \ {k}
           e1 == u.ended \cup {k}
           e2 == u.ended \ {k}
<1>3. /\ c1 \in SUBSET Conns /\ c2 \in SUBSET Conns /\ o1 \in SUBSET Conns
      /\ o2 \in SUBSET Conns /\ e1 \in SUBSET Conns /\ e2 \in SUBSET Conns
  BY <1>2
<1> HIDE DEF c1, c2, o1, o2, e1, e2
<1>4. [u EXCEPT !.known = TRUE, !.connections = c1, !.open = o1] \in Uses
  BY <1>3 DEF Uses
<1>5. [u EXCEPT !.open = o2] \in Uses
  BY <1>3 DEF Uses
<1>6. [u EXCEPT !.connections = c2, !.ended = e1] \in Uses
  BY <1>3 DEF Uses
<1>7. [u EXCEPT !.ended = e2] \in Uses
  BY <1>3 DEF Uses
<1> QED BY <1>4, <1>5, <1>6, <1>7 DEF c1, c2, o1, o2, e1, e2

\* And so do the hooks.
LEMMA HookTypes ==
  ASSUME TypeOK, Numbered, IrohAssumption, NEW k \in Conns, NEW a \in Addrs,
         \/ Handshake(k, a) \/ ClosedHere(k) \/ ClosedByPeer(k) \/ CloseBuilt(k)
         \/ CloseCounted(k) \/ NextAsked(k) \/ Forgets(k) \/ Drains(k) \/ Forgotten(k)
  PROVE  TypeOK'
<1> USE LinksAreNumbers
<1>1. CASE Handshake(k, a)
  <2>1. [learned[a] EXCEPT !.known = TRUE, !.connections = @ \cup {k},
                           !.open = @ \cup {k}] \in Uses
    BY UseEdits DEF TypeOK
  <2>2. learned' = [learned EXCEPT ![a] =
          [learned[a] EXCEPT !.known = TRUE, !.connections = @ \cup {k},
                             !.open = @ \cup {k}]]
    BY <1>1 DEF Handshake, Learns, TypeOK
  <2>3. learned' \in [Addrs -> Uses]
    BY <2>1, <2>2 DEF TypeOK
  <2>4. \A l \in Links : [link[l] EXCEPT !.carried = TRUE] \in LinkStates
    BY LinkFields DEF LinkStates
  <2>5. link' \in [Links -> LinkStates]
    BY <1>1, <2>4 DEF TypeOK, Handshake
  <2>6. conn' \in [Conns -> {"none", "open", "closing", "closingBuilt", "waiting",
                             "over", "ended", "forgotten"}]
    BY <1>1 DEF TypeOK, Handshake
  <2> QED BY <1>1, <2>3, <2>5, <2>6 DEF TypeOK, Handshake, book
<1>2. CASE ClosedHere(k) \/ ClosedByPeer(k)
  <2>1. PICK how \in {"closing", "over"} : CloseStarts(k, how)
    BY <1>2 DEF ClosedHere, ClosedByPeer
  <2>2. \A b \in Addrs : [learned[b] EXCEPT !.open = @ \ {k}] \in Uses
    BY UseEdits DEF TypeOK
  <2>3. learned' \in [Addrs -> Uses]
    BY <2>1, <2>2 DEF CloseStarts
  <2>4. conn' \in [Conns -> {"none", "open", "closing", "closingBuilt", "waiting",
                             "over", "ended", "forgotten"}]
    BY <2>1 DEF TypeOK, CloseStarts
  <2> QED BY <2>1, <2>3, <2>4 DEF TypeOK, CloseStarts, book
<1>3. CASE CloseBuilt(k)
  <2>1. PICK b \in Addrs : Send(b, "close", k)
    BY <1>3 DEF CloseBuilt
  <2>2. PICK packet \in {Other, Entry("close", k)} :
          Put(b, packet) \/ Lost \/ Starts(b, packet)
    BY <2>1, SendEffect
  <2>3. packet \in Entries
    BY <2>2, EntriesTyped
  <2>4. /\ links' \in [Addrs -> Links \cup {None}] /\ link' \in [Links -> LinkStates]
        /\ queue' \in [Links -> Seq(Entries)] /\ waits' \in [Links -> SUBSET Links]
        /\ lossy' \subseteq Conns
    BY <2>2, <2>3, SendTypes
  <2>5. conn' \in [Conns -> {"none", "open", "closing", "closingBuilt", "waiting",
                             "over", "ended", "forgotten"}]
    BY <1>3 DEF TypeOK, CloseBuilt
  <2>6. UNCHANGED <<learned, drained, barriers, answered, book>>
    BY <1>3 DEF CloseBuilt
  <2> QED BY <2>4, <2>5, <2>6 DEF TypeOK, book
<1>4. CASE CloseCounted(k) \/ NextAsked(k)
  <2>1. ASSUME NEW l \in Links, BarrierQueued(k, l)
        PROVE  queue' \in [Links -> Seq(Entries)]
    <3>1. Append(queue[l], Entry("barrier", k)) \in Seq(Entries)
      BY EntriesTyped, AppendHolds DEF TypeOK
    <3> QED BY <2>1, <3>1 DEF TypeOK, BarrierQueued
  <2>2. BarrierLinks(k) \subseteq Links /\ barriers[k] \subseteq Links
    BY DEF BarrierLinks, TypeOK
  <2>3. queue' \in [Links -> Seq(Entries)]
    BY <1>4, <2>1, <2>2 DEF CloseCounted, NextAsked, TypeOK
  <2>4. /\ conn' \in [Conns -> {"none", "open", "closing", "closingBuilt", "waiting",
                                "over", "ended", "forgotten"}]
        /\ barriers' \in [Conns -> SUBSET Links]
    <3>1. CASE CloseCounted(k)
      BY <3>1, <2>2 DEF CloseCounted, TypeOK
    <3>2. CASE NextAsked(k)
      BY <3>2 DEF NextAsked, TypeOK, hooks
    <3> QED BY <1>4, <3>1, <3>2
  <2> QED BY <1>4, <2>3, <2>4 DEF TypeOK, CloseCounted, NextAsked, hooks, book
<1>5. CASE Forgets(k)
  <2>1. \A b \in Addrs : [learned[b] EXCEPT !.connections = @ \ {k},
                                            !.ended = @ \cup {k}] \in Uses
    BY UseEdits DEF TypeOK
  <2>2. learned' \in [Addrs -> Uses]
    BY <1>5, <2>1 DEF TypeOK, Forgets
  <2>3. \A l \in Links : [link[l] EXCEPT !.signal = TRUE] \in LinkStates
    BY LinkFields DEF LinkStates
  <2>4. link' \in [Links -> LinkStates]
    BY <1>5, <2>3 DEF TypeOK, Forgets
  <2>5. /\ conn' \in [Conns -> {"none", "open", "closing", "closingBuilt", "waiting",
                                "over", "ended", "forgotten"}]
        /\ barriers' \in [Conns -> SUBSET Links] /\ lossy' \subseteq Conns
    BY <1>5 DEF TypeOK, Forgets
  <2> QED BY <1>5, <2>2, <2>4, <2>5 DEF TypeOK, Forgets, book
<1>6. CASE Drains(k)
  BY <1>6 DEF TypeOK, Drains, book
<1>7. CASE Forgotten(k)
  <2>1. NoneLearned \in Uses
    BY DEF NoneLearned, Uses
  <2>2. \A b \in Addrs : [learned[b] EXCEPT !.ended = @ \ {k}] \in Uses
    BY UseEdits DEF TypeOK
  <2>3. learned' \in [Addrs -> Uses]
    BY <1>7, <2>1, <2>2 DEF Forgotten
  <2> QED BY <1>7, <2>3 DEF TypeOK, Forgotten, book
<1> QED BY <1>1, <1>2, <1>3, <1>4, <1>5, <1>6, <1>7

-----------------------------------------------------------------------------
(* Places *)

\* What a link was replaced by stays newer than it.
LEMMA ReplacedStays ==
  ASSUME NEW l \in Links, Replaced(l),
         \A m \in Links : link[m].addr = link[l].addr => link'[m].addr = link[m].addr
  PROVE  Replaced(l)'
<1>1. PICK m \in Links : link[m].addr = link[l].addr /\ m > l
  BY DEF Replaced, LinksOf
<1>2. link'[m].addr = link'[l].addr
  BY <1>1
<1> QED BY <1>1, <1>2 DEF Replaced, LinksOf

\* A step by which no link comes, goes or moves leaves the places as they are.
LEMMA SamePlaces ==
  ASSUME TypeOK, TypeOK', Numbered, PlaceIsNewest, IrohAssumption,
         UNCHANGED links,
         attaching' \in {{}, attaching} \/ (Next0 \in Links /\ \E a \in Addrs : attaching' = {a}),
         \A l \in Links : /\ link'[l].addr = link[l].addr
                          /\ link'[l].st = "none" <=> link[l].st = "none"
                          /\ link'[l].st = "down" <=> link[l].st = "down",
         \A l \in Links : link[l].st \in {"none", "down"} =>
           queue'[l] = <<>> /\ \A k \in Conns : l \notin barriers'[k]
  PROVE  /\ Numbered' /\ PlaceIsNewest'
         /\ \A l \in Links : Replaced(l) => Replaced(l)'
<1>1. \A l \in Links : Replaced(l) => Replaced(l)'
  BY ReplacedStays
<1>2. {l \in Links : link'[l].st # "none"} = {l \in Links : link[l].st # "none"}
  OBVIOUS
<1>3. PICK n \in 0 .. MaxLinks : /\ {l \in Links : link[l].st # "none"} = 1 .. n
                                 /\ attaching # {} => n < MaxLinks
  BY DEF Numbered
<1>4. attaching' # {} => n < MaxLinks
  <2>1. CASE attaching' \in {{}, attaching}
    BY <1>3, <2>1
  <2>2. CASE Next0 \in Links /\ \E a \in Addrs : attaching' = {a}
    <3>1. Next0 \in Links /\ link[Next0].st = "none"
      BY <2>2, NextIsFresh
    <3> HIDE DEF Next0
    <3>2. Next0 \notin 1 .. n
      BY <1>3, <3>1
    <3>3. Next0 \in 1 .. MaxLinks
      BY <3>1 DEF Links
    <3>4. MaxLinks \in Nat /\ n \in Nat
      BY <1>3 DEF IrohAssumption
    <3> QED BY <3>2, <3>3, <3>4
  <2> QED BY <2>1, <2>2
<1>5. attaching' = {} \/ \E a \in Addrs : attaching' = {a}
  BY DEF Numbered
<1>6. Numbered'
  <2>1. \A l \in Links : link'[l].st = "none" <=> link'[l].addr = None
    BY DEF Numbered
  <2>2. /\ {l \in Links : link'[l].st # "none"} = 1 .. n
        /\ attaching' # {} => n < MaxLinks
    BY <1>2, <1>3, <1>4
  <2> QED BY <1>3, <1>5, <2>1, <2>2 DEF Numbered
<1>7. PlaceIsNewest'
  <2>1. ASSUME NEW a \in Addrs, links'[a] # None
        PROVE  link'[links'[a]].addr = a /\ link'[links'[a]].st # "down"
    <3>1. links'[a] = links[a] /\ links[a] \in Links
      BY <2>1 DEF TypeOK
    <3> QED BY <2>1, <3>1 DEF PlaceIsNewest
  <2>2. ASSUME NEW l \in Links, link'[l].st \notin {"none", "down"}, ~Replaced(l)'
        PROVE  links'[link'[l].addr] = l
    BY <1>1, <2>2 DEF PlaceIsNewest
  <2>3. \A l \in Links : link'[l].st \in {"none", "down"} =>
          queue'[l] = <<>> /\ \A k \in Conns : l \notin barriers'[k]
    OBVIOUS
  <2> QED BY <2>1, <2>2, <2>3 DEF PlaceIsNewest
<1> QED BY <1>1, <1>6, <1>7

\* A link that is new takes its address's place from whoever held it.
LEMMA NewTakesPlace ==
  ASSUME TypeOK, TypeOK', Numbered, PlaceIsNewest, IrohAssumption,
         NEW a \in Addrs, Next0 \in Links,
         NEW st \in {"dialling", "spawned"}, NEW role, Takes(a, Next0, st, role),
         attaching' = {} \/ (attaching' = attaching /\ (attaching # {} => Next0 + 1 \in Links)),
         \A l \in Links : l # Next0 => queue'[l] = queue[l],
         UNCHANGED barriers
  PROVE  /\ Numbered' /\ PlaceIsNewest'
         /\ \A l \in Links : link[l].st # "none" /\ Replaced(l) => Replaced(l)'
<1> DEFINE n == Next0
<1>1. /\ n \in Nat \ {0} /\ link[n].st = "none" /\ n - 1 <= MaxLinks
      /\ {l \in Links : link[l].st # "none"} = 1 .. (n - 1)
      /\ \A l \in Links : link[l].st # "none" => l < n
  BY NextIsFresh
<1>2. n \in Links /\ links' = [links EXCEPT ![a] = n] /\ MaxLinks \in Nat
  BY DEF Takes, IrohAssumption
<1>3. link'[n].st = st /\ link'[n].addr = a
  BY DEF Takes, TypeOK, Unborn
<1>4. \A l \in Links : l # n => link'[l] = link[l]
  BY DEF Takes, TypeOK
<1>5. attaching' = {} \/ (attaching' = attaching /\ (attaching # {} => n + 1 \in Links))
  OBVIOUS
<1>6. \A l \in Links : l # n => queue'[l] = queue[l]
  OBVIOUS
<1> HIDE DEF n
<1>7. None \notin Addrs /\ Links \subseteq Nat \ {0} /\ link[n].addr = None
  BY <1>1, <1>2, LinksAreNumbers DEF Numbered
<1>8. \A l \in Links : link[l].st # "none" /\ Replaced(l) => Replaced(l)'
  <2>1. ASSUME NEW l \in Links, link[l].st # "none", Replaced(l)
        PROVE  Replaced(l)'
    <3>1. PICK m \in Links : link[m].addr = link[l].addr /\ m > l
      BY <2>1 DEF Replaced, LinksOf
    <3>2. CASE l # n /\ m # n
      BY <1>4, <3>1, <3>2 DEF Replaced, LinksOf
    <3>3. l # n /\ m # n
      BY <1>1, <1>2, <1>7, <2>1, <3>1 DEF Numbered
    <3> QED BY <3>2, <3>3
  <2> QED BY <2>1
<1>9. {l \in Links : link'[l].st # "none"} = 1 .. n
  <2>1. ASSUME NEW l \in Links
        PROVE  link'[l].st # "none" <=> l \in 1 .. n
    <3>1. CASE l = n
      BY <1>1, <1>3, <3>1
    <3>2. CASE l # n
      <4>1. link'[l].st # "none" <=> l \in 1 .. (n - 1)
        BY <1>1, <1>4, <3>2
      <4> QED BY <1>1, <1>7, <3>2, <4>1
    <3> QED BY <3>1, <3>2
  <2>2. 1 .. n \subseteq Links
    BY <1>2 DEF Links
  <2> QED BY <2>1, <2>2
<1>10. n \in 0 .. MaxLinks /\ (attaching' # {} => n < MaxLinks)
  BY <1>1, <1>2, <1>5 DEF Links
<1>11. Numbered'
  <2>1. attaching' = {} \/ \E b \in Addrs : attaching' = {b}
    BY <1>5 DEF Numbered
  <2>2. \A l \in Links : link'[l].st = "none" <=> link'[l].addr = None
    BY <1>3, <1>4, <1>7 DEF Numbered
  <2> QED BY <1>9, <1>10, <2>1, <2>2 DEF Numbered
<1>12. PlaceIsNewest'
  <2>1. ASSUME NEW b \in Addrs, links'[b] # None
        PROVE  link'[links'[b]].addr = b /\ link'[links'[b]].st # "down"
    <3>1. CASE b = a
      BY <1>2, <1>3, <3>1 DEF TypeOK
    <3>2. CASE b # a
      <4>1. links'[b] = links[b] /\ links[b] \in Links
        BY <1>2, <2>1, <3>2 DEF TypeOK
      <4>2. link[links[b]].addr = b /\ link[links[b]].st # "down"
        BY <2>1, <4>1 DEF PlaceIsNewest
      <4>3. links[b] # n
        BY <1>7, <4>2
      <4> QED BY <1>4, <4>1, <4>2, <4>3
    <3> QED BY <3>1, <3>2
  <2>2. ASSUME NEW l \in Links, link'[l].st \notin {"none", "down"}, ~Replaced(l)'
        PROVE  links'[link'[l].addr] = l
    <3>1. CASE l = n
      BY <1>2, <1>3, <3>1 DEF TypeOK
    <3>2. CASE l # n
      <4>1. link'[l] = link[l] /\ link[l].st \notin {"none", "down"} /\ l < n
        BY <1>1, <1>4, <2>2, <3>2
      <4>2. link[l].addr # a
        BY <1>2, <1>3, <1>7, <2>2, <4>1 DEF Replaced, LinksOf
      <4>3. links[link[l].addr] = l
        BY <1>8, <2>2, <4>1 DEF PlaceIsNewest
      <4>4. link[l].addr \in Addrs
        BY <4>1, BornHasAddr
      <4> QED BY <1>2, <4>1, <4>2, <4>3, <4>4 DEF TypeOK
    <3> QED BY <3>1, <3>2
  <2>3. ASSUME NEW l \in Links, link'[l].st \in {"none", "down"}
        PROVE  queue'[l] = <<>> /\ \A k \in Conns : l \notin barriers'[k]
    <3>1. l # n
      BY <1>3, <2>3
    <3> QED BY <1>4, <1>6, <2>3, <3>1 DEF PlaceIsNewest
  <2> QED BY <2>1, <2>2, <2>3 DEF PlaceIsNewest
<1> QED BY <1>8, <1>11, <1>12

\* A link that goes leaves its own place only, with nothing queued.
LEMMA GoneLeavesPlace ==
  ASSUME TypeOK, TypeOK', Numbered, PlaceIsNewest, IrohAssumption,
         NEW l \in Links, link[l].st \notin {"none", "down"},
         Gone(l), LeavesPlace(l), UNCHANGED attaching,
         queue' = [queue EXCEPT ![l] = <<>>],
         barriers' = [k \in Conns |-> barriers[k] \ {l}]
  PROVE  /\ Numbered' /\ PlaceIsNewest'
         /\ \A m \in Links : Replaced(m) => Replaced(m)'
<1>1. /\ link'[l].st = "down" /\ link'[l].addr = link[l].addr
      /\ \A m \in Links : m # l => link'[m] = link[m]
  BY DEF Gone, TypeOK, Unborn
<1>2. \A m \in Links : link'[m].addr = link[m].addr
                       /\ (link'[m].st = "none" <=> link[m].st = "none")
  BY <1>1
<1>3. \A m \in Links : Replaced(m) => Replaced(m)'
  BY <1>2, ReplacedStays
<1>4. {m \in Links : link'[m].st # "none"} = {m \in Links : link[m].st # "none"}
  BY <1>2
<1>5. Numbered'
  BY <1>2, <1>4 DEF Numbered
<1>6. link[l].addr \in Addrs
  BY BornHasAddr
<1>7. links' = [links EXCEPT ![link[l].addr] = IF @ = l THEN None ELSE @]
  BY DEF LeavesPlace
<1>8. \A a \in Addrs : links'[a] \in {links[a], None} /\ links'[a] # l
  <2>1. ASSUME NEW a \in Addrs PROVE links'[a] \in {links[a], None} /\ links'[a] # l
    <3>1. CASE a = link[l].addr
      BY <1>6, <1>7, <3>1, LinksAreNumbers DEF TypeOK
    <3>2. CASE a # link[l].addr
      <4>1. links'[a] = links[a]
        BY <1>7, <3>2 DEF TypeOK
      <4>2. links[a] # l
        BY <3>2, LinksAreNumbers DEF PlaceIsNewest
      <4> QED BY <4>1, <4>2
    <3> QED BY <3>1, <3>2
  <2> QED BY <2>1
<1>9. PlaceIsNewest'
  <2>1. ASSUME NEW a \in Addrs, links'[a] # None
        PROVE  link'[links'[a]].addr = a /\ link'[links'[a]].st # "down"
    <3>1. links'[a] = links[a] /\ links[a] \in Links /\ links[a] # l
      BY <1>8, <2>1 DEF TypeOK
    <3> QED BY <1>1, <2>1, <3>1 DEF PlaceIsNewest
  <2>2. ASSUME NEW m \in Links, link'[m].st \notin {"none", "down"}, ~Replaced(m)'
        PROVE  links'[link'[m].addr] = m
    <3>1. m # l /\ link'[m] = link[m]
      BY <1>1, <2>2
    <3>2. links[link[m].addr] = m /\ link[m].addr \in Addrs
      BY <1>3, <2>2, <3>1, BornHasAddr DEF PlaceIsNewest
    <3> QED BY <1>7, <3>1, <3>2 DEF TypeOK
  <2>3. ASSUME NEW m \in Links, link'[m].st \in {"none", "down"}
        PROVE  queue'[m] = <<>> /\ \A k \in Conns : m \notin barriers'[k]
    <3>1. CASE m = l
      BY <3>1 DEF TypeOK
    <3>2. CASE m # l
      <4>1. queue'[m] = queue[m] /\ link'[m] = link[m]
        BY <1>1, <3>2 DEF TypeOK
      <4>2. \A k \in Conns : m \notin barriers'[k]
        BY <2>3, <4>1 DEF PlaceIsNewest
      <4> QED BY <2>3, <4>1, <4>2 DEF PlaceIsNewest
    <3> QED BY <3>1, <3>2
  <2> QED BY <2>1, <2>2, <2>3 DEF PlaceIsNewest
<1> QED BY <1>3, <1>5, <1>9

-----------------------------------------------------------------------------
(* Closes and barriers *)

Asking == {"waiting", "ended", "forgotten"}

\* What no step undoes: a connection that drained or whose close was counted,
\* a link that was replaced, and, until one of these, a close that is pending
\* on a link that has not ended.
Onward ==
  /\ drained \subseteq drained'
  /\ \A k \in Conns : conn[k] \in Asking => conn'[k] \in Asking
  /\ \A l \in Links : link[l].st # "none" /\ Replaced(l) => Replaced(l)'
  /\ \A l \in Links, k \in Conns :
       queue[l] # <<>> /\ queue'[l] # <<>> /\ ClosePending(k, l)
         => ClosePending(k, l)' \/ k \in drained' \/ Replaced(l)'

\* An old close is still kept after such a step.
LEMMA CloseStaysKept ==
  ASSUME PlaceIsNewest, Onward, NEW l \in Links, NEW k \in Conns,
         queue[l] # <<>>, queue'[l] # <<>>,
         k \in drained \/ Replaced(l) \/ ClosePending(k, l)
  PROVE  k \in drained' \/ Replaced(l)' \/ ClosePending(k, l)'
<1>1. link[l].st # "none"
  BY DEF PlaceIsNewest
<1> QED BY <1>1 DEF Onward

\* A step that queues nothing keeps closes and barriers.
LEMMA NothingQueued ==
  ASSUME TypeOK, PlaceIsNewest, ClosesAreKept, BarriersAreBehind, Onward,
         \A l \in Links : queue'[l] = queue[l] \/ queue'[l] = <<>>
  PROVE  ClosesAreKept' /\ BarriersAreBehind'
<1>0. DOMAIN <<>> = {}
  OBVIOUS
<1>1. ASSUME NEW l \in Links, NEW k \in Conns, NEW i \in DOMAIN queue'[l],
             queue'[l][i] = Entry("close", k)
      PROVE  k \in drained' \/ Replaced(l)' \/ ClosePending(k, l)'
  <2>1. queue'[l] = queue[l] /\ queue[l] # <<>>
    BY <1>0, <1>1
  <2>2. k \in drained \/ Replaced(l) \/ ClosePending(k, l)
    BY <1>1, <2>1 DEF ClosesAreKept
  <2> QED BY <2>1, <2>2, CloseStaysKept
<1>2. ASSUME NEW l \in Links, NEW k \in Conns, NEW i \in DOMAIN queue'[l],
             queue'[l][i] = Entry("barrier", k)
      PROVE  /\ conn'[k] \in Asking
             /\ \A j \in DOMAIN queue'[l] : queue'[l][j] = Entry("close", k) => j < i
  <2>1. queue'[l] = queue[l]
    BY <1>0, <1>2
  <2> QED BY <1>2, <2>1 DEF BarriersAreBehind, Onward, Asking
<1>3. ClosesAreKept'
  BY <1>1 DEF ClosesAreKept
<1> QED BY <1>2, <1>3 DEF BarriersAreBehind, Asking

\* Neither does a packet that is queued behind the others: a close keeps its
\* address in use and has no barrier before it yet, a barrier is asked for.
LEMMA PacketQueued ==
  ASSUME TypeOK, PlaceIsNewest, ClosesAreKept, BarriersAreBehind, Onward,
         NEW m \in Links, NEW packet \in Entries,
         queue' = [queue EXCEPT ![m] = Append(@, packet)],
         \A k \in Conns : packet = Entry("close", k) =>
           conn[k] \notin Asking /\ ClosePending(k, m)',
         \A k \in Conns : packet = Entry("barrier", k) => conn'[k] \in Asking
  PROVE  ClosesAreKept' /\ BarriersAreBehind'
<1> DEFINE q == queue[m]
           n == Len(q) + 1
<1>1. /\ q \in Seq(Entries) /\ queue'[m] = Append(q, packet)
      /\ \A l \in Links : l # m => queue'[l] = queue[l]
  BY DEF TypeOK
<1>2. /\ Len(q) \in Nat /\ DOMAIN q = 1 .. Len(q) /\ DOMAIN queue'[m] = 1 .. n
      /\ \A i \in DOMAIN q : queue'[m][i] = q[i]
      /\ queue'[m][n] = packet
  BY <1>1, AppendHolds
<1>3. \A i \in 1 .. n : i = n \/ (i \in DOMAIN q /\ i < n)
  BY <1>2
<1>4. DOMAIN <<>> = {}
  OBVIOUS
<1> HIDE DEF q, n
<1>5. \A i \in DOMAIN queue'[m] :
        \/ i = n /\ queue'[m][i] = packet
        \/ i \in DOMAIN q /\ i < n /\ queue'[m][i] = q[i]
  BY <1>2, <1>3
<1>6. ASSUME NEW l \in Links, NEW k \in Conns, NEW i \in DOMAIN queue'[l],
             queue'[l][i] = Entry("close", k)
      PROVE  k \in drained' \/ Replaced(l)' \/ ClosePending(k, l)'
  <2>1. CASE i \in DOMAIN queue[l] /\ queue[l][i] = Entry("close", k)
    <3>1. k \in drained \/ Replaced(l) \/ ClosePending(k, l)
      BY <2>1 DEF ClosesAreKept
    <3>2. queue[l] # <<>> /\ queue'[l] # <<>>
      BY <1>4, <1>6, <2>1
    <3> QED BY <3>1, <3>2, CloseStaysKept
  <2>2. CASE l = m /\ packet = Entry("close", k)
    BY <2>2
  <2> QED BY <1>1, <1>5, <1>6, <2>1, <2>2 DEF q
<1>7. ASSUME NEW l \in Links, NEW k \in Conns, NEW i \in DOMAIN queue'[l],
             queue'[l][i] = Entry("barrier", k)
      PROVE  /\ conn'[k] \in Asking
             /\ \A j \in DOMAIN queue'[l] : queue'[l][j] = Entry("close", k) => j < i
  <2>1. CASE l # m
    BY <1>1, <1>7, <2>1 DEF BarriersAreBehind, Onward, Asking
  <2>2. CASE l = m /\ i \in DOMAIN q /\ q[i] = Entry("barrier", k)
    <3>1. /\ conn[k] \in Asking
          /\ \A j \in DOMAIN q : q[j] = Entry("close", k) => j < i
      BY <2>2 DEF BarriersAreBehind, q, Asking
    <3>2. packet # Entry("close", k)
      BY <3>1
    <3> QED BY <1>5, <2>2, <3>1, <3>2 DEF Onward
  <2>3. CASE l = m /\ i = n /\ packet = Entry("barrier", k)
    <3>1. packet # Entry("close", k)
      BY <2>3, EntriesDiffer
    <3> QED BY <1>5, <2>3, <3>1
  <2> QED BY <1>5, <1>7, <2>1, <2>2, <2>3
<1>8. ClosesAreKept'
  BY <1>6 DEF ClosesAreKept
<1> QED BY <1>7, <1>8 DEF BarriersAreBehind, Asking

\* A packet that leaves keeps them: when a barrier is reached no close of its
\* connection is left behind it.
LEMMA SentKeepsCloses ==
  ASSUME TypeOK, PlaceIsNewest, ClosesAreKept, BarriersAreBehind,
         NEW l \in Links, Sent(l)
  PROVE  ClosesAreKept' /\ BarriersAreBehind'
<1> DEFINE q == queue[l]
           front == Head(q)
           rest == Tail(q)
<1>1. q \in Seq(Entries) /\ q # <<>>
  BY DEF TypeOK, Sent
<1>2. /\ front = q[1] /\ 1 \in DOMAIN q /\ front \in Entries
      /\ DOMAIN q \subseteq Nat \ {0} /\ DOMAIN rest \subseteq Nat \ {0}
      /\ \A i \in DOMAIN rest : i + 1 \in DOMAIN q /\ rest[i] = q[i + 1]
  BY <1>1, TailHolds
<1>3. /\ queue'[l] = rest /\ \A m \in Links : m # l => queue'[m] = queue[m]
      /\ barriers' = IF front.kind = "barrier"
                     THEN [barriers EXCEPT ![front.conn] = @ \ {l}] ELSE barriers
      /\ UNCHANGED <<link, learned, conn, drained>>
  BY DEF Sent, TypeOK
<1> HIDE DEF q, front, rest
<1>4. \A m \in Links : Replaced(m) => Replaced(m)'
  BY <1>3, ReplacedStays
<1>5. ASSUME NEW m \in Links, NEW k \in Conns, ClosePending(k, m),
             m # l \/ front # Entry("barrier", k)
      PROVE  ClosePending(k, m)'
  <2>1. m \in barriers[k] => m \in barriers'[k]
    <3>1. CASE front.kind = "barrier"
      <4>1. front.conn = k => front = Entry("barrier", k)
        BY <1>2, <3>1 DEF Entries, Entry
      <4> QED BY <1>3, <1>5, <3>1, <4>1 DEF TypeOK
    <3>2. CASE front.kind # "barrier"
      BY <1>3, <3>2
    <3> QED BY <3>1, <3>2
  <2> QED BY <1>3, <1>5, <2>1 DEF ClosePending
<1>6. ASSUME NEW m \in Links, NEW k \in Conns, NEW i \in DOMAIN queue'[m],
             queue'[m][i] = Entry("close", k)
      PROVE  k \in drained' \/ Replaced(m)' \/ ClosePending(k, m)'
  <2>1. CASE m # l
    <3>1. k \in drained \/ Replaced(m) \/ ClosePending(k, m)
      BY <1>3, <1>6, <2>1 DEF ClosesAreKept
    <3> QED BY <1>3, <1>4, <1>5, <2>1, <3>1
  <2>2. CASE m = l
    <3>1. i \in Nat \ {0} /\ i + 1 \in DOMAIN q /\ q[i + 1] = Entry("close", k)
      BY <1>2, <1>3, <1>6, <2>2
    <3>2. k \in drained \/ Replaced(l) \/ ClosePending(k, l)
      BY <3>1 DEF ClosesAreKept, q
    <3>3. front # Entry("barrier", k)
      <4>1. ASSUME front = Entry("barrier", k) PROVE FALSE
        <5>1. i + 1 < 1
          BY <1>2, <3>1, <4>1 DEF BarriersAreBehind, q
        <5> QED BY <3>1, <5>1
      <4> QED BY <4>1
    <3> QED BY <1>3, <1>4, <1>5, <2>2, <3>2, <3>3
  <2> QED BY <2>1, <2>2
<1>7. ASSUME NEW m \in Links, NEW k \in Conns, NEW i \in DOMAIN queue'[m],
             queue'[m][i] = Entry("barrier", k)
      PROVE  /\ conn'[k] \in Asking
             /\ \A j \in DOMAIN queue'[m] : queue'[m][j] = Entry("close", k) => j < i
  <2>1. CASE m # l
    BY <1>3, <1>7, <2>1 DEF BarriersAreBehind, Asking
  <2>2. CASE m = l
    <3>1. i \in Nat \ {0} /\ i + 1 \in DOMAIN q /\ q[i + 1] = Entry("barrier", k)
      BY <1>2, <1>3, <1>7, <2>2
    <3>2. /\ conn[k] \in Asking
          /\ \A j \in DOMAIN q : q[j] = Entry("close", k) => j < i + 1
      BY <3>1 DEF BarriersAreBehind, q, Asking
    <3>3. ASSUME NEW j \in DOMAIN queue'[m], queue'[m][j] = Entry("close", k)
          PROVE  j < i
      <4>1. j \in Nat \ {0} /\ j + 1 \in DOMAIN q /\ q[j + 1] = Entry("close", k)
        BY <1>2, <1>3, <2>2, <3>3
      <4>2. j + 1 < i + 1
        BY <3>2, <4>1
      <4> QED BY <3>1, <4>1, <4>2
    <3> QED BY <1>3, <3>2, <3>3
  <2> QED BY <2>1, <2>2
<1>8. ClosesAreKept'
  BY <1>6 DEF ClosesAreKept
<1> QED BY <1>7, <1>8 DEF BarriersAreBehind, Asking

-----------------------------------------------------------------------------
(* The steps *)

\* A link that heard nothing new and carried nothing new has its release
\* coming as before, while its address is used by as many as before.
LEMMA SameReleases ==
  ASSUME TypeOK, ReleaseIsComing,
         \A l \in Links : link'[l].st = "up" =>
           /\ link[l].st = "up" /\ link'[l].addr = link[l].addr
           /\ link'[l].carried = link[l].carried
           /\ link'[l].signal = link[l].signal /\ link'[l].armed = link[l].armed
           /\ InUse(link[l].addr) => learned'[link[l].addr].connections # {}
  PROVE  ReleaseIsComing'
<1> SUFFICES ASSUME NEW l \in Links, link'[l].st = "up", link'[l].carried,
                    learned'[link'[l].addr].connections = {}
             PROVE  link'[l].signal \/ link'[l].armed
  BY DEF ReleaseIsComing, InUse
<1>1. link[l].st = "up" /\ link[l].carried /\ ~InUse(link[l].addr)
  OBVIOUS
<1> QED BY <1>1 DEF ReleaseIsComing

\* Steps that change no queue, no hook and no place: the dial's waits, its
\* success, run_link's start, the release signal and delay, and the book.
LEMMA QuietKeeps ==
  ASSUME RInv, IrohAssumption, NEW l \in Links, NEW a \in Addrs,
         \/ DialWaited(l) \/ DialWaitsNoMore(l) \/ DialSucceeds(l) \/ Registered(l)
         \/ ReleaseHeard(l) \/ ReleaseCalledOff(l)
         \/ AttachBegins(a) \/ SetPeerAddress(a) \/ YieldEnds(a)
  PROVE  RInv'
<1> USE DEF RInv
<1>1. TypeOK'
  BY DialTypes, RunTypes
<1>2. UNCHANGED <<links, queue, learned, conn, drained, barriers>>
  BY DEF DialWaited, DialWaitsNoMore, DialSucceeds, Registered, ReleaseHeard,
         ReleaseCalledOff, AttachBegins, SetPeerAddress, YieldEnds, hooks, book
<1>3. \A m \in Links : /\ link'[m].addr = link[m].addr
                       /\ link'[m].st = "none" <=> link[m].st = "none"
                       /\ link'[m].st = "down" <=> link[m].st = "down"
  <2>1. CASE DialSucceeds(l)
    BY <2>1 DEF DialSucceeds, Becomes, TypeOK
  <2>2. CASE Registered(l)
    BY <2>2 DEF Registered, TypeOK
  <2>3. CASE ReleaseHeard(l)
    BY <2>3 DEF ReleaseHeard, TypeOK
  <2>4. CASE ReleaseCalledOff(l)
    BY <2>4 DEF ReleaseCalledOff, TypeOK
  <2>5. CASE \/ DialWaited(l) \/ DialWaitsNoMore(l) \/ AttachBegins(a)
             \/ SetPeerAddress(a) \/ YieldEnds(a)
    BY <2>5 DEF DialWaited, DialWaitsNoMore, AttachBegins, SetPeerAddress, YieldEnds
  <2> QED BY <2>1, <2>2, <2>3, <2>4, <2>5
<1>4. attaching' \in {{}, attaching} \/ (Next0 \in Links /\ \E b \in Addrs : attaching' = {b})
  BY DEF DialWaited, DialWaitsNoMore, DialSucceeds, Registered, ReleaseHeard,
         ReleaseCalledOff, AttachBegins, SetPeerAddress, YieldEnds, book
<1>5. \A m \in Links : link[m].st \in {"none", "down"} =>
        queue'[m] = <<>> /\ \A k \in Conns : m \notin barriers'[k]
  BY <1>2 DEF PlaceIsNewest
<1>6. Numbered' /\ PlaceIsNewest' /\ \A m \in Links : Replaced(m) => Replaced(m)'
  BY <1>1, <1>2, <1>3, <1>4, <1>5, SamePlaces
<1>7. Onward
  BY <1>2, <1>3, <1>6 DEF Onward, ClosePending
<1>8. ClosesAreKept' /\ BarriersAreBehind'
  BY <1>2, <1>7, NothingQueued
<1>9. ReleaseIsComing'
  <2>1. CASE DialSucceeds(l)
    <3>1. \A m \in Links : link'[m].st = "up" => link'[m] = link[m]
      BY <2>1 DEF DialSucceeds, Becomes, TypeOK
    <3> QED BY <1>2, <3>1, SameReleases DEF InUse
  <2>2. CASE Registered(l)
    <3>1. /\ link'[l].carried = InUse(link[l].addr) /\ link'[l].addr = link[l].addr
          /\ \A m \in Links : m # l => link'[m] = link[m]
      BY <2>2 DEF Registered, TypeOK
    <3> QED BY <1>2, <3>1 DEF ReleaseIsComing, InUse
  <2>3. CASE ReleaseHeard(l)
    <3>1. /\ link'[l].armed = (link[l].armed \/ ~InUse(link[l].addr))
          /\ link'[l].addr = link[l].addr
          /\ \A m \in Links : m # l => link'[m] = link[m]
      BY <2>3 DEF ReleaseHeard, TypeOK
    <3> QED BY <1>2, <3>1 DEF ReleaseIsComing, InUse
  <2>4. CASE ReleaseCalledOff(l)
    <3>1. /\ InUse(link[l].addr) /\ link'[l].addr = link[l].addr
          /\ \A m \in Links : m # l => link'[m] = link[m]
      BY <2>4 DEF ReleaseCalledOff, TypeOK
    <3> QED BY <1>2, <3>1 DEF ReleaseIsComing, InUse
  <2>5. CASE \/ DialWaited(l) \/ DialWaitsNoMore(l) \/ AttachBegins(a)
             \/ SetPeerAddress(a) \/ YieldEnds(a)
    <3>1. link' = link
      BY <2>5 DEF DialWaited, DialWaitsNoMore, AttachBegins, SetPeerAddress, YieldEnds
    <3> QED BY <1>2, <3>1 DEF ReleaseIsComing, InUse
  <2> QED BY <2>1, <2>2, <2>3, <2>4, <2>5
<1> QED BY <1>1, <1>6, <1>8, <1>9

\* The send task sends.
LEMMA SentKeeps ==
  ASSUME RInv, IrohAssumption, NEW l \in Links, Sent(l)
  PROVE  RInv'
<1> USE DEF RInv
<1>1. TypeOK'
  BY RunTypes
<1>2. UNCHANGED <<links, link, learned, attaching>>
  BY DEF Sent, book
<1>3. ASSUME NEW m \in Links, link[m].st \in {"none", "down"}
      PROVE  queue'[m] = <<>> /\ \A k \in Conns : m \notin barriers'[k]
  <2>1. m # l
    BY <1>3 DEF Sent
  <2>2. queue'[m] = queue[m]
    BY <2>1 DEF Sent, TypeOK
  <2>3. \A k \in Conns : barriers'[k] \subseteq barriers[k]
    BY DEF Sent, TypeOK
  <2> QED BY <1>3, <2>2, <2>3 DEF PlaceIsNewest
<1>4. Numbered' /\ PlaceIsNewest'
  BY <1>1, <1>2, <1>3, SamePlaces
<1>5. ClosesAreKept' /\ BarriersAreBehind'
  BY SentKeepsCloses
<1>6. ReleaseIsComing'
  BY <1>2 DEF ReleaseIsComing, InUse
<1> QED BY <1>1, <1>4, <1>5, <1>6

\* A link ends: what it had queued goes.
LEMMA EndKeeps ==
  ASSUME RInv, IrohAssumption, NEW l \in Links,
         Releases(l) \/ ApplicationCloses(l) \/ ChannelDrops(l)
  PROVE  RInv'
<1> USE DEF RInv
<1>1. TypeOK'
  BY RunTypes
<1>2. PICK here \in BOOLEAN : Ends(l, here) /\ link[l].st = "up"
  BY DEF Releases, ApplicationCloses, ChannelDrops
<1>3. /\ link'[l].st = "closing" /\ link'[l].addr = link[l].addr
      /\ \A m \in Links : m # l => link'[m] = link[m]
  BY <1>2 DEF Ends, TypeOK
<1>4. UNCHANGED <<links, learned, conn, drained, attaching>>
  BY <1>2 DEF Ends, book
<1>5. /\ queue'[l] = <<>> /\ \A m \in Links : m # l => queue'[m] = queue[m]
      /\ \A k \in Conns : barriers'[k] = barriers[k] \ {l}
  BY <1>2 DEF Ends, TypeOK
<1>6. \A m \in Links : link[m].st \in {"none", "down"} =>
        queue'[m] = <<>> /\ \A k \in Conns : m \notin barriers'[k]
  BY <1>2, <1>5 DEF PlaceIsNewest
<1>7. \A m \in Links : /\ link'[m].addr = link[m].addr
                       /\ link'[m].st = "none" <=> link[m].st = "none"
                       /\ link'[m].st = "down" <=> link[m].st = "down"
  BY <1>2, <1>3
<1>8. Numbered' /\ PlaceIsNewest' /\ \A m \in Links : Replaced(m) => Replaced(m)'
  BY <1>1, <1>4, <1>6, <1>7, SamePlaces
<1>9. Onward
  <2>1. ASSUME NEW m \in Links, NEW k \in Conns, queue'[m] # <<>>, ClosePending(k, m)
        PROVE  ClosePending(k, m)'
    BY <1>4, <1>5, <1>7, <2>1 DEF ClosePending
  <2> QED BY <1>4, <1>8, <2>1 DEF Onward
<1>10. ClosesAreKept' /\ BarriersAreBehind'
  BY <1>5, <1>9, NothingQueued
<1>11. ReleaseIsComing'
  BY <1>3, <1>4 DEF ReleaseIsComing, InUse
<1> QED BY <1>1, <1>8, <1>10, <1>11

\* A link or a dial is gone.
LEMMA GoneKeeps ==
  ASSUME RInv, IrohAssumption, NEW l \in Links, DialEnds(l) \/ Down(l)
  PROVE  RInv'
<1> USE DEF RInv
<1>1. TypeOK'
  <2>1. CASE DialEnds(l)
    <3>1. current \in Addrs
      BY DEF TypeOK
    <3> QED BY <2>1, <3>1, DialTypes
  <2>2. CASE Down(l)
    BY <2>2, RunTypes
  <2> QED BY <2>1, <2>2
<1>2. /\ link[l].st \in {"dialling", "closing"} /\ Gone(l) /\ LeavesPlace(l)
      /\ queue' = [queue EXCEPT ![l] = <<>>]
      /\ barriers' = [k \in Conns |-> barriers[k] \ {l}]
      /\ UNCHANGED <<conn, drained, attaching>>
  BY DEF DialEnds, Down, book
<1>3. Numbered' /\ PlaceIsNewest' /\ \A m \in Links : Replaced(m) => Replaced(m)'
  BY <1>1, <1>2, GoneLeavesPlace
<1>4. /\ link'[l].st = "down" /\ link'[l].addr = link[l].addr
      /\ \A m \in Links : m # l => link'[m] = link[m]
  BY <1>2 DEF Gone, TypeOK, Unborn
<1>5. /\ queue'[l] = <<>> /\ \A m \in Links : m # l => queue'[m] = queue[m]
      /\ \A k \in Conns : barriers'[k] = barriers[k] \ {l}
  BY <1>2 DEF TypeOK
<1>6. \A a \in Addrs : learned'[a].connections = learned[a].connections
  <2>1. CASE DialEnds(l)
    BY <2>1 DEF DialEnds
  <2>2. CASE Down(l)
    BY <2>2 DEF Down, TypeOK, InUse, NoneLearned
  <2> QED BY <2>1, <2>2
<1>7. Onward
  <2>1. ASSUME NEW m \in Links, NEW k \in Conns, queue[m] # <<>>, queue'[m] # <<>>,
               ClosePending(k, m)
        PROVE  ClosePending(k, m)'
    <3>1. m # l /\ link'[m] = link[m] /\ link[m].addr \in Addrs
      BY <1>4, <1>5, <2>1, BornHasAddr DEF PlaceIsNewest
    <3> QED BY <1>2, <1>5, <1>6, <2>1, <3>1 DEF ClosePending
  <2> QED BY <1>2, <1>3, <2>1 DEF Onward
<1>8. ClosesAreKept' /\ BarriersAreBehind'
  BY <1>5, <1>7, NothingQueued
<1>9. ReleaseIsComing'
  <2>1. ASSUME NEW m \in Links, link'[m].st = "up"
        PROVE  link'[m] = link[m] /\ link[m].addr \in Addrs
    BY <1>4, <2>1, BornHasAddr
  <2> QED BY <1>6, <2>1, SameReleases DEF InUse
<1> QED BY <1>1, <1>3, <1>8, <1>9

\* A new link comes with an empty queue or with its first packet.
LEMMA NewLinkKeeps ==
  ASSUME RInv, TypeOK', IrohAssumption, NEW a \in Addrs, NEW packet \in Entries,
         Next0 \in Links, NEW st \in {"dialling", "spawned"}, NEW role,
         Takes(a, Next0, st, role),
         attaching' = {} \/ (attaching' = attaching /\ (attaching # {} => Next0 + 1 \in Links)),
         queue' = queue \/ queue' = [queue EXCEPT ![Next0] = <<packet>>],
         UNCHANGED <<learned, drained, barriers>>,
         \A k \in Conns : packet # Entry("barrier", k),
         \A k \in Conns : packet = Entry("close", k) =>
           /\ k \in learned[a].connections
           /\ conn[k] = "closing" /\ conn'[k] = "closingBuilt",
         \A k \in Conns : packet # Entry("close", k) => conn'[k] = conn[k]
  PROVE  RInv'
<1> USE DEF RInv
<1> DEFINE n == Next0
<1>1. \A m \in Links : m # n => queue'[m] = queue[m]
  BY DEF TypeOK
<1>2. Numbered' /\ PlaceIsNewest'
      /\ \A m \in Links : link[m].st # "none" /\ Replaced(m) => Replaced(m)'
  BY <1>1, NewTakesPlace
<1>3. /\ link'[n].addr = a /\ link'[n].st = st /\ link'[n].carried = FALSE
      /\ \A m \in Links : m # n => link'[m] = link[m]
  BY DEF Takes, TypeOK, Unborn
<1>4. n \in Links /\ link[n].st = "none"
  BY NextIsFresh
<1>5. queue[n] = <<>>
  BY <1>4 DEF PlaceIsNewest
<1>6. <<packet>> = Append(<<>>, packet)
  OBVIOUS
<1>7. queue' = queue \/ queue' = [queue EXCEPT ![n] = Append(@, packet)]
  BY <1>5, <1>6 DEF TypeOK
<1> HIDE DEF n
<1>8. Onward
  <2>1. ASSUME NEW m \in Links, NEW k \in Conns, queue[m] # <<>>, ClosePending(k, m)
        PROVE  ClosePending(k, m)'
    <3>1. link'[m] = link[m]
      BY <1>3, <1>5, <2>1
    <3>2. packet # Entry("close", k)
      BY <2>1 DEF ClosePending
    <3> QED BY <2>1, <3>1, <3>2 DEF ClosePending
  <2>2. ASSUME NEW k \in Conns, conn[k] \in Asking PROVE conn'[k] \in Asking
    BY <2>2 DEF Asking
  <2> QED BY <1>2, <2>1, <2>2 DEF Onward
<1>9. ClosesAreKept' /\ BarriersAreBehind'
  <2>1. CASE queue' = queue
    BY <1>8, <2>1, NothingQueued
  <2>2. CASE queue' = [queue EXCEPT ![n] = Append(@, packet)]
    <3>1. PICK m \in Links : m = n
      BY <1>4
    <3>2. \A k \in Conns : packet = Entry("close", k) =>
            conn[k] \notin Asking /\ ClosePending(k, m)'
      BY <1>3, <3>1 DEF Asking, ClosePending
    <3>3. queue' = [queue EXCEPT ![m] = Append(@, packet)]
      BY <2>2, <3>1
    <3> QED BY <1>8, <3>2, <3>3, PacketQueued
  <2> QED BY <1>7, <2>1, <2>2
<1>10. ReleaseIsComing'
  <2>1. \A m \in Links : link'[m].st = "up" => m # n
    BY <1>3
  <2> QED BY <1>3, <2>1 DEF ReleaseIsComing, InUse
<1> QED BY <1>2, <1>9, <1>10

\* A channel the peer dialled enters links.
LEMMA AttachedKeeps ==
  ASSUME RInv, IrohAssumption, NEW a \in Addrs, Attached(a)
  PROVE  RInv'
<1> USE DEF RInv
<1>1. TypeOK'
  <2>1. Next0 \in Links
    BY NextIsFresh DEF Attached
  <2> QED BY <2>1, DialTypes
<1>2. Next0 \in Links
  BY NextIsFresh DEF Attached
<1>3. Takes(a, Next0, "spawned", "peripheral") /\ attaching' = {}
      /\ UNCHANGED <<queue, learned, drained, barriers, conn>>
  BY DEF Attached, Takes, hooks
<1>4. Other \in Entries /\ \A k \in Conns : Other # Entry("close", k) /\ Other # Entry("barrier", k)
  BY EntriesTyped, EntriesDiffer
<1> HIDE DEF Next0, RInv
<1> QED BY <1>1, <1>2, <1>3, <1>4, NewLinkKeeps

\* Sender::send keeps the invariant, whatever the packet: a close is that of a
\* connection that uses the address and has not been counted yet.
LEMMA PacketKeeps ==
  ASSUME RInv, TypeOK', IrohAssumption, NEW a \in Addrs, NEW packet \in Entries,
         Put(a, packet) \/ Lost \/ Starts(a, packet),
         UNCHANGED <<learned, drained, barriers, attaching>>,
         \A k \in Conns : packet # Entry("barrier", k),
         \A k \in Conns : packet = Entry("close", k) => k \in learned[a].connections,
         \A k \in Conns : IF packet = Entry("close", k)
                          THEN conn[k] = "closing" /\ conn'[k] = "closingBuilt"
                          ELSE conn'[k] = conn[k]
  PROVE  RInv'
<1> USE DEF RInv
<1>1. CASE Starts(a, packet)
  <2>1. Next0 \in Links /\ (attaching # {} => Next0 + 1 \in Links)
    BY <1>1, StartTypes
  <2>2. Takes(a, Next0, "dialling", "central") /\ queue' = [queue EXCEPT ![Next0] = <<packet>>]
    BY <1>1 DEF Starts
  <2> HIDE DEF Next0, RInv
  <2> QED BY <1>1, <2>1, <2>2, NewLinkKeeps
<1>2. Put(a, packet) \/ Lost => RInv'
  <2> SUFFICES ASSUME Put(a, packet) \/ Lost PROVE RInv'
    OBVIOUS
  <2>1. UNCHANGED <<links, link>>
    BY DEF Put, Lost
  <2>2. Put(a, packet) => links[a] \in Links /\ link[links[a]].addr = a
                          /\ link[links[a]].st \notin {"none", "down"}
    BY LinksAreNumbers DEF Put, PlaceIsNewest, TypeOK, Numbered
  <2>3. \A m \in Links : link[m].st \in {"none", "down"} => queue'[m] = queue[m]
    BY <2>2 DEF Put, Lost, TypeOK
  <2>4. \A m \in Links : link[m].st \in {"none", "down"} =>
          queue'[m] = <<>> /\ \A k \in Conns : m \notin barriers'[k]
    BY <2>3 DEF PlaceIsNewest
  <2>5. Numbered' /\ PlaceIsNewest' /\ \A m \in Links : Replaced(m) => Replaced(m)'
    BY <2>1, <2>4, SamePlaces
  <2>6. Onward
    <3>1. ASSUME NEW m \in Links, NEW k \in Conns, ClosePending(k, m)
          PROVE  ClosePending(k, m)'
      <4>1. conn'[k] = conn[k]
        BY <3>1 DEF ClosePending
      <4> QED BY <2>1, <3>1, <4>1 DEF ClosePending
    <3>2. ASSUME NEW k \in Conns, conn[k] \in Asking PROVE conn'[k] \in Asking
      BY <3>2 DEF Asking
    <3> QED BY <2>5, <3>1, <3>2 DEF Onward
  <2>7. ClosesAreKept' /\ BarriersAreBehind'
    <3>1. CASE Put(a, packet)
      <4>1. PICK m \in Links : m = links[a]
        BY <2>2, <3>1
      <4>2. \A k \in Conns : packet = Entry("close", k) =>
              conn[k] \notin Asking /\ ClosePending(k, m)'
        BY <2>1, <2>2, <3>1, <4>1 DEF Asking, ClosePending
      <4>3. queue' = [queue EXCEPT ![m] = Append(@, packet)]
        BY <3>1, <4>1 DEF Put
      <4> QED BY <2>6, <4>2, <4>3, PacketQueued
    <3>2. CASE Lost
      <4>1. queue' = queue
        BY <3>2 DEF Lost
      <4> QED BY <2>6, <4>1, NothingQueued
    <3> QED BY <3>1, <3>2
  <2>8. ReleaseIsComing'
    BY <2>1 DEF ReleaseIsComing, InUse
  <2> QED BY <2>5, <2>7, <2>8
<1> QED BY <1>1, <1>2

\* iroh sends a packet that is no close of its own.
LEMMA SendsKeep ==
  ASSUME RInv, IrohAssumption, NEW k \in Conns, NEW a \in Addrs, IrohSends(k, a)
  PROVE  RInv'
<1>1. TypeOK'
  BY SendKeepsTypes DEF RInv
<1>2. PICK kind \in {"initial", "data", "again"} : Send(a, kind, k)
  BY DEF IrohSends
<1>3. Put(a, Other) \/ Lost \/ Starts(a, Other)
  BY <1>2, SendEffect DEF RInv
<1>4. UNCHANGED <<learned, drained, barriers, conn, attaching>>
  BY DEF IrohSends, hooks, book
<1>5. Other \in Entries /\ \A m \in Conns : Other # Entry("close", m) /\ Other # Entry("barrier", m)
  BY EntriesTyped, EntriesDiffer
<1> QED BY <1>1, <1>3, <1>4, <1>5, PacketKeeps

\* noq hands the close over: the connection still uses the address.
LEMMA CloseBuiltKeeps ==
  ASSUME RInv, IrohAssumption, NEW k \in Conns, CloseBuilt(k)
  PROVE  RInv'
<1>1. PICK a \in Addrs : k \in learned[a].connections /\ Send(a, "close", k)
  BY DEF CloseBuilt
<1>2. TypeOK'
  BY HookTypes, <1>1 DEF RInv
<1> DEFINE packet == Entry("close", k)
<1>3. Put(a, packet) \/ Lost \/ Starts(a, packet)
  BY <1>1, SendEffect DEF RInv
<1>4. /\ UNCHANGED <<learned, drained, barriers, attaching>>
      /\ conn[k] = "closing" /\ conn' = [conn EXCEPT ![k] = "closingBuilt"]
  BY DEF CloseBuilt, book
<1>5. /\ packet \in Entries
      /\ \A m \in Conns : packet # Entry("barrier", m) /\ (packet = Entry("close", m) <=> m = k)
  BY EntriesTyped, EntriesDiffer
<1>6. \A m \in Conns : IF packet = Entry("close", m)
                       THEN conn[m] = "closing" /\ conn'[m] = "closingBuilt"
                       ELSE conn'[m] = conn[m]
  BY <1>4, <1>5 DEF RInv, TypeOK
<1>7. \A m \in Conns : packet = Entry("close", m) => m \in learned[a].connections
  BY <1>1, <1>5
<1> HIDE DEF packet
<1>8. \A m \in Conns : packet # Entry("barrier", m)
  BY <1>5
<1> QED BY <1>2, <1>3, <1>4, <1>5, <1>6, <1>7, <1>8, PacketKeeps

\* What a hook does to connections and signals leaves links, their states and
\* what they have queued alone.
HookOnly ==
  /\ UNCHANGED <<links, queue, attaching>>
  /\ \A l \in Links : link'[l].addr = link[l].addr /\ link'[l].st = link[l].st
  /\ \A l \in Links, k \in Conns :
       link[l].st \in {"none", "down"} => l \notin barriers'[k]

\* Such a step keeps the places, and closes and barriers if it goes onward.
LEMMA HookKeeps ==
  ASSUME RInv, TypeOK', IrohAssumption, HookOnly,
         drained \subseteq drained',
         \A k \in Conns : conn[k] \in Asking => conn'[k] \in Asking,
         \A l \in Links, k \in Conns :
           queue[l] # <<>> /\ ClosePending(k, l) => ClosePending(k, l)' \/ k \in drained'
  PROVE  Numbered' /\ PlaceIsNewest' /\ ClosesAreKept' /\ BarriersAreBehind'
<1> USE DEF RInv
<1>1. \A l \in Links : link[l].st \in {"none", "down"} =>
        queue'[l] = <<>> /\ \A k \in Conns : l \notin barriers'[k]
  BY DEF HookOnly, PlaceIsNewest
<1>2. Numbered' /\ PlaceIsNewest' /\ \A l \in Links : Replaced(l) => Replaced(l)'
  BY <1>1, SamePlaces DEF HookOnly
<1>3. Onward
  BY <1>2 DEF Onward
<1>4. ClosesAreKept' /\ BarriersAreBehind'
  BY <1>3, NothingQueued DEF HookOnly
<1> QED BY <1>2, <1>4

\* A connection is found to use an address: nothing is about to be released
\* there, and elsewhere nothing changes.
LEMMA HandshakeKeeps ==
  ASSUME RInv, IrohAssumption, NEW k \in Conns, NEW a \in Addrs, Handshake(k, a)
  PROVE  RInv'
<1> USE DEF RInv
<1>1. TypeOK'
  BY HookTypes
<1>2. \A l \in Links : /\ link'[l].addr = link[l].addr /\ link'[l].st = link[l].st
                       /\ link'[l].signal = link[l].signal /\ link'[l].armed = link[l].armed
                       /\ link[l].addr # a => link'[l].carried = link[l].carried
  <2>1. ASSUME NEW l \in Links
        PROVE  /\ link[l] \in LinkStates
               /\ link'[l] \in {link[l], [link[l] EXCEPT !.carried = TRUE]}
               /\ link[l].addr # a => link'[l] = link[l]
    BY DEF Handshake, LinksOf, TypeOK
  <2>2. ASSUME NEW l \in Links
        PROVE  /\ link'[l].addr = link[l].addr /\ link'[l].st = link[l].st
               /\ link'[l].signal = link[l].signal /\ link'[l].armed = link[l].armed
    <3>1. CASE link'[l] = link[l]
      BY <3>1
    <3>2. CASE link'[l] = [link[l] EXCEPT !.carried = TRUE]
      BY <2>1, <3>2, LinkMarks
    <3> QED BY <2>1, <3>1, <3>2
  <2> QED BY <2>1, <2>2
<1>3. /\ UNCHANGED <<links, queue, attaching, drained, barriers>>
      /\ conn[k] \in {"none", "open"} /\ \A m \in Conns : m # k => conn'[m] = conn[m]
  BY DEF Handshake, book, TypeOK
<1>4. /\ learned'[a].connections = learned[a].connections \cup {k}
      /\ \A b \in Addrs : b # a => learned'[b] = learned[b]
  BY DEF Handshake, Learns, TypeOK, Uses
<1>5. HookOnly
  BY <1>2, <1>3 DEF HookOnly, PlaceIsNewest
<1>6. \A m \in Conns : conn[m] \in Asking => conn'[m] \in Asking
  BY <1>3 DEF Asking
<1>7. ASSUME NEW l \in Links, NEW m \in Conns, queue[l] # <<>>, ClosePending(m, l)
      PROVE  ClosePending(m, l)'
  <2>1. m # k /\ link[l].addr \in Addrs
    BY <1>3, <1>7, BornHasAddr DEF ClosePending, PlaceIsNewest
  <2>2. m \in learned'[link[l].addr].connections
    BY <1>4, <1>7, <2>1 DEF ClosePending
  <2> QED BY <1>2, <1>3, <1>7, <2>1, <2>2 DEF ClosePending
<1>8. Numbered' /\ PlaceIsNewest' /\ ClosesAreKept' /\ BarriersAreBehind'
  BY <1>1, <1>3, <1>5, <1>6, <1>7, HookKeeps
<1>9. ReleaseIsComing'
  <2> SUFFICES ASSUME NEW l \in Links, link'[l].st = "up", link'[l].carried,
                      learned'[link'[l].addr].connections = {}
               PROVE  link'[l].signal \/ link'[l].armed
    BY DEF ReleaseIsComing, InUse
  <2>1. link[l].st = "up" /\ link[l].addr \in Addrs /\ link[l].addr # a
    BY <1>2, <1>4, BornHasAddr
  <2>2. link[l].carried /\ ~InUse(link[l].addr)
    BY <1>2, <1>4, <2>1 DEF InUse
  <2> QED BY <1>2, <2>1, <2>2 DEF ReleaseIsComing
<1> QED BY <1>1, <1>8, <1>9

\* A connection starts to close, or has drained: it goes on using its
\* addresses.
LEMMA ClosingKeeps ==
  ASSUME RInv, IrohAssumption, NEW k \in Conns,
         ClosedHere(k) \/ ClosedByPeer(k) \/ Drains(k) \/ Forgotten(k)
  PROVE  RInv'
<1> USE DEF RInv
<1>1. TypeOK'
  <2>1. current \in Addrs
    BY DEF TypeOK
  <2> QED BY <2>1, HookTypes
<1>2. UNCHANGED <<links, link, queue, attaching>>
  BY DEF ClosedHere, ClosedByPeer, CloseStarts, Drains, Forgotten, book
<1>3. \A a \in Addrs : learned'[a].connections = learned[a].connections
  <2>1. CASE ClosedHere(k) \/ ClosedByPeer(k)
    BY <2>1 DEF ClosedHere, ClosedByPeer, CloseStarts, TypeOK, Uses
  <2>2. CASE Drains(k)
    BY <2>2 DEF Drains
  <2>3. CASE Forgotten(k)
    <3>1. ASSUME NEW a \in Addrs, learned'[a] = NoneLearned, ~InUse(a)
          PROVE  learned'[a].connections = learned[a].connections
      BY <3>1 DEF InUse, NoneLearned
    <3>2. ASSUME NEW a \in Addrs, learned'[a] = [learned[a] EXCEPT !.ended = @ \ {k}]
          PROVE  learned'[a].connections = learned[a].connections
      BY <3>2 DEF TypeOK, Uses
    <3> QED BY <2>3, <3>1, <3>2 DEF Forgotten
  <2> QED BY <2>1, <2>2, <2>3
<1>4. /\ drained \subseteq drained'
      /\ \A m \in Conns : m # k => conn'[m] = conn[m] /\ barriers'[m] = barriers[m]
      /\ barriers'[k] \subseteq barriers[k]
      /\ conn[k] \notin Asking \/ conn'[k] \in Asking
      /\ conn[k] \notin {"closingBuilt", "waiting"} \/ k \in drained'
  <2>1. CASE ClosedHere(k) \/ ClosedByPeer(k)
    BY <2>1 DEF ClosedHere, ClosedByPeer, CloseStarts, TypeOK, Asking
  <2>2. CASE Drains(k)
    BY <2>2 DEF Drains, TypeOK, Asking
  <2>3. CASE Forgotten(k)
    BY <2>3 DEF Forgotten, TypeOK, Asking
  <2> QED BY <2>1, <2>2, <2>3
<1>5. HookOnly
  BY <1>2, <1>4 DEF HookOnly, PlaceIsNewest
<1>6. ASSUME NEW l \in Links, NEW m \in Conns, queue[l] # <<>>, ClosePending(m, l)
      PROVE  ClosePending(m, l)' \/ m \in drained'
  <2>1. CASE m = k
    BY <1>4, <1>6, <2>1 DEF ClosePending
  <2>2. CASE m # k
    <3>1. link[l].addr \in Addrs
      BY <1>6, BornHasAddr DEF PlaceIsNewest
    <3> QED BY <1>2, <1>3, <1>4, <1>6, <2>2, <3>1 DEF ClosePending
  <2> QED BY <2>1, <2>2
<1>7. Numbered' /\ PlaceIsNewest' /\ ClosesAreKept' /\ BarriersAreBehind'
  BY <1>1, <1>4, <1>5, <1>6, HookKeeps
<1>8. ReleaseIsComing'
  <2>1. \A l \in Links : link[l].st = "up" => link[l].addr \in Addrs
    BY BornHasAddr
  <2> QED BY <1>2, <1>3, <2>1, SameReleases DEF InUse
<1> QED BY <1>1, <1>7, <1>8

\* close_sent asks a link: its barrier goes behind the close.
LEMMA AskKeeps ==
  ASSUME RInv, TypeOK', IrohAssumption, NEW k \in Conns, NEW l \in Links,
         BarrierQueued(k, l), l \in barriers'[k], Onward, conn'[k] \in Asking,
         UNCHANGED <<links, link, learned, attaching>>,
         \A m \in Links, j \in Conns :
           link[m].st \in {"none", "down"} => m \notin barriers'[j]
  PROVE  RInv'
<1> USE DEF RInv
<1>1. link[l].st \notin {"none", "down"}
  OBVIOUS
<1>2. \A m \in Links : m # l => queue'[m] = queue[m]
  BY DEF BarrierQueued, TypeOK
<1>3. \A m \in Links : link[m].st \in {"none", "down"} =>
        queue'[m] = <<>> /\ \A j \in Conns : m \notin barriers'[j]
  BY <1>1, <1>2 DEF PlaceIsNewest
<1>4. Numbered' /\ PlaceIsNewest'
  BY <1>3, SamePlaces
<1>5. ClosesAreKept' /\ BarriersAreBehind'
  <2> DEFINE packet == Entry("barrier", k)
  <2>1. /\ packet \in Entries
        /\ \A m \in Conns : packet # Entry("close", m) /\ (packet = Entry("barrier", m) <=> m = k)
    BY EntriesTyped, EntriesDiffer
  <2>2. queue' = [queue EXCEPT ![l] = Append(@, packet)]
    BY DEF BarrierQueued
  <2> HIDE DEF packet
  <2> QED BY <2>1, <2>2, PacketQueued
<1>6. ReleaseIsComing'
  BY DEF ReleaseIsComing, InUse
<1> QED BY <1>4, <1>5, <1>6

\* The close is counted: every link that has it and has not been replaced is
\* among those that are asked.
LEMMA CountedKeeps ==
  ASSUME RInv, IrohAssumption, NEW k \in Conns, CloseCounted(k)
  PROVE  RInv'
<1> USE DEF RInv
<1>1. TypeOK'
  <2>1. current \in Addrs
    BY DEF TypeOK
  <2> QED BY <2>1, HookTypes
<1>2. /\ UNCHANGED <<links, link, learned, attaching, drained>>
      /\ conn[k] = "closingBuilt" /\ conn'[k] = "waiting" /\ barriers'[k] = BarrierLinks(k)
      /\ \A m \in Conns : m # k => conn'[m] = conn[m] /\ barriers'[m] = barriers[m]
  BY DEF CloseCounted, book, TypeOK
<1>3. \A l \in BarrierLinks(k) : l \in Links /\ link[l].st \notin {"none", "down"}
  <2>1. ASSUME NEW a \in Addrs, links[a] # None
        PROVE  links[a] \in Links /\ link[links[a]].st \notin {"none", "down"}
    <3>1. links[a] \in Links /\ link[links[a]].addr = a /\ link[links[a]].st # "down"
      BY <2>1 DEF PlaceIsNewest, TypeOK
    <3> QED BY <3>1, LinksAreNumbers DEF Numbered
  <2> QED BY <2>1 DEF BarrierLinks
<1>4. \A l \in Links, m \in Conns : link[l].st \in {"none", "down"} => l \notin barriers'[m]
  BY <1>2, <1>3 DEF PlaceIsNewest
<1>5. \A l \in Links : Replaced(l) => Replaced(l)'
  BY <1>2, ReplacedStays
<1>6. ASSUME NEW l \in Links, NEW m \in Conns, queue[l] # <<>>, ClosePending(m, l), ~Replaced(l)
      PROVE  ClosePending(m, l)'
  <2>1. CASE m # k
    BY <1>2, <1>6, <2>1 DEF ClosePending
  <2>2. CASE m = k
    <3>1. link[l].st \notin {"none", "down"} /\ link[l].addr \in Addrs
      BY <1>6, BornHasAddr DEF PlaceIsNewest
    <3>2. links[link[l].addr] = l /\ l # None
      BY <1>6, <3>1, LinksAreNumbers DEF PlaceIsNewest
    <3>3. l \in BarrierLinks(k)
      BY <1>6, <2>2, <3>1, <3>2 DEF BarrierLinks, ClosePending
    <3> QED BY <1>2, <1>6, <2>2, <3>3 DEF ClosePending
  <2> QED BY <2>1, <2>2
<1>7. \A m \in Conns : conn[m] \in Asking => conn'[m] \in Asking
  BY <1>2 DEF Asking
<1>8. Onward
  BY <1>2, <1>5, <1>6, <1>7 DEF Onward
<1>9. CASE BarrierLinks(k) = {} /\ UNCHANGED queue
  <2>1. \A l \in Links : link[l].st \in {"none", "down"} =>
          queue'[l] = <<>> /\ \A m \in Conns : l \notin barriers'[m]
    BY <1>4, <1>9 DEF PlaceIsNewest
  <2>2. Numbered' /\ PlaceIsNewest'
    BY <1>1, <1>2, <2>1, SamePlaces
  <2>3. ClosesAreKept' /\ BarriersAreBehind'
    BY <1>8, <1>9, NothingQueued
  <2>4. ReleaseIsComing'
    BY <1>2 DEF ReleaseIsComing, InUse
  <2> QED BY <1>1, <2>2, <2>3, <2>4
<1>10. CASE \E l \in BarrierLinks(k) : BarrierQueued(k, l)
  <2>1. PICK l \in Links : BarrierQueued(k, l) /\ l \in barriers'[k]
    BY <1>2, <1>3, <1>10
  <2>2. conn'[k] \in Asking
    BY <1>2 DEF Asking
  <2> HIDE DEF RInv
  <2> QED BY <1>1, <1>2, <1>4, <1>8, <2>1, <2>2, AskKeeps
<1> QED BY <1>9, <1>10 DEF CloseCounted

\* The next link is asked.
LEMMA NextAskedKeeps ==
  ASSUME RInv, IrohAssumption, NEW k \in Conns, NextAsked(k)
  PROVE  RInv'
<1>1. TypeOK'
  <2>1. current \in Addrs
    BY DEF RInv, TypeOK
  <2> QED BY <2>1, HookTypes DEF RInv
<1>2. /\ UNCHANGED <<links, link, learned, conn, drained, barriers, attaching>>
      /\ conn[k] \in Asking
  BY DEF NextAsked, hooks, book, Asking
<1>3. PICK l \in Links : BarrierQueued(k, l) /\ l \in barriers'[k]
  BY <1>2 DEF NextAsked, RInv, TypeOK
<1>4. \A m \in Links : Replaced(m) => Replaced(m)'
  BY <1>2, ReplacedStays
<1>5. Onward
  BY <1>2, <1>4 DEF Onward, ClosePending
<1>6. \A m \in Links, j \in Conns : link[m].st \in {"none", "down"} => m \notin barriers'[j]
  BY <1>2 DEF RInv, PlaceIsNewest
<1> QED BY <1>1, <1>2, <1>3, <1>5, <1>6, AskKeeps

\* A connection is forgotten: its close was never pending, is out, or QUIC gave
\* it up, and the links of the addresses it leaves unused are signalled.
LEMMA ForgetsKeeps ==
  ASSUME RInv, IrohAssumption, NEW k \in Conns, Forgets(k)
  PROVE  RInv'
<1> USE DEF RInv
<1> DEFINE free == {a \in Addrs : learned[a].connections = {k}}
<1>1. TypeOK'
  <2>1. current \in Addrs
    BY DEF TypeOK
  <2> QED BY <2>1, HookTypes
<1>2. /\ UNCHANGED <<links, queue, attaching, drained>>
      /\ conn'[k] = "ended" /\ \A m \in Conns : m # k => conn'[m] = conn[m]
      /\ barriers'[k] = {} /\ \A m \in Conns : m # k => barriers'[m] = barriers[m]
  BY DEF Forgets, book, TypeOK
<1>3. \A a \in Addrs : learned'[a].connections = learned[a].connections \ {k}
  BY DEF Forgets, TypeOK, Uses
<1>4. \A l \in Links : /\ link'[l].addr = link[l].addr /\ link'[l].st = link[l].st
                       /\ link'[l].carried = link[l].carried
                       /\ link'[l].armed = link[l].armed
                       /\ link[l].signal => link'[l].signal
                       /\ (\E a \in free : l \in Signalled(a)) => link'[l].signal
  <2>1. ASSUME NEW l \in Links
        PROVE  /\ link[l] \in LinkStates
               /\ link'[l] = IF \E a \in free : l \in Signalled(a)
                             THEN [link[l] EXCEPT !.signal = TRUE] ELSE link[l]
    BY DEF Forgets, TypeOK
  <2> HIDE DEF free, Signalled
  <2>2. ASSUME NEW l \in Links
        PROVE  /\ link'[l].addr = link[l].addr /\ link'[l].st = link[l].st
               /\ link'[l].carried = link[l].carried
               /\ link'[l].armed = link[l].armed
               /\ link[l].signal => link'[l].signal
               /\ (\E a \in free : l \in Signalled(a)) => link'[l].signal
    <3>1. CASE \E a \in free : l \in Signalled(a)
      <4>1. link'[l] = [link[l] EXCEPT !.signal = TRUE] /\ link[l] \in LinkStates
        BY <2>1, <3>1
      <4> QED BY <4>1, LinkMarks
    <3>2. CASE ~\E a \in free : l \in Signalled(a)
      BY <2>1, <3>2
    <3> QED BY <3>1, <3>2
  <2> QED BY <2>2
<1>5. HookOnly
  BY <1>2, <1>4 DEF HookOnly, PlaceIsNewest
<1>6. \A m \in Conns : conn[m] \in Asking => conn'[m] \in Asking
  BY <1>2 DEF Asking
<1>7. ASSUME NEW l \in Links, NEW m \in Conns, queue[l] # <<>>, ClosePending(m, l)
      PROVE  ClosePending(m, l)' \/ m \in drained'
  <2>1. CASE m = k
    BY <1>2, <1>7, <2>1 DEF ClosePending, Forgets
  <2>2. CASE m # k
    <3>1. link[l].addr \in Addrs
      BY <1>7, BornHasAddr DEF PlaceIsNewest
    <3> QED BY <1>2, <1>3, <1>4, <1>7, <2>2, <3>1 DEF ClosePending
  <2> QED BY <2>1, <2>2
<1>8. Numbered' /\ PlaceIsNewest' /\ ClosesAreKept' /\ BarriersAreBehind'
  BY <1>1, <1>2, <1>5, <1>6, <1>7, HookKeeps
<1>9. ReleaseIsComing'
  <2> SUFFICES ASSUME NEW l \in Links, link'[l].st = "up", link'[l].carried,
                      learned'[link'[l].addr].connections = {}
               PROVE  link'[l].signal \/ link'[l].armed
    BY DEF ReleaseIsComing, InUse
  <2>1. link[l].st = "up" /\ link[l].carried /\ link[l].addr \in Addrs
    BY <1>4, BornHasAddr
  <2>2. learned[link[l].addr].connections \subseteq {k}
    BY <1>3, <1>4, <2>1
  <2>3. CASE ~InUse(link[l].addr)
    BY <1>4, <2>1, <2>3 DEF ReleaseIsComing
  <2>4. CASE InUse(link[l].addr)
    <3>1. learned[link[l].addr].connections = {k}
      BY <2>2, <2>4 DEF InUse
    <3>2. link[l].addr \in free /\ l \in Signalled(link[l].addr)
      BY <2>1, <3>1 DEF Signalled, LinksOf
    <3> QED BY <1>4, <3>2
  <2> QED BY <2>3, <2>4
<1> QED BY <1>1, <1>8, <1>9

-----------------------------------------------------------------------------
(* The theorems *)

\* The invariant holds before the first packet.
LEMMA InitHolds ==
  ASSUME Init, IrohAssumption
  PROVE  RInv
<1>1. <<>> \in Seq(Entries) /\ DOMAIN <<>> = {} /\ 1 .. 0 = {} /\ 0 \in 0 .. MaxLinks
  BY DEF IrohAssumption
<1>2. Unborn \in LinkStates /\ NoneLearned \in Uses
  BY DEF Unborn, LinkStates, NoneLearned, Uses
<1>3. TypeOK
  BY <1>1, <1>2 DEF Init, TypeOK
<1>4. Numbered
  BY <1>1 DEF Init, Numbered, Unborn
<1>5. PlaceIsNewest /\ ClosesAreKept /\ BarriersAreBehind /\ ReleaseIsComing
  BY <1>1 DEF Init, PlaceIsNewest, ClosesAreKept, BarriersAreBehind, ReleaseIsComing, Unborn
<1> QED BY <1>3, <1>4, <1>5 DEF RInv

\* Every step keeps it.
LEMMA StepKeeps ==
  ASSUME RInv, IrohAssumption, [Next]_vars
  PROVE  RInv'
<1>1. CASE UNCHANGED vars
  <2>1. TypeOK' /\ Numbered'
    BY <1>1 DEF vars, hooks, book, RInv, TypeOK, Numbered
  <2>2. PlaceIsNewest'
    BY <1>1 DEF vars, hooks, RInv, PlaceIsNewest, Replaced, LinksOf
  <2>3. ClosesAreKept' /\ BarriersAreBehind'
    BY <1>1 DEF vars, hooks, RInv, ClosesAreKept, BarriersAreBehind, Replaced, LinksOf,
       ClosePending
  <2>4. ReleaseIsComing'
    BY <1>1 DEF vars, RInv, ReleaseIsComing, InUse
  <2> QED BY <2>1, <2>2, <2>3, <2>4 DEF RInv
<1>2. ASSUME NEW l \in Links, LinkStep(l) PROVE RInv'
  <2>1. current \in Addrs
    BY DEF RInv, TypeOK
  <2> QED BY <1>2, <2>1, QuietKeeps, SentKeeps, EndKeeps, GoneKeeps DEF LinkStep
<1>3. ASSUME NEW k \in Conns, HookStep(k) PROVE RInv'
  BY <1>3, ClosingKeeps, CloseBuiltKeeps, CountedKeeps, NextAskedKeeps, ForgetsKeeps DEF HookStep
<1>4. ASSUME NEW k \in Conns, NEW a \in Addrs, IrohSends(k, a) \/ Handshake(k, a) PROVE RInv'
  BY <1>4, SendsKeep, HandshakeKeeps
<1>5. ASSUME NEW a \in Addrs, Attached(a) PROVE RInv'
  BY <1>5, AttachedKeeps
<1>6. ASSUME NEW a \in Addrs, AttachBegins(a) \/ SetPeerAddress(a) \/ YieldEnds(a) PROVE RInv'
  <2>1. 1 \in Links
    BY DEF IrohAssumption, Links
  <2> QED BY <1>6, <2>1, QuietKeeps
<1> QED BY <1>1, <1>2, <1>3, <1>4, <1>5, <1>6 DEF Next

\* Links are numbered and hold their places, closes stay pending and releases
\* stay coming, in every reachable state.
THEOREM IrohInvariance == Spec => []RInv
<1>1. Init => RInv
  BY InitHolds, IrohAssumption
<1>2. RInv /\ [Next]_vars => RInv'
  BY StepKeeps, IrohAssumption
<1> QED BY <1>1, <1>2, PTL DEF Spec

\* iroh's packets go to the newest channel of an address (run_link, the dial and
\* attach take the place; only the holder gives it up).
THEOREM NewestLinkOwns == Spec => []NewestOwns
<1>1. RInv => NewestOwns
  <2> SUFFICES ASSUME RInv, NEW a \in Addrs, NEW l \in Links, link[l].addr = a,
                      link[l].st \in {"dialling", "spawned", "up"},
                      \A m \in LinksOf(a) : m <= l
               PROVE  links[a] = l
    BY DEF NewestOwns, LinksOf
  <2>1. ~Replaced(l)
    BY LinksAreNumbers, IrohAssumption DEF Replaced, LinksOf
  <2> QED BY <2>1 DEF RInv, PlaceIsNewest
<1> QED BY <1>1, IrohInvariance, PTL

\* The release of a link nothing uses any more is never lost (forget_connection
\* signals every running link, run_link asks when it starts).
THEOREM ReleasesCome == Spec => []ReleaseIsComing
<1>1. RInv => ReleaseIsComing
  BY DEF RInv
<1> QED BY <1>1, IrohInvariance, PTL

\* A release leaves no CONNECTION_CLOSE behind in the queue of the newest link,
\* unless QUIC gave its connection up (close_sent, forget_connection).
THEOREM ClosesGoOut == Spec => CloseGoesOut
<1> DEFINE Out == \A l \in Links, k \in Conns :
                    Releases(l) /\ Entry("close", k) \in Range(queue[l])
                      => k \in drained \/ Replaced(l)
<1>1. ASSUME RInv, NEW l \in Links, NEW k \in Conns,
             Releases(l), Entry("close", k) \in Range(queue[l])
      PROVE  k \in drained \/ Replaced(l)
  <2>1. PICK i \in DOMAIN queue[l] : queue[l][i] = Entry("close", k)
    BY <1>1 DEF Range
  <2>2. k \in drained \/ Replaced(l) \/ ClosePending(k, l)
    BY <1>1, <2>1 DEF RInv, ClosesAreKept
  <2>3. ~ClosePending(k, l)
    BY <1>1 DEF Releases, InUse, ClosePending
  <2> QED BY <2>2, <2>3
<1>2. RInv /\ [Next]_vars => [Out]_vars
  BY <1>1
<1>3. Spec => [][Out]_vars
  BY <1>2, IrohInvariance, PTL DEF Spec
<1> QED BY <1>3 DEF CloseGoesOut
=============================================================================
