-------------------------- MODULE AndroidClientProofs --------------------------
(***************************************************************************)
(* As long as no call has acted on another call's session, no write waits  *)
(* for a completion that another id has taken, and no address refuses      *)
(* dials with nothing behind it: for any number of connect() calls, writes *)
(* and retries.                                                            *)
(***************************************************************************)
EXTENDS AndroidClient, TLAPS, SequenceTheorems

-----------------------------------------------------------------------------
(* Queues *)

\* What is put in a queue stands behind everything else.
LEMMA AppendHolds ==
  ASSUME NEW S, NEW q \in Seq(S), NEW x \in S
  PROVE  /\ Append(q, x) \in Seq(S) /\ Len(q) \in Nat
         /\ Len(Append(q, x)) = Len(q) + 1
         /\ DOMAIN q = 1 .. Len(q) /\ DOMAIN Append(q, x) = 1 .. (Len(q) + 1)
         /\ \A i \in DOMAIN q : Append(q, x)[i] = q[i]
         /\ Append(q, x)[Len(q) + 1] = x
  BY AppendProperties, LenProperties

\* A queue without its head holds what stood behind it.
LEMMA TailHolds ==
  ASSUME NEW S, NEW q \in Seq(S), q # <<>>
  PROVE  /\ Tail(q) \in Seq(S) /\ Head(q) \in S /\ Head(q) = q[1] /\ 1 \in DOMAIN q
         /\ Len(q) \in Nat \ {0} /\ DOMAIN q = 1 .. Len(q)
         /\ Len(Tail(q)) = Len(q) - 1 /\ DOMAIN Tail(q) = 1 .. (Len(q) - 1)
         /\ \A i \in DOMAIN Tail(q) : i + 1 \in DOMAIN q /\ Tail(q)[i] = q[i + 1]
<1>1. Len(q) \in Nat /\ DOMAIN q = 1 .. Len(q) /\ Len(q) # 0
  BY EmptySeq, LenProperties
<1>2. /\ Head(q) \in S /\ Tail(q) \in Seq(S)
      /\ Len(Tail(q)) = Len(q) - 1
      /\ \A i \in 1 .. Len(Tail(q)) : Tail(q)[i] = q[i + 1]
  BY HeadTailProperties
<1>3. DOMAIN Tail(q) = 1 .. (Len(q) - 1)
  BY <1>2, LenProperties
<1>4. Head(q) = q[1]
  OBVIOUS
<1> QED BY <1>1, <1>2, <1>3, <1>4

\* A queue without the one at p.
LEMMA RemoveAtHolds ==
  ASSUME NEW S, NEW q \in Seq(S), NEW p \in DOMAIN q
  PROVE  /\ RemoveAt(q, p) \in Seq(S) /\ Len(q) \in Nat /\ DOMAIN q = 1 .. Len(q)
         /\ DOMAIN RemoveAt(q, p) = 1 .. (Len(q) - 1)
         /\ \A i \in 1 .. (Len(q) - 1) :
              RemoveAt(q, p)[i] = IF i < p THEN q[i] ELSE q[i + 1]
<1>1. Len(q) \in Nat /\ DOMAIN q = 1 .. Len(q)
  BY LenProperties
<1> DEFINE a == SubSeq(q, 1, p - 1)
           b == SubSeq(q, p + 1, Len(q))
<1>2. a \in Seq(S) /\ Len(a) = p - 1 /\ \A i \in 1 .. (p - 1) : a[i] = q[i]
  BY <1>1, SubSeqProperties
<1>3. b \in Seq(S) /\ Len(b) = Len(q) - p /\ \A i \in 1 .. (Len(q) - p) : b[i] = q[p + i]
  BY <1>1, SubSeqProperties
<1>4. RemoveAt(q, p) = a \o b
  BY DEF RemoveAt
<1> HIDE DEF a, b
<1>5. /\ a \o b \in Seq(S) /\ Len(a \o b) = Len(a) + Len(b)
      /\ \A i \in 1 .. (Len(a) + Len(b)) :
           (a \o b)[i] = IF i <= Len(a) THEN a[i] ELSE b[i - Len(a)]
  BY <1>2, <1>3, ConcatProperties
<1>6. Len(a) + Len(b) = Len(q) - 1 /\ DOMAIN (a \o b) = 1 .. (Len(q) - 1)
  <2>1. Len(a) + Len(b) = Len(q) - 1
    BY <1>1, <1>2, <1>3
  <2> QED BY <1>5, <2>1, LenProperties
<1>7. \A i \in 1 .. (Len(q) - 1) : (a \o b)[i] = IF i < p THEN q[i] ELSE q[i + 1]
  <2> SUFFICES ASSUME NEW i \in 1 .. (Len(q) - 1)
               PROVE  (a \o b)[i] = IF i < p THEN q[i] ELSE q[i + 1]
    OBVIOUS
  <2>1. CASE i < p
    <3>1. i \in 1 .. (p - 1) /\ i <= Len(a)
      BY <1>1, <1>2, <2>1
    <3> QED BY <1>2, <1>5, <1>6, <2>1, <3>1
  <2>2. CASE ~(i < p)
    <3>1. /\ ~(i <= Len(a)) /\ i - Len(a) \in 1 .. (Len(q) - p)
          /\ p + (i - Len(a)) = i + 1
      BY <1>1, <1>2, <2>2
    <3> QED BY <1>3, <1>5, <1>6, <2>2, <3>1
  <2> QED BY <2>1, <2>2
<1> QED BY <1>1, <1>4, <1>5, <1>6, <1>7

\* Where the queue names nothing twice, the first w is at its only place.
LEMMA RemoveFirstIs ==
  ASSUME NEW S, NEW q \in Seq(S), NEW w,
         \A i, j \in DOMAIN q : q[i] = q[j] => i = j
  PROVE  /\ (\A i \in DOMAIN q : q[i] # w) => RemoveFirst(q, w) = q
         /\ \A p \in DOMAIN q : q[p] = w => RemoveFirst(q, w) = RemoveAt(q, p)
<1>1. Len(q) \in Nat /\ DOMAIN q = 1 .. Len(q)
  BY LenProperties
<1>2. ASSUME \A i \in DOMAIN q : q[i] # w PROVE RemoveFirst(q, w) = q
  BY <1>1, <1>2 DEF RemoveFirst
<1>3. ASSUME NEW p \in DOMAIN q, q[p] = w
      PROVE  RemoveFirst(q, w) = RemoveAt(q, p)
  <2> DEFINE I == {i \in 1 .. Len(q) : q[i] = w}
  <2>1. I = {p}
    BY <1>1, <1>3
  <2>2. Min(I) = p
    BY <1>1, <2>1 DEF Min
  <2>3. SelectInSeq(q, LAMBDA v : v = w) = p
    BY <2>1, <2>2 DEF SelectInSeq
  <2> QED BY <1>1, <1>3, <2>3 DEF RemoveFirst
<1> QED BY <1>2, <1>3

\* A queue that named nothing twice loses w alone and keeps its order.
LEMMA RemoveHolds ==
  ASSUME NEW S, NEW q \in Seq(S), NEW w,
         \A i, j \in DOMAIN q : q[i] = q[j] => i = j
  PROVE  /\ RemoveFirst(q, w) \in Seq(S)
         /\ \A i \in DOMAIN RemoveFirst(q, w) :
              /\ RemoveFirst(q, w)[i] # w
              /\ \E j \in DOMAIN q : RemoveFirst(q, w)[i] = q[j] /\ j >= i
         /\ \A i, j \in DOMAIN RemoveFirst(q, w) :
              RemoveFirst(q, w)[i] = RemoveFirst(q, w)[j] => i = j
         /\ \A k \in DOMAIN q : (\A i \in 1 .. k : q[i] # w)
              => k \in DOMAIN RemoveFirst(q, w) /\ RemoveFirst(q, w)[k] = q[k]
<1>1. Len(q) \in Nat /\ DOMAIN q = 1 .. Len(q)
  BY LenProperties
<1>2. CASE \A i \in DOMAIN q : q[i] # w
  <2>1. RemoveFirst(q, w) = q
    BY <1>2, RemoveFirstIs
  <2> QED BY <1>1, <1>2, <2>1
<1>3. ASSUME NEW p \in DOMAIN q, q[p] = w
      PROVE  /\ RemoveFirst(q, w) \in Seq(S)
             /\ \A i \in DOMAIN RemoveFirst(q, w) :
                  /\ RemoveFirst(q, w)[i] # w
                  /\ \E j \in DOMAIN q : RemoveFirst(q, w)[i] = q[j] /\ j >= i
             /\ \A i, j \in DOMAIN RemoveFirst(q, w) :
                  RemoveFirst(q, w)[i] = RemoveFirst(q, w)[j] => i = j
             /\ \A k \in DOMAIN q : (\A i \in 1 .. k : q[i] # w)
                  => k \in DOMAIN RemoveFirst(q, w) /\ RemoveFirst(q, w)[k] = q[k]
  <2> DEFINE r == RemoveFirst(q, w)
  <2>1. r = RemoveAt(q, p)
    BY <1>3, RemoveFirstIs
  <2> HIDE DEF r
  <2>2. /\ r \in Seq(S) /\ DOMAIN r = 1 .. (Len(q) - 1)
        /\ \A i \in 1 .. (Len(q) - 1) : r[i] = IF i < p THEN q[i] ELSE q[i + 1]
    BY <2>1, RemoveAtHolds
  <2>3. \A i \in DOMAIN r : r[i] # w /\ \E j \in DOMAIN q : r[i] = q[j] /\ j >= i
    <3> SUFFICES ASSUME NEW i \in DOMAIN r
                 PROVE  r[i] # w /\ \E j \in DOMAIN q : r[i] = q[j] /\ j >= i
      OBVIOUS
    <3>1. CASE i < p
      <4>1. i \in DOMAIN q /\ r[i] = q[i] /\ i # p
        BY <1>1, <2>2, <3>1
      <4> QED BY <1>1, <1>3, <4>1
    <3>2. CASE ~(i < p)
      <4>1. i + 1 \in DOMAIN q /\ r[i] = q[i + 1] /\ i + 1 # p /\ i + 1 >= i
        BY <1>1, <2>2, <3>2
      <4> QED BY <1>3, <4>1
    <3> QED BY <3>1, <3>2
  <2>4. \A i, j \in DOMAIN r : r[i] = r[j] => i = j
    <3> SUFFICES ASSUME NEW i \in DOMAIN r, NEW j \in DOMAIN r, r[i] = r[j]
                 PROVE  i = j
      OBVIOUS
    <3> DEFINE at(n) == IF n < p THEN n ELSE n + 1
    <3>1. at(i) \in DOMAIN q /\ at(j) \in DOMAIN q /\ r[i] = q[at(i)] /\ r[j] = q[at(j)]
      BY <1>1, <2>2
    <3>2. at(i) = at(j)
      BY <3>1
    <3> QED BY <1>1, <2>2, <3>2
  <2>5. ASSUME NEW k \in DOMAIN q, \A i \in 1 .. k : q[i] # w
        PROVE  k \in DOMAIN r /\ r[k] = q[k]
    <3>1. k < p
      BY <1>1, <1>3, <2>5
    <3> QED BY <1>1, <2>2, <3>1
  <2> QED BY <2>2, <2>3, <2>4, <2>5 DEF r
<1> QED BY <1>2, <1>3

-----------------------------------------------------------------------------
(* What the invariant says of a write and of the queue *)

\* None is the name of nothing.
LEMMA NamesDiffer ==
  /\ None \notin Calls /\ "zero" \notin Calls /\ None # "zero"
  /\ \A w \in Writes : w \notin First /\ w # "disconnected" /\ w # None
  /\ None \notin First /\ None # "disconnected"
  BY AndroidAssumption DEF None, First

\* A write was issued by a handle that is still there, on a link that is up.
LEMMA HandleIsThere ==
  ASSUME AInv, ~crossed, NEW w \in Writes, by[w] # None
  PROVE  /\ by[w] \in Calls /\ mine[by[w]] = by[w]
         /\ call[by[w]] \in {"open", "leaving"} /\ rx[by[w]] = "ok"
         /\ gatt[by[w]] \in {"ready", "down", "closed"}
         /\ \A i \in DOMAIN callbacks[by[w]] : callbacks[by[w]][i] \notin First
<1>1. by[w] \in Calls /\ mine[by[w]] = by[w]
  BY DEF AInv, TypeOK, WritesAreApart
<1>2. call[by[w]] \in {"open", "leaving"} /\ rx[by[w]] = "ok"
  BY <1>1 DEF AInv, WaitersAgree
<1> QED BY <1>1, <1>2 DEF AInv, LinksAreApart

\* A write that waits holds the slot of the entry of the link that is up.
LEMMA WaitingHoldsLink ==
  ASSUME AInv, ~crossed, NEW w \in Writes, op[w] = "waiting" \/ entry.write = w
  PROVE  /\ op[w] = "waiting" /\ entry.write = w /\ entry.here /\ entry.live
         /\ entry.session = by[w] /\ current = by[w] /\ current \in Calls
         /\ current # None /\ entry.waiter = None
         /\ call[current] \in {"open", "leaving"} /\ rx[current] = "ok"
         /\ \A i \in DOMAIN callbacks[current] : callbacks[current][i] \notin First
<1>1. op[w] = "waiting" /\ entry.write = w /\ by[w] # None
  BY DEF AInv, WritesAreKnown
<1>2. w # None
  BY NamesDiffer
<1>3. entry.here
  BY <1>1, <1>2 DEF AInv, WaitersAgree, NoEntry
<1>4. entry.session = by[w]
  BY <1>1, <1>2 DEF AInv, WritesAreApart
<1>5. /\ by[w] \in Calls /\ rx[by[w]] = "ok" /\ call[by[w]] \in {"open", "leaving"}
      /\ \A i \in DOMAIN callbacks[by[w]] : callbacks[by[w]][i] \notin First
  BY <1>1, HandleIsThere
<1>6. current = by[w] /\ entry.live
  BY <1>3, <1>4, <1>5 DEF AInv, LinksAreApart
<1>7. entry.waiter = None
  BY <1>4, <1>5 DEF AInv, WaitersAgree, None
<1>8. by[w] # None
  BY <1>1
<1> QED BY <1>1, <1>3, <1>4, <1>5, <1>6, <1>7, <1>8

\* What is queued is queued for the link that is up.
LEMMA QueuedForLink ==
  ASSUME AInv, ~crossed, NEW i \in DOMAIN queue
  PROVE  /\ queue[i] \in Writes /\ Started(queue[i])
         /\ by[queue[i]] = current /\ current \in Calls /\ current # None
         /\ call[current] \in {"open", "leaving"} /\ rx[current] = "ok"
         /\ \A k \in DOMAIN callbacks[current] : callbacks[current][k] \notin First
<1>1. queue[i] \in Writes
  BY LenProperties DEF AInv, TypeOK
<1>2. Started(queue[i]) /\ by[queue[i]] = current
  BY DEF AInv, WritesAreKnown, WritesAreApart
<1>3. by[queue[i]] # None
  BY <1>1, <1>2 DEF AInv, WritesAreKnown, Started
<1> QED BY <1>1, <1>2, <1>3, HandleIsThere

\* Nothing is queued where no link is up.
LEMMA QueueIsEmpty ==
  ASSUME AInv, ~crossed, current = None \/ call[current] = "waiting"
  PROVE  queue = <<>>
<1>1. \A i \in DOMAIN queue : FALSE
  BY QueuedForLink
<1>2. queue \in Seq(Writes)
  BY DEF AInv, TypeOK
<1>3. Len(queue) \in Nat /\ DOMAIN queue = 1 .. Len(queue)
  BY <1>2, LenProperties
<1>4. Len(queue) = 0
  <2>1. Len(queue) # 0 => 1 \in DOMAIN queue
    BY <1>3
  <2> QED BY <1>1, <2>1
<1> QED BY <1>2, <1>4, EmptySeq

\* Nobody has a write whose first attempt is still to be made.
LEMMA FreshIsNowhere ==
  ASSUME AInv, NEW w \in Writes, jni[w] = "write" \/ op[w] = "idle"
  PROVE  /\ w \notin retry /\ \A i \in DOMAIN queue : queue[i] # w
         /\ \A g \in Calls : inFlight[g] # w
         /\ \A g \in Calls : \A i \in DOMAIN callbacks[g] : callbacks[g][i] # w
  BY NamesDiffer DEF AInv, WritesAreKnown, Started

-----------------------------------------------------------------------------
(* What the bridge's calls do to Rust *)

\* The entry is gone, nobody waits on it and no write does.
LEMMA DisconnectedDoes ==
  ASSUME AInv, Disconnected
  PROVE  /\ entry' = NoEntry /\ entry' \in Entries
         /\ ~entry'.here /\ ~entry'.live /\ entry'.waiter = None /\ entry'.write = None
         /\ rx' \in [Calls -> {None, "ok", "gone"}]
         /\ op' \in [Writes -> {"idle", "waiting", "ok", "failed", "dropped"}]
         /\ \A c \in Calls : /\ rx[c] # None => rx'[c] = rx[c]
                             /\ rx'[c] # "ok" \/ rx[c] = "ok"
                             /\ rx'[c] = None => rx[c] = None
                             /\ call[c] \in Dialling => rx'[c] # None
                             /\ call[c] = "idle" => rx'[c] = None
         /\ \A w \in Writes : /\ op'[w] # "waiting"
                              /\ op'[w] = "idle" <=> op[w] = "idle"
                              /\ op[w] # "waiting" => op'[w] = op[w]
                              /\ op'[w] # "ok" \/ op[w] = "ok"
<1>1. /\ entry' = NoEntry /\ entry' \in Entries
      /\ ~entry'.here /\ ~entry'.live /\ entry'.waiter = None /\ entry'.write = None
  BY DEF Disconnected, NoEntry, Entries
<1>2. \A c \in Calls : rx'[c] = IF c = entry.waiter THEN "gone" ELSE rx[c]
  BY DEF Disconnected
<1>3. \A w \in Writes : op'[w] = IF w = entry.write THEN "failed" ELSE op[w]
  BY DEF Disconnected
<1>4. /\ rx' \in [Calls -> {None, "ok", "gone"}]
      /\ op' \in [Writes -> {"idle", "waiting", "ok", "failed", "dropped"}]
  BY DEF Disconnected, AInv, TypeOK
<1>5. \A c \in Calls : /\ rx[c] # None => rx'[c] = rx[c]
                       /\ rx'[c] # "ok" \/ rx[c] = "ok"
                       /\ rx'[c] = None => rx[c] = None
                       /\ call[c] \in Dialling => rx'[c] # None
                       /\ call[c] = "idle" => rx'[c] = None
  BY <1>2, NamesDiffer DEF AInv, WaitersAgree, TypeOK, None, Dialling
<1>6. \A w \in Writes : /\ op'[w] # "waiting"
                        /\ op'[w] = "idle" <=> op[w] = "idle"
                        /\ op[w] # "waiting" => op'[w] = op[w]
                        /\ op'[w] # "ok" \/ op[w] = "ok"
  BY <1>3 DEF AInv, WritesAreKnown
<1> QED BY <1>1, <1>4, <1>5, <1>6

\* The one who waits is told, and the entry is open.
LEMMA ConnectedDoes ==
  ASSUME AInv, Connected
  PROVE  /\ entry' \in Entries /\ entry'.here /\ entry'.live /\ entry'.waiter = None
         /\ entry'.write = entry.write
         /\ entry.here => entry'.session = entry.session
         /\ ~entry.here => entry'.session = "zero"
         /\ rx' \in [Calls -> {None, "ok", "gone"}] /\ op' = op
         /\ \A c \in Calls : /\ rx'[c] = IF c = entry.waiter THEN "ok" ELSE rx[c]
                             /\ rx[c] # None => rx'[c] = rx[c]
                             /\ call[c] \in Dialling => rx'[c] # None
                             /\ call[c] = "idle" => rx'[c] = None
<1>1. ~entry.here => entry = NoEntry
  BY DEF AInv, WaitersAgree
<1>2. /\ entry' \in Entries /\ entry'.here /\ entry'.live /\ entry'.waiter = None
      /\ entry'.write = entry.write
      /\ entry.here => entry'.session = entry.session
      /\ ~entry.here => entry'.session = "zero"
  <2>1. CASE entry.here
    BY <2>1 DEF Connected, AInv, TypeOK, Entries
  <2>2. CASE ~entry.here
    BY <1>1, <2>2 DEF Connected, Fresh, NoEntry, Entries
  <2> QED BY <2>1, <2>2
<1>3. /\ rx' \in [Calls -> {None, "ok", "gone"}] /\ op' = op
      /\ \A c \in Calls : rx'[c] = IF c = entry.waiter THEN "ok" ELSE rx[c]
  BY DEF Connected, AInv, TypeOK
<1>4. \A c \in Calls : /\ rx[c] # None => rx'[c] = rx[c]
                       /\ call[c] \in Dialling => rx'[c] # None
                       /\ call[c] = "idle" => rx'[c] = None
  BY <1>3, NamesDiffer DEF AInv, WaitersAgree, TypeOK, None, Dialling
<1> QED BY <1>2, <1>3, <1>4

\* The write that waits is answered, if it is the one named.
LEMMA WriteResultDoes ==
  ASSUME AInv, NEW w \in Writes, NEW outcome \in {"ok", "failed"}, WriteResult(w, outcome)
  PROVE  /\ entry' \in Entries
         /\ entry'.here = entry.here /\ entry'.session = entry.session
         /\ entry'.live = entry.live /\ entry'.waiter = entry.waiter
         /\ entry'.leaving = entry.leaving
         /\ entry'.write = IF entry.write = w THEN None ELSE entry.write
         /\ ~entry.here => entry' = NoEntry
         /\ rx' = rx
         /\ op' \in [Writes -> {"idle", "waiting", "ok", "failed", "dropped"}]
         /\ \A v \in Writes :
              op'[v] = IF v = w /\ op[w] = "waiting" THEN outcome ELSE op[v]
<1>1. ~entry.here => entry = NoEntry /\ entry.write = None
  BY DEF AInv, WaitersAgree, NoEntry
<1>2. entry.write = w <=> op[w] = "waiting"
  BY DEF AInv, WritesAreKnown
<1>3. w # None
  BY NamesDiffer
<1>4. CASE entry.write = w
  <2>1. /\ entry' = [entry EXCEPT !.write = None] /\ rx' = rx
        /\ op' = [op EXCEPT ![w] = outcome]
    BY <1>4 DEF WriteResult, Answers
  <2>2. entry' \in Entries /\ op' \in [Writes -> {"idle", "waiting", "ok", "failed", "dropped"}]
    BY <2>1 DEF AInv, TypeOK, Entries
  <2>3. /\ entry'.here = entry.here /\ entry'.session = entry.session
        /\ entry'.live = entry.live /\ entry'.waiter = entry.waiter
        /\ entry'.leaving = entry.leaving /\ entry'.write = None
    BY <2>1 DEF AInv, TypeOK, Entries
  <2>4. \A v \in Writes : op'[v] = IF v = w THEN outcome ELSE op[v]
    BY <2>1 DEF AInv, TypeOK
  <2>5. entry.here
    BY <1>1, <1>3, <1>4
  <2> QED BY <1>2, <1>4, <2>1, <2>2, <2>3, <2>4, <2>5
<1>5. CASE entry.write # w
  BY <1>1, <1>2, <1>5 DEF WriteResult, Answers, AInv, TypeOK
<1> QED BY <1>4, <1>5

\* A call that gives up leaves nobody waiting; the entry of another session goes
\* only where nobody has acted apart.
LEMMA ClearDoes ==
  ASSUME AInv, ClearPendingConnect
  PROVE  /\ entry' \in Entries /\ ~entry'.live /\ entry'.waiter = None
         /\ ~entry'.here => entry' = NoEntry
         /\ entry'.here => entry.here /\ entry'.session = entry.session
         /\ entry'.write = None \/ entry'.write = entry.write
         /\ rx' \in [Calls -> {None, "ok", "gone"}]
         /\ op' \in [Writes -> {"idle", "waiting", "ok", "failed", "dropped"}]
         /\ \A c \in Calls : /\ rx[c] # None => rx'[c] = rx[c]
                             /\ rx'[c] # "ok" \/ rx[c] = "ok"
                             /\ call[c] \in Dialling => rx'[c] # None
                             /\ call[c] = "idle" => rx'[c] = None
         /\ \A w \in Writes : /\ op'[w] = "waiting" <=> entry'.write = w
                              /\ op'[w] = "waiting" => op[w] = "waiting"
                              /\ op'[w] = "idle" <=> op[w] = "idle"
                              /\ op[w] # "waiting" => op'[w] = op[w]
                              /\ op'[w] # "ok" \/ op[w] = "ok"
         /\ \A w \in Writes : op[w] # op'[w] => entry.write = w
<1>1. /\ rx' \in [Calls -> {None, "ok", "gone"}]
      /\ \A c \in Calls : rx'[c] = IF c = entry.waiter THEN "gone" ELSE rx[c]
  BY DEF ClearPendingConnect, AInv, TypeOK
<1>2. \A c \in Calls : /\ rx[c] # None => rx'[c] = rx[c]
                       /\ rx'[c] # "ok" \/ rx[c] = "ok"
                       /\ call[c] \in Dialling => rx'[c] # None
                       /\ call[c] = "idle" => rx'[c] = None
  BY <1>1, NamesDiffer DEF AInv, WaitersAgree, TypeOK, None, Dialling
<1>3. \A w \in Writes : op[w] = "waiting" <=> entry.write = w
  BY DEF AInv, WritesAreKnown
<1>4. \A w \in Writes : w # None
  BY NamesDiffer
<1>5. CASE entry.here /\ entry.leaving # None
  <2>0. /\ entry' = [entry EXCEPT !.waiter = None, !.live = FALSE] /\ op' = op
        /\ entry \in Entries /\ op \in [Writes -> {"idle", "waiting", "ok", "failed", "dropped"}]
    BY <1>5 DEF ClearPendingConnect, AInv, TypeOK
  <2>1. /\ entry' \in Entries /\ ~entry'.live /\ entry'.waiter = None /\ entry'.here
        /\ entry'.session = entry.session /\ entry'.write = entry.write
    BY <1>5, <2>0 DEF Entries
  <2> QED BY <1>1, <1>2, <1>3, <1>5, <2>0, <2>1
<1>6. CASE ~(entry.here /\ entry.leaving # None)
  <2>1. /\ entry' = NoEntry /\ entry' \in Entries /\ ~entry'.live /\ entry'.waiter = None
        /\ ~entry'.here /\ entry'.write = None
    <3>1. entry' = NoEntry
      BY <1>6 DEF ClearPendingConnect
    <3> QED BY <3>1 DEF NoEntry, Entries
  <2>2. /\ op' \in [Writes -> {"idle", "waiting", "ok", "failed", "dropped"}]
        /\ \A w \in Writes : op'[w] = IF w = entry.write THEN "failed" ELSE op[w]
    BY <1>6 DEF ClearPendingConnect, AInv, TypeOK
  <2> QED BY <1>1, <1>2, <1>3, <1>4, <2>1, <2>2
<1> QED BY <1>5, <1>6

-----------------------------------------------------------------------------
(* What an action leaves as it was *)

\* Writes stay known where none is installed, called or given anything new.
LEMMA WritesStay ==
  ASSUME AInv, jni' = jni, by' = by, retry' \subseteq retry,
         \A w \in Writes : /\ op'[w] = "waiting" <=> entry'.write = w
                           /\ op'[w] = "waiting" => op[w] = "waiting"
                           /\ op'[w] = "idle" <=> op[w] = "idle"
                           /\ op[w] # "waiting" => op'[w] = op[w],
         \A i \in DOMAIN queue' : \E j \in DOMAIN queue : queue'[i] = queue[j],
         \A i, j \in DOMAIN queue' : queue'[i] = queue'[j] => i = j,
         \A g \in Calls : inFlight'[g] # None => inFlight'[g] = inFlight[g],
         \A g \in Calls : \A i \in DOMAIN callbacks'[g] :
           callbacks'[g][i] \in Writes => Started(callbacks'[g][i])
  PROVE  WritesAreKnown'
<1>1. \A w \in Writes : Active(w)' => Active(w)
  BY DEF Active
<1>2. \A w \in Writes : Started(w) => Started(w)'
  BY DEF Started
<1>3. \A w \in Writes : /\ op'[w] = "idle" => jni'[w] = "none"
                        /\ op'[w] # "idle" => by'[w] # None
                        /\ jni'[w] = "cancel" => op'[w] = "dropped"
  BY DEF AInv, WritesAreKnown
<1>4. \A v, w \in Writes : Active(v)' /\ Active(w)' /\ by'[v] = by'[w] => v = w
  BY <1>1 DEF AInv, WritesAreKnown
<1>5. \A w \in retry' : Started(w)'
  BY <1>2 DEF AInv, WritesAreKnown, TypeOK
<1>6. \A i \in DOMAIN queue' : Started(queue[i])'
  <2> SUFFICES ASSUME NEW i \in DOMAIN queue' PROVE Started(queue[i])'
    OBVIOUS
  <2>1. PICK j \in DOMAIN queue : queue'[i] = queue[j]
    OBVIOUS
  <2>2. queue[j] \in Writes /\ Started(queue[j])
    BY LenProperties DEF AInv, WritesAreKnown, TypeOK
  <2>3. PICK w \in Writes : w = queue[j]
    BY <2>2
  <2>4. Started(w)'
    BY <1>2, <2>2, <2>3
  <2> QED BY <2>1, <2>3, <2>4 DEF Started
<1>7. \A g \in Calls : inFlight'[g] # None => Started(inFlight[g])'
  <2> SUFFICES ASSUME NEW g \in Calls, inFlight'[g] # None
               PROVE  Started(inFlight[g])'
    OBVIOUS
  <2>1. inFlight[g] \in Writes /\ Started(inFlight[g]) /\ inFlight'[g] = inFlight[g]
    BY DEF AInv, WritesAreKnown, TypeOK
  <2>2. PICK w \in Writes : w = inFlight[g]
    BY <2>1
  <2> QED BY <1>2, <2>1, <2>2 DEF Started
<1>8. \A g \in Calls : \A i \in DOMAIN callbacks'[g] :
        (callbacks[g][i] \in Writes => Started(callbacks[g][i]))'
  <2> SUFFICES ASSUME NEW g \in Calls, NEW i \in DOMAIN callbacks'[g],
                      callbacks'[g][i] \in Writes
               PROVE  Started(callbacks[g][i])'
    OBVIOUS
  <2>1. PICK w \in Writes : w = callbacks'[g][i]
    OBVIOUS
  <2> QED BY <1>2, <2>1 DEF Started
<1> QED BY <1>3, <1>4, <1>5, <1>6, <1>7, <1>8 DEF WritesAreKnown

\* Where only calls, entries or GATTs move, the writes are left alone.
LEMMA WritesUntouched ==
  ASSUME AInv, UNCHANGED <<jni, by, retry, queue, inFlight, callbacks, op>>,
         entry'.write = entry.write
  PROVE  WritesAreKnown'
  BY DEF AInv, WritesAreKnown, Active, Started

\* The callbacks keep their order where none comes or goes and no link is made.
LEMMA OrderUntouched ==
  ASSUME AInv, UNCHANGED <<inFlight, callbacks>>,
         \A g \in Calls : \/ gatt'[g] = gatt[g] \/ gatt'[g] = "closed"
                          \/ gatt[g] = "none" /\ gatt'[g] = "dialling"
  PROVE  CallbacksInOrder'
<1> SUFFICES ASSUME NEW g \in Calls
             PROVE
    (/\ gatt[g] \in {"none", "dialling", "discovering"} => callbacks[g] = <<>>
     /\ gatt[g] \in Up => \A i \in DOMAIN callbacks[g] : callbacks[g][i] # "disconnected"
     /\ gatt[g] = "linked" => \A i \in DOMAIN callbacks[g] : callbacks[g][i] = "connected"
     /\ gatt[g] = "ready" => \A i \in DOMAIN callbacks[g] : callbacks[g][i] # "connected"
     /\ inFlight[g] # None => /\ gatt[g] \in {"ready", "closed"}
                              /\ \A i \in DOMAIN callbacks[g] :
                                   callbacks[g][i] # "disconnected"
     /\ \A i \in DOMAIN callbacks[g] :
          /\ callbacks[g][i] \in First => i = 1
          /\ callbacks[g][i] = "disconnected" => i = Len(callbacks[g])
          /\ callbacks[g][1] = "connected" /\ i # 1 => callbacks[g][i] = "disconnected")'
  BY DEF CallbacksInOrder
<1> QED BY DEF AInv, CallbacksInOrder, Up

-----------------------------------------------------------------------------
(* connect() *)

\* The address becomes one call's.
LEMMA ClaimKeeps ==
  ASSUME AInv, NEW c \in Calls, Claim(c)
  PROVE  AInv'
<1> USE DEF rust, callers, bridge, platform
<1>1. /\ call[c] = "idle" /\ rx[c] = None /\ mine[c] = None /\ gatt[c] = "none"
      /\ callbacks[c] = <<>>
  BY NamesDiffer DEF Claim, AInv, TypeOK, WaitersAgree, GattsHaveCalls, CallbacksInOrder
<1>2. CASE entry.waiter # None \/ entry.live
  <2>1. call' = [call EXCEPT ![c] = "failed"] /\ entry' = entry
    BY <1>2 DEF Claim, Goto
  <2>2. TypeOK'
    BY <2>1 DEF Claim, AInv, TypeOK, Dialling
  <2>3. WaitersAgree'
    BY <1>1, <2>1 DEF Claim, AInv, TypeOK, Entries, WaitersAgree, Dialling
  <2>4. GattsHaveCalls'
    BY <1>1, <2>1 DEF Claim, AInv, TypeOK, GattsHaveCalls
  <2>5. WritesAreKnown' /\ CallbacksInOrder'
    BY <2>1, WritesUntouched, OrderUntouched DEF Claim
  <2>6. ASSUME ~crossed' PROVE LinksAreApart' /\ WritesAreApart' /\ QueueIsTheirs'
    <3>1. ~crossed /\ LinksAreApart /\ WritesAreApart /\ QueueIsTheirs
      BY <2>6 DEF Claim, AInv
    <3>2. LinksAreApart'
      BY <1>1, <2>1, <3>1 DEF Claim, AInv, TypeOK, LinksAreApart, Due
    <3> QED BY <2>1, <3>1, <3>2 DEF Claim, WritesAreApart, QueueIsTheirs, Accepted, Active
  <2>7. WaiterIsAnswered' /\ NobodyLockedOut'
    BY <1>1, <2>1 DEF Claim, AInv, TypeOK, WaiterIsAnswered, NobodyLockedOut, Undoing,
                      Dialling
  <2> QED BY <2>2, <2>3, <2>4, <2>5, <2>6, <2>7 DEF AInv
<1>3. CASE ~(entry.waiter # None \/ entry.live)
  <2>0. /\ call' = [call EXCEPT ![c] = "claimed"]
        /\ entry' = [(IF entry.here THEN entry ELSE Fresh)
                       EXCEPT !.session = c, !.waiter = c]
    BY <1>3 DEF Claim, Goto
  <2>1. /\ entry' \in Entries /\ entry'.here /\ entry'.session = c /\ entry'.waiter = c
        /\ ~entry'.live /\ entry'.write = entry.write
    <3>1. CASE entry.here
      BY <1>3, <2>0, <3>1 DEF AInv, TypeOK, Entries
    <3>2. CASE ~entry.here
      <4>1. entry.write = None
        BY <3>2 DEF AInv, WaitersAgree, NoEntry
      <4> QED BY <2>0, <3>2, <4>1 DEF Fresh, NoEntry, Entries
    <3> QED BY <3>1, <3>2
  <2>2. TypeOK'
    BY <2>0, <2>1 DEF Claim, AInv, TypeOK, Dialling
  <2>3. WaitersAgree'
    BY <1>1, <1>3, <2>0, <2>1, NamesDiffer DEF Claim, AInv, TypeOK, WaitersAgree, Dialling
  <2>4. GattsHaveCalls'
    BY <1>1, <2>0 DEF Claim, AInv, TypeOK, GattsHaveCalls
  <2>5. WritesAreKnown' /\ CallbacksInOrder'
    BY <2>1, WritesUntouched, OrderUntouched DEF Claim
  <2>6. ASSUME ~crossed' PROVE LinksAreApart' /\ WritesAreApart' /\ QueueIsTheirs'
    <3>1. ~crossed /\ LinksAreApart /\ WritesAreApart /\ QueueIsTheirs
      BY <2>6 DEF Claim, AInv
    <3>2. LinksAreApart'
      BY <1>1, <2>0, <2>1, <3>1 DEF Claim, AInv, TypeOK, LinksAreApart, Due, None
    <3>3. entry.write = None
      <4>1. entry.write \in Writes \cup {None}
        BY DEF AInv, TypeOK, Entries
      <4> QED BY <1>3, <3>1, <4>1, WaitingHoldsLink
    <3> QED BY <2>1, <3>1, <3>2, <3>3
            DEF Claim, WritesAreApart, QueueIsTheirs, Accepted, Active
  <2>7. WaiterIsAnswered' /\ NobodyLockedOut'
    BY <1>1, <2>0, <2>1 DEF Claim, AInv, TypeOK, WaiterIsAnswered, NobodyLockedOut,
                            Undoing, Dialling
  <2> QED BY <2>2, <2>3, <2>4, <2>5, <2>6, <2>7 DEF AInv
<1> QED BY <1>2, <1>3

\* The platform is asked for a link.
LEMMA OpenGattKeeps ==
  ASSUME AInv, NEW c \in Calls, OpenGatt(c)
  PROVE  AInv'
<1> USE DEF rust, callers, bridge, platform
<1>1. /\ call[c] = "claimed" /\ call' = [call EXCEPT ![c] = "opening"]
      /\ gatt' = [gatt EXCEPT ![c] = "dialling"] /\ gatt[c] = "none"
      /\ callbacks[c] = <<>>
  BY DEF OpenGatt, Goto, AInv, GattsHaveCalls, CallbacksInOrder
<1>2. TypeOK'
  BY <1>1 DEF OpenGatt, AInv, TypeOK, Dialling, Up
<1>3. WaitersAgree'
  BY <1>1 DEF OpenGatt, AInv, TypeOK, WaitersAgree, Dialling
<1>4. GattsHaveCalls'
  BY <1>1 DEF OpenGatt, AInv, TypeOK, GattsHaveCalls
<1>5. WritesAreKnown' /\ CallbacksInOrder'
  <2>1. \A g \in Calls : \/ gatt'[g] = gatt[g]
                         \/ gatt[g] = "none" /\ gatt'[g] = "dialling"
    BY <1>1 DEF AInv, TypeOK
  <2> QED BY <2>1, WritesUntouched, OrderUntouched DEF OpenGatt
<1>6. ASSUME ~crossed' PROVE LinksAreApart' /\ WritesAreApart' /\ QueueIsTheirs'
  <2>1. ~crossed /\ LinksAreApart /\ WritesAreApart /\ QueueIsTheirs
    BY <1>6 DEF OpenGatt, AInv
  <2>2. current # c /\ rx[c] # "ok"
    BY <1>1, <2>1, NamesDiffer DEF AInv, GattsHaveCalls, LinksAreApart
  <2>3. LinksAreApart'
    BY <1>1, <2>1, <2>2 DEF OpenGatt, AInv, TypeOK, LinksAreApart, Due
  <2>4. current # None => gatt'[current] = gatt[current]
    BY <1>1, <2>2 DEF AInv, TypeOK
  <2> QED BY <2>1, <2>3, <2>4 DEF OpenGatt, WritesAreApart, QueueIsTheirs, Accepted, Active
<1>7. WaiterIsAnswered' /\ NobodyLockedOut'
  BY <1>1 DEF OpenGatt, AInv, TypeOK, WaiterIsAnswered, NobodyLockedOut, Undoing, Dialling
<1> QED BY <1>2, <1>3, <1>4, <1>5, <1>6, <1>7 DEF AInv

\* The GATT takes the address; under another's nothing more is claimed.
LEMMA RegisterKeeps ==
  ASSUME AInv, NEW c \in Calls, Register(c)
  PROVE  AInv'
<1> USE DEF rust, callers, bridge, platform
<1>1. /\ call[c] = "opening" /\ call' = [call EXCEPT ![c] = "waiting"]
      /\ current' = c /\ radio # "sweeping"
  BY DEF Register, Goto, Unlocked
<1>2. TypeOK'
  BY <1>1 DEF Register, AInv, TypeOK, Dialling
<1>3. WaitersAgree'
  BY <1>1 DEF Register, AInv, TypeOK, WaitersAgree, Dialling
<1>4. GattsHaveCalls'
  BY <1>1, NamesDiffer DEF Register, AInv, TypeOK, GattsHaveCalls
<1>5. WritesAreKnown' /\ CallbacksInOrder'
  BY WritesUntouched, OrderUntouched DEF Register
<1>6. ASSUME ~crossed' PROVE ~crossed /\ current = None /\ rx[c] # "ok"
  <2>1. ~crossed /\ current = None
    BY <1>6 DEF Register
  <2> QED BY <1>1, <2>1 DEF AInv, LinksAreApart
<1>7. ASSUME ~crossed' PROVE LinksAreApart' /\ WritesAreApart' /\ QueueIsTheirs'
  <2>1. ~crossed /\ LinksAreApart /\ WritesAreApart /\ QueueIsTheirs
    BY <1>6, <1>7 DEF AInv
  <2>2. queue = <<>>
    BY <1>6, <1>7, QueueIsEmpty
  <2>3. LinksAreApart'
    BY <1>1, <1>6, <1>7, <2>1, NamesDiffer DEF Register, AInv, TypeOK, LinksAreApart, Due
  <2>4. /\ inFlight[c] = None
        /\ \A i \in DOMAIN callbacks[c] : callbacks[c][i] \notin Writes
    BY <1>6, <1>7, <2>1 DEF LinksAreApart
  <2>5. QueueIsTheirs'
    BY <1>1, <2>2, <2>4 DEF Register, QueueIsTheirs, Accepted
  <2>6. \A w \in Writes : by[w] # c
    BY <1>1, <2>1, HandleIsThere, NamesDiffer
  <2>7. WritesAreApart'
    BY <1>1, <2>1, <2>2, <2>6 DEF Register, WritesAreApart, Active
  <2> QED BY <2>3, <2>5, <2>7
<1>8. WaiterIsAnswered'
  <2> SUFFICES ASSUME NEW w \in Writes, op'[w] = "waiting", ~crossed' PROVE FALSE
    BY DEF WaiterIsAnswered
  <2> QED BY <1>6, WaitingHoldsLink DEF Register
<1>9. NobodyLockedOut'
  <2> SUFFICES ASSUME ~crossed' PROVE NobodyLockedOut'
    BY DEF NobodyLockedOut
  <2>1. NobodyLockedOut /\ current = None /\ ~crossed
    BY <1>6 DEF AInv
  <2> QED BY <1>1, <2>1 DEF Register, AInv, TypeOK, NobodyLockedOut, Undoing
<1> QED BY <1>2, <1>3, <1>4, <1>5, <1>7, <1>8, <1>9 DEF AInv

\* A call that has no link left gives the address up.
LEMMA ClearKeeps ==
  ASSUME AInv, NEW c \in Calls, call[c] \in {"claimed", "clearing"},
         call' = [call EXCEPT ![c] = "failed"], ClearPendingConnect,
         crossed' = (crossed \/ (entry.here /\ entry.session # c)),
         UNCHANGED <<jni, mine, by, bridge, platform, radio, losses>>
  PROVE  AInv'
<1> USE DEF rust, callers, bridge, platform
<1>1. TypeOK'
  BY ClearDoes DEF AInv, TypeOK
<1>2. WaitersAgree'
  <2>1. \A d \in Calls : call'[d] = IF d = c THEN "failed" ELSE call[d]
    BY DEF AInv, TypeOK
  <2> QED BY <2>1, ClearDoes, NamesDiffer DEF AInv, WaitersAgree, Dialling, None
<1>3. GattsHaveCalls'
  BY DEF AInv, TypeOK, GattsHaveCalls
<1>4. CallbacksInOrder'
  BY OrderUntouched
<1>5. WritesAreKnown'
  <2>1. \A g \in Calls : \A i \in DOMAIN callbacks'[g] :
          callbacks'[g][i] \in Writes => Started(callbacks'[g][i])
    BY DEF AInv, WritesAreKnown
  <2>2. \A i, j \in DOMAIN queue' : queue'[i] = queue'[j] => i = j
    BY DEF AInv, WritesAreKnown
  <2> QED BY <2>1, <2>2, ClearDoes, WritesStay
<1>6. ASSUME ~crossed'
      PROVE  /\ ~crossed /\ LinksAreApart /\ WritesAreApart /\ QueueIsTheirs
             /\ entry.here => entry.session = c
             /\ entry.write = None /\ op' = op
  <2>1. /\ ~crossed /\ LinksAreApart /\ WritesAreApart /\ QueueIsTheirs
        /\ entry.here => entry.session = c
    BY <1>6 DEF AInv
  <2>2. \A w \in Writes : entry.write # w
    BY <2>1, WaitingHoldsLink
  <2>3. entry.write \in Writes \cup {None}
    BY DEF AInv, TypeOK, Entries
  <2>4. op' = op
    BY <2>2, ClearDoes DEF AInv, TypeOK
  <2> QED BY <2>1, <2>2, <2>3, <2>4
<1>7. ASSUME ~crossed' PROVE LinksAreApart' /\ WritesAreApart' /\ QueueIsTheirs'
  <2>1. LinksAreApart'
    <3>1. \A d \in Calls : rx'[d] = "ok" => rx[d] = "ok"
      BY ClearDoes
    <3>2. \A d \in Calls : rx[d] # None => rx'[d] = rx[d]
      BY ClearDoes
    <3>3. \A d \in Calls : call'[d] = IF d = c THEN "failed" ELSE call[d]
      BY DEF AInv, TypeOK
    <3>4. entry'.here => entry.here /\ entry'.session = entry.session
      BY ClearDoes
    <3> QED BY <1>6, <1>7, <3>1, <3>2, <3>3, <3>4 DEF LinksAreApart, Due, None
  <2>2. WritesAreApart'
    <3>1. entry'.write = None
      BY <1>6, <1>7, ClearDoes
    <3> QED BY <1>6, <1>7, <3>1 DEF WritesAreApart, Active
  <2>3. QueueIsTheirs'
    BY <1>6, <1>7 DEF QueueIsTheirs, Accepted
  <2> QED BY <2>1, <2>2, <2>3
<1>8. WaiterIsAnswered'
  <2> SUFFICES ASSUME NEW w \in Writes, op'[w] = "waiting", ~crossed' PROVE FALSE
    BY DEF WaiterIsAnswered
  <2> QED BY <1>6, WaitingHoldsLink, NamesDiffer
<1>9. NobodyLockedOut'
  BY ClearDoes DEF NobodyLockedOut
<1> QED BY <1>1, <1>2, <1>3, <1>4, <1>5, <1>7, <1>8, <1>9 DEF AInv

\* The call into Kotlin fails.
LEMMA DialThrowsKeeps ==
  ASSUME AInv, NEW c \in Calls, DialThrows(c)
  PROVE  AInv'
<1> USE DEF rust, callers, bridge, platform
<1>1. /\ call[c] = "claimed" /\ call' = [call EXCEPT ![c] = "failed"]
      /\ ClearPendingConnect
      /\ crossed' = (crossed \/ (entry.here /\ entry.session # c))
      /\ UNCHANGED <<jni, mine, by, bridge, platform, radio, losses>>
  BY DEF DialThrows, Goto
<1>2. call[c] \notin {"waiting", "open", "leaving", "closing", "clearing"}
  BY <1>1
<1> QED BY <1>1, <1>2, ClearKeeps

\* The wait is over and the handle takes what session the entry has.
LEMMA ConnectReturnsKeeps ==
  ASSUME AInv, NEW c \in Calls, ConnectReturns(c)
  PROVE  AInv'
<1> USE DEF rust, callers, bridge, platform
<1>1. /\ call[c] = "waiting" /\ rx[c] = "ok" /\ call' = [call EXCEPT ![c] = "open"]
      /\ mine' = [mine EXCEPT ![c] = entry.session] /\ mine[c] = None
  BY DEF ConnectReturns, Goto, AInv, WaitersAgree
<1>2. TypeOK'
  BY <1>1 DEF ConnectReturns, AInv, TypeOK, Entries
<1>3. WaitersAgree'
  <2>1. entry.waiter # c
    BY <1>1, NamesDiffer DEF AInv, WaitersAgree, None
  <2>2. \A d \in Calls : /\ call'[d] = IF d = c THEN "open" ELSE call[d]
                         /\ mine'[d] = IF d = c THEN entry.session ELSE mine[d]
    BY <1>1 DEF AInv, TypeOK
  <2>3. entry' = entry /\ rx' = rx /\ entry.waiter \in Calls \cup {None}
    BY DEF ConnectReturns, AInv, TypeOK, Entries
  <2> QED BY <1>1, <2>1, <2>2, <2>3 DEF AInv, WaitersAgree, Dialling
<1>4. GattsHaveCalls'
  BY <1>1 DEF ConnectReturns, AInv, TypeOK, GattsHaveCalls
<1>5. WritesAreKnown' /\ CallbacksInOrder'
  BY WritesUntouched, OrderUntouched DEF ConnectReturns
<1>6. ASSUME ~crossed' PROVE LinksAreApart' /\ WritesAreApart' /\ QueueIsTheirs'
  <2>1. ~crossed /\ LinksAreApart /\ WritesAreApart /\ QueueIsTheirs
    BY <1>6 DEF ConnectReturns, AInv
  <2>2. LinksAreApart'
    BY <1>1, <2>1 DEF ConnectReturns, AInv, TypeOK, LinksAreApart, Due
  <2>3. \A w \in Writes : by[w] # None => by[w] \in Calls /\ by[w] # c
    BY <1>1, <2>1, HandleIsThere, NamesDiffer
  <2>4. WritesAreApart'
    BY <1>1, <2>1, <2>3 DEF ConnectReturns, AInv, TypeOK, WritesAreApart, Active
  <2> QED BY <2>1, <2>2, <2>4 DEF ConnectReturns, QueueIsTheirs, Accepted
<1>7. WaiterIsAnswered'
  BY DEF ConnectReturns, AInv, WaiterIsAnswered
<1>8. NobodyLockedOut'
  <2>1. entry.waiter # c
    BY <1>1, NamesDiffer DEF AInv, WaitersAgree, None
  <2>2. \A d \in Calls : Undoing(d) => Undoing(d)'
    BY <1>1 DEF ConnectReturns, AInv, TypeOK, Undoing
  <2> QED BY <1>1, <2>1, <2>2 DEF ConnectReturns, AInv, TypeOK, NobodyLockedOut
<1> QED BY <1>2, <1>3, <1>4, <1>5, <1>6, <1>7, <1>8 DEF AInv

\* The guard closes what the address has, its own GATT where nobody acted apart.
LEMMA GuardClosesKeeps ==
  ASSUME AInv, NEW c \in Calls, GuardCloses(c)
  PROVE  AInv'
<1> USE DEF rust, callers, bridge, platform
<1>1. /\ call[c] = "waiting" /\ radio # "sweeping" /\ current' = None
      /\ crossed' = (crossed \/ current \notin {c, None})
      /\ \/ /\ current = None /\ call' = [call EXCEPT ![c] = "clearing"]
            /\ UNCHANGED <<services, gatt>>
         \/ /\ current \in Calls /\ call' = [call EXCEPT ![c] = "closing"]
            /\ services' = FALSE
            /\ gatt' = [gatt EXCEPT ![current] = "closed"]
  BY DEF GuardCloses, Goto, Unlocked, AInv, TypeOK
<1>2. /\ \A d \in Calls : d # c => call'[d] = call[d]
      /\ call'[c] \in {"closing", "clearing"}
      /\ \A d \in Calls : gatt'[d] = gatt[d] \/ (gatt[d] # "none" /\ gatt'[d] = "closed")
  <2>1. /\ \A d \in Calls : d # c => call'[d] = call[d]
        /\ call'[c] \in {"closing", "clearing"}
    BY <1>1 DEF AInv, TypeOK
  <2>2. current \in Calls => gatt[current] # "none"
    BY NamesDiffer DEF AInv, GattsHaveCalls
  <2>3. \A d \in Calls : gatt'[d] = gatt[d] \/ (gatt[d] # "none" /\ gatt'[d] = "closed")
    BY <1>1, <2>2 DEF AInv, TypeOK
  <2> QED BY <2>1, <2>3
<1>3. TypeOK'
  BY <1>1 DEF GuardCloses, AInv, TypeOK, Dialling
<1>4. WaitersAgree'
  BY <1>1, <1>2 DEF GuardCloses, AInv, TypeOK, Entries, WaitersAgree, Dialling
<1>5. GattsHaveCalls'
  <2>1. services' = FALSE
    BY <1>1 DEF AInv, GattsHaveCalls, TypeOK
  <2>2. current' = None /\ radio' = radio
    BY <1>1 DEF GuardCloses
  <2>3. \A d \in Calls : /\ gatt'[d] = "none" => gatt[d] = "none"
                         /\ gatt[d] = "none" => gatt'[d] = "none"
                         /\ call'[d] \in {"idle", "claimed"} => call[d] = call'[d]
                         /\ gatt[d] = "none" => d # c
    BY <1>1, <1>2 DEF AInv, GattsHaveCalls
  <2> QED BY <1>1, <1>2, <2>1, <2>2, <2>3 DEF AInv, GattsHaveCalls
<1>6. WritesAreKnown' /\ CallbacksInOrder'
  BY <1>2, WritesUntouched, OrderUntouched DEF GuardCloses
<1>7. ASSUME ~crossed'
      PROVE  /\ ~crossed /\ LinksAreApart /\ WritesAreApart /\ current \in {c, None}
             /\ queue = <<>>
  <2>1. ~crossed /\ LinksAreApart /\ WritesAreApart /\ current \in {c, None}
    BY <1>1, <1>7 DEF AInv
  <2> QED BY <1>1, <2>1, QueueIsEmpty
<1>8. ASSUME ~crossed' PROVE LinksAreApart' /\ WritesAreApart' /\ QueueIsTheirs'
  <2>1. \A d \in Calls : rx[d] = "ok" =>
          /\ gatt'[d] \in {"ready", "down", "closed"}
          /\ call'[d] \notin {"claimed", "opening"}
    BY <1>1, <1>2, <1>7, <1>8 DEF LinksAreApart
  <2>2. ASSUME NEW d \in Calls, rx[d] = "ok", entry.here, entry.session = d,
               call'[d] \in {"waiting", "open", "leaving"}
        PROVE  FALSE
    <3>1. d # c /\ call'[d] = call[d]
      BY <1>2, <2>2
    <3>2. current = d
      BY <1>7, <1>8, <2>2, <3>1 DEF LinksAreApart
    <3> QED BY <1>7, <1>8, <3>1, <3>2, NamesDiffer
  <2>3. ASSUME NEW g \in Calls, gatt'[g] = "closed",
               call'[g] \in {"opening", "waiting"}
        PROVE  gatt[g] = "closed" /\ call[g] = call'[g]
    <3>1. g # c /\ g # current
      BY <1>2, <1>7, <1>8, <2>3, NamesDiffer
    <3> QED BY <1>1, <1>2, <2>3, <3>1 DEF AInv, TypeOK
  <2>4. LinksAreApart'
    BY <1>1, <1>7, <1>8, <2>1, <2>2, <2>3 DEF GuardCloses, LinksAreApart, Due
  <2>5. WritesAreApart' /\ QueueIsTheirs'
    BY <1>1, <1>7, <1>8 DEF GuardCloses, WritesAreApart, QueueIsTheirs
  <2> QED BY <2>4, <2>5
<1>9. WaiterIsAnswered'
  <2> SUFFICES ASSUME NEW w \in Writes, op'[w] = "waiting", ~crossed' PROVE FALSE
    BY DEF WaiterIsAnswered
  <2> QED BY <1>1, <1>7, WaitingHoldsLink DEF GuardCloses
<1>10. NobodyLockedOut'
  <2>1. Undoing(c)'
    BY <1>2 DEF Undoing
  <2>2. ~crossed' => ~crossed
    BY <1>1
  <2>3. entry' = entry /\ entry.waiter \in Calls \cup {None}
    BY DEF GuardCloses, AInv, TypeOK, Entries
  <2> QED BY <1>2, <2>1, <2>2, <2>3 DEF AInv, NobodyLockedOut
<1> QED BY <1>3, <1>4, <1>5, <1>6, <1>8, <1>9, <1>10 DEF AInv

\* The operations queued for the address are forgotten.
LEMMA GuardForgetsKeeps ==
  ASSUME AInv, NEW c \in Calls, GuardForgets(c)
  PROVE  AInv'
<1> USE DEF rust, callers, bridge, platform
<1>1. /\ call[c] = "closing" /\ call' = [call EXCEPT ![c] = "clearing"] /\ queue' = <<>>
      /\ crossed' = (crossed \/ current # None)
  BY DEF GuardForgets, Goto
<1>2. TypeOK'
  BY <1>1 DEF GuardForgets, AInv, TypeOK, Dialling
<1>3. WaitersAgree'
  BY <1>1 DEF GuardForgets, AInv, TypeOK, Entries, WaitersAgree, Dialling
<1>4. GattsHaveCalls'
  BY <1>1 DEF GuardForgets, AInv, TypeOK, GattsHaveCalls
<1>5. CallbacksInOrder'
  BY OrderUntouched DEF GuardForgets
<1>6. WritesAreKnown'
  <2>1. \A i \in DOMAIN queue' : FALSE
    BY <1>1
  <2>2. \A w \in Writes : op'[w] = "waiting" <=> entry'.write = w
    BY DEF GuardForgets, AInv, WritesAreKnown
  <2>3. \A g \in Calls : \A i \in DOMAIN callbacks'[g] :
          callbacks'[g][i] \in Writes => Started(callbacks'[g][i])
    BY DEF GuardForgets, AInv, WritesAreKnown
  <2> QED BY <2>1, <2>2, <2>3, WritesStay DEF GuardForgets
<1>7. ASSUME ~crossed' PROVE LinksAreApart' /\ WritesAreApart' /\ QueueIsTheirs'
  <2>1. ~crossed /\ LinksAreApart /\ WritesAreApart /\ current = None
    BY <1>1, <1>7 DEF AInv
  <2>2. LinksAreApart'
    BY <1>1, <2>1 DEF GuardForgets, AInv, TypeOK, LinksAreApart, Due
  <2> QED BY <1>1, <2>1, <2>2 DEF GuardForgets, WritesAreApart, QueueIsTheirs, Active
<1>8. WaiterIsAnswered'
  BY DEF GuardForgets, AInv, WaiterIsAnswered
<1>9. NobodyLockedOut'
  BY <1>1 DEF GuardForgets, AInv, TypeOK, Entries, NobodyLockedOut, Undoing
<1> QED BY <1>2, <1>3, <1>4, <1>5, <1>6, <1>7, <1>8, <1>9 DEF AInv

\* The guard gives the address up.
LEMMA GuardClearsKeeps ==
  ASSUME AInv, NEW c \in Calls, GuardClears(c)
  PROVE  AInv'
  BY ClearKeeps DEF GuardClears, Goto

-----------------------------------------------------------------------------
(* The handle *)

\* The link is asked to end.
LEMMA DisconnectKeeps ==
  ASSUME AInv, NEW c \in Calls, Disconnect(c)
  PROVE  AInv'
<1> USE DEF rust, callers, bridge, platform
<1>1. /\ call[c] = "open" /\ call' = [call EXCEPT ![c] = "leaving"] /\ entry.here
      /\ entry' = [entry EXCEPT !.leaving = c]
  BY DEF Disconnect, Goto, OwnsEntry
<1>2. /\ entry' \in Entries /\ entry'.here /\ entry'.session = entry.session
      /\ entry'.live = entry.live /\ entry'.waiter = entry.waiter
      /\ entry'.write = entry.write
  BY <1>1 DEF AInv, TypeOK, Entries
<1>3. TypeOK'
  BY <1>1, <1>2 DEF Disconnect, AInv, TypeOK
<1>4. WaitersAgree'
  BY <1>1, <1>2 DEF Disconnect, AInv, TypeOK, Entries, WaitersAgree, Dialling
<1>5. GattsHaveCalls'
  BY <1>1 DEF Disconnect, AInv, TypeOK, GattsHaveCalls
<1>6. WritesAreKnown' /\ CallbacksInOrder'
  BY <1>2, WritesUntouched, OrderUntouched DEF Disconnect
<1>7. ASSUME ~crossed' PROVE LinksAreApart' /\ WritesAreApart' /\ QueueIsTheirs'
  <2>1. ~crossed /\ LinksAreApart /\ WritesAreApart /\ QueueIsTheirs
    BY <1>7 DEF Disconnect, AInv
  <2>2. LinksAreApart'
    BY <1>1, <1>2, <2>1 DEF Disconnect, AInv, TypeOK, LinksAreApart, Due
  <2>3. WritesAreApart'
    BY <1>2, <2>1 DEF Disconnect, WritesAreApart, Active
  <2>4. QueueIsTheirs'
    BY <2>1 DEF Disconnect, QueueIsTheirs, Accepted
  <2> QED BY <2>2, <2>3, <2>4
<1>8. WaiterIsAnswered'
  BY <1>2 DEF Disconnect, AInv, WaiterIsAnswered
<1>9. NobodyLockedOut'
  BY <1>1, <1>2 DEF Disconnect, AInv, TypeOK, Entries, NobodyLockedOut, Undoing
<1> QED BY <1>3, <1>4, <1>5, <1>6, <1>7, <1>8, <1>9 DEF AInv

\* The handle stays with its owner.
LEMMA DisconnectReturnsKeeps ==
  ASSUME AInv, NEW c \in Calls, DisconnectReturns(c)
  PROVE  AInv'
<1> USE DEF rust, callers, bridge, platform
<1>1. call[c] = "leaving" /\ call' = [call EXCEPT ![c] = "open"]
  BY DEF DisconnectReturns, Goto
<1>2. TypeOK'
  BY <1>1 DEF DisconnectReturns, AInv, TypeOK
<1>3. WaitersAgree'
  BY <1>1 DEF DisconnectReturns, AInv, TypeOK, Entries, WaitersAgree, Dialling
<1>4. GattsHaveCalls'
  BY <1>1 DEF DisconnectReturns, AInv, TypeOK, GattsHaveCalls
<1>5. WritesAreKnown' /\ CallbacksInOrder'
  BY WritesUntouched, OrderUntouched DEF DisconnectReturns
<1>6. ASSUME ~crossed' PROVE LinksAreApart' /\ WritesAreApart' /\ QueueIsTheirs'
  <2>1. ~crossed /\ LinksAreApart /\ WritesAreApart /\ QueueIsTheirs
    BY <1>6 DEF DisconnectReturns, AInv
  <2>2. LinksAreApart'
    BY <1>1, <2>1 DEF DisconnectReturns, AInv, TypeOK, LinksAreApart, Due
  <2> QED BY <2>1, <2>2
          DEF DisconnectReturns, WritesAreApart, QueueIsTheirs, Accepted, Active
<1>7. WaiterIsAnswered'
  BY DEF DisconnectReturns, AInv, WaiterIsAnswered
<1>8. NobodyLockedOut'
  BY <1>1 DEF DisconnectReturns, AInv, TypeOK, Entries, NobodyLockedOut, Undoing
<1> QED BY <1>2, <1>3, <1>4, <1>5, <1>6, <1>7, <1>8 DEF AInv

-----------------------------------------------------------------------------
(* write() *)

\* Writes stay known where one of them is called and may be given a place.
LEMMA WritesStayWith ==
  ASSUME AInv, NEW w \in Writes, op[w] # "idle", jni'[w] # "write", by' = by,
         \A v \in Writes : v # w => jni'[v] = jni[v],
         jni'[w] \in {"none", jni[w]},
         retry' \subseteq retry \cup {w},
         \A v \in Writes : /\ op'[v] = "waiting" <=> entry'.write = v
                           /\ op'[v] = "waiting" => op[v] = "waiting"
                           /\ op'[v] = "idle" <=> op[v] = "idle"
                           /\ op[v] # "waiting" => op'[v] = op[v],
         \A i \in DOMAIN queue' : queue'[i] = w \/ \E j \in DOMAIN queue : queue'[i] = queue[j],
         \A i, j \in DOMAIN queue' : queue'[i] = queue'[j] => i = j,
         \A g \in Calls : inFlight'[g] \in {inFlight[g], w},
         callbacks' = callbacks
  PROVE  WritesAreKnown'
<1>1. \A v \in Writes : Active(v)' => Active(v)
  BY DEF Active
<1>2. \A v \in Writes : Started(v) => Started(v)'
  BY DEF Started
<1>3. Started(w)'
  BY DEF Started
<1>4. \A v \in Writes : /\ op'[v] = "idle" => jni'[v] = "none"
                        /\ op'[v] # "idle" => by'[v] # None
                        /\ jni'[v] = "cancel" => op'[v] = "dropped"
  BY DEF AInv, WritesAreKnown
<1>5. \A u, v \in Writes : Active(u)' /\ Active(v)' /\ by'[u] = by'[v] => u = v
  BY <1>1 DEF AInv, WritesAreKnown
<1>6. \A v \in retry' : Started(v)'
  <2> SUFFICES ASSUME NEW v \in retry' PROVE Started(v)'
    OBVIOUS
  <2>1. CASE v = w
    BY <1>3, <2>1 DEF Started
  <2>2. CASE v # w
    <3>1. v \in Writes /\ v \in retry
      BY <2>2 DEF AInv, TypeOK
    <3> QED BY <1>2, <3>1 DEF AInv, WritesAreKnown
  <2> QED BY <2>1, <2>2
<1>7. \A i \in DOMAIN queue' : Started(queue[i])'
  <2> SUFFICES ASSUME NEW i \in DOMAIN queue' PROVE Started(queue[i])'
    OBVIOUS
  <2>1. CASE queue'[i] = w
    BY <1>3, <2>1 DEF Started
  <2>2. ASSUME NEW j \in DOMAIN queue, queue'[i] = queue[j]
        PROVE  Started(queue[i])'
    <3>1. queue[j] \in Writes /\ Started(queue[j])
      BY LenProperties DEF AInv, WritesAreKnown, TypeOK
    <3>2. PICK v \in Writes : v = queue[j]
      BY <3>1
    <3> QED BY <1>2, <2>2, <3>1, <3>2 DEF Started
  <2> QED BY <2>1, <2>2
<1>8. \A g \in Calls : inFlight'[g] # None => Started(inFlight[g])'
  <2> SUFFICES ASSUME NEW g \in Calls, inFlight'[g] # None
               PROVE  Started(inFlight[g])'
    OBVIOUS
  <2>1. CASE inFlight'[g] = w
    BY <1>3, <2>1 DEF Started
  <2>2. CASE inFlight'[g] = inFlight[g]
    <3>1. inFlight[g] \in Writes /\ Started(inFlight[g])
      BY <2>2 DEF AInv, WritesAreKnown, TypeOK
    <3>2. PICK v \in Writes : v = inFlight[g]
      BY <3>1
    <3> QED BY <1>2, <2>2, <3>1, <3>2 DEF Started
  <2> QED BY <2>1, <2>2
<1>9. \A g \in Calls : \A i \in DOMAIN callbacks'[g] :
        (callbacks[g][i] \in Writes => Started(callbacks[g][i]))'
  <2> SUFFICES ASSUME NEW g \in Calls, NEW i \in DOMAIN callbacks'[g],
                      callbacks'[g][i] \in Writes
               PROVE  Started(callbacks[g][i])'
    OBVIOUS
  <2>1. PICK v \in Writes : v = callbacks[g][i]
    OBVIOUS
  <2>2. Started(v)
    BY <2>1 DEF AInv, WritesAreKnown
  <2> QED BY <1>2, <2>1, <2>2 DEF Started
<1> QED BY <1>4, <1>5, <1>6, <1>7, <1>8, <1>9 DEF WritesAreKnown

\* What Queued adds, and where.
LEMMA QueuedHolds ==
  ASSUME AInv, NEW w \in Writes
  PROVE  /\ Queued(w) \in Seq(Writes) /\ Len(queue) \in Nat /\ DOMAIN queue = 1 .. Len(queue)
         /\ \A i \in DOMAIN queue : i \in DOMAIN Queued(w) /\ Queued(w)[i] = queue[i]
         /\ \A i \in DOMAIN Queued(w) :
              \/ i \in DOMAIN queue
              \/ /\ i = Len(queue) + 1 /\ Queued(w)[i] = w
                 /\ \A j \in DOMAIN queue : queue[j] # w
         /\ \A i, j \in DOMAIN Queued(w) : Queued(w)[i] = Queued(w)[j] => i = j
         /\ \E i \in DOMAIN Queued(w) : Queued(w)[i] = w
<1>1. /\ queue \in Seq(Writes)
      /\ \A i, j \in DOMAIN queue : queue[i] = queue[j] => i = j
  BY DEF AInv, TypeOK, WritesAreKnown
<1>2. Len(queue) \in Nat /\ DOMAIN queue = 1 .. Len(queue)
  BY <1>1, LenProperties
<1>3. CASE \E j \in DOMAIN queue : queue[j] = w
  <2>1. Queued(w) = queue
    BY <1>3 DEF Queued, ToSet
  <2> QED BY <1>1, <1>2, <1>3, <2>1
<1>4. CASE ~\E j \in DOMAIN queue : queue[j] = w
  <2>1. Queued(w) = Append(queue, w)
    BY <1>4 DEF Queued, ToSet
  <2>2. /\ Append(queue, w) \in Seq(Writes)
        /\ DOMAIN Append(queue, w) = 1 .. (Len(queue) + 1)
        /\ \A i \in DOMAIN queue : Append(queue, w)[i] = queue[i]
        /\ Append(queue, w)[Len(queue) + 1] = w
    BY <1>1, AppendHolds
  <2>3. \A i \in 1 .. (Len(queue) + 1) : i \in DOMAIN queue \/ i = Len(queue) + 1
    BY <1>2
  <2>4. /\ Len(queue) + 1 \in 1 .. (Len(queue) + 1)
        /\ \A i \in DOMAIN queue : i \in 1 .. (Len(queue) + 1)
    BY <1>2
  <2> QED BY <1>1, <1>2, <1>4, <2>1, <2>2, <2>3, <2>4
<1> QED BY <1>3, <1>4

\* What is to be tried is behind whatever the platform has or has answered.
LEMMA NotAccepted ==
  ASSUME AInv, ~crossed, NEW w \in Writes, w \in retry \/ jni[w] = "write",
         current # None, rx[current] = "ok"
  PROVE  /\ Len(callbacks[current]) \in Nat
         /\ DOMAIN callbacks[current] = 1 .. Len(callbacks[current])
         /\ \A i \in DOMAIN callbacks[current] : callbacks[current][i] \in Writes =>
              /\ i \in DOMAIN queue /\ queue[i] = callbacks[current][i]
              /\ \A j \in 1 .. i : queue[j] # w
         /\ inFlight[current] # None =>
              /\ Len(callbacks[current]) + 1 \in DOMAIN queue
              /\ queue[Len(callbacks[current]) + 1] = inFlight[current]
              /\ \A j \in 1 .. (Len(callbacks[current]) + 1) : queue[j] # w
<1> DEFINE cb == callbacks[current]
<1>1. current \in Calls /\ cb \in Seq(Events)
  BY DEF AInv, TypeOK
<1>2. Len(cb) \in Nat /\ DOMAIN cb = 1 .. Len(cb) /\ \A i \in DOMAIN cb : cb[i] \in Events
  BY <1>1, LenProperties
<1>3. \A i \in DOMAIN cb : cb[i] \in Writes \/ (cb[i] = "disconnected" /\ i = Len(cb))
  <2>1. \A i \in DOMAIN cb : cb[i] \notin First
    BY <1>1 DEF AInv, LinksAreApart
  <2>2. \A i \in DOMAIN cb : cb[i] = "disconnected" => i = Len(cb)
    BY <1>1 DEF AInv, CallbacksInOrder
  <2> QED BY <1>2, <2>1, <2>2 DEF Events
<1>4. \A i \in DOMAIN cb : cb[i] \in Writes =>
        i \in DOMAIN queue /\ queue[i] = cb[i] /\ queue[i] # w
  BY FreshIsNowhere DEF AInv, QueueIsTheirs
<1>5. ASSUME NEW i \in DOMAIN cb, cb[i] \in Writes, NEW j \in 1 .. i
      PROVE  queue[j] # w
  <2>1. j \in DOMAIN cb /\ (j = i \/ j # Len(cb))
    BY <1>2
  <2>2. cb[j] \in Writes
    BY <1>3, <1>5, <2>1
  <2> QED BY <1>4, <2>1, <2>2
<1>6. ASSUME inFlight[current] # None
      PROVE  /\ Len(cb) + 1 \in DOMAIN queue /\ queue[Len(cb) + 1] = inFlight[current]
             /\ \A j \in 1 .. (Len(cb) + 1) : queue[j] # w
  <2>1. /\ Len(cb) + 1 \in DOMAIN queue /\ queue[Len(cb) + 1] = inFlight[current]
        /\ queue[Len(cb) + 1] \notin retry
    BY <1>6 DEF AInv, QueueIsTheirs
  <2>2. queue[Len(cb) + 1] # w
    BY <2>1, FreshIsNowhere
  <2>3. \A j \in DOMAIN cb : cb[j] # "disconnected"
    BY <1>1, <1>6 DEF AInv, CallbacksInOrder
  <2>4. \A j \in DOMAIN cb : queue[j] # w
    BY <1>3, <1>4, <2>3
  <2>5. \A j \in 1 .. (Len(cb) + 1) : j \in DOMAIN cb \/ j = Len(cb) + 1
    BY <1>2
  <2> QED BY <2>1, <2>2, <2>4, <2>5
<1> QED BY <1>2, <1>4, <1>5, <1>6

\* How many the platform has or has answered.
LEMMA AcceptedIs ==
  ASSUME Len(callbacks[current]) \in Nat
  PROVE  /\ Accepted \in Nat
         /\ inFlight[current] = None => Accepted = Len(callbacks[current])
         /\ inFlight[current] # None => Accepted = Len(callbacks[current]) + 1
<1>1. CASE inFlight[current] = None
  BY <1>1 DEF Accepted
<1>2. CASE inFlight[current] # None
  BY <1>2 DEF Accepted
<1> QED BY <1>1, <1>2

\* And the next place behind that is its own.
LEMMA NextPlace ==
  ASSUME AInv, ~crossed, NEW w \in Writes, w \in retry \/ jni[w] = "write",
         current # None, by[w] = current, gatt[current] = "ready"
  PROVE  /\ Accepted + 1 \in DOMAIN Queued(w) /\ Queued(w)[Accepted + 1] = w
         /\ \A i \in DOMAIN Queued(w) : i <= Accepted + 1
<1> DEFINE cb == callbacks[current]
<1>1. current \in Calls /\ rx[current] = "ok"
  BY HandleIsThere DEF AInv, TypeOK
<1>2. /\ Len(cb) \in Nat /\ DOMAIN cb = 1 .. Len(cb)
      /\ \A i \in DOMAIN cb : cb[i] \in Writes =>
           i \in DOMAIN queue /\ \A j \in 1 .. i : queue[j] # w
      /\ inFlight[current] # None =>
           /\ Len(cb) + 1 \in DOMAIN queue
           /\ \A j \in 1 .. (Len(cb) + 1) : queue[j] # w
  BY <1>1, NotAccepted
<1>3. \A i \in DOMAIN cb : cb[i] \in Writes
  <2>1. \A i \in DOMAIN cb : cb[i] \in Events
    BY <1>1, LenProperties DEF AInv, TypeOK
  <2>2. \A i \in DOMAIN cb : cb[i] \notin First
    BY <1>1 DEF AInv, LinksAreApart
  <2>3. \A i \in DOMAIN cb : cb[i] # "disconnected"
    BY <1>1 DEF AInv, CallbacksInOrder, Up
  <2> QED BY <2>1, <2>2, <2>3 DEF Events
<1>4. /\ Len(queue) \in Nat /\ DOMAIN queue = 1 .. Len(queue)
      /\ \A i \in DOMAIN queue : i \in DOMAIN Queued(w) /\ Queued(w)[i] = queue[i]
      /\ \A i \in DOMAIN Queued(w) :
           \/ i \in DOMAIN queue
           \/ /\ i = Len(queue) + 1 /\ Queued(w)[i] = w
              /\ \A j \in DOMAIN queue : queue[j] # w
      /\ \E i \in DOMAIN Queued(w) : Queued(w)[i] = w
  BY QueuedHolds
<1>5. Accepted \in Nat /\ Accepted <= Len(queue) /\ \A j \in 1 .. Accepted : queue[j] # w
  <2>1. Len(cb) <= Len(queue) /\ \A j \in 1 .. Len(cb) : queue[j] # w
    <3>1. CASE Len(cb) = 0
      BY <1>2, <1>4, <3>1
    <3>2. CASE Len(cb) # 0
      <4>1. Len(cb) \in DOMAIN cb
        BY <1>2, <3>2
      <4>2. Len(cb) \in DOMAIN queue /\ \A j \in 1 .. Len(cb) : queue[j] # w
        BY <1>2, <1>3, <4>1
      <4> QED BY <1>4, <4>2
    <3> QED BY <3>1, <3>2
  <2>2. CASE inFlight[current] = None
    BY <1>2, <2>1, <2>2 DEF Accepted
  <2>3. CASE inFlight[current] # None
    BY <1>2, <1>4, <2>3 DEF Accepted
  <2> QED BY <2>2, <2>3
<1>6. ASSUME NEW i \in DOMAIN queue, i > Accepted
      PROVE  i = Accepted + 1 /\ queue[i] = w
  <2>1. i = Accepted + 1 /\ queue[i] \in retry
    BY <1>6 DEF AInv, QueueIsTheirs
  <2>2. queue[i] \in Writes /\ by[queue[i]] = current
    BY QueuedForLink
  <2>3. Active(queue[i])
    BY <1>1, <2>1, <2>2, NamesDiffer DEF AInv, WritesAreApart
  <2>4. Active(w)
    BY <1>1, NamesDiffer DEF AInv, WritesAreApart, Active
  <2> QED BY <2>1, <2>2, <2>3, <2>4 DEF AInv, WritesAreKnown
<1> HIDE DEF cb
<1>7. PICK p \in DOMAIN Queued(w) : Queued(w)[p] = w
  BY <1>4
<1>8. CASE p \in DOMAIN queue
  <2>1. queue[p] = w
    BY <1>4, <1>7, <1>8
  <2>2. p > Accepted
    BY <1>4, <1>5, <1>8, <2>1
  <2>3. p = Accepted + 1
    BY <1>6, <1>8, <2>2
  <2>4. \A i \in DOMAIN Queued(w) : i \in DOMAIN queue
    BY <1>4, <1>8, <2>1
  <2>5. \A i \in DOMAIN queue : i <= Accepted + 1
    BY <1>4, <1>5, <1>6
  <2> QED BY <1>7, <2>3, <2>4, <2>5
<1>9. CASE p \notin DOMAIN queue
  <2>1. p = Len(queue) + 1 /\ \A j \in DOMAIN queue : queue[j] # w
    BY <1>4, <1>7, <1>9
  <2>2. \A i \in DOMAIN queue : ~(i > Accepted)
    BY <1>6, <2>1
  <2>3. Len(queue) = Accepted
    <3>1. CASE Len(queue) = 0
      BY <1>5, <3>1
    <3>2. CASE Len(queue) # 0
      <4>1. Len(queue) \in DOMAIN queue
        BY <1>4, <3>2
      <4>2. ~(Len(queue) > Accepted)
        BY <2>2, <4>1
      <4>3. Len(queue) \in Nat /\ Accepted \in Nat /\ Accepted <= Len(queue)
        BY <1>4, <1>5
      <4> QED BY <4>2, <4>3
    <3> QED BY <3>1, <3>2
  <2>4. \A i \in DOMAIN Queued(w) : i <= Len(queue) + 1
    BY <1>4
  <2> QED BY <1>7, <2>1, <2>3, <2>4
<1> QED BY <1>8, <1>9

\* A write is given the slot and is to be called.
LEMMA InstallKeeps ==
  ASSUME AInv, NEW c \in Calls, NEW w \in Writes, Install(c, w)
  PROVE  AInv'
<1> USE DEF rust, callers, bridge, platform
<1>1. /\ call[c] = "open" /\ entry.here /\ mine[c] \in {None, entry.session}
      /\ op[w] = "idle" /\ ~Busy(c) /\ jni[w] = "none"
      /\ entry' = [entry EXCEPT !.write = w]
      /\ by' = [by EXCEPT ![w] = c] /\ jni' = [jni EXCEPT ![w] = "write"]
      /\ crossed' = (crossed \/ mine[c] # c)
      /\ UNCHANGED <<rx, call, mine, bridge, platform, radio, losses>>
  BY DEF Install, OwnsEntry, AInv, WritesAreKnown
<1>2. /\ entry' \in Entries /\ entry'.here /\ entry'.session = entry.session
      /\ entry'.live = entry.live /\ entry'.waiter = entry.waiter /\ entry'.write = w
  BY <1>1 DEF AInv, TypeOK, Entries
<1>3. \A v \in Writes :
        /\ op'[v] = IF v = w THEN "waiting" ELSE IF op[v] = "waiting" THEN "failed" ELSE op[v]
        /\ by'[v] = IF v = w THEN c ELSE by[v]
        /\ jni'[v] = IF v = w THEN "write" ELSE jni[v]
  <2>1. \A v \in Writes : op[v] = "waiting" <=> entry.write = v
    BY DEF AInv, WritesAreKnown
  <2>2. op' = [v \in Writes |-> IF v = w THEN "waiting"
                                ELSE IF v = entry.write THEN "failed" ELSE op[v]]
    BY DEF Install
  <2> QED BY <1>1, <2>1, <2>2 DEF AInv, TypeOK
<1>4. TypeOK'
  <2>1. op' \in [Writes -> {"idle", "waiting", "ok", "failed", "dropped"}]
    BY DEF Install, AInv, TypeOK
  <2> QED BY <1>1, <1>2, <2>1 DEF AInv, TypeOK
<1>5. WaitersAgree'
  BY <1>1, <1>2 DEF AInv, WaitersAgree
<1>6. GattsHaveCalls' /\ CallbacksInOrder'
  BY <1>1, OrderUntouched DEF AInv, GattsHaveCalls
<1>7. /\ w \notin retry /\ \A i \in DOMAIN queue : queue[i] # w
      /\ \A g \in Calls : inFlight[g] # w
      /\ \A g \in Calls : \A i \in DOMAIN callbacks[g] : callbacks[g][i] # w
  BY <1>1, FreshIsNowhere
<1>8. WritesAreKnown'
  <2>1. \A v \in Writes : op'[v] = "waiting" <=> entry'.write = v
    BY <1>2, <1>3
  <2>2. \A v \in Writes : /\ op'[v] = "idle" => jni'[v] = "none"
                          /\ op'[v] # "idle" => by'[v] # None
                          /\ jni'[v] = "cancel" => op'[v] = "dropped"
    BY <1>3, NamesDiffer DEF AInv, WritesAreKnown
  <2>3. \A v \in Writes : v # w /\ Active(v)' => Active(v) /\ by'[v] = by[v]
    BY <1>3 DEF Active
  <2>4. \A v \in Writes : Active(v) => by[v] # c
    BY <1>1 DEF Busy, Active
  <2>5. \A u, v \in Writes : Active(u)' /\ Active(v)' /\ by'[u] = by'[v] => u = v
    <3> SUFFICES ASSUME NEW u \in Writes, NEW v \in Writes,
                        Active(u)', Active(v)', by'[u] = by'[v]
                 PROVE  u = v
      OBVIOUS
    <3>1. by'[w] = c
      BY <1>3
    <3>2. CASE u # w /\ v # w
      <4>1. Active(u) /\ Active(v) /\ by[u] = by[v]
        BY <2>3, <3>2
      <4> QED BY <4>1 DEF AInv, WritesAreKnown
    <3>3. CASE u = w \/ v = w
      BY <2>3, <2>4, <3>1, <3>3
    <3> QED BY <3>2, <3>3
  <2>6. \A v \in Writes : v # w /\ Started(v) => Started(v)'
    BY <1>3 DEF Started
  <2>7. \A v \in retry' : Started(v)'
    <3> SUFFICES ASSUME NEW v \in retry PROVE Started(v)'
      BY <1>1
    <3> QED BY <1>7, <2>6 DEF AInv, WritesAreKnown, TypeOK
  <2>8. \A i \in DOMAIN queue' : Started(queue[i])'
    <3> SUFFICES ASSUME NEW i \in DOMAIN queue PROVE Started(queue[i])'
      BY <1>1
    <3>1. queue[i] \in Writes /\ Started(queue[i]) /\ queue[i] # w
      BY <1>7, LenProperties DEF AInv, WritesAreKnown, TypeOK
    <3>2. PICK v \in Writes : v = queue[i]
      BY <3>1
    <3> QED BY <1>1, <2>6, <3>1, <3>2 DEF Started
  <2>9. \A g \in Calls : inFlight'[g] # None => Started(inFlight[g])'
    <3> SUFFICES ASSUME NEW g \in Calls, inFlight[g] # None PROVE Started(inFlight[g])'
      BY <1>1
    <3>1. inFlight[g] \in Writes /\ Started(inFlight[g]) /\ inFlight[g] # w
      BY <1>7 DEF AInv, WritesAreKnown, TypeOK
    <3>2. PICK v \in Writes : v = inFlight[g]
      BY <3>1
    <3> QED BY <1>1, <2>6, <3>1, <3>2 DEF Started
  <2>10. \A g \in Calls : \A i \in DOMAIN callbacks'[g] :
           (callbacks[g][i] \in Writes => Started(callbacks[g][i]))'
    <3> SUFFICES ASSUME NEW g \in Calls, NEW i \in DOMAIN callbacks[g],
                        callbacks[g][i] \in Writes
                 PROVE  Started(callbacks[g][i])'
      BY <1>1
    <3>1. Started(callbacks[g][i]) /\ callbacks[g][i] # w
      BY <1>7 DEF AInv, WritesAreKnown
    <3>2. PICK v \in Writes : v = callbacks[g][i]
      OBVIOUS
    <3> QED BY <1>1, <2>6, <3>1, <3>2 DEF Started
  <2>11. \A i, j \in DOMAIN queue' : queue'[i] = queue'[j] => i = j
    BY <1>1 DEF AInv, WritesAreKnown
  <2> QED BY <2>1, <2>2, <2>5, <2>7, <2>8, <2>9, <2>10, <2>11 DEF WritesAreKnown
<1>9. ASSUME ~crossed'
      PROVE  /\ ~crossed /\ LinksAreApart /\ WritesAreApart /\ QueueIsTheirs
             /\ mine[c] = c /\ entry.session = c
             /\ \A v \in Writes : op[v] # "waiting"
  <2>1. /\ ~crossed /\ LinksAreApart /\ WritesAreApart /\ QueueIsTheirs
        /\ mine[c] = c /\ entry.session = c
    BY <1>1, <1>9, NamesDiffer DEF AInv
  <2>2. ASSUME NEW v \in Writes, op[v] = "waiting" PROVE FALSE
    <3>1. by[v] = c
      BY <2>1, <2>2, WaitingHoldsLink
    <3> QED BY <1>1, <2>2, <3>1 DEF Busy
  <2> QED BY <2>1, <2>2
<1>10. ASSUME ~crossed' PROVE LinksAreApart' /\ WritesAreApart' /\ QueueIsTheirs'
  <2>1. LinksAreApart'
    BY <1>1, <1>2, <1>9, <1>10 DEF LinksAreApart, Due
  <2>2. WritesAreApart'
    <3>1. \A v \in Writes : by'[v] # None => mine'[by'[v]] = by'[v]
      BY <1>1, <1>3, <1>9, <1>10 DEF WritesAreApart
    <3>2. by'[entry'.write] = entry'.session
      BY <1>2, <1>3, <1>9, <1>10
    <3>3. ASSUME NEW v \in Writes, by'[v] = current, current # None
          PROVE  /\ jni'[v] = "write" => op'[v] = "waiting"
                 /\ v \in retry => Active(v)'
      <4>1. CASE v = w
        BY <1>3, <1>7, <4>1
      <4>2. CASE v # w
        BY <1>3, <1>9, <1>10, <3>3, <4>2 DEF WritesAreApart, Active
      <4> QED BY <4>1, <4>2
    <3>4. \A i \in DOMAIN queue : by'[queue[i]] = current
      <4> SUFFICES ASSUME NEW i \in DOMAIN queue PROVE by'[queue[i]] = current
        OBVIOUS
      <4>1. queue[i] \in Writes /\ queue[i] # w
        BY <1>7, LenProperties DEF AInv, TypeOK
      <4> QED BY <1>3, <1>9, <1>10, <4>1 DEF WritesAreApart
    <3> QED BY <1>1, <3>1, <3>2, <3>3, <3>4 DEF WritesAreApart
  <2>3. QueueIsTheirs'
    BY <1>1, <1>9, <1>10 DEF QueueIsTheirs, Accepted
  <2> QED BY <2>1, <2>2, <2>3
<1>11. WaiterIsAnswered'
  <2> SUFFICES ASSUME NEW v \in Writes, op'[v] = "waiting", jni'[v] = "none", ~crossed'
               PROVE  FALSE
    BY DEF WaiterIsAnswered
  <2> QED BY <1>3, <1>9
<1>12. NobodyLockedOut'
  BY <1>1, <1>2 DEF AInv, NobodyLockedOut, Undoing
<1> QED BY <1>4, <1>5, <1>6, <1>8, <1>10, <1>11, <1>12 DEF AInv

\* An attempt is taken by the platform, refused to be made again, or the last.
LEMMA AttemptKeeps ==
  ASSUME AInv, NEW w \in Writes, w \in retry \/ jni[w] = "write", Attempt(w),
         jni' \in [Writes -> {"none", "write", "cancel"}],
         jni'[w] # "write", jni'[w] \in {"none", jni[w]},
         jni[w] # "write" => jni'[w] = jni[w],
         \A v \in Writes : v # w => jni'[v] = jni[v],
         UNCHANGED <<callers, current, services, gatt, callbacks, radio, losses, crossed>>
  PROVE  AInv'
<1> USE DEF rust, callers, bridge, platform
<1> DEFINE held  == current # None /\ mine[by[w]] = current
           taken == gatt[current] = "ready" /\ inFlight[current] = None
<1>1. op[w] # "idle" /\ by[w] # None /\ by[w] \in Calls
  BY DEF AInv, WritesAreKnown, Started, TypeOK
<1>2. \/ /\ held /\ services /\ taken
         /\ inFlight' = [inFlight EXCEPT ![current] = w]
         /\ queue' = Queued(w) /\ retry' = retry \ {w}
         /\ UNCHANGED <<rust, tries>>
      \/ /\ held /\ services /\ tries[w] < Retries
         /\ queue' = Queued(w) /\ retry' = retry \cup {w}
         /\ tries' = [tries EXCEPT ![w] = @ + 1]
         /\ UNCHANGED <<rust, inFlight>>
      \/ /\ queue' = Removed(w) /\ retry' = retry \ {w}
         /\ WriteResult(w, "failed")
         /\ UNCHANGED <<tries, inFlight>>
  BY DEF Attempt
<1>3. WriteResult(w, "failed") =>
        /\ entry' \in Entries
        /\ entry'.here = entry.here /\ entry'.session = entry.session
        /\ entry'.live = entry.live /\ entry'.waiter = entry.waiter
        /\ entry'.write = IF entry.write = w THEN None ELSE entry.write
        /\ ~entry.here => entry' = NoEntry
        /\ rx' = rx
        /\ op' \in [Writes -> {"idle", "waiting", "ok", "failed", "dropped"}]
        /\ \A v \in Writes :
             op'[v] = IF v = w /\ op[w] = "waiting" THEN "failed" ELSE op[v]
  BY WriteResultDoes
<1>4. /\ Queued(w) \in Seq(Writes) /\ Len(queue) \in Nat /\ DOMAIN queue = 1 .. Len(queue)
      /\ \A i \in DOMAIN queue : i \in DOMAIN Queued(w) /\ Queued(w)[i] = queue[i]
      /\ \A i \in DOMAIN Queued(w) :
           \/ i \in DOMAIN queue
           \/ i = Len(queue) + 1 /\ Queued(w)[i] = w
      /\ \A i, j \in DOMAIN Queued(w) : Queued(w)[i] = Queued(w)[j] => i = j
  BY QueuedHolds
<1>5. /\ Removed(w) \in Seq(Writes)
      /\ \A i \in DOMAIN Removed(w) :
           /\ Removed(w)[i] # w
           /\ \E j \in DOMAIN queue : Removed(w)[i] = queue[j] /\ j >= i
      /\ \A i, j \in DOMAIN Removed(w) : Removed(w)[i] = Removed(w)[j] => i = j
      /\ \A k \in DOMAIN queue : (\A i \in 1 .. k : queue[i] # w)
           => k \in DOMAIN Removed(w) /\ Removed(w)[k] = queue[k]
  BY RemoveHolds DEF Removed, AInv, TypeOK, WritesAreKnown
<1>6. /\ entry' \in Entries
      /\ entry'.here = entry.here /\ entry'.session = entry.session
      /\ entry'.live = entry.live /\ entry'.waiter = entry.waiter
      /\ entry'.write \in {None, entry.write} /\ (~entry'.here => entry' = NoEntry)
      /\ rx' = rx /\ op' \in [Writes -> {"idle", "waiting", "ok", "failed", "dropped"}]
      /\ \A v \in Writes : /\ v # w => op'[v] = op[v]
                           /\ op'[v] = "waiting" => op[v] = "waiting"
                           /\ op'[v] = "idle" <=> op[v] = "idle"
                           /\ op[v] # "waiting" => op'[v] = op[v]
                           /\ op'[v] = "waiting" <=> entry'.write = v
  <2>1. CASE UNCHANGED rust
    BY <2>1 DEF AInv, TypeOK, WritesAreKnown, WaitersAgree
  <2>2. CASE WriteResult(w, "failed")
    BY <1>3, <2>2, NamesDiffer DEF AInv, WritesAreKnown
  <2> QED BY <1>2, <2>1, <2>2
<1>7. TypeOK'
  <2>1. entry' \in Entries /\ rx' = rx /\ op' \in [Writes -> {"idle", "waiting", "ok", "failed", "dropped"}]
    BY <1>6
  <2>2. queue' \in Seq(Writes) /\ retry' \subseteq Writes /\ tries' \in [Writes -> Nat]
        /\ inFlight' \in [Calls -> Writes \cup {None}]
    <3>1. queue' \in Seq(Writes) /\ retry' \subseteq Writes
      BY <1>2, <1>4, <1>5 DEF AInv, TypeOK
    <3>2. inFlight' \in [Calls -> Writes \cup {None}]
      <4>1. inFlight' = inFlight \/ inFlight' = [inFlight EXCEPT ![current] = w]
        BY <1>2
      <4> QED BY <4>1 DEF AInv, TypeOK
    <3>3. tries' \in [Writes -> Nat]
      <4>1. tries' = tries \/ tries' = [tries EXCEPT ![w] = @ + 1]
        BY <1>2
      <4>2. tries \in [Writes -> Nat] /\ tries[w] + 1 \in Nat
        BY DEF AInv, TypeOK
      <4> QED BY <4>1, <4>2
    <3> QED BY <3>1, <3>2, <3>3
  <2> QED BY <2>1, <2>2 DEF AInv, TypeOK
<1>8. WaitersAgree' /\ GattsHaveCalls'
  <2>1. WaitersAgree'
    BY <1>6 DEF AInv, WaitersAgree
  <2>2. GattsHaveCalls'
    BY DEF AInv, GattsHaveCalls
  <2> QED BY <2>1, <2>2
<1>9. \A g \in Calls : \/ inFlight'[g] = inFlight[g]
                       \/ /\ inFlight'[g] = w /\ g = current /\ held
                          /\ gatt[g] = "ready"
  BY <1>2 DEF AInv, TypeOK
<1>10. WritesAreKnown'
  <2>1. retry' \subseteq retry \cup {w}
    BY <1>2
  <2>2. \A i \in DOMAIN queue' : queue'[i] = w \/ \E j \in DOMAIN queue : queue'[i] = queue[j]
    BY <1>2, <1>4, <1>5
  <2>3. \A i, j \in DOMAIN queue' : queue'[i] = queue'[j] => i = j
    BY <1>2, <1>4, <1>5
  <2>4. \A g \in Calls : inFlight'[g] \in {inFlight[g], w}
    BY <1>9
  <2> QED BY <1>1, <1>6, <2>1, <2>2, <2>3, <2>4, WritesStayWith
<1>11. CallbacksInOrder'
  <2>1. \A g \in Calls : inFlight'[g] # None =>
          /\ gatt[g] \in {"ready", "closed"}
          /\ \A i \in DOMAIN callbacks[g] : callbacks[g][i] # "disconnected"
    BY <1>9 DEF AInv, CallbacksInOrder, Up
  <2> QED BY <2>1 DEF AInv, CallbacksInOrder
<1>12. ASSUME ~crossed'
       PROVE  /\ ~crossed /\ LinksAreApart /\ WritesAreApart /\ QueueIsTheirs
              /\ held => by[w] = current /\ current \in Calls /\ rx[current] = "ok"
  <2>1. ~crossed /\ LinksAreApart /\ WritesAreApart /\ QueueIsTheirs
    BY <1>12 DEF AInv
  <2> QED BY <1>1, <2>1, HandleIsThere
<1>13. ASSUME ~crossed' PROVE LinksAreApart'
  <2>1. \A g \in Calls : inFlight'[g] # None => rx[g] = "ok"
    BY <1>9, <1>12, <1>13 DEF LinksAreApart
  <2> QED BY <1>6, <1>12, <1>13, <2>1 DEF LinksAreApart, Due
<1>14. ASSUME ~crossed' PROVE WritesAreApart'
  <2>1. entry'.write # None => by'[entry'.write] = entry'.session
    BY <1>6, <1>12, <1>14 DEF WritesAreApart
  <2>2. ASSUME NEW v \in Writes, by[v] = current, current # None
        PROVE  /\ jni'[v] = "write" => op'[v] = "waiting"
               /\ v \in retry' => Active(v)'
    <3>1. CASE v # w
      <4>1. jni'[v] = jni[v] /\ op'[v] = op[v] /\ (v \in retry' => v \in retry)
        BY <1>2, <1>6, <3>1
      <4> QED BY <1>12, <1>14, <2>2, <4>1 DEF WritesAreApart, Active
    <3>2. CASE v = w
      <4>1. Active(w) /\ (jni[w] = "write" => op[w] = "waiting")
        BY <1>12, <1>14, <2>2, <3>2 DEF WritesAreApart, Active
      <4>2. w \in retry' => UNCHANGED rust
        BY <1>2
      <4>3. w \in retry' => Active(w)'
        BY <4>1, <4>2 DEF Active
      <4> QED BY <3>2, <4>3
    <3> QED BY <3>1, <3>2
  <2>3. \A i \in DOMAIN queue' : by[queue'[i]] = current
    <3> SUFFICES ASSUME NEW i \in DOMAIN queue' PROVE by[queue'[i]] = current
      OBVIOUS
    <3>1. CASE held /\ queue' = Queued(w)
      <4>1. i \in DOMAIN queue \/ queue'[i] = w
        BY <1>4, <3>1
      <4>2. i \in DOMAIN queue => queue'[i] = queue[i]
        BY <1>4, <3>1
      <4> QED BY <1>12, <1>14, <3>1, <4>1, <4>2 DEF WritesAreApart
    <3>2. CASE queue' = Removed(w)
      <4>1. \E j \in DOMAIN queue : queue'[i] = queue[j]
        BY <1>5, <3>2
      <4> QED BY <1>12, <1>14, <4>1 DEF WritesAreApart
    <3> QED BY <1>2, <3>1, <3>2
  <2> QED BY <1>12, <1>14, <2>1, <2>2, <2>3 DEF WritesAreApart
<1>15. ASSUME ~crossed' PROVE QueueIsTheirs'
  <2> SUFFICES ASSUME current # None PROVE QueueIsTheirs'
    BY DEF QueueIsTheirs
  <2> DEFINE cb == callbacks[current]
             n == Len(cb) + 1
  <2>0. current \in Calls
    BY DEF AInv, TypeOK
  <2>1. CASE queue = <<>> /\ ~held
    <3>1. queue' = <<>> /\ inFlight' = inFlight
      <4>1. queue' = Removed(w) /\ inFlight' = inFlight
        BY <1>2, <2>1
      <4>2. \A i \in DOMAIN Removed(w) : FALSE
        BY <1>5, <2>1
      <4>3. Removed(w) = <<>>
        <5>1. Len(Removed(w)) \in Nat /\ DOMAIN Removed(w) = 1 .. Len(Removed(w))
          BY <1>5, LenProperties
        <5>2. Len(Removed(w)) # 0 => 1 \in DOMAIN Removed(w)
          BY <5>1
        <5> QED BY <1>5, <4>2, <5>2, EmptySeq
      <4> QED BY <4>1, <4>3
    <3>2. retry' \subseteq retry \cup {w}
      BY <1>2
    <3> QED BY <1>12, <1>15, <2>1, <3>1 DEF QueueIsTheirs, Accepted
  <2>2. CASE queue # <<>> \/ held
    <3>1. rx[current] = "ok"
      <4>1. CASE held
        BY <1>12, <1>15, <4>1
      <4>2. CASE queue # <<>>
        <5>1. queue \in Seq(Writes)
          BY DEF AInv, TypeOK
        <5>2. 1 \in DOMAIN queue
          BY <4>2, <5>1, TailHolds
        <5> QED BY <1>12, <1>15, <5>2, QueuedForLink
      <4> QED BY <2>2, <4>1, <4>2
    <3>2. /\ Len(cb) \in Nat /\ DOMAIN cb = 1 .. Len(cb)
          /\ \A i \in DOMAIN cb : cb[i] \in Writes =>
               /\ i \in DOMAIN queue /\ queue[i] = cb[i]
               /\ \A j \in 1 .. i : queue[j] # w
          /\ inFlight[current] # None =>
               /\ n \in DOMAIN queue /\ queue[n] = inFlight[current]
               /\ \A j \in 1 .. n : queue[j] # w
      BY <1>12, <1>15, <3>1, NotAccepted
    <3>3. \A k \in DOMAIN queue : (\A j \in 1 .. k : queue[j] # w)
            => k \in DOMAIN queue' /\ queue'[k] = queue[k]
      BY <1>2, <1>4, <1>5
    <3>4. /\ \A i \in DOMAIN cb : cb[i] \in Writes => queue[i] \notin retry
          /\ inFlight[current] # None => queue[n] \notin retry
      BY <1>12, <1>15, <2>0 DEF QueueIsTheirs
    <3>5. retry' \subseteq retry \cup {w}
      BY <1>2
    <3>6. \A i \in DOMAIN cb : cb[i] \in Writes =>
            /\ i \in DOMAIN queue' /\ queue'[i] = cb[i] /\ queue'[i] \notin retry'
      <4> SUFFICES ASSUME NEW i \in DOMAIN cb, cb[i] \in Writes
                   PROVE  /\ i \in DOMAIN queue' /\ queue'[i] = cb[i]
                          /\ queue'[i] \notin retry'
        OBVIOUS
      <4>1. /\ i \in DOMAIN queue /\ queue[i] = cb[i] /\ queue[i] \notin retry
            /\ \A j \in 1 .. i : queue[j] # w
        BY <3>2, <3>4
      <4>2. i \in 1 .. i
        BY <3>2
      <4> QED BY <3>3, <3>5, <4>1, <4>2
    <3>7. inFlight[current] # None =>
            /\ n \in DOMAIN queue' /\ queue'[n] = inFlight[current]
            /\ queue'[n] \notin retry'
      <4> SUFFICES ASSUME inFlight[current] # None
                   PROVE  /\ n \in DOMAIN queue' /\ queue'[n] = inFlight[current]
                          /\ queue'[n] \notin retry'
        OBVIOUS
      <4>1. /\ n \in DOMAIN queue /\ queue[n] = inFlight[current] /\ queue[n] \notin retry
            /\ \A j \in 1 .. n : queue[j] # w
        BY <3>2, <3>4
      <4>2. n \in 1 .. n
        BY <3>2
      <4> QED BY <3>3, <3>5, <4>1, <4>2
    <3>8. held /\ gatt[current] = "ready" =>
            /\ Accepted + 1 \in DOMAIN Queued(w) /\ Queued(w)[Accepted + 1] = w
            /\ \A i \in DOMAIN Queued(w) : i <= Accepted + 1
      BY <1>12, <1>15, NextPlace
    <3>9. CASE held /\ services /\ taken /\ inFlight' = [inFlight EXCEPT ![current] = w]
               /\ queue' = Queued(w) /\ retry' = retry \ {w}
      <4>1. Accepted = Len(cb) /\ inFlight'[current] = w /\ Accepted' = n
        BY <2>0, <3>2, <3>9, NamesDiffer DEF Accepted, AInv, TypeOK
      <4>2. n \in DOMAIN queue' /\ queue'[n] = w /\ \A i \in DOMAIN queue' : i <= n
        BY <3>8, <3>9, <4>1
      <4>3. \A i \in DOMAIN queue' : i > Accepted' => i = Accepted' + 1 /\ queue'[i] \in retry'
        <5>1. \A i \in DOMAIN queue' : i \in Nat
          BY <3>9, <1>4, LenProperties
        <5> QED BY <3>2, <4>1, <4>2, <5>1
      <4>4. w \notin retry'
        BY <3>9
      <4> QED BY <3>6, <4>1, <4>2, <4>3, <4>4 DEF QueueIsTheirs
    <3>10. CASE held /\ services /\ queue' = Queued(w) /\ retry' = retry \cup {w}
                /\ inFlight' = inFlight
      <4>1. Accepted' = Accepted /\ Accepted \in Nat
        <5>1. Accepted' = Accepted
          BY <3>10 DEF Accepted
        <5>2. Accepted \in Nat
          BY <3>2, AcceptedIs
        <5> QED BY <5>1, <5>2
      <4>2. gatt[current] = "ready" =>
              \A i \in DOMAIN queue' : i > Accepted => i = Accepted + 1 /\ queue'[i] \in retry'
        <5>1. \A i \in DOMAIN queue' : i \in Nat
          BY <3>10, <1>4, LenProperties
        <5> QED BY <3>8, <3>10, <4>1, <5>1
      <4> QED BY <3>6, <3>7, <3>10, <4>1, <4>2 DEF QueueIsTheirs
    <3>11. CASE queue' = Removed(w) /\ retry' = retry \ {w} /\ inFlight' = inFlight
      <4>1. Accepted' = Accepted /\ Accepted \in Nat
        <5>1. Accepted' = Accepted
          BY <3>11 DEF Accepted
        <5>2. Accepted \in Nat
          BY <3>2, AcceptedIs
        <5> QED BY <5>1, <5>2
      <4>2. ASSUME gatt[current] = "ready", NEW i \in DOMAIN queue', i > Accepted
            PROVE  i = Accepted + 1 /\ queue'[i] \in retry'
        <5>1. PICK j \in DOMAIN queue : queue'[i] = queue[j] /\ j >= i
          BY <1>5, <3>11
        <5>2. queue'[i] # w
          BY <1>5, <3>11
        <5>3. i \in Nat /\ j \in Nat
          BY <1>4, <1>5, <3>11, LenProperties
        <5>4. j > Accepted
          BY <4>1, <4>2, <5>1, <5>3
        <5>5. j = Accepted + 1 /\ queue[j] \in retry
          BY <1>12, <1>15, <4>2, <5>4 DEF QueueIsTheirs
        <5> QED BY <3>11, <4>1, <4>2, <5>1, <5>2, <5>3, <5>5
      <4> QED BY <3>6, <3>7, <3>11, <4>1, <4>2 DEF QueueIsTheirs
    <3> QED BY <1>2, <3>9, <3>10, <3>11
  <2> QED BY <2>1, <2>2
<1>16. WaiterIsAnswered'
  <2> SUFFICES ASSUME NEW v \in Writes, op'[v] = "waiting", jni'[v] = "none", ~crossed'
               PROVE  /\ entry'.write = v
                      /\ \/ v \in retry'
                         \/ /\ current # None
                            /\ \/ inFlight'[current] = v
                               \/ \E k \in DOMAIN callbacks[current] :
                                    callbacks[current][k] \in {v, "disconnected"}
    BY DEF WaiterIsAnswered
  <2>1. entry'.write = v /\ op[v] = "waiting"
    BY <1>6
  <2>2. CASE v = w
    <3>1. ~WriteResult(w, "failed") \/ op[w] # "waiting"
      BY <1>3, <2>2
    <3>2. \/ held /\ inFlight' = [inFlight EXCEPT ![current] = w]
          \/ retry' = retry \cup {w}
      BY <1>2, <2>1, <2>2, <3>1
    <3>3. held => current \in Calls
      BY DEF AInv, TypeOK
    <3> QED BY <2>1, <2>2, <3>2, <3>3 DEF AInv, TypeOK
  <2>3. CASE v # w
    <3>1. jni[v] = "none" /\ ~crossed
      BY <2>3
    <3>2. \/ v \in retry
          \/ /\ current # None
             /\ \/ inFlight[current] = v
                \/ \E k \in DOMAIN callbacks[current] :
                     callbacks[current][k] \in {v, "disconnected"}
      BY <2>1, <3>1 DEF AInv, WaiterIsAnswered
    <3>3. v \in retry => v \in retry'
      BY <1>2, <2>3
    <3>4. current # None /\ inFlight[current] = v => inFlight'[current] = v
      BY <1>2, NamesDiffer DEF AInv, TypeOK
    <3> QED BY <2>1, <3>2, <3>3, <3>4
  <2> QED BY <2>2, <2>3
<1>17. NobodyLockedOut'
  BY <1>6 DEF AInv, NobodyLockedOut, Undoing
<1> QED BY <1>7, <1>8, <1>10, <1>11, <1>13, <1>14, <1>15, <1>16, <1>17 DEF AInv

\* The first attempt.
LEMMA WriteCallKeeps ==
  ASSUME AInv, NEW w \in Writes, WriteCall(w)
  PROVE  AInv'
<1> USE DEF rust, callers, bridge, platform
<1>1. /\ jni[w] = "write" /\ Attempt(w) /\ jni' = [jni EXCEPT ![w] = "none"]
      /\ UNCHANGED <<callers, current, services, gatt, callbacks, radio, losses, crossed>>
  BY DEF WriteCall
<1>2. /\ jni' \in [Writes -> {"none", "write", "cancel"}] /\ jni'[w] = "none"
      /\ \A v \in Writes : v # w => jni'[v] = jni[v]
  BY <1>1 DEF AInv, TypeOK
<1> QED BY <1>1, <1>2, AttemptKeeps

\* A later one.
LEMMA RetryRunsKeeps ==
  ASSUME AInv, NEW w \in Writes, RetryRuns(w)
  PROVE  AInv'
<1>1. /\ w \in retry /\ Attempt(w) /\ jni' = jni
      /\ UNCHANGED <<callers, current, services, gatt, callbacks, radio, losses, crossed>>
  BY DEF RetryRuns
<1>2. jni' \in [Writes -> {"none", "write", "cancel"}] /\ jni[w] # "write"
  BY <1>1 DEF AInv, TypeOK, WritesAreKnown, Started
<1> QED BY <1>1, <1>2, AttemptKeeps

\* The future is dropped, and the bridge is to be told.
LEMMA WriteDroppedKeeps ==
  ASSUME AInv, NEW w \in Writes, WriteDropped(w)
  PROVE  AInv'
<1> USE DEF rust, callers, bridge, platform
<1>1. /\ op[w] = "waiting" /\ jni[w] = "none" /\ entry.write = w
      /\ op' = [op EXCEPT ![w] = "dropped"]
      /\ entry' = [entry EXCEPT !.write = None] /\ jni' = [jni EXCEPT ![w] = "cancel"]
      /\ UNCHANGED <<rx, callers, bridge, platform, radio, losses, crossed>>
  BY DEF WriteDropped, AInv, WritesAreKnown
<1>2. /\ entry' \in Entries /\ entry'.here = entry.here /\ entry'.session = entry.session
      /\ entry'.live = entry.live /\ entry'.waiter = entry.waiter /\ entry'.write = None
  BY <1>1 DEF AInv, TypeOK, Entries
<1>3. \A v \in Writes : /\ op'[v] = IF v = w THEN "dropped" ELSE op[v]
                        /\ jni'[v] = IF v = w THEN "cancel" ELSE jni[v]
  BY <1>1 DEF AInv, TypeOK
<1>4. TypeOK'
  BY <1>1, <1>2 DEF AInv, TypeOK
<1>5. WaitersAgree'
  <2>1. entry.here
    BY <1>1, NamesDiffer DEF AInv, WaitersAgree, NoEntry
  <2> QED BY <1>1, <1>2, <2>1 DEF AInv, WaitersAgree
<1>6. GattsHaveCalls' /\ CallbacksInOrder'
  BY <1>1, OrderUntouched DEF AInv, GattsHaveCalls
<1>7. WritesAreKnown'
  <2>1. \A v \in Writes : op'[v] = "waiting" <=> entry'.write = v
    BY <1>1, <1>2, <1>3, NamesDiffer DEF AInv, WritesAreKnown
  <2>2. \A v \in Writes : /\ op'[v] = "idle" => jni'[v] = "none"
                          /\ op'[v] # "idle" => by'[v] # None
                          /\ jni'[v] = "cancel" => op'[v] = "dropped"
    BY <1>1, <1>3 DEF AInv, WritesAreKnown
  <2>3. \A v \in Writes : /\ Active(v)' => Active(v)
                          /\ Started(v) => Started(v)'
    BY <1>1, <1>3 DEF Active, Started
  <2>4. \A u, v \in Writes : Active(u)' /\ Active(v)' /\ by'[u] = by'[v] => u = v
    BY <1>1, <2>3 DEF AInv, WritesAreKnown
  <2>5. \A v \in retry' : Started(v)'
    <3> SUFFICES ASSUME NEW v \in retry PROVE Started(v)'
      BY <1>1
    <3> QED BY <2>3 DEF AInv, WritesAreKnown, TypeOK
  <2>6. \A i \in DOMAIN queue' : Started(queue[i])'
    <3> SUFFICES ASSUME NEW i \in DOMAIN queue PROVE Started(queue[i])'
      BY <1>1
    <3>1. queue[i] \in Writes /\ Started(queue[i])
      BY LenProperties DEF AInv, WritesAreKnown, TypeOK
    <3>2. PICK v \in Writes : v = queue[i]
      BY <3>1
    <3> QED BY <1>1, <2>3, <3>1, <3>2 DEF Started
  <2>7. \A g \in Calls : inFlight'[g] # None => Started(inFlight[g])'
    <3> SUFFICES ASSUME NEW g \in Calls, inFlight[g] # None PROVE Started(inFlight[g])'
      BY <1>1
    <3>1. inFlight[g] \in Writes /\ Started(inFlight[g])
      BY DEF AInv, WritesAreKnown, TypeOK
    <3>2. PICK v \in Writes : v = inFlight[g]
      BY <3>1
    <3> QED BY <1>1, <2>3, <3>1, <3>2 DEF Started
  <2>8. \A g \in Calls : \A i \in DOMAIN callbacks'[g] :
           (callbacks[g][i] \in Writes => Started(callbacks[g][i]))'
    <3> SUFFICES ASSUME NEW g \in Calls, NEW i \in DOMAIN callbacks[g],
                        callbacks[g][i] \in Writes
                 PROVE  Started(callbacks[g][i])'
      BY <1>1
    <3>1. Started(callbacks[g][i])
      BY DEF AInv, WritesAreKnown
    <3>2. PICK v \in Writes : v = callbacks[g][i]
      OBVIOUS
    <3> QED BY <1>1, <2>3, <3>1, <3>2 DEF Started
  <2>9. \A i, j \in DOMAIN queue' : queue'[i] = queue'[j] => i = j
    BY <1>1 DEF AInv, WritesAreKnown
  <2> QED BY <2>1, <2>2, <2>4, <2>5, <2>6, <2>7, <2>8, <2>9 DEF WritesAreKnown
<1>8. ASSUME ~crossed' PROVE LinksAreApart' /\ WritesAreApart' /\ QueueIsTheirs'
  <2>1. ~crossed /\ LinksAreApart /\ WritesAreApart /\ QueueIsTheirs
    BY <1>1, <1>8 DEF AInv
  <2>2. LinksAreApart'
    BY <1>1, <1>2, <2>1 DEF LinksAreApart, Due
  <2>3. WritesAreApart'
    <3>1. \A v \in Writes : by[v] = current /\ current # None =>
            /\ jni'[v] = "write" => op'[v] = "waiting"
            /\ v \in retry => Active(v)'
      BY <1>3, <2>1 DEF WritesAreApart, Active
    <3> QED BY <1>1, <1>2, <2>1, <3>1 DEF WritesAreApart
  <2>4. QueueIsTheirs'
    BY <1>1, <2>1 DEF QueueIsTheirs, Accepted
  <2> QED BY <2>2, <2>3, <2>4
<1>9. WaiterIsAnswered'
  <2> SUFFICES ASSUME NEW v \in Writes, op'[v] = "waiting", jni'[v] = "none", ~crossed'
               PROVE  FALSE
    BY DEF WaiterIsAnswered
  <2> QED BY <1>1, <1>3 DEF AInv, WritesAreKnown
<1>10. NobodyLockedOut'
  BY <1>1, <1>2 DEF AInv, NobodyLockedOut, Undoing
<1> QED BY <1>4, <1>5, <1>6, <1>7, <1>8, <1>9, <1>10 DEF AInv

\* What the platform has not taken is taken back.
LEMMA CancelCallKeeps ==
  ASSUME AInv, NEW w \in Writes, CancelCall(w)
  PROVE  AInv'
<1> USE DEF rust, callers, bridge, platform
<1>1. /\ jni[w] = "cancel" /\ jni' = [jni EXCEPT ![w] = "none"] /\ op[w] = "dropped"
      /\ queue' = (IF w \in retry THEN Removed(w) ELSE queue) /\ retry' = retry \ {w}
      /\ UNCHANGED <<rust, callers, current, services, tries, platform, radio,
                     losses, crossed>>
  BY DEF CancelCall, TakesBack, AInv, WritesAreKnown
<1>2. \A v \in Writes : jni'[v] = IF v = w THEN "none" ELSE jni[v]
  BY <1>1 DEF AInv, TypeOK
<1>3. /\ Removed(w) \in Seq(Writes)
      /\ \A i \in DOMAIN Removed(w) :
           /\ Removed(w)[i] # w
           /\ \E j \in DOMAIN queue : Removed(w)[i] = queue[j] /\ j >= i
      /\ \A i, j \in DOMAIN Removed(w) : Removed(w)[i] = Removed(w)[j] => i = j
      /\ \A k \in DOMAIN queue : (\A i \in 1 .. k : queue[i] # w)
           => k \in DOMAIN Removed(w) /\ Removed(w)[k] = queue[k]
  BY RemoveHolds DEF Removed, AInv, TypeOK, WritesAreKnown
<1>4. TypeOK'
  BY <1>1, <1>3 DEF AInv, TypeOK
<1>5. WaitersAgree' /\ GattsHaveCalls' /\ CallbacksInOrder'
  BY <1>1, OrderUntouched DEF AInv, GattsHaveCalls, WaitersAgree
<1>6. WritesAreKnown'
  <2>1. \A i \in DOMAIN queue' : queue'[i] = w \/ \E j \in DOMAIN queue : queue'[i] = queue[j]
    BY <1>1, <1>3
  <2>2. \A i, j \in DOMAIN queue' : queue'[i] = queue'[j] => i = j
    BY <1>1, <1>3 DEF AInv, WritesAreKnown
  <2>3. \A v \in Writes : op'[v] = "waiting" <=> entry'.write = v
    BY <1>1 DEF AInv, WritesAreKnown
  <2> QED BY <1>1, <1>2, <2>1, <2>2, <2>3, WritesStayWith
<1>7. ASSUME ~crossed' PROVE ~crossed /\ LinksAreApart /\ WritesAreApart /\ QueueIsTheirs
  BY <1>1, <1>7 DEF AInv
<1>8. ASSUME ~crossed' PROVE LinksAreApart' /\ WritesAreApart'
  <2>1. LinksAreApart'
    BY <1>1, <1>7, <1>8 DEF LinksAreApart, Due
  <2>2. \A v \in Writes : by[v] = current /\ current # None =>
          /\ jni'[v] = "write" => op'[v] = "waiting"
          /\ v \in retry' => Active(v)'
    BY <1>1, <1>2, <1>7, <1>8 DEF WritesAreApart, Active
  <2>3. \A i \in DOMAIN queue' : by[queue'[i]] = current
    BY <1>1, <1>3, <1>7, <1>8 DEF WritesAreApart
  <2> QED BY <1>1, <1>7, <1>8, <2>1, <2>2, <2>3 DEF WritesAreApart
<1>9. ASSUME ~crossed' PROVE QueueIsTheirs'
  <2>1. CASE w \notin retry
    <3>1. queue' = queue /\ retry' = retry
      BY <1>1, <2>1
    <3> QED BY <1>1, <1>7, <1>9, <3>1 DEF QueueIsTheirs, Accepted
  <2>2. CASE w \in retry /\ queue = <<>>
    <3>1. queue' = <<>>
      <4>1. \A i \in DOMAIN Removed(w) : FALSE
        BY <1>3, <2>2
      <4>2. Removed(w) = <<>> \/ 1 \in DOMAIN Removed(w)
        BY <1>3, TailHolds
      <4> QED BY <1>1, <2>2, <4>1, <4>2
    <3> QED BY <1>1, <1>7, <1>9, <2>2, <3>1 DEF QueueIsTheirs, Accepted
  <2>3. CASE w \in retry /\ queue # <<>>
    <3> DEFINE cb == callbacks[current]
               n == Len(cb) + 1
    <3>1. current # None /\ rx[current] = "ok" /\ current \in Calls
      <4>1. queue \in Seq(Writes)
        BY DEF AInv, TypeOK
      <4>2. 1 \in DOMAIN queue
        BY <2>3, <4>1, TailHolds
      <4> QED BY <1>7, <1>9, <4>2, QueuedForLink
    <3>2. /\ Len(cb) \in Nat /\ DOMAIN cb = 1 .. Len(cb)
          /\ \A i \in DOMAIN cb : cb[i] \in Writes =>
               /\ i \in DOMAIN queue /\ queue[i] = cb[i]
               /\ \A j \in 1 .. i : queue[j] # w
          /\ inFlight[current] # None =>
               /\ n \in DOMAIN queue /\ queue[n] = inFlight[current]
               /\ \A j \in 1 .. n : queue[j] # w
      BY <1>7, <1>9, <2>3, <3>1, NotAccepted
    <3>3. \A k \in DOMAIN queue : (\A j \in 1 .. k : queue[j] # w)
            => k \in DOMAIN queue' /\ queue'[k] = queue[k]
      BY <1>1, <1>3
    <3>4. /\ \A i \in DOMAIN cb : cb[i] \in Writes => queue[i] \notin retry
          /\ inFlight[current] # None => queue[n] \notin retry
      BY <1>7, <1>9, <3>1 DEF QueueIsTheirs
    <3>5. \A i \in DOMAIN cb : cb[i] \in Writes =>
            /\ i \in DOMAIN queue' /\ queue'[i] = cb[i] /\ queue'[i] \notin retry'
      <4> SUFFICES ASSUME NEW i \in DOMAIN cb, cb[i] \in Writes
                   PROVE  /\ i \in DOMAIN queue' /\ queue'[i] = cb[i]
                          /\ queue'[i] \notin retry'
        OBVIOUS
      <4>1. /\ i \in DOMAIN queue /\ queue[i] = cb[i] /\ queue[i] \notin retry
            /\ \A j \in 1 .. i : queue[j] # w
        BY <3>2, <3>4
      <4> QED BY <1>1, <3>3, <4>1
    <3>6. inFlight[current] # None =>
            /\ n \in DOMAIN queue' /\ queue'[n] = inFlight[current]
            /\ queue'[n] \notin retry'
      <4> SUFFICES ASSUME inFlight[current] # None
                   PROVE  /\ n \in DOMAIN queue' /\ queue'[n] = inFlight[current]
                          /\ queue'[n] \notin retry'
        OBVIOUS
      <4>1. /\ n \in DOMAIN queue /\ queue[n] = inFlight[current] /\ queue[n] \notin retry
            /\ \A j \in 1 .. n : queue[j] # w
        BY <3>2, <3>4
      <4> QED BY <1>1, <3>3, <4>1
    <3>7. Accepted' = Accepted /\ Accepted \in Nat
      <4>1. Accepted' = Accepted
        BY <1>1 DEF Accepted
      <4>2. Accepted \in Nat
        BY <3>2, AcceptedIs
      <4> QED BY <4>1, <4>2
    <3>8. ASSUME gatt[current] = "ready", NEW i \in DOMAIN queue', i > Accepted
          PROVE  i = Accepted + 1 /\ queue'[i] \in retry'
      <4>1. PICK j \in DOMAIN queue : queue'[i] = queue[j] /\ j >= i
        BY <1>1, <1>3, <2>3
      <4>2. queue'[i] # w
        BY <1>1, <1>3, <2>3
      <4>3. i \in Nat /\ j \in Nat
        BY <1>1, <1>3, <2>3, LenProperties DEF AInv, TypeOK
      <4>4. j > Accepted
        BY <3>7, <3>8, <4>1, <4>3
      <4>5. j = Accepted + 1 /\ queue[j] \in retry
        BY <1>7, <1>9, <3>1, <3>8, <4>4 DEF QueueIsTheirs
      <4> QED BY <1>1, <3>7, <3>8, <4>1, <4>2, <4>3, <4>5
    <3> QED BY <1>1, <3>5, <3>6, <3>7, <3>8 DEF QueueIsTheirs
  <2> QED BY <2>1, <2>2, <2>3
<1>10. WaiterIsAnswered'
  <2> SUFFICES ASSUME NEW v \in Writes, op'[v] = "waiting", jni'[v] = "none", ~crossed'
               PROVE  /\ entry'.write = v
                      /\ \/ v \in retry'
                         \/ /\ current # None
                            /\ \/ inFlight'[current] = v
                               \/ \E k \in DOMAIN callbacks[current] :
                                    callbacks[current][k] \in {v, "disconnected"}
    BY <1>1 DEF WaiterIsAnswered
  <2>1. v # w /\ jni[v] = "none" /\ op[v] = "waiting" /\ ~crossed
    BY <1>1, <1>2
  <2> QED BY <1>1, <2>1 DEF AInv, WaiterIsAnswered
<1>11. NobodyLockedOut'
  BY <1>1 DEF AInv, NobodyLockedOut, Undoing
<1> QED BY <1>4, <1>5, <1>6, <1>8, <1>9, <1>10, <1>11 DEF AInv

-----------------------------------------------------------------------------
(* The platform *)

\* A callback that is reported runs behind the others of its GATT.
LEMMA ReportsAdd ==
  ASSUME AInv, NEW g \in Calls, NEW x \in Events, Reports(g, x)
  PROVE  /\ callbacks' \in [Calls -> Seq(Events)]
         /\ \A h \in Calls : h # g => callbacks'[h] = callbacks[h]
         /\ Len(callbacks[g]) \in Nat /\ Len(callbacks'[g]) = Len(callbacks[g]) + 1
         /\ DOMAIN callbacks[g] = 1 .. Len(callbacks[g])
         /\ DOMAIN callbacks'[g] = 1 .. (Len(callbacks[g]) + 1)
         /\ \A i \in DOMAIN callbacks[g] :
              i \in DOMAIN callbacks'[g] /\ callbacks'[g][i] = callbacks[g][i]
         /\ callbacks'[g][Len(callbacks[g]) + 1] = x
         /\ \A i \in DOMAIN callbacks'[g] :
              i \in DOMAIN callbacks[g] \/ i = Len(callbacks[g]) + 1
<1>1. callbacks \in [Calls -> Seq(Events)] /\ callbacks[g] \in Seq(Events)
  BY DEF AInv, TypeOK
<1>2. /\ callbacks' = [callbacks EXCEPT ![g] = Append(callbacks[g], x)]
      /\ callbacks'[g] = Append(callbacks[g], x)
  BY <1>1 DEF Reports
<1>3. /\ Append(callbacks[g], x) \in Seq(Events) /\ Len(callbacks[g]) \in Nat
      /\ Len(Append(callbacks[g], x)) = Len(callbacks[g]) + 1
      /\ DOMAIN callbacks[g] = 1 .. Len(callbacks[g])
      /\ DOMAIN Append(callbacks[g], x) = 1 .. (Len(callbacks[g]) + 1)
      /\ \A i \in DOMAIN callbacks[g] : Append(callbacks[g], x)[i] = callbacks[g][i]
      /\ Append(callbacks[g], x)[Len(callbacks[g]) + 1] = x
  BY <1>1, AppendHolds
<1>4. callbacks' \in [Calls -> Seq(Events)]
  BY <1>1, <1>2, <1>3
<1>5. \A h \in Calls : h # g => callbacks'[h] = callbacks[h]
  BY <1>1, <1>2
<1>6. /\ \A i \in 1 .. Len(callbacks[g]) : i \in 1 .. (Len(callbacks[g]) + 1)
      /\ \A i \in 1 .. (Len(callbacks[g]) + 1) :
           i \in 1 .. Len(callbacks[g]) \/ i = Len(callbacks[g]) + 1
  BY <1>3
<1> QED BY <1>2, <1>3, <1>4, <1>5, <1>6

\* A GATT moves on and reports it: it links, discovers, goes down or completes a
\* write.
LEMMA ReportKeeps ==
  ASSUME AInv, NEW g \in Calls, NEW s, NEW x \in Events, Reports(g, x),
         gatt[g] \in Up, gatt' = [gatt EXCEPT ![g] = s],
         \A h \in Calls : inFlight'[h] = IF h = g THEN None ELSE inFlight[h],
         inFlight' \in [Calls -> Writes \cup {None}],
         \/ gatt[g] = "dialling" /\ s = "linked" /\ x = "connected"
         \/ gatt[g] = "discovering" /\ s = "ready" /\ x \in {"services", "noServices"}
         \/ s = "down" /\ x = "disconnected"
         \/ gatt[g] = "ready" /\ s = "ready" /\ x = inFlight[g] /\ x \in Writes,
         UNCHANGED <<rust, jni, callers, bridge, radio, losses, crossed>>
  PROVE  AInv'
<1> USE DEF rust, callers, bridge, platform
<1> DEFINE cb == callbacks[g]
           n  == Len(cb) + 1
<1>1. /\ callbacks' \in [Calls -> Seq(Events)]
      /\ \A h \in Calls : h # g => callbacks'[h] = callbacks[h]
      /\ Len(cb) \in Nat /\ Len(callbacks'[g]) = n
      /\ DOMAIN cb = 1 .. Len(cb) /\ DOMAIN callbacks'[g] = 1 .. n
      /\ \A i \in DOMAIN cb : i \in DOMAIN callbacks'[g] /\ callbacks'[g][i] = cb[i]
      /\ callbacks'[g][n] = x
      /\ \A i \in DOMAIN callbacks'[g] : i \in DOMAIN cb \/ i = n
  BY ReportsAdd
<1>2. /\ s \in {"linked", "ready", "down"} /\ gatt'[g] = s
      /\ \A h \in Calls : h # g => gatt'[h] = gatt[h]
      /\ gatt' \in [Calls -> Up \cup {"none", "down", "closed"}]
  BY DEF AInv, TypeOK, Up
<1>3. TypeOK'
  BY <1>1, <1>2 DEF AInv, TypeOK
<1>4. WaitersAgree'
  BY DEF AInv, WaitersAgree
<1>5. GattsHaveCalls'
  <2>1. gatt[g] # "none"
    BY DEF Up
  <2> QED BY <1>2, <2>1 DEF AInv, GattsHaveCalls
<1>6. inFlight[g] # None => gatt[g] = "ready"
  BY DEF AInv, CallbacksInOrder, Up
<1>7. x \in Writes => Started(x) /\ x = inFlight[g] /\ inFlight[g] # None
  BY NamesDiffer DEF AInv, WritesAreKnown, First
<1>8. WritesAreKnown'
  <2>1. \A h \in Calls : \A i \in DOMAIN callbacks'[h] :
          callbacks'[h][i] \in Writes => Started(callbacks'[h][i])
    <3> SUFFICES ASSUME NEW h \in Calls, NEW i \in DOMAIN callbacks'[h],
                        callbacks'[h][i] \in Writes
                 PROVE  Started(callbacks'[h][i])
      OBVIOUS
    <3>1. CASE h # g
      BY <1>1, <3>1 DEF AInv, WritesAreKnown
    <3>2. CASE h = g /\ i \in DOMAIN cb
      <4>1. callbacks'[h][i] = cb[i]
        BY <1>1, <3>2
      <4>2. Started(cb[i])
        BY <3>2, <4>1 DEF AInv, WritesAreKnown
      <4> QED BY <4>1, <4>2
    <3>3. CASE h = g /\ i = n
      BY <1>1, <1>7, <3>3
    <3> QED BY <1>1, <3>1, <3>2, <3>3
  <2>2. \A w \in Writes : op'[w] = "waiting" <=> entry'.write = w
    BY DEF AInv, WritesAreKnown
  <2>3. \A i, j \in DOMAIN queue' : queue'[i] = queue'[j] => i = j
    BY DEF AInv, WritesAreKnown
  <2>4. \A h \in Calls : inFlight'[h] # None => inFlight'[h] = inFlight[h]
    OBVIOUS
  <2> QED BY <2>1, <2>2, <2>3, <2>4, WritesStay
<1>9. CallbacksInOrder'
  <2> SUFFICES ASSUME NEW h \in Calls
               PROVE
      (/\ gatt[h] \in {"none", "dialling", "discovering"} => callbacks[h] = <<>>
       /\ gatt[h] \in Up => \A i \in DOMAIN callbacks[h] : callbacks[h][i] # "disconnected"
       /\ gatt[h] = "linked" => \A i \in DOMAIN callbacks[h] : callbacks[h][i] = "connected"
       /\ gatt[h] = "ready" => \A i \in DOMAIN callbacks[h] : callbacks[h][i] # "connected"
       /\ inFlight[h] # None => /\ gatt[h] \in {"ready", "closed"}
                                /\ \A i \in DOMAIN callbacks[h] :
                                     callbacks[h][i] # "disconnected"
       /\ \A i \in DOMAIN callbacks[h] :
            /\ callbacks[h][i] \in First => i = 1
            /\ callbacks[h][i] = "disconnected" => i = Len(callbacks[h])
            /\ callbacks[h][1] = "connected" /\ i # 1 => callbacks[h][i] = "disconnected")'
    BY DEF CallbacksInOrder
  <2>1. CASE h # g
    <3>1. /\ callbacks'[h] = callbacks[h] /\ gatt'[h] = gatt[h]
          /\ inFlight'[h] = inFlight[h]
      BY <1>1, <1>2, <2>1
    <3> QED BY <3>1 DEF AInv, CallbacksInOrder
  <2>2. CASE h = g
    <3>1. \A i \in DOMAIN cb : cb[i] # "disconnected"
      BY DEF AInv, CallbacksInOrder
    <3>2. \A i \in DOMAIN cb : /\ cb[i] \in First => i = 1
                               /\ cb[1] = "connected" /\ i # 1 => cb[i] = "disconnected"
      BY DEF AInv, CallbacksInOrder
    <3>3. gatt[g] \in {"dialling", "discovering"} => DOMAIN cb = {} /\ n = 1
      BY <1>1 DEF AInv, CallbacksInOrder
    <3>4. gatt[g] = "ready" => \A i \in DOMAIN cb : cb[i] # "connected"
      BY DEF AInv, CallbacksInOrder
    <3>5. x \in First => gatt[g] \in {"dialling", "discovering"}
      BY NamesDiffer DEF First
    <3>6. s \in Up => x # "disconnected"
      BY <1>2, NamesDiffer DEF Up
    <3>7. s = "linked" => gatt[g] = "dialling" /\ x = "connected"
      OBVIOUS
    <3>8. s = "ready" => x # "connected" /\ gatt[g] \in {"ready", "discovering"}
      BY NamesDiffer DEF First
    <3>9. inFlight'[h] = None
      BY <2>2
    <3>10. gatt'[h] = s /\ s \notin {"none", "dialling", "discovering"}
      BY <1>2, <2>2
    <3>11. \A i \in DOMAIN callbacks'[h] :
             /\ callbacks'[h][i] \in First => i = 1
             /\ callbacks'[h][i] = "disconnected" => i = Len(callbacks'[h])
             /\ callbacks'[h][1] = "connected" /\ i # 1 => callbacks'[h][i] = "disconnected"
      <4> SUFFICES ASSUME NEW i \in DOMAIN callbacks'[g]
                   PROVE
             /\ callbacks'[g][i] \in First => i = 1
             /\ callbacks'[g][i] = "disconnected" => i = n
             /\ callbacks'[g][1] = "connected" /\ i # 1 => callbacks'[g][i] = "disconnected"
        BY <1>1, <2>2
      <4>1. CASE i \in DOMAIN cb
        <5>0. 1 \in DOMAIN cb
          BY <1>1, <4>1
        <5>1. callbacks'[g][i] = cb[i] /\ callbacks'[g][1] = cb[1]
          BY <1>1, <4>1, <5>0
        <5> QED BY <3>1, <3>2, <4>1, <5>1
      <4>2. CASE i = n
        <5>1. callbacks'[g][i] = x
          BY <1>1, <4>2
        <5>2. x \in First => n = 1
          BY <3>3, <3>5
        <5>3. callbacks'[g][1] = "connected" /\ n # 1 => x = "disconnected"
          <6> SUFFICES ASSUME callbacks'[g][1] = "connected", n # 1 PROVE x = "disconnected"
            OBVIOUS
          <6>0. 1 \in DOMAIN cb
            BY <1>1
          <6>1. 1 \in DOMAIN cb /\ cb[1] = "connected"
            BY <1>1, <6>0
          <6>2. gatt[g] \notin {"dialling", "discovering", "ready"}
            BY <3>3, <3>4, <6>1
          <6> QED BY <6>2
        <5> QED BY <4>2, <5>1, <5>2, <5>3
      <4> QED BY <1>1, <4>1, <4>2
    <3>12. s \in Up => \A i \in DOMAIN callbacks'[g] : callbacks'[g][i] # "disconnected"
      BY <1>1, <3>1, <3>6
    <3>13. s = "linked" => \A i \in DOMAIN callbacks'[g] : callbacks'[g][i] = "connected"
      BY <1>1, <3>3, <3>7
    <3>14. s = "ready" => \A i \in DOMAIN callbacks'[g] : callbacks'[g][i] # "connected"
      BY <1>1, <3>3, <3>4, <3>8
    <3> QED BY <2>2, <3>9, <3>10, <3>11, <3>12, <3>13, <3>14
  <2> QED BY <2>1, <2>2
<1>10. ASSUME ~crossed' PROVE ~crossed /\ LinksAreApart /\ WritesAreApart /\ QueueIsTheirs
  BY <1>10 DEF AInv
<1>11. ASSUME ~crossed' PROVE LinksAreApart' /\ WritesAreApart'
  <2>1. rx[g] = "ok" => s \in {"ready", "down"} /\ x \notin First
    <3>1. rx[g] = "ok" => gatt[g] \in {"ready", "down", "closed"}
      BY <1>10, <1>11 DEF LinksAreApart
    <3> QED BY <3>1, NamesDiffer DEF Up, First
  <2>2. \A c \in Calls : rx[c] = "ok" =>
          /\ gatt'[c] \in {"ready", "down", "closed"} /\ call[c] \notin {"claimed", "opening"}
          /\ \A i \in DOMAIN callbacks'[c] : callbacks'[c][i] \notin First
          /\ entry.here /\ entry.session = c /\ call[c] \in {"waiting", "open", "leaving"}
               => current = c /\ entry.live
    <3> SUFFICES ASSUME NEW c \in Calls, rx[c] = "ok"
                 PROVE  /\ gatt'[c] \in {"ready", "down", "closed"}
                        /\ call[c] \notin {"claimed", "opening"}
                        /\ \A i \in DOMAIN callbacks'[c] : callbacks'[c][i] \notin First
                        /\ entry.here /\ entry.session = c
                             /\ call[c] \in {"waiting", "open", "leaving"}
                             => current = c /\ entry.live
      OBVIOUS
    <3>1. /\ gatt[c] \in {"ready", "down", "closed"} /\ call[c] \notin {"claimed", "opening"}
          /\ \A i \in DOMAIN callbacks[c] : callbacks[c][i] \notin First
          /\ entry.here /\ entry.session = c /\ call[c] \in {"waiting", "open", "leaving"}
               => current = c /\ entry.live
      BY <1>10, <1>11 DEF LinksAreApart
    <3>2. CASE c # g
      BY <1>1, <1>2, <3>1, <3>2
    <3>3. CASE c = g
      BY <1>1, <1>2, <2>1, <3>1, <3>3
    <3> QED BY <3>2, <3>3
  <2>3. \A h \in Calls : inFlight'[h] # None => rx[h] = "ok"
    BY <1>10, <1>11 DEF LinksAreApart
  <2>4. \A h \in Calls : \A i \in DOMAIN callbacks'[h] :
          callbacks'[h][i] \in Writes => rx[h] = "ok"
    <3> SUFFICES ASSUME NEW h \in Calls, NEW i \in DOMAIN callbacks'[h],
                        callbacks'[h][i] \in Writes
                 PROVE  rx[h] = "ok"
      OBVIOUS
    <3>1. \A k \in DOMAIN callbacks[h] : callbacks[h][k] \in Writes => rx[h] = "ok"
      BY <1>10, <1>11 DEF LinksAreApart
    <3>2. CASE h # g
      BY <1>1, <3>1, <3>2
    <3>3. CASE h = g /\ i \in DOMAIN cb
      BY <1>1, <3>1, <3>3
    <3>4. CASE h = g /\ i = n
      <4>1. inFlight[g] # None
        BY <1>1, <1>7, <3>4
      <4> QED BY <1>10, <1>11, <3>4, <4>1 DEF LinksAreApart
    <3> QED BY <1>1, <3>2, <3>3, <3>4
  <2>5. \A h \in Calls :
          gatt'[h] = "closed" /\ call[h] \in {"opening", "waiting"} /\ Due(h)' = "services"
            => rx[h] # None \/ radio = "sweeping"
    <3> SUFFICES ASSUME NEW h \in Calls, gatt'[h] = "closed",
                        call[h] \in {"opening", "waiting"}, Due(h)' = "services"
                 PROVE  rx[h] # None \/ radio = "sweeping"
      OBVIOUS
    <3>1. h # g
      BY <1>2
    <3>2. gatt[h] = "closed" /\ callbacks'[h] = callbacks[h]
      BY <1>1, <1>2, <3>1
    <3> QED BY <1>10, <1>11, <3>2 DEF LinksAreApart, Due
  <2>6. LinksAreApart'
    BY <2>2, <2>3, <2>4, <2>5 DEF LinksAreApart
  <2>7. WritesAreApart'
    BY <1>10, <1>11 DEF WritesAreApart, Active
  <2> QED BY <2>6, <2>7
<1>12. ASSUME ~crossed' PROVE QueueIsTheirs'
  <2> SUFFICES ASSUME current # None PROVE QueueIsTheirs'
    BY DEF QueueIsTheirs
  <2>1. CASE current # g
    <3>1. current \in Calls
      BY DEF AInv, TypeOK
    <3>2. /\ callbacks'[current] = callbacks[current] /\ gatt'[current] = gatt[current]
          /\ inFlight'[current] = inFlight[current]
      BY <1>1, <1>2, <2>1, <3>1
    <3> QED BY <1>10, <1>12, <3>2 DEF QueueIsTheirs, Accepted
  <2>2. CASE current = g
    <3>1. \A i \in DOMAIN cb : cb[i] \in Writes =>
            i \in DOMAIN queue /\ queue[i] = cb[i] /\ queue[i] \notin retry
      BY <1>10, <1>12, <2>2 DEF QueueIsTheirs
    <3>2. inFlight[g] # None => n \in DOMAIN queue /\ queue[n] = inFlight[g] /\ queue[n] \notin retry
      BY <1>10, <1>12, <2>2 DEF QueueIsTheirs
    <3>3. \A i \in DOMAIN callbacks'[g] : callbacks'[g][i] \in Writes =>
            /\ i \in DOMAIN queue /\ queue[i] = callbacks'[g][i]
            /\ queue[i] \notin retry
      BY <1>1, <1>7, <3>1, <3>2
    <3>4. inFlight'[g] = None
      OBVIOUS
    <3>5. Accepted' = n
      BY <1>1, <2>2, <3>4 DEF Accepted
    <3>6. ASSUME s = "ready", NEW i \in DOMAIN queue, i > n
          PROVE  i = n + 1 /\ queue[i] \in retry
      <4>1. rx[g] = "ok"
        BY <1>10, <1>12, <2>2, <3>6, QueuedForLink
      <4>2. gatt[g] = "ready"
        BY <1>10, <1>12, <3>6, <4>1 DEF LinksAreApart
      <4>3. x = inFlight[g] /\ inFlight[g] # None
        BY <1>7, <3>6, <4>2
      <4>4. Accepted = n
        BY <1>1, <2>2, <4>3, AcceptedIs
      <4> QED BY <1>10, <1>12, <2>2, <3>6, <4>2, <4>4 DEF QueueIsTheirs
    <3> QED BY <1>1, <1>2, <2>2, <3>3, <3>4, <3>5, <3>6 DEF QueueIsTheirs
  <2> QED BY <2>1, <2>2
<1>13. WaiterIsAnswered'
  <2> SUFFICES ASSUME NEW w \in Writes, op[w] = "waiting", jni[w] = "none", ~crossed
               PROVE  /\ entry.write = w
                      /\ \/ w \in retry
                         \/ /\ current # None
                            /\ \/ inFlight'[current] = w
                               \/ \E k \in DOMAIN callbacks'[current] :
                                    callbacks'[current][k] \in {w, "disconnected"}
    BY DEF WaiterIsAnswered
  <2>1. /\ entry.write = w
        /\ \/ w \in retry
           \/ /\ current # None
              /\ \/ inFlight[current] = w
                 \/ \E k \in DOMAIN callbacks[current] :
                      callbacks[current][k] \in {w, "disconnected"}
    BY DEF AInv, WaiterIsAnswered
  <2>2. CASE w \in retry
    BY <2>1, <2>2
  <2>3. CASE w \notin retry /\ current # g
    <3>1. current \in Calls
      BY <2>1, <2>3 DEF AInv, TypeOK
    <3> QED BY <1>1, <2>1, <2>3, <3>1
  <2>4. CASE w \notin retry /\ current = g
    <3>1. CASE inFlight[g] = w
      <4>1. gatt[g] = "ready"
        BY <1>6, <3>1, NamesDiffer
      <4>2. x \in {w, "disconnected"}
        BY <3>1, <4>1
      <4>3. n \in DOMAIN callbacks'[g]
        BY <1>1
      <4> QED BY <1>1, <2>1, <2>4, <4>2, <4>3
    <3>2. CASE inFlight[g] # w
      <4>1. PICK k \in DOMAIN cb : cb[k] \in {w, "disconnected"}
        BY <2>1, <2>4, <3>2
      <4>2. k \in DOMAIN callbacks'[g] /\ callbacks'[g][k] \in {w, "disconnected"}
        BY <1>1, <4>1
      <4> QED BY <2>1, <2>4, <4>2
    <3> QED BY <3>1, <3>2
  <2> QED BY <2>2, <2>3, <2>4
<1>14. NobodyLockedOut'
  <2>1. current # None /\ gatt[current] # "closed" => gatt'[current] # "closed"
    BY <1>2 DEF AInv, TypeOK
  <2> QED BY <2>1 DEF AInv, NobodyLockedOut, Undoing
<1> QED BY <1>3, <1>4, <1>5, <1>8, <1>9, <1>11, <1>12, <1>13, <1>14 DEF AInv

\* The link is made.
LEMMA LinksKeeps ==
  ASSUME AInv, NEW g \in Calls, Links(g)
  PROVE  AInv'
<1>1. /\ gatt[g] = "dialling" /\ gatt' = [gatt EXCEPT ![g] = "linked"]
      /\ Reports(g, "connected") /\ inFlight' = inFlight /\ inFlight[g] = None
      /\ UNCHANGED <<rust, jni, callers, bridge, radio, losses, crossed>>
  BY DEF Links, AInv, CallbacksInOrder
<1>2. "connected" \in Events /\ gatt[g] \in Up
  BY <1>1 DEF Events, First, Up
<1>3. inFlight' \in [Calls -> Writes \cup {None}]
  BY <1>1 DEF AInv, TypeOK
<1> QED BY <1>1, <1>2, <1>3, ReportKeeps

\* Its services are known, or there are none.
LEMMA DiscoversKeeps ==
  ASSUME AInv, NEW g \in Calls, Discovers(g)
  PROVE  AInv'
<1>1. PICK what \in {"services", "noServices"} :
        gatt' = [gatt EXCEPT ![g] = "ready"] /\ Reports(g, what)
  BY DEF Discovers
<1>2. /\ gatt[g] = "discovering" /\ inFlight' = inFlight /\ inFlight[g] = None
      /\ UNCHANGED <<rust, jni, callers, bridge, radio, losses, crossed>>
  BY DEF Discovers, AInv, CallbacksInOrder
<1>3. what \in Events /\ gatt[g] \in Up
  BY <1>2 DEF Events, First, Up
<1>4. inFlight' \in [Calls -> Writes \cup {None}]
  BY <1>2 DEF AInv, TypeOK
<1> QED BY <1>1, <1>2, <1>3, <1>4, ReportKeeps

\* The link ends.
LEMMA UnlinksKeeps ==
  ASSUME AInv, NEW g \in Calls, Unlinks(g)
  PROVE  AInv'
<1>1. /\ gatt[g] \in Up /\ gatt' = [gatt EXCEPT ![g] = "down"]
      /\ Reports(g, "disconnected") /\ inFlight' = [inFlight EXCEPT ![g] = None]
      /\ UNCHANGED <<rust, jni, callers, bridge, radio, losses, crossed>>
  BY DEF Unlinks
<1>2. "disconnected" \in Events
  BY DEF Events
<1>3. /\ inFlight' \in [Calls -> Writes \cup {None}]
      /\ \A h \in Calls : inFlight'[h] = IF h = g THEN None ELSE inFlight[h]
  BY <1>1 DEF AInv, TypeOK
<1> QED BY <1>1, <1>2, <1>3, ReportKeeps

\* The write in flight is done.
LEMMA CompletesKeeps ==
  ASSUME AInv, NEW g \in Calls, Completes(g)
  PROVE  AInv'
<1>1. /\ gatt[g] = "ready" /\ gatt' = [gatt EXCEPT ![g] = "ready"]
      /\ inFlight[g] \in Writes
      /\ Reports(g, inFlight[g]) /\ inFlight' = [inFlight EXCEPT ![g] = None]
      /\ UNCHANGED <<rust, jni, callers, bridge, radio, losses, crossed>>
  BY DEF Completes, AInv, TypeOK
<1>2. inFlight[g] \in Events /\ gatt[g] \in Up
  BY <1>1 DEF Events, Up
<1>3. /\ inFlight' \in [Calls -> Writes \cup {None}]
      /\ \A h \in Calls : inFlight'[h] = IF h = g THEN None ELSE inFlight[h]
  BY <1>1 DEF AInv, TypeOK
<1>4. PICK x \in Events : x = inFlight[g]
  BY <1>2
<1>5. Reports(g, x)
  BY <1>1, <1>4 DEF Reports
<1> QED BY <1>1, <1>2, <1>3, <1>4, <1>5, ReportKeeps

-----------------------------------------------------------------------------
(* The callbacks *)

\* A callback that has run is gone and those behind it are next.
LEMMA RunsTake ==
  ASSUME AInv, NEW g \in Calls, Due(g) # None, Runs(g)
  PROVE  /\ callbacks' \in [Calls -> Seq(Events)]
         /\ \A h \in Calls : h # g => callbacks'[h] = callbacks[h]
         /\ callbacks[g] # <<>> /\ Due(g) = callbacks[g][1]
         /\ callbacks'[g] = Tail(callbacks[g])
         /\ Len(callbacks[g]) \in Nat \ {0} /\ Len(callbacks'[g]) = Len(callbacks[g]) - 1
         /\ DOMAIN callbacks[g] = 1 .. Len(callbacks[g])
         /\ DOMAIN callbacks'[g] = 1 .. (Len(callbacks[g]) - 1)
         /\ \A i \in DOMAIN callbacks'[g] :
              i + 1 \in DOMAIN callbacks[g] /\ callbacks'[g][i] = callbacks[g][i + 1]
<1>1. callbacks \in [Calls -> Seq(Events)] /\ callbacks[g] \in Seq(Events)
  BY DEF AInv, TypeOK
<1>2. callbacks[g] # <<>> /\ Due(g) = Head(callbacks[g])
  BY DEF Due
<1>3. /\ Tail(callbacks[g]) \in Seq(Events) /\ Head(callbacks[g]) = callbacks[g][1]
      /\ Len(callbacks[g]) \in Nat \ {0} /\ DOMAIN callbacks[g] = 1 .. Len(callbacks[g])
      /\ Len(Tail(callbacks[g])) = Len(callbacks[g]) - 1
      /\ DOMAIN Tail(callbacks[g]) = 1 .. (Len(callbacks[g]) - 1)
      /\ \A i \in DOMAIN Tail(callbacks[g]) :
           i + 1 \in DOMAIN callbacks[g] /\ Tail(callbacks[g])[i] = callbacks[g][i + 1]
  BY <1>1, <1>2, TailHolds
<1>4. callbacks' = [callbacks EXCEPT ![g] = Tail(callbacks[g])]
  BY DEF Runs
<1>5. /\ callbacks' \in [Calls -> Seq(Events)] /\ callbacks'[g] = Tail(callbacks[g])
      /\ \A h \in Calls : h # g => callbacks'[h] = callbacks[h]
  BY <1>1, <1>3, <1>4
<1> QED BY <1>2, <1>3, <1>5

\* What is left stood behind it, and has the order it had.
LEMMA RanInOrder ==
  ASSUME AInv, NEW g \in Calls, Due(g) # None, Runs(g), inFlight' = inFlight,
         \A h \in Calls : \/ gatt'[h] = gatt[h]
                          \/ gatt'[h] = "closed"
                          \/ h = g /\ gatt[h] = "linked" /\ gatt'[h] = "discovering"
  PROVE  /\ CallbacksInOrder'
         /\ \A h \in Calls : \A i \in DOMAIN callbacks'[h] :
              \E j \in DOMAIN callbacks[h] : callbacks'[h][i] = callbacks[h][j]
         /\ \A h \in Calls : \A i \in DOMAIN callbacks'[h] :
              callbacks'[h][i] \in Writes => Started(callbacks'[h][i])
         /\ \A i \in DOMAIN callbacks'[g] : callbacks'[g][i] \notin First
<1> DEFINE cb == callbacks[g]
<1>1. /\ callbacks' \in [Calls -> Seq(Events)]
      /\ \A h \in Calls : h # g => callbacks'[h] = callbacks[h]
      /\ cb # <<>> /\ Due(g) = cb[1]
      /\ Len(cb) \in Nat \ {0} /\ Len(callbacks'[g]) = Len(cb) - 1
      /\ DOMAIN cb = 1 .. Len(cb)
      /\ DOMAIN callbacks'[g] = 1 .. (Len(cb) - 1)
      /\ \A i \in DOMAIN callbacks'[g] :
           i + 1 \in DOMAIN cb /\ callbacks'[g][i] = cb[i + 1]
  BY RunsTake
<1>2. \A h \in Calls : \A i \in DOMAIN callbacks'[h] :
        \E j \in DOMAIN callbacks[h] : callbacks'[h][i] = callbacks[h][j]
  <2> SUFFICES ASSUME NEW h \in Calls, NEW i \in DOMAIN callbacks'[h]
               PROVE  \E j \in DOMAIN callbacks[h] : callbacks'[h][i] = callbacks[h][j]
    OBVIOUS
  <2>1. CASE h # g
    BY <1>1, <2>1
  <2>2. CASE h = g
    BY <1>1, <2>2
  <2> QED BY <2>1, <2>2
<1>3. \A h \in Calls : \A i \in DOMAIN callbacks'[h] :
        callbacks'[h][i] \in Writes => Started(callbacks'[h][i])
  <2> SUFFICES ASSUME NEW h \in Calls, NEW i \in DOMAIN callbacks'[h],
                      callbacks'[h][i] \in Writes
               PROVE  Started(callbacks'[h][i])
    OBVIOUS
  <2>1. PICK j \in DOMAIN callbacks[h] : callbacks'[h][i] = callbacks[h][j]
    BY <1>2
  <2>2. Started(callbacks[h][j])
    BY <2>1 DEF AInv, WritesAreKnown
  <2> QED BY <2>1, <2>2
<1>4. /\ gatt[g] \notin {"none", "dialling", "discovering"}
      /\ gatt[g] \in Up => \A i \in DOMAIN cb : cb[i] # "disconnected"
      /\ gatt[g] = "linked" => \A i \in DOMAIN cb : cb[i] = "connected"
      /\ gatt[g] = "ready" => \A i \in DOMAIN cb : cb[i] # "connected"
      /\ inFlight[g] # None => /\ gatt[g] \in {"ready", "closed"}
                               /\ \A i \in DOMAIN cb : cb[i] # "disconnected"
      /\ \A i \in DOMAIN cb : /\ cb[i] \in First => i = 1
                              /\ cb[i] = "disconnected" => i = Len(cb)
                              /\ cb[1] = "connected" /\ i # 1 => cb[i] = "disconnected"
  BY <1>1 DEF AInv, CallbacksInOrder
<1>5. \A i \in DOMAIN callbacks'[g] :
        /\ callbacks'[g][i] \notin First
        /\ callbacks'[g][i] = "disconnected" => i = Len(callbacks'[g])
  <2> SUFFICES ASSUME NEW i \in DOMAIN callbacks'[g]
               PROVE  /\ callbacks'[g][i] \notin First
                      /\ callbacks'[g][i] = "disconnected" => i = Len(callbacks'[g])
    OBVIOUS
  <2>1. i + 1 \in DOMAIN cb /\ callbacks'[g][i] = cb[i + 1] /\ i \in Nat /\ i + 1 # 1
    BY <1>1
  <2>2. cb[i + 1] \notin First
    BY <1>4, <2>1
  <2>3. cb[i + 1] = "disconnected" => i + 1 = Len(cb)
    BY <1>4, <2>1
  <2> QED BY <1>1, <2>1, <2>2, <2>3
<1>6. gatt[g] = "linked" => callbacks'[g] = <<>>
  <2> SUFFICES ASSUME gatt[g] = "linked" PROVE callbacks'[g] = <<>>
    OBVIOUS
  <2>1. \A i \in DOMAIN callbacks'[g] : FALSE
    <3> SUFFICES ASSUME NEW i \in DOMAIN callbacks'[g] PROVE FALSE
      OBVIOUS
    <3>1. callbacks'[g][i] = "connected"
      BY <1>1, <1>4
    <3> QED BY <1>5, <3>1 DEF First
  <2>2. callbacks'[g] = <<>> \/ 1 \in DOMAIN callbacks'[g]
    BY <1>1, TailHolds
  <2> QED BY <2>1, <2>2
<1>7. \A i \in DOMAIN callbacks'[g] : i \in DOMAIN callbacks'[g] =>
        1 \in DOMAIN callbacks'[g] /\ callbacks'[g][1] # "connected"
  <2> SUFFICES ASSUME NEW i \in DOMAIN callbacks'[g]
               PROVE  1 \in DOMAIN callbacks'[g] /\ callbacks'[g][1] # "connected"
    OBVIOUS
  <2>1. 1 \in DOMAIN callbacks'[g]
    BY <1>1
  <2> QED BY <1>5, <2>1 DEF First
<1>8. CallbacksInOrder'
  <2> SUFFICES ASSUME NEW h \in Calls
               PROVE
      (/\ gatt[h] \in {"none", "dialling", "discovering"} => callbacks[h] = <<>>
       /\ gatt[h] \in Up => \A i \in DOMAIN callbacks[h] : callbacks[h][i] # "disconnected"
       /\ gatt[h] = "linked" => \A i \in DOMAIN callbacks[h] : callbacks[h][i] = "connected"
       /\ gatt[h] = "ready" => \A i \in DOMAIN callbacks[h] : callbacks[h][i] # "connected"
       /\ inFlight[h] # None => /\ gatt[h] \in {"ready", "closed"}
                                /\ \A i \in DOMAIN callbacks[h] :
                                     callbacks[h][i] # "disconnected"
       /\ \A i \in DOMAIN callbacks[h] :
            /\ callbacks[h][i] \in First => i = 1
            /\ callbacks[h][i] = "disconnected" => i = Len(callbacks[h])
            /\ callbacks[h][1] = "connected" /\ i # 1 => callbacks[h][i] = "disconnected")'
    BY DEF CallbacksInOrder
  <2>1. CASE h # g
    <3>1. /\ callbacks'[h] = callbacks[h] /\ gatt'[h] \in {gatt[h], "closed"}
          /\ inFlight'[h] = inFlight[h]
      BY <1>1, <2>1
    <3> QED BY <3>1 DEF AInv, CallbacksInOrder, Up
  <2>2. CASE h = g
    <3>1. gatt'[g] \in {"none", "dialling", "discovering"} => callbacks'[g] = <<>>
      BY <1>4, <1>6
    <3>2. gatt'[g] \in Up => \A i \in DOMAIN callbacks'[g] : callbacks'[g][i] # "disconnected"
      <4>1. gatt'[g] \in Up => gatt[g] \in Up
        BY <2>2 DEF Up
      <4> QED BY <1>1, <1>4, <4>1
    <3>3. gatt'[g] = "linked" => \A i \in DOMAIN callbacks'[g] : callbacks'[g][i] = "connected"
      BY <1>1, <1>4
    <3>4. \A i \in DOMAIN callbacks'[g] : callbacks'[g][i] # "connected"
      BY <1>5 DEF First
    <3>5. inFlight'[g] # None =>
            /\ gatt'[g] \in {"ready", "closed"}
            /\ \A i \in DOMAIN callbacks'[g] : callbacks'[g][i] # "disconnected"
      BY <1>1, <1>4, <2>2
    <3> QED BY <1>5, <1>7, <2>2, <3>1, <3>2, <3>3, <3>4, <3>5
  <2> QED BY <2>1, <2>2
<1> QED BY <1>2, <1>3, <1>5, <1>8

\* Where Rust is told that the address is gone, everyone who waits is told.
LEMMA GoneKeeps ==
  ASSUME AInv, Disconnected, UNCHANGED <<jni, callers, retry, tries>>,
         TypeOK', GattsHaveCalls', CallbacksInOrder',
         \A h \in Calls : gatt'[h] = gatt[h] \/ gatt'[h] = "closed",
         \A h \in Calls : inFlight'[h] \in {inFlight[h], None},
         \A h \in Calls : \A i \in DOMAIN callbacks'[h] :
           \E j \in DOMAIN callbacks[h] : callbacks'[h][i] = callbacks[h][j],
         queue' = queue \/ queue' = <<>>,
         ~crossed' => /\ ~crossed
                      /\ \/ current' = None /\ queue' = <<>>
                         \/ /\ current' = current /\ op' = op /\ queue' = queue
                            /\ QueueIsTheirs'
  PROVE  AInv'
<1> USE DEF callers
<1>1. /\ entry' = NoEntry /\ ~entry'.here /\ ~entry'.live /\ entry'.waiter = None
      /\ entry'.write = None
      /\ \A c \in Calls : /\ rx[c] # None => rx'[c] = rx[c]
                          /\ rx'[c] # "ok" \/ rx[c] = "ok"
                          /\ rx'[c] = None => rx[c] = None
                          /\ call[c] \in Dialling => rx'[c] # None
                          /\ call[c] = "idle" => rx'[c] = None
      /\ \A w \in Writes : /\ op'[w] # "waiting"
                           /\ op'[w] = "idle" <=> op[w] = "idle"
                           /\ op[w] # "waiting" => op'[w] = op[w]
  BY DisconnectedDoes
<1>2. WaitersAgree'
  BY <1>1, NamesDiffer DEF AInv, WaitersAgree, None
<1>3. WritesAreKnown'
  <2>1. \A h \in Calls : \A i \in DOMAIN callbacks'[h] :
          callbacks'[h][i] \in Writes => Started(callbacks'[h][i])
    <3> SUFFICES ASSUME NEW h \in Calls, NEW i \in DOMAIN callbacks'[h],
                        callbacks'[h][i] \in Writes
                 PROVE  Started(callbacks'[h][i])
      OBVIOUS
    <3>1. PICK j \in DOMAIN callbacks[h] : callbacks'[h][i] = callbacks[h][j]
      OBVIOUS
    <3>2. Started(callbacks[h][j])
      BY <3>1 DEF AInv, WritesAreKnown
    <3> QED BY <3>1, <3>2
  <2>2. \A w \in Writes : op'[w] = "waiting" <=> entry'.write = w
    BY <1>1, NamesDiffer
  <2>3. \A i, j \in DOMAIN queue' : queue'[i] = queue'[j] => i = j
    BY DEF AInv, WritesAreKnown
  <2>4. \A i \in DOMAIN queue' : \E j \in DOMAIN queue : queue'[i] = queue[j]
    OBVIOUS
  <2>5. \A h \in Calls : inFlight'[h] # None => inFlight'[h] = inFlight[h]
    OBVIOUS
  <2> QED BY <1>1, <2>1, <2>2, <2>3, <2>4, <2>5, WritesStay
<1>4. ASSUME ~crossed' PROVE ~crossed /\ LinksAreApart /\ WritesAreApart /\ QueueIsTheirs
  BY <1>4 DEF AInv
<1>5. ASSUME ~crossed' PROVE LinksAreApart'
  <2>1. ASSUME NEW c \in Calls, rx'[c] = "ok"
        PROVE  /\ gatt'[c] \in {"ready", "down", "closed"}
               /\ call'[c] \notin {"claimed", "opening"}
               /\ \A i \in DOMAIN callbacks'[c] : callbacks'[c][i] \notin First
    <3>1. rx[c] = "ok"
      BY <1>1, <2>1
    <3>2. /\ gatt[c] \in {"ready", "down", "closed"} /\ call[c] \notin {"claimed", "opening"}
          /\ \A i \in DOMAIN callbacks[c] : callbacks[c][i] \notin First
      BY <1>4, <1>5, <3>1 DEF LinksAreApart
    <3>3. \A i \in DOMAIN callbacks'[c] : callbacks'[c][i] \notin First
      <4> SUFFICES ASSUME NEW i \in DOMAIN callbacks'[c] PROVE callbacks'[c][i] \notin First
        OBVIOUS
      <4>1. PICK j \in DOMAIN callbacks[c] : callbacks'[c][i] = callbacks[c][j]
        OBVIOUS
      <4> QED BY <3>2, <4>1
    <3> QED BY <3>2, <3>3
  <2>2. \A h \in Calls : inFlight'[h] # None => rx'[h] = "ok"
    BY <1>1, <1>4, <1>5, NamesDiffer DEF LinksAreApart, None
  <2>3. ASSUME NEW h \in Calls, NEW i \in DOMAIN callbacks'[h], callbacks'[h][i] \in Writes
        PROVE  rx'[h] = "ok"
    <3>1. PICK j \in DOMAIN callbacks[h] : callbacks'[h][i] = callbacks[h][j]
      OBVIOUS
    <3>2. rx[h] = "ok"
      BY <1>4, <1>5, <2>3, <3>1 DEF LinksAreApart
    <3> QED BY <1>1, <3>2 DEF None
  <2>4. \A h \in Calls : call'[h] \in {"opening", "waiting"} => rx'[h] # None
    BY <1>1 DEF Dialling
  <2> QED BY <1>1, <2>1, <2>2, <2>3, <2>4 DEF LinksAreApart
<1>6. ASSUME ~crossed' PROVE WritesAreApart' /\ QueueIsTheirs'
  <2>1. CASE current' = None /\ queue' = <<>>
    BY <1>1, <1>4, <1>6, <2>1 DEF WritesAreApart, QueueIsTheirs
  <2>2. CASE current' = current /\ op' = op /\ queue' = queue /\ QueueIsTheirs'
    BY <1>1, <1>4, <1>6, <2>2 DEF WritesAreApart, Active
  <2> QED BY <1>6, <2>1, <2>2
<1>7. WaiterIsAnswered'
  BY <1>1 DEF WaiterIsAnswered
<1>8. NobodyLockedOut'
  BY <1>1 DEF NobodyLockedOut
<1> QED BY <1>2, <1>3, <1>5, <1>6, <1>7, <1>8 DEF AInv

\* A callback of a GATT that does not own the address, and the start of
\* discovery, change nothing else.
LEMMA SkipKeeps ==
  ASSUME AInv, NEW g \in Calls, Due(g) # None, Runs(g),
         UNCHANGED <<rust, jni, callers, bridge, inFlight, radio, losses, crossed>>,
         gatt' \in [Calls -> Up \cup {"none", "down", "closed"}],
         \A h \in Calls : \/ gatt'[h] = gatt[h]
                          \/ h = g /\ gatt'[h] = "closed"
                          \/ h = g /\ gatt[h] = "linked" /\ gatt'[h] = "discovering",
         ~crossed => current # g \/ (gatt[g] = "linked" /\ gatt'[g] = "discovering")
  PROVE  AInv'
<1> USE DEF rust, callers, bridge, platform
<1>1. /\ CallbacksInOrder'
      /\ \A h \in Calls : \A i \in DOMAIN callbacks'[h] :
           \E j \in DOMAIN callbacks[h] : callbacks'[h][i] = callbacks[h][j]
      /\ \A h \in Calls : \A i \in DOMAIN callbacks'[h] :
           callbacks'[h][i] \in Writes => Started(callbacks'[h][i])
      /\ \A i \in DOMAIN callbacks'[g] : callbacks'[g][i] \notin First
  BY RanInOrder
<1>2. /\ callbacks' \in [Calls -> Seq(Events)] /\ Due(g) = callbacks[g][1]
      /\ \A h \in Calls : h # g => callbacks'[h] = callbacks[h]
      /\ 1 \in DOMAIN callbacks[g] /\ callbacks[g] # <<>>
  BY RunsTake
<1>3. TypeOK'
  BY <1>2 DEF AInv, TypeOK
<1>4. WaitersAgree'
  BY DEF AInv, WaitersAgree
<1>5. \A h \in Calls : gatt'[h] = "none" <=> gatt[h] = "none"
  BY <1>2 DEF AInv, CallbacksInOrder
<1>6. GattsHaveCalls'
  BY <1>5 DEF AInv, GattsHaveCalls
<1>7. WritesAreKnown'
  <2>1. \A w \in Writes : op'[w] = "waiting" <=> entry'.write = w
    BY DEF AInv, WritesAreKnown
  <2>2. \A i, j \in DOMAIN queue' : queue'[i] = queue'[j] => i = j
    BY DEF AInv, WritesAreKnown
  <2> QED BY <1>1, <2>1, <2>2, WritesStay
<1>8. ASSUME ~crossed' PROVE ~crossed /\ LinksAreApart /\ WritesAreApart /\ QueueIsTheirs
  BY <1>8 DEF AInv
<1>9. ASSUME ~crossed' PROVE LinksAreApart'
  <2>1. ASSUME NEW c \in Calls, rx[c] = "ok"
        PROVE  /\ gatt'[c] \in {"ready", "down", "closed"}
               /\ \A i \in DOMAIN callbacks'[c] : callbacks'[c][i] \notin First
    <3>1. /\ gatt[c] \in {"ready", "down", "closed"}
          /\ \A i \in DOMAIN callbacks[c] : callbacks[c][i] \notin First
      BY <1>8, <1>9, <2>1 DEF LinksAreApart
    <3>2. gatt'[c] \in {"ready", "down", "closed"}
      BY <3>1
    <3>3. \A i \in DOMAIN callbacks'[c] : callbacks'[c][i] \notin First
      <4> SUFFICES ASSUME NEW i \in DOMAIN callbacks'[c] PROVE callbacks'[c][i] \notin First
        OBVIOUS
      <4>1. PICK j \in DOMAIN callbacks[c] : callbacks'[c][i] = callbacks[c][j]
        BY <1>1
      <4> QED BY <3>1, <4>1
    <3> QED BY <3>2, <3>3
  <2>2. \A h \in Calls : inFlight'[h] # None => rx'[h] = "ok"
    BY <1>8, <1>9 DEF LinksAreApart
  <2>3. ASSUME NEW h \in Calls, NEW i \in DOMAIN callbacks'[h], callbacks'[h][i] \in Writes
        PROVE  rx[h] = "ok"
    <3>1. PICK j \in DOMAIN callbacks[h] : callbacks'[h][i] = callbacks[h][j]
      BY <1>1
    <3> QED BY <1>8, <1>9, <2>3, <3>1 DEF LinksAreApart
  <2>4. ASSUME NEW h \in Calls, gatt'[h] = "closed", call[h] \in {"opening", "waiting"},
               Due(h)' = "services"
        PROVE  rx[h] # None \/ radio = "sweeping"
    <3>1. CASE h # g
      <4>1. gatt[h] = "closed" /\ callbacks'[h] = callbacks[h]
        BY <1>2, <2>4, <3>1
      <4> QED BY <1>8, <1>9, <2>4, <4>1 DEF LinksAreApart, Due
    <3>2. CASE h = g
      <4>1. callbacks'[g] # <<>> /\ Head(callbacks'[g]) = "services"
        BY <2>4, <3>2, NamesDiffer DEF Due, First, None
      <4>2. Head(callbacks'[g]) = callbacks'[g][1] /\ 1 \in DOMAIN callbacks'[g]
        <5>1. callbacks'[g] \in Seq(Events)
          BY <1>2
        <5> QED BY <4>1, <5>1, TailHolds
      <4> QED BY <1>1, <4>1, <4>2 DEF First
    <3> QED BY <3>1, <3>2
  <2> QED BY <1>8, <1>9, <2>1, <2>2, <2>3, <2>4 DEF LinksAreApart
<1>10. ASSUME ~crossed' PROVE WritesAreApart'
  BY <1>8, <1>10 DEF WritesAreApart, Active
<1>11. ASSUME ~crossed' PROVE QueueIsTheirs'
  <2> SUFFICES ASSUME current # None PROVE QueueIsTheirs'
    BY DEF QueueIsTheirs
  <2>1. CASE current # g
    <3>1. current \in Calls
      BY DEF AInv, TypeOK
    <3>2. /\ callbacks'[current] = callbacks[current] /\ gatt'[current] = gatt[current]
          /\ inFlight'[current] = inFlight[current]
      BY <1>2, <2>1, <3>1
    <3> QED BY <1>8, <1>11, <3>2 DEF QueueIsTheirs, Accepted
  <2>2. CASE current = g
    <3>1. gatt[g] = "linked" /\ gatt'[g] = "discovering"
      BY <1>8, <1>11, <2>2
    <3>2. callbacks'[g] = <<>> /\ inFlight[g] = None
      BY <1>1, <3>1 DEF AInv, CallbacksInOrder
    <3>3. DOMAIN callbacks'[g] = {}
      BY <3>2
    <3> QED BY <2>2, <3>1, <3>2, <3>3 DEF QueueIsTheirs
  <2> QED BY <2>1, <2>2
<1>12. WaiterIsAnswered'
  <2> SUFFICES ASSUME NEW w \in Writes, op[w] = "waiting", jni[w] = "none", ~crossed
               PROVE  /\ entry.write = w
                      /\ \/ w \in retry
                         \/ /\ current # None
                            /\ \/ inFlight[current] = w
                               \/ \E k \in DOMAIN callbacks'[current] :
                                    callbacks'[current][k] \in {w, "disconnected"}
    BY DEF WaiterIsAnswered
  <2>1. /\ current \in Calls
        /\ \A i \in DOMAIN callbacks[current] : callbacks[current][i] \notin First
    BY WaitingHoldsLink
  <2>2. current # g
    <3>1. gatt[g] = "linked" => callbacks[g][1] = "connected"
      BY <1>2 DEF AInv, CallbacksInOrder
    <3> QED BY <1>2, <2>1, <3>1 DEF First
  <2>3. callbacks'[current] = callbacks[current]
    BY <1>2, <2>1, <2>2
  <2> QED BY <2>3 DEF AInv, WaiterIsAnswered
<1>13. NobodyLockedOut'
  <2>1. ~crossed /\ current # None /\ gatt[current] # "closed" => gatt'[current] # "closed"
    BY DEF AInv, TypeOK
  <2> QED BY <2>1 DEF AInv, NobodyLockedOut, Undoing
<1> QED BY <1>1, <1>3, <1>4, <1>6, <1>7, <1>9, <1>10, <1>11, <1>12, <1>13 DEF AInv

\* The GATT is connected: its services are looked for, or the address is given
\* up, and whoever waits is told.
LEMMA RunConnectedKeeps ==
  ASSUME AInv, NEW g \in Calls, RunConnected(g)
  PROVE  AInv'
<1> USE DEF bridge
<1>1. /\ Due(g) = "connected" /\ Due(g) # None /\ Runs(g) /\ inFlight' = inFlight
      /\ UNCHANGED <<jni, callers, bridge, radio, losses>>
  BY NamesDiffer DEF RunConnected, None
<1>2. CASE /\ gatt[g] = "linked" /\ gatt' = [gatt EXCEPT ![g] = "discovering"]
           /\ UNCHANGED <<rust, crossed>>
  <2>1. /\ gatt' \in [Calls -> Up \cup {"none", "down", "closed"}]
        /\ \A h \in Calls : h # g => gatt'[h] = gatt[h]
        /\ gatt'[g] = "discovering"
    BY <1>2 DEF AInv, TypeOK, Up
  <2> QED BY <1>1, <1>2, <2>1, SkipKeeps
<1>3. CASE /\ Disconnected /\ Shut(g)
           /\ crossed' = (crossed \/ (entry.here /\ entry.session # g))
  <2> USE DEF callers
  <2>1. /\ gatt' \in [Calls -> Up \cup {"none", "down", "closed"}]
        /\ \A h \in Calls : h # g => gatt'[h] = gatt[h]
        /\ gatt'[g] = "closed"
    BY <1>3 DEF Shut, AInv, TypeOK
  <2>2. /\ callbacks' \in [Calls -> Seq(Events)] /\ Due(g) = callbacks[g][1]
        /\ \A h \in Calls : h # g => callbacks'[h] = callbacks[h]
        /\ 1 \in DOMAIN callbacks[g] /\ callbacks[g] # <<>>
        /\ \A i \in DOMAIN callbacks'[g] :
             i + 1 \in DOMAIN callbacks[g] /\ callbacks'[g][i] = callbacks[g][i + 1]
    BY <1>1, RunsTake
  <2>3. /\ CallbacksInOrder'
        /\ \A h \in Calls : \A i \in DOMAIN callbacks'[h] :
             \E j \in DOMAIN callbacks[h] : callbacks'[h][i] = callbacks[h][j]
    BY <1>1, <2>1, RanInOrder
  <2>4. TypeOK'
    BY <1>1, <1>3, <2>1, <2>2, DisconnectedDoes DEF AInv, TypeOK
  <2>5. \A h \in Calls : gatt'[h] = "none" <=> gatt[h] = "none"
    BY <2>1, <2>2 DEF AInv, CallbacksInOrder
  <2>6. GattsHaveCalls'
    BY <1>1, <2>5 DEF AInv, GattsHaveCalls
  <2>7. ASSUME ~crossed'
        PROVE  ~crossed /\ op' = op /\ QueueIsTheirs'
    <3>1. ~crossed /\ (entry.here => entry.session = g)
      BY <1>3, <2>7
    <3>2. LinksAreApart /\ QueueIsTheirs
      BY <3>1 DEF AInv
    <3>3. rx[g] # "ok"
      BY <1>1, <2>2, <3>2 DEF LinksAreApart, First
    <3>4. entry.write \notin Writes
      <4> SUFFICES ASSUME NEW w \in Writes, entry.write = w PROVE FALSE
        OBVIOUS
      <4>1. entry.here /\ entry.session = current /\ rx[current] = "ok"
        BY <3>1, WaitingHoldsLink
      <4> QED BY <3>1, <3>3, <4>1
    <3>5. op' = op
      BY <1>3, <3>4 DEF Disconnected, AInv, TypeOK
    <3>6. QueueIsTheirs'
      <4> SUFFICES ASSUME current # None PROVE QueueIsTheirs'
        BY <1>1 DEF QueueIsTheirs
      <4>1. CASE current # g
        <5>1. current \in Calls
          BY DEF AInv, TypeOK
        <5>2. /\ callbacks'[current] = callbacks[current] /\ gatt'[current] = gatt[current]
              /\ inFlight'[current] = inFlight[current]
          BY <1>1, <2>1, <2>2, <4>1, <5>1
        <5> QED BY <1>1, <3>2, <5>2 DEF QueueIsTheirs, Accepted
      <4>2. CASE current = g
        <5>1. inFlight[g] = None
          BY <3>2, <3>3 DEF LinksAreApart
        <5>2. \A i \in DOMAIN callbacks'[g] : callbacks'[g][i] \notin Writes
          <6> SUFFICES ASSUME NEW i \in DOMAIN callbacks'[g], callbacks'[g][i] \in Writes
                       PROVE  FALSE
            OBVIOUS
          <6>1. callbacks[g][i + 1] \in Writes /\ i + 1 \in DOMAIN callbacks[g]
            BY <2>2
          <6> QED BY <3>2, <3>3, <6>1 DEF LinksAreApart
        <5> QED BY <1>1, <2>1, <4>2, <5>1, <5>2 DEF QueueIsTheirs
      <4> QED BY <4>1, <4>2
    <3> QED BY <3>1, <3>5, <3>6
  <2>8. \A h \in Calls : gatt'[h] = gatt[h] \/ gatt'[h] = "closed"
    BY <2>1
  <2> QED BY <1>1, <1>3, <2>3, <2>4, <2>6, <2>7, <2>8, GoneKeeps
<1> QED BY <1>2, <1>3 DEF RunConnected

\* The address of the GATT that owns it is given up with it.
LEMMA OwnerGoneKeeps ==
  ASSUME AInv, NEW g \in Calls, Due(g) # None, Runs(g), Shut(g),
         current' = None, services' = FALSE, queue' = <<>>, Disconnected,
         crossed' = (crossed \/ (entry.here /\ entry.session # g)),
         UNCHANGED <<jni, callers, retry, tries, inFlight, radio, losses>>
  PROVE  AInv'
<1> USE DEF callers
<1>1. /\ gatt' \in [Calls -> Up \cup {"none", "down", "closed"}]
      /\ \A h \in Calls : gatt'[h] = gatt[h] \/ (h = g /\ gatt'[h] = "closed")
  BY DEF Shut, AInv, TypeOK
<1>2. callbacks' \in [Calls -> Seq(Events)] /\ callbacks[g] # <<>>
  BY RunsTake
<1>3. /\ CallbacksInOrder'
      /\ \A h \in Calls : \A i \in DOMAIN callbacks'[h] :
           \E j \in DOMAIN callbacks[h] : callbacks'[h][i] = callbacks[h][j]
  BY <1>1, RanInOrder
<1>4. TypeOK'
  <2>1. <<>> \in Seq(Writes)
    BY EmptySeq
  <2> QED BY <1>1, <1>2, <2>1, DisconnectedDoes DEF AInv, TypeOK
<1>5. \A h \in Calls : gatt'[h] = "none" <=> gatt[h] = "none"
  BY <1>1, <1>2 DEF AInv, CallbacksInOrder
<1>6. GattsHaveCalls'
  BY <1>5 DEF AInv, GattsHaveCalls
<1>7. ~crossed' => ~crossed
  OBVIOUS
<1> QED BY <1>1, <1>3, <1>4, <1>6, <1>7, GoneKeeps

\* The services of the GATT that owns the address are known, and whoever waits is
\* told that it is up.
LEMMA ServicesKeeps ==
  ASSUME AInv, NEW g \in Calls, Due(g) = "services", Runs(g), current = g,
         services' = TRUE, Connected,
         crossed' = (crossed \/ (entry.here /\ entry.session # g)),
         UNCHANGED <<jni, callers, current, queue, retry, tries, gatt, inFlight, radio,
                     losses>>
  PROVE  AInv'
<1> USE DEF callers
<1>1. /\ CallbacksInOrder'
      /\ \A h \in Calls : \A i \in DOMAIN callbacks'[h] :
           \E j \in DOMAIN callbacks[h] : callbacks'[h][i] = callbacks[h][j]
      /\ \A h \in Calls : \A i \in DOMAIN callbacks'[h] :
           callbacks'[h][i] \in Writes => Started(callbacks'[h][i])
      /\ \A i \in DOMAIN callbacks'[g] : callbacks'[g][i] \notin First
  <2>1. Due(g) # None
    BY NamesDiffer DEF First, None
  <2> QED BY <2>1, RanInOrder
<1>2. /\ callbacks' \in [Calls -> Seq(Events)] /\ callbacks[g][1] = "services"
      /\ \A h \in Calls : h # g => callbacks'[h] = callbacks[h]
      /\ 1 \in DOMAIN callbacks[g] /\ callbacks[g] # <<>>
  <2>1. Due(g) # None
    BY NamesDiffer DEF First, None
  <2> QED BY <2>1, RunsTake
<1>3. /\ entry' \in Entries /\ entry'.here /\ entry'.live /\ entry'.waiter = None
      /\ entry'.write = entry.write
      /\ entry.here => entry'.session = entry.session
      /\ ~entry.here => entry'.session = "zero"
      /\ rx' \in [Calls -> {None, "ok", "gone"}] /\ op' = op
      /\ \A c \in Calls : /\ rx'[c] = IF c = entry.waiter THEN "ok" ELSE rx[c]
                          /\ rx[c] # None => rx'[c] = rx[c]
                          /\ call[c] \in Dialling => rx'[c] # None
                          /\ call[c] = "idle" => rx'[c] = None
  BY ConnectedDoes
<1>4. TypeOK'
  BY <1>2, <1>3 DEF AInv, TypeOK
<1>5. WaitersAgree'
  BY <1>3, NamesDiffer DEF AInv, WaitersAgree, None
<1>6. GattsHaveCalls'
  BY NamesDiffer DEF AInv, GattsHaveCalls
<1>7. WritesAreKnown'
  <2>1. \A w \in Writes : op'[w] = "waiting" <=> entry'.write = w
    BY <1>3 DEF AInv, WritesAreKnown
  <2>2. \A i, j \in DOMAIN queue' : queue'[i] = queue'[j] => i = j
    BY DEF AInv, WritesAreKnown
  <2> QED BY <1>1, <1>3, <2>1, <2>2, WritesStay
<1>8. ASSUME ~crossed'
      PROVE  /\ ~crossed /\ LinksAreApart /\ WritesAreApart /\ QueueIsTheirs
             /\ entry.here => entry.session = g
             /\ rx[g] # "ok"
  <2>1. /\ ~crossed /\ LinksAreApart /\ WritesAreApart /\ QueueIsTheirs
        /\ entry.here => entry.session = g
    BY <1>8 DEF AInv
  <2>2. rx[g] # "ok"
    BY <1>2, <2>1 DEF LinksAreApart, First
  <2> QED BY <2>1, <2>2
<1>9. gatt[g] \in {"ready", "down", "closed"} /\ call[g] \in {"waiting", "open", "leaving"}
  <2>1. gatt[g] \notin {"none", "dialling", "discovering", "linked"}
    BY <1>2 DEF AInv, CallbacksInOrder
  <2>2. gatt[g] \in Up \cup {"none", "down", "closed"}
    BY DEF AInv, TypeOK
  <2>3. call[g] \in {"waiting", "open", "leaving"}
    BY NamesDiffer DEF AInv, GattsHaveCalls
  <2> QED BY <2>1, <2>2, <2>3 DEF Up
<1>10. ASSUME ~crossed' PROVE LinksAreApart'
  <2>1. ASSUME NEW c \in Calls, rx'[c] = "ok"
        PROVE  /\ gatt[c] \in {"ready", "down", "closed"}
               /\ call[c] \notin {"claimed", "opening"}
               /\ \A i \in DOMAIN callbacks'[c] : callbacks'[c][i] \notin First
               /\ entry'.here /\ entry'.session = c /\ call[c] \in {"waiting", "open", "leaving"}
                    => current = c /\ entry'.live
    <3>1. entry'.session = c => c = g
      BY <1>3, <1>8, <1>10, NamesDiffer
    <3>2. CASE rx[c] = "ok"
      <4>1. /\ gatt[c] \in {"ready", "down", "closed"}
            /\ call[c] \notin {"claimed", "opening"}
            /\ \A i \in DOMAIN callbacks[c] : callbacks[c][i] \notin First
        BY <1>8, <1>10, <3>2 DEF LinksAreApart
      <4>2. c # g
        BY <1>8, <1>10, <3>2
      <4> QED BY <1>2, <1>3, <3>1, <4>1, <4>2
    <3>3. CASE rx[c] # "ok"
      <4>1. c = entry.waiter
        BY <1>3, <2>1, <3>3
      <4>2. entry.here /\ entry.session = c
        BY <4>1, NamesDiffer DEF AInv, WaitersAgree, NoEntry
      <4>3. c = g
        BY <1>8, <1>10, <4>2
      <4> QED BY <1>1, <1>3, <1>9, <4>3
    <3> QED BY <3>2, <3>3
  <2>2. \A h \in Calls : inFlight'[h] # None => rx'[h] = "ok"
    BY <1>3, <1>8, <1>10 DEF LinksAreApart, None
  <2>3. ASSUME NEW h \in Calls, NEW i \in DOMAIN callbacks'[h], callbacks'[h][i] \in Writes
        PROVE  rx'[h] = "ok"
    <3>1. PICK j \in DOMAIN callbacks[h] : callbacks'[h][i] = callbacks[h][j]
      BY <1>1
    <3>2. rx[h] = "ok"
      BY <1>8, <1>10, <2>3, <3>1 DEF LinksAreApart
    <3> QED BY <1>3, <3>2 DEF None
  <2>4. \A h \in Calls : call'[h] \in {"opening", "waiting"} => rx'[h] # None
    BY <1>3 DEF Dialling
  <2> QED BY <2>1, <2>2, <2>3, <2>4 DEF LinksAreApart
<1>11. ASSUME ~crossed' PROVE WritesAreApart'
  <2>1. entry.write # None => entry.here
    BY DEF AInv, WaitersAgree, NoEntry
  <2> QED BY <1>3, <1>8, <1>11, <2>1 DEF WritesAreApart, Active
<1>12. ASSUME ~crossed' PROVE QueueIsTheirs'
  <2>1. DOMAIN queue = {}
    BY <1>8, <1>12, QueuedForLink
  <2>2. inFlight[g] = None
    BY <1>8, <1>12 DEF LinksAreApart
  <2>3. \A i \in DOMAIN callbacks'[g] : callbacks'[g][i] \notin Writes
    <3> SUFFICES ASSUME NEW i \in DOMAIN callbacks'[g], callbacks'[g][i] \in Writes
                 PROVE  FALSE
      OBVIOUS
    <3>1. PICK j \in DOMAIN callbacks[g] : callbacks'[g][i] = callbacks[g][j]
      BY <1>1
    <3> QED BY <1>8, <1>12, <3>1 DEF LinksAreApart
  <2> QED BY <2>1, <2>2, <2>3 DEF QueueIsTheirs
<1>13. WaiterIsAnswered'
  <2> SUFFICES ASSUME NEW w \in Writes, op'[w] = "waiting", ~crossed' PROVE FALSE
    BY DEF WaiterIsAnswered
  <2>1. rx[current] = "ok"
    BY <1>3, <1>8, WaitingHoldsLink
  <2> QED BY <1>8, <2>1
<1>14. NobodyLockedOut'
  <2> SUFFICES ASSUME ~crossed'
               PROVE  \/ current # None /\ gatt[current] # "closed"
                      \/ \E c \in Calls : Undoing(c)'
    BY <1>3 DEF NobodyLockedOut
  <2>1. CASE gatt[g] # "closed"
    BY <2>1, NamesDiffer
  <2>2. CASE gatt[g] = "closed"
    <3>1. call[g] = "waiting"
      BY <1>8, <1>9 DEF AInv, WaitersAgree
    <3>2. radio # "sweeping"
      BY NamesDiffer DEF AInv, GattsHaveCalls
    <3>3. rx[g] # None
      BY <1>8, <2>2, <3>1, <3>2 DEF LinksAreApart
    <3>4. rx[g] = "gone"
      BY <1>8, <3>3 DEF AInv, TypeOK
    <3>5. rx'[g] = "gone"
      BY <1>3, <3>3, <3>4
    <3> QED BY <3>1, <3>5 DEF Undoing
  <2> QED BY <2>1, <2>2
<1> QED BY <1>1, <1>4, <1>5, <1>6, <1>7, <1>10, <1>11, <1>12, <1>13, <1>14 DEF AInv

\* Discovery is over.
LEMMA RunDiscoveredKeeps ==
  ASSUME AInv, NEW g \in Calls, RunDiscovered(g)
  PROVE  AInv'
<1>1. /\ Due(g) \in {"services", "noServices"} /\ Due(g) # None /\ Runs(g)
      /\ UNCHANGED <<jni, callers, retry, tries, inFlight, radio, losses>>
  BY NamesDiffer DEF RunDiscovered, First, None
<1>2. CASE ~Owns(g)
  <2>1. /\ Shut(g) /\ UNCHANGED <<rust, current, services, queue, crossed>>
    BY <1>2 DEF RunDiscovered
  <2>2. /\ gatt' \in [Calls -> Up \cup {"none", "down", "closed"}]
        /\ \A h \in Calls : gatt'[h] = gatt[h] \/ (h = g /\ gatt'[h] = "closed")
    BY <2>1 DEF Shut, AInv, TypeOK
  <2>3. current # g /\ UNCHANGED bridge
    BY <1>1, <1>2, <2>1 DEF Owns, bridge
  <2> QED BY <1>1, <2>1, <2>2, <2>3, SkipKeeps
<1>3. CASE Owns(g) /\ Due(g) = "services"
  <2>1. /\ current = g /\ services' = TRUE /\ Connected
        /\ crossed' = (crossed \/ (entry.here /\ entry.session # g))
        /\ UNCHANGED <<current, queue, gatt>>
    BY <1>3 DEF RunDiscovered, Owns
  <2> QED BY <1>1, <1>3, <2>1, ServicesKeeps
<1>4. CASE Owns(g) /\ Due(g) = "noServices"
  <2>1. /\ current' = None /\ services' = FALSE /\ queue' = <<>> /\ Disconnected /\ Shut(g)
        /\ crossed' = (crossed \/ (entry.here /\ entry.session # g))
    BY <1>4 DEF RunDiscovered
  <2> QED BY <1>1, <2>1, OwnerGoneKeeps
<1> QED BY <1>1, <1>2, <1>3, <1>4

\* The end of the link has been reported.
LEMMA RunDisconnectedKeeps ==
  ASSUME AInv, NEW g \in Calls, RunDisconnected(g)
  PROVE  AInv'
<1>1. /\ Due(g) # None /\ Runs(g) /\ Shut(g)
      /\ UNCHANGED <<jni, callers, retry, tries, inFlight, radio, losses>>
  BY NamesDiffer DEF RunDisconnected
<1>2. CASE ~Owns(g)
  <2>1. UNCHANGED <<rust, current, services, queue, crossed>>
    BY <1>2 DEF RunDisconnected
  <2>2. /\ gatt' \in [Calls -> Up \cup {"none", "down", "closed"}]
        /\ \A h \in Calls : gatt'[h] = gatt[h] \/ (h = g /\ gatt'[h] = "closed")
    BY <1>1 DEF Shut, AInv, TypeOK
  <2>3. current # g /\ UNCHANGED bridge
    BY <1>1, <1>2, <2>1 DEF Owns, bridge
  <2> QED BY <1>1, <2>1, <2>2, <2>3, SkipKeeps
<1>3. CASE Owns(g)
  <2>1. /\ current' = None /\ services' = FALSE /\ queue' = <<>> /\ Disconnected
        /\ crossed' = (crossed \/ (entry.here /\ entry.session # g))
    BY <1>3 DEF RunDisconnected, ClearsIds
  <2> QED BY <1>1, <2>1, OwnerGoneKeeps
<1> QED BY <1>2, <1>3

\* What runs first of the GATT that owns the address answers what is queued first.
LEMMA HeadIsDue ==
  ASSUME AInv, ~crossed, NEW g \in Calls, Due(g) \in Writes, current = g
  PROVE  /\ queue # <<>> /\ Head(queue) = Due(g) /\ Head(queue) = queue[1]
         /\ 1 \in DOMAIN queue /\ queue[1] \notin retry
<1>1. callbacks[g] \in Seq(Events) /\ queue \in Seq(Writes)
  BY DEF AInv, TypeOK
<1>2. callbacks[g] # <<>> /\ Due(g) = Head(callbacks[g])
  BY NamesDiffer DEF Due
<1>3. 1 \in DOMAIN callbacks[g] /\ callbacks[g][1] = Due(g)
  BY <1>1, <1>2, TailHolds
<1>4. g # None
  BY NamesDiffer
<1>5. 1 \in DOMAIN queue /\ queue[1] = Due(g) /\ queue[1] \notin retry
  BY <1>3, <1>4 DEF AInv, QueueIsTheirs
<1>6. queue # <<>>
  <2>1. DOMAIN <<>> = {}
    OBVIOUS
  <2> QED BY <1>5, <2>1
<1> QED BY <1>1, <1>5, <1>6, TailHolds

\* The id queued first is answered.
LEMMA AnswerKeeps ==
  ASSUME AInv, NEW g \in Calls, Due(g) \in Writes, Runs(g), current = g, queue # <<>>,
         queue' = Tail(queue), NEW outcome \in {"ok", "failed"},
         WriteResult(Head(queue), outcome),
         UNCHANGED <<jni, callers, current, services, retry, tries, gatt, inFlight,
                     radio, losses, crossed>>
  PROVE  AInv'
<1> USE DEF callers
<1> DEFINE cb == callbacks[g]
<1>1. Due(g) # None
  BY NamesDiffer
<1>2. /\ CallbacksInOrder'
      /\ \A h \in Calls : \A i \in DOMAIN callbacks'[h] :
           \E j \in DOMAIN callbacks[h] : callbacks'[h][i] = callbacks[h][j]
      /\ \A h \in Calls : \A i \in DOMAIN callbacks'[h] :
           callbacks'[h][i] \in Writes => Started(callbacks'[h][i])
      /\ \A i \in DOMAIN callbacks'[g] : callbacks'[g][i] \notin First
  BY <1>1, RanInOrder
<1>3. /\ callbacks' \in [Calls -> Seq(Events)] /\ Due(g) = cb[1]
      /\ \A h \in Calls : h # g => callbacks'[h] = callbacks[h]
      /\ Len(cb) \in Nat \ {0} /\ Len(callbacks'[g]) = Len(cb) - 1
      /\ DOMAIN cb = 1 .. Len(cb) /\ DOMAIN callbacks'[g] = 1 .. (Len(cb) - 1)
      /\ \A i \in DOMAIN callbacks'[g] :
           i + 1 \in DOMAIN cb /\ callbacks'[g][i] = cb[i + 1]
  BY <1>1, RunsTake
<1>4. /\ queue' \in Seq(Writes) /\ Head(queue) \in Writes /\ Head(queue) = queue[1]
      /\ 1 \in DOMAIN queue /\ Len(queue) \in Nat \ {0} /\ DOMAIN queue = 1 .. Len(queue)
      /\ DOMAIN queue' = 1 .. (Len(queue) - 1)
      /\ \A i \in DOMAIN queue' : i + 1 \in DOMAIN queue /\ queue'[i] = queue[i + 1]
  <2>1. queue \in Seq(Writes)
    BY DEF AInv, TypeOK
  <2> QED BY <2>1, TailHolds
<1>5. PICK v \in Writes : v = Head(queue)
  BY <1>4
<1>6. /\ entry' \in Entries
      /\ entry'.here = entry.here /\ entry'.session = entry.session
      /\ entry'.live = entry.live /\ entry'.waiter = entry.waiter
      /\ entry'.leaving = entry.leaving
      /\ entry'.write = IF entry.write = v THEN None ELSE entry.write
      /\ ~entry.here => entry' = NoEntry
      /\ rx' = rx
      /\ op' \in [Writes -> {"idle", "waiting", "ok", "failed", "dropped"}]
      /\ \A w \in Writes :
           op'[w] = IF w = v /\ op[v] = "waiting" THEN outcome ELSE op[w]
  <2>1. WriteResult(v, outcome)
    BY <1>5
  <2> QED BY <2>1, WriteResultDoes
<1>7. Started(v) /\ jni[v] # "write"
  BY <1>4, <1>5 DEF AInv, WritesAreKnown, Started
<1>8. TypeOK'
  BY <1>3, <1>4, <1>6 DEF AInv, TypeOK
<1>9. WaitersAgree'
  BY <1>6 DEF AInv, WaitersAgree
<1>10. GattsHaveCalls'
  BY DEF AInv, GattsHaveCalls
<1>11. \A w \in Writes : /\ op'[w] = "waiting" <=> entry'.write = w
                         /\ op'[w] = "waiting" => op[w] = "waiting" /\ w # v
                         /\ op'[w] = "idle" <=> op[w] = "idle"
                         /\ op[w] # "waiting" => op'[w] = op[w]
  <2>1. \A w \in Writes : op[w] = "waiting" <=> entry.write = w
    BY DEF AInv, WritesAreKnown
  <2> QED BY <1>6, <2>1, NamesDiffer
<1>12. \A i, j \in DOMAIN queue' : queue'[i] = queue'[j] => i = j
  <2> SUFFICES ASSUME NEW i \in DOMAIN queue', NEW j \in DOMAIN queue',
                      queue'[i] = queue'[j]
               PROVE  i = j
    OBVIOUS
  <2>1. /\ i + 1 \in DOMAIN queue /\ j + 1 \in DOMAIN queue
        /\ queue[i + 1] = queue[j + 1]
    BY <1>4
  <2>2. i + 1 = j + 1
    BY <2>1 DEF AInv, WritesAreKnown
  <2> QED BY <1>4, <2>2
<1>13. WritesAreKnown'
  BY <1>2, <1>4, <1>11, <1>12, WritesStay
<1>14. ASSUME ~crossed'
       PROVE  /\ ~crossed /\ LinksAreApart /\ WritesAreApart /\ QueueIsTheirs
              /\ v = cb[1] /\ v = queue[1] /\ v \notin retry
  <2>1. ~crossed /\ LinksAreApart /\ WritesAreApart /\ QueueIsTheirs
    BY <1>14 DEF AInv
  <2> QED BY <1>3, <1>5, <2>1, HeadIsDue
<1>15. ASSUME ~crossed' PROVE LinksAreApart'
  <2>1. ASSUME NEW c \in Calls, rx[c] = "ok"
        PROVE  \A i \in DOMAIN callbacks'[c] : callbacks'[c][i] \notin First
    <3> SUFFICES ASSUME NEW i \in DOMAIN callbacks'[c] PROVE callbacks'[c][i] \notin First
      OBVIOUS
    <3>1. PICK j \in DOMAIN callbacks[c] : callbacks'[c][i] = callbacks[c][j]
      BY <1>2
    <3> QED BY <1>14, <1>15, <2>1, <3>1 DEF LinksAreApart
  <2>2. ASSUME NEW h \in Calls, NEW i \in DOMAIN callbacks'[h], callbacks'[h][i] \in Writes
        PROVE  rx[h] = "ok"
    <3>1. PICK j \in DOMAIN callbacks[h] : callbacks'[h][i] = callbacks[h][j]
      BY <1>2
    <3> QED BY <1>14, <1>15, <2>2, <3>1 DEF LinksAreApart
  <2>3. ASSUME NEW h \in Calls, gatt[h] = "closed", call[h] \in {"opening", "waiting"},
               Due(h)' = "services"
        PROVE  rx[h] # None \/ radio = "sweeping"
    <3>1. h # g
      <4>1. cb[1] \in Writes
        BY <1>3
      <4>2. 1 \in DOMAIN cb
        BY <1>3
      <4>3. rx[g] = "ok"
        BY <1>14, <1>15, <4>1, <4>2 DEF LinksAreApart
      <4>4. ASSUME h = g PROVE FALSE
        <5>1. callbacks'[g] # <<>> /\ Head(callbacks'[g]) = "services"
          BY <2>3, <4>4, NamesDiffer DEF Due, First, None
        <5>2. Head(callbacks'[g]) = callbacks'[g][1] /\ 1 \in DOMAIN callbacks'[g]
          <6>1. callbacks'[g] \in Seq(Events)
            BY <1>3
          <6> QED BY <5>1, <6>1, TailHolds
        <5> QED BY <1>2, <5>1, <5>2 DEF First
      <4> QED BY <4>4
    <3>2. callbacks'[h] = callbacks[h]
      BY <1>3, <3>1
    <3> QED BY <1>14, <1>15, <2>3, <3>2 DEF LinksAreApart, Due
  <2> QED BY <1>6, <1>14, <1>15, <2>1, <2>2, <2>3 DEF LinksAreApart
<1>16. ASSUME ~crossed' PROVE WritesAreApart'
  <2>1. \A w \in Writes : by[w] = current /\ current # None =>
          /\ jni[w] = "write" => op'[w] = "waiting"
          /\ w \in retry => op'[w] = "waiting" \/ jni[w] # "none"
    <3>1. \A w \in Writes : w = v \/ op'[w] = op[w]
      BY <1>6
    <3> QED BY <1>7, <1>14, <1>16, <3>1 DEF WritesAreApart, Active
  <2>2. \A i \in DOMAIN queue' : by[queue'[i]] = current
    BY <1>4, <1>14, <1>16 DEF WritesAreApart
  <2>3. entry'.write # None => by[entry'.write] = entry'.session
    BY <1>6, <1>14, <1>16 DEF WritesAreApart
  <2> QED BY <1>14, <1>16, <2>1, <2>2, <2>3 DEF WritesAreApart, Active
<1>17. ASSUME ~crossed' PROVE QueueIsTheirs'
  <2>0. g # None
    BY NamesDiffer
  <2>1. \A i \in DOMAIN callbacks'[g] : callbacks'[g][i] \in Writes =>
          i \in DOMAIN queue' /\ queue'[i] = callbacks'[g][i] /\ queue'[i] \notin retry
    <3> SUFFICES ASSUME NEW i \in DOMAIN callbacks'[g], callbacks'[g][i] \in Writes
                 PROVE  /\ i \in DOMAIN queue' /\ queue'[i] = callbacks'[g][i]
                        /\ queue'[i] \notin retry
      OBVIOUS
    <3>1. i + 1 \in DOMAIN cb /\ callbacks'[g][i] = cb[i + 1] /\ i \in Nat \ {0}
      BY <1>3
    <3>2. i + 1 \in DOMAIN queue /\ queue[i + 1] = cb[i + 1] /\ queue[i + 1] \notin retry
      BY <1>14, <1>17, <2>0, <3>1 DEF QueueIsTheirs
    <3>3. i \in DOMAIN queue'
      BY <1>4, <3>1, <3>2
    <3> QED BY <1>4, <3>1, <3>2, <3>3
  <2>2. inFlight[g] # None =>
          LET n == Len(callbacks'[g]) + 1 IN
          n \in DOMAIN queue' /\ queue'[n] = inFlight[g] /\ queue'[n] \notin retry
    <3> SUFFICES ASSUME inFlight[g] # None
                 PROVE  LET n == Len(callbacks'[g]) + 1 IN
                        n \in DOMAIN queue' /\ queue'[n] = inFlight[g] /\ queue'[n] \notin retry
      OBVIOUS
    <3>1. /\ Len(cb) + 1 \in DOMAIN queue /\ queue[Len(cb) + 1] = inFlight[g]
          /\ queue[Len(cb) + 1] \notin retry
      BY <1>14, <1>17, <2>0 DEF QueueIsTheirs
    <3>2. Len(callbacks'[g]) + 1 = Len(cb)
      BY <1>3
    <3>3. Len(cb) \in DOMAIN queue'
      BY <1>3, <1>4, <3>1
    <3> QED BY <1>4, <3>1, <3>2, <3>3
  <2>3. Accepted \in Nat /\ Accepted' = Accepted - 1
    <3>1. CASE inFlight[g] = None
      BY <1>3, <3>1 DEF Accepted
    <3>2. CASE inFlight[g] # None
      BY <1>3, <3>2 DEF Accepted
    <3> QED BY <3>1, <3>2
  <2>4. ASSUME gatt[g] = "ready", NEW i \in DOMAIN queue', i > Accepted'
        PROVE  i = Accepted' + 1 /\ queue'[i] \in retry
    <3>1. i + 1 \in DOMAIN queue /\ queue'[i] = queue[i + 1] /\ i \in Nat
      BY <1>4
    <3>2. i + 1 > Accepted
      BY <2>3, <2>4, <3>1
    <3>3. i + 1 = Accepted + 1 /\ queue[i + 1] \in retry
      BY <1>14, <1>17, <2>0, <2>4, <3>1, <3>2 DEF QueueIsTheirs
    <3> QED BY <2>3, <3>1, <3>3
  <2> QED BY <2>1, <2>2, <2>4 DEF QueueIsTheirs
<1>18. WaiterIsAnswered'
  <2> SUFFICES ASSUME NEW w \in Writes, op'[w] = "waiting", jni[w] = "none", ~crossed'
               PROVE  /\ entry'.write = w
                      /\ \/ w \in retry
                         \/ /\ current # None
                            /\ \/ inFlight[current] = w
                               \/ \E k \in DOMAIN callbacks'[current] :
                                    callbacks'[current][k] \in {w, "disconnected"}
    BY DEF WaiterIsAnswered
  <2>1. op[w] = "waiting" /\ w # v /\ entry'.write = w
    BY <1>11
  <2>2. \/ w \in retry
        \/ inFlight[g] = w
        \/ \E k \in DOMAIN cb : cb[k] \in {w, "disconnected"}
    BY <1>14, <2>1 DEF AInv, WaiterIsAnswered
  <2>3. ASSUME NEW k \in DOMAIN cb, cb[k] \in {w, "disconnected"}
        PROVE  \E j \in DOMAIN callbacks'[g] : callbacks'[g][j] \in {w, "disconnected"}
    <3>1. k # 1
      BY <1>14, <2>1, <2>3, NamesDiffer
    <3>2. k - 1 \in DOMAIN callbacks'[g] /\ (k - 1) + 1 = k
      BY <1>3, <3>1
    <3>3. callbacks'[g][k - 1] = cb[k]
      BY <1>3, <3>2
    <3> QED BY <2>3, <3>2, <3>3
  <2> QED BY <2>1, <2>2, <2>3, NamesDiffer
<1>19. NobodyLockedOut'
  BY <1>6 DEF AInv, NobodyLockedOut, Undoing
<1> QED BY <1>2, <1>8, <1>9, <1>10, <1>13, <1>15, <1>16, <1>17, <1>18, <1>19 DEF AInv

\* A write is done.
LEMMA RunWrittenKeeps ==
  ASSUME AInv, NEW g \in Calls, RunWritten(g)
  PROVE  AInv'
<1>1. /\ Due(g) \in Writes /\ Due(g) # None /\ Runs(g)
      /\ UNCHANGED <<jni, callers, current, services, retry, tries, gatt, inFlight,
                     radio, losses, crossed>>
  BY NamesDiffer DEF RunWritten
<1>2. CASE ~Owns(g) \/ queue = <<>>
  <2>1. UNCHANGED <<rust, queue>>
    BY <1>2 DEF RunWritten
  <2>2. gatt' \in [Calls -> Up \cup {"none", "down", "closed"}] /\ UNCHANGED bridge
    BY <1>1, <2>1 DEF bridge, AInv, TypeOK
  <2>3. ~crossed => current # g
    BY <1>1, <1>2, HeadIsDue DEF Owns
  <2> QED BY <1>1, <2>1, <2>2, <2>3, SkipKeeps
<1>3. CASE Owns(g) /\ queue # <<>>
  <2>1. /\ current = g /\ queue' = Tail(queue)
        /\ \E outcome \in {"ok", "failed"} : WriteResult(Head(queue), outcome)
    BY <1>3 DEF RunWritten, Owns
  <2>2. PICK outcome \in {"ok", "failed"} : WriteResult(Head(queue), outcome)
    BY <2>1
  <2> QED BY <1>1, <1>3, <2>1, <2>2, AnswerKeeps
<1> QED BY <1>2, <1>3

-----------------------------------------------------------------------------
(* The adapter *)

\* The adapter goes, and every GATT with it.
LEMMA RadioGoesKeeps ==
  ASSUME AInv, RadioGoes
  PROVE  AInv'
<1> USE DEF callers
<1>1. /\ \A h \in Calls : gatt'[h] = IF gatt[h] = "none" THEN "none" ELSE "closed"
      /\ gatt' \in [Calls -> Up \cup {"none", "down", "closed"}]
      /\ \A h \in Calls : inFlight'[h] = None
      /\ inFlight' \in [Calls -> Writes \cup {None}]
      /\ current' = None /\ services' = FALSE /\ queue' = <<>> /\ queue' \in Seq(Writes)
      /\ radio = "on" /\ radio' = "sweeping" /\ losses' \in Nat
      /\ UNCHANGED <<jni, callers, retry, tries, callbacks, crossed>>
  <2>1. losses' \in Nat
    BY DEF RadioGoes, AInv, TypeOK
  <2>2. queue' = <<>> /\ queue' \in Seq(Writes)
    BY EmptySeq DEF RadioGoes
  <2> QED BY <2>1, <2>2 DEF RadioGoes
<1>2. CallbacksInOrder'
  <2>1. \A h \in Calls : gatt'[h] = gatt[h] \/ gatt'[h] = "closed"
    BY <1>1
  <2>2. ASSUME NEW h \in Calls
        PROVE
      (/\ gatt[h] \in {"none", "dialling", "discovering"} => callbacks[h] = <<>>
       /\ gatt[h] \in Up => \A i \in DOMAIN callbacks[h] : callbacks[h][i] # "disconnected"
       /\ gatt[h] = "linked" => \A i \in DOMAIN callbacks[h] : callbacks[h][i] = "connected"
       /\ gatt[h] = "ready" => \A i \in DOMAIN callbacks[h] : callbacks[h][i] # "connected"
       /\ inFlight[h] # None => /\ gatt[h] \in {"ready", "closed"}
                                /\ \A i \in DOMAIN callbacks[h] :
                                     callbacks[h][i] # "disconnected"
       /\ \A i \in DOMAIN callbacks[h] :
            /\ callbacks[h][i] \in First => i = 1
            /\ callbacks[h][i] = "disconnected" => i = Len(callbacks[h])
            /\ callbacks[h][1] = "connected" /\ i # 1 => callbacks[h][i] = "disconnected")'
    BY <1>1 DEF AInv, CallbacksInOrder, Up
  <2> QED BY <2>2 DEF CallbacksInOrder
<1>3. GattsHaveCalls'
  BY <1>1 DEF AInv, GattsHaveCalls
<1>4. CASE current # None
  <2>1. Disconnected
    BY <1>4 DEF RadioGoes
  <2>2. TypeOK'
    BY <1>1, <2>1, DisconnectedDoes DEF AInv, TypeOK
  <2>3. \A h \in Calls : gatt'[h] = gatt[h] \/ gatt'[h] = "closed"
    BY <1>1
  <2> QED BY <1>1, <1>2, <1>3, <2>1, <2>2, <2>3, GoneKeeps
<1>5. CASE current = None
  <2>1. entry' = entry /\ rx' = rx /\ op' = op
    BY <1>5 DEF RadioGoes, rust
  <2>2. TypeOK'
    BY <1>1, <2>1 DEF AInv, TypeOK
  <2>3. WaitersAgree'
    BY <1>1, <2>1 DEF AInv, WaitersAgree
  <2>4. WritesAreKnown'
    <3>1. \A w \in Writes : op'[w] = "waiting" <=> entry'.write = w
      BY <2>1 DEF AInv, WritesAreKnown
    <3>2. \A h \in Calls : \A i \in DOMAIN callbacks'[h] :
            callbacks'[h][i] \in Writes => Started(callbacks'[h][i])
      BY <1>1 DEF AInv, WritesAreKnown
    <3>3. DOMAIN queue' = {}
      BY <1>1
    <3> QED BY <1>1, <2>1, <3>1, <3>2, <3>3, WritesStay
  <2>5. ASSUME ~crossed' PROVE LinksAreApart'
    <3>1. ~crossed /\ LinksAreApart
      BY <1>1, <2>5 DEF AInv
    <3>2. ASSUME NEW c \in Calls, rx[c] = "ok"
          PROVE  /\ gatt'[c] \in {"ready", "down", "closed"}
                 /\ call[c] \notin {"claimed", "opening"}
                 /\ \A i \in DOMAIN callbacks[c] : callbacks[c][i] \notin First
                 /\ ~(/\ entry.here /\ entry.session = c
                      /\ call[c] \in {"waiting", "open", "leaving"})
      <4>1. /\ gatt[c] \in {"ready", "down", "closed"}
            /\ call[c] \notin {"claimed", "opening"}
            /\ \A i \in DOMAIN callbacks[c] : callbacks[c][i] \notin First
            /\ entry.here /\ entry.session = c /\ call[c] \in {"waiting", "open", "leaving"}
                 => current = c
        BY <3>1, <3>2 DEF LinksAreApart
      <4> QED BY <1>1, <1>5, <4>1, NamesDiffer
    <3>3. \A h \in Calls : \A i \in DOMAIN callbacks[h] :
            callbacks[h][i] \in Writes => rx[h] = "ok"
      BY <3>1 DEF LinksAreApart
    <3> QED BY <1>1, <2>1, <3>2, <3>3 DEF LinksAreApart
  <2>6. ASSUME ~crossed' PROVE WritesAreApart' /\ QueueIsTheirs'
    <3>1. ~crossed /\ WritesAreApart
      BY <1>1, <2>6 DEF AInv
    <3>2. DOMAIN queue' = {}
      BY <1>1
    <3>3. WritesAreApart'
      BY <1>1, <2>1, <3>1, <3>2 DEF WritesAreApart
    <3> QED BY <1>1, <3>3 DEF QueueIsTheirs
  <2>7. WaiterIsAnswered'
    <3> SUFFICES ASSUME NEW w \in Writes, op[w] = "waiting", ~crossed PROVE FALSE
      BY <1>1, <2>1 DEF WaiterIsAnswered
    <3> QED BY <1>5, WaitingHoldsLink
  <2>8. NobodyLockedOut'
    BY <1>1, <2>1 DEF AInv, NobodyLockedOut
  <2> QED BY <1>2, <1>3, <2>2, <2>3, <2>4, <2>5, <2>6, <2>7, <2>8 DEF AInv
<1> QED BY <1>4, <1>5

\* Rust is told, and drops what is left.
LEMMA RadioReportedKeeps ==
  ASSUME AInv, RadioReported
  PROVE  AInv'
<1> USE DEF callers, bridge, platform
<1>1. /\ radio = "sweeping" /\ radio' = "off" /\ Disconnected
      /\ UNCHANGED <<jni, callers, bridge, platform, losses, crossed>>
  BY DEF RadioReported
<1>2. current = None
  BY <1>1 DEF AInv, GattsHaveCalls
<1>3. TypeOK'
  BY <1>1, DisconnectedDoes DEF AInv, TypeOK
<1>4. GattsHaveCalls'
  BY <1>1 DEF AInv, GattsHaveCalls
<1>5. CallbacksInOrder'
  BY <1>1, OrderUntouched
<1>6. ~crossed' => ~crossed /\ current' = None /\ queue' = <<>>
  BY <1>1, <1>2, QueueIsEmpty
<1> QED BY <1>1, <1>3, <1>4, <1>5, <1>6, GoneKeeps

\* The adapter is back.
LEMMA RadioReturnsKeeps ==
  ASSUME AInv, RadioReturns
  PROVE  AInv'
<1> USE DEF rust, callers, bridge, platform
<1>1. /\ radio = "off" /\ radio' = "on"
      /\ UNCHANGED <<rust, jni, callers, bridge, platform, losses, crossed>>
  BY DEF RadioReturns
<1>2. TypeOK'
  BY <1>1 DEF AInv, TypeOK
<1>3. WaitersAgree'
  BY <1>1 DEF AInv, WaitersAgree
<1>4. GattsHaveCalls'
  BY <1>1 DEF AInv, GattsHaveCalls
<1>5. WritesAreKnown' /\ CallbacksInOrder'
  BY <1>1, WritesUntouched, OrderUntouched
<1>6. ASSUME ~crossed' PROVE LinksAreApart' /\ WritesAreApart' /\ QueueIsTheirs'
  <2>1. ~crossed /\ LinksAreApart /\ WritesAreApart /\ QueueIsTheirs
    BY <1>1, <1>6 DEF AInv
  <2>2. LinksAreApart'
    BY <1>1, <2>1 DEF LinksAreApart, Due
  <2>3. WritesAreApart' /\ QueueIsTheirs'
    BY <1>1, <2>1 DEF WritesAreApart, QueueIsTheirs, Accepted, Active
  <2> QED BY <2>2, <2>3
<1>7. WaiterIsAnswered'
  BY <1>1 DEF AInv, WaiterIsAnswered
<1>8. NobodyLockedOut'
  BY <1>1 DEF AInv, NobodyLockedOut, Undoing
<1> QED BY <1>2, <1>3, <1>4, <1>5, <1>6, <1>7, <1>8 DEF AInv

-----------------------------------------------------------------------------
(* The theorems *)

\* Nothing is dialled and nothing written.
LEMMA InitHolds == Init => AInv
<1> SUFFICES ASSUME Init PROVE AInv
  OBVIOUS
<1>1. TypeOK
  <2>1. <<>> \in Seq(Writes) /\ <<>> \in Seq(Events)
    BY EmptySeq
  <2> QED BY <2>1, AndroidAssumption DEF Init, TypeOK, NoEntry, Entries, Dialling
<1>2. WaitersAgree
  BY DEF Init, WaitersAgree, NoEntry, Dialling
<1>3. GattsHaveCalls
  BY DEF Init, GattsHaveCalls
<1>4. DOMAIN queue = {} /\ \A g \in Calls : DOMAIN callbacks[g] = {}
  BY DEF Init
<1>5. WritesAreKnown
  BY <1>4, NamesDiffer DEF Init, WritesAreKnown, NoEntry, Active
<1>6. CallbacksInOrder
  BY <1>4 DEF Init, CallbacksInOrder, Up
<1>7. LinksAreApart /\ WritesAreApart /\ QueueIsTheirs
  BY <1>4 DEF Init, LinksAreApart, WritesAreApart, QueueIsTheirs, NoEntry, None
<1>8. WaiterIsAnswered /\ NobodyLockedOut
  BY DEF Init, WaiterIsAnswered, NobodyLockedOut, NoEntry
<1> QED BY <1>1, <1>2, <1>3, <1>5, <1>6, <1>7, <1>8 DEF AInv

\* Every step keeps the invariant.
LEMMA StepKeeps == AInv /\ [Next]_vars => AInv'
<1> SUFFICES ASSUME AInv, [Next]_vars PROVE AInv'
  OBVIOUS
<1>1. CASE Next
  <2>1. ASSUME NEW c \in Calls,
               \/ Claim(c) \/ OpenGatt(c) \/ Register(c) \/ DialThrows(c)
               \/ ConnectReturns(c)
               \/ GuardCloses(c) \/ GuardForgets(c) \/ GuardClears(c)
               \/ Disconnect(c) \/ DisconnectReturns(c)
        PROVE  AInv'
    BY <2>1, ClaimKeeps, OpenGattKeeps, RegisterKeeps, DialThrowsKeeps,
       ConnectReturnsKeeps, GuardClosesKeeps, GuardForgetsKeeps, GuardClearsKeeps,
       DisconnectKeeps, DisconnectReturnsKeeps
  <2>2. ASSUME NEW c \in Calls,
               \/ Links(c) \/ Discovers(c) \/ Unlinks(c) \/ Completes(c)
               \/ RunConnected(c) \/ RunDiscovered(c) \/ RunDisconnected(c)
               \/ RunWritten(c)
        PROVE  AInv'
    BY <2>2, LinksKeeps, DiscoversKeeps, UnlinksKeeps, CompletesKeeps,
       RunConnectedKeeps, RunDiscoveredKeeps, RunDisconnectedKeeps, RunWrittenKeeps
  <2>3. ASSUME NEW w \in Writes,
               \/ \E c \in Calls : Install(c, w)
               \/ WriteCall(w) \/ RetryRuns(w) \/ WriteDropped(w) \/ CancelCall(w)
        PROVE  AInv'
    BY <2>3, InstallKeeps, WriteCallKeeps, RetryRunsKeeps, WriteDroppedKeeps,
       CancelCallKeeps
  <2>4. CASE RadioGoes \/ RadioReported \/ RadioReturns
    BY <2>4, RadioGoesKeeps, RadioReportedKeeps, RadioReturnsKeeps
  <2> QED BY <1>1, <2>1, <2>2, <2>3, <2>4 DEF Next
<1>2. CASE UNCHANGED vars
  <2> USE <1>2 DEF vars, rust, callers, bridge, platform
  <2>1. TypeOK' /\ WaitersAgree' /\ GattsHaveCalls'
    BY DEF AInv, TypeOK, WaitersAgree, GattsHaveCalls
  <2>2. WritesAreKnown' /\ CallbacksInOrder'
    BY WritesUntouched, OrderUntouched
  <2>3. ASSUME ~crossed' PROVE LinksAreApart' /\ WritesAreApart' /\ QueueIsTheirs'
    <3>1. ~crossed /\ LinksAreApart /\ WritesAreApart /\ QueueIsTheirs
      BY <2>3 DEF AInv
    <3>2. LinksAreApart' /\ WritesAreApart'
      BY <3>1 DEF LinksAreApart, WritesAreApart, Due, Active
    <3>3. QueueIsTheirs'
      BY <3>1 DEF QueueIsTheirs, Accepted
    <3> QED BY <3>2, <3>3
  <2>4. WaiterIsAnswered' /\ NobodyLockedOut'
    BY DEF AInv, WaiterIsAnswered, NobodyLockedOut, Undoing
  <2> QED BY <2>1, <2>2, <2>3, <2>4 DEF AInv
<1> QED BY <1>1, <1>2

\* The invariant holds: whatever the calls do to each other the entry, the calls
\* and the writes agree, and as long as no call has acted on another's session
\* the link Rust calls up is the bridge's and the ids queued are the platform's.
THEOREM AndroidInvariance == Spec => []AInv
<1> QED BY InitHolds, StepKeeps, PTL DEF Spec

\* As long as no call has acted on another's session, a write that waits is to be
\* retried, or with the platform, or the end of its GATT is still to be reported
\* (android.rs write, BleGattBridge.kt attemptWrite and cancelPendingOperation).
THEOREM WaitersAreAnswered == Spec => []WaiterIsAnswered
<1>1. AInv => WaiterIsAnswered
  BY DEF AInv
<1> QED BY <1>1, AndroidInvariance, PTL

\* As long as no call has acted on another's session, an address that refuses
\* dials is being dialled by a call that is there, or has an open GATT, or is
\* about to be given up (clear_pending_connect, onConnected, the radio's receiver).
THEOREM NobodyIsLockedOut == Spec => []NobodyLockedOut
<1>1. AInv => NobodyLockedOut
  BY DEF AInv
<1> QED BY <1>1, AndroidInvariance, PTL

\* Only a completion makes a write succeed, and it is that of the write queued first.
LEMMA OnlyCompletionsSucceed ==
  ASSUME AInv, [Next]_vars, NEW w \in Writes, op[w] # "ok", op'[w] = "ok"
  PROVE  ~crossed => \E g \in Calls : Due(g) = w /\ callbacks'[g] = Tail(callbacks[g])
<1> USE DEF rust, callers, bridge, platform
<1>1. ASSUME NEW c \in Calls,
             \/ Claim(c) \/ OpenGatt(c) \/ Register(c) \/ DialThrows(c)
             \/ ConnectReturns(c)
             \/ GuardCloses(c) \/ GuardForgets(c) \/ GuardClears(c)
             \/ Disconnect(c) \/ DisconnectReturns(c)
      PROVE  FALSE
  <2>1. ClearPendingConnect => op'[w] # "ok"
    BY ClearDoes
  <2> QED BY <1>1, <2>1 DEF Claim, OpenGatt, Register, DialThrows, ConnectReturns,
       GuardCloses, GuardForgets, GuardClears, Disconnect, DisconnectReturns
<1>2. ASSUME NEW c \in Calls,
             \/ Links(c) \/ Discovers(c) \/ Unlinks(c) \/ Completes(c)
             \/ RunConnected(c) \/ RunDiscovered(c) \/ RunDisconnected(c)
      PROVE  FALSE
  <2>1. Disconnected => op'[w] # "ok"
    BY DisconnectedDoes
  <2>2. Connected => op'[w] # "ok"
    BY DEF Connected
  <2> QED BY <1>2, <2>1, <2>2 DEF Links, Discovers, Unlinks, Completes, RunConnected,
       RunDiscovered, RunDisconnected
<1>3. ASSUME NEW v \in Writes,
             \/ \E c \in Calls : Install(c, v)
             \/ WriteCall(v) \/ RetryRuns(v) \/ WriteDropped(v) \/ CancelCall(v)
      PROVE  FALSE
  <2>1. ASSUME WriteResult(v, "failed") PROVE op'[w] # "ok"
    BY <2>1, WriteResultDoes
  <2>2. Attempt(v) => op'[w] # "ok"
    BY <2>1 DEF Attempt
  <2>3. WriteDropped(v) => op'[w] # "ok"
    BY DEF WriteDropped, AInv, TypeOK
  <2>4. (\E c \in Calls : Install(c, v)) => op'[w] # "ok"
    BY DEF Install
  <2> QED BY <1>3, <2>2, <2>3, <2>4 DEF WriteCall, RetryRuns, CancelCall
<1>4. RadioGoes \/ RadioReported \/ RadioReturns \/ UNCHANGED vars => op'[w] # "ok"
  <2>1. Disconnected => op'[w] # "ok"
    BY DisconnectedDoes
  <2> QED BY <2>1 DEF RadioGoes, RadioReported, RadioReturns, vars
<1>5. ASSUME NEW g \in Calls, RunWritten(g), ~crossed
      PROVE  Due(g) = w /\ callbacks'[g] = Tail(callbacks[g])
  <2>1. Due(g) \in Writes /\ Due(g) # None /\ Runs(g)
    BY <1>5, NamesDiffer DEF RunWritten
  <2>2. callbacks'[g] = Tail(callbacks[g])
    BY <2>1, RunsTake
  <2>3. current = g /\ \E outcome \in {"ok", "failed"} : WriteResult(Head(queue), outcome)
    BY <1>5 DEF RunWritten, Owns
  <2>4. Head(queue) = Due(g)
    BY <1>5, <2>1, <2>3, HeadIsDue
  <2>5. PICK v \in Writes, outcome \in {"ok", "failed"} :
          v = Due(g) /\ WriteResult(v, outcome)
    BY <2>1, <2>3, <2>4
  <2>6. op'[w] = IF w = v /\ op[v] = "waiting" THEN outcome ELSE op[w]
    BY <2>5, WriteResultDoes
  <2> QED BY <2>2, <2>5, <2>6
<1> QED BY <1>1, <1>2, <1>3, <1>4, <1>5 DEF Next

\* As long as no call has acted on another's session, a write succeeds only
\* through the platform's completion of that very write, whatever was cancelled,
\* retried or cut off before it (BleGattBridge.kt onCharacteristicWrite).
THEOREM CompletionsAreOwn == Spec => CompletionIsItsOwn
<1>1. AInv /\ [Next]_vars =>
        [\A w \in Writes :
           ~crossed /\ op[w] # "ok" /\ op'[w] = "ok" =>
             \E g \in Calls : Due(g) = w /\ callbacks'[g] = Tail(callbacks[g])]_vars
  BY OnlyCompletionsSucceed
<1> QED BY <1>1, AndroidInvariance, PTL DEF Spec, CompletionIsItsOwn
=============================================================================
