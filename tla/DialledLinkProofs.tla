--------------------------- MODULE DialledLinkProofs ---------------------------
(***************************************************************************)
(* A connection this device dialled ends for a cause of its own, for any   *)
(* number of dials to one address and any depth of the event queues.       *)
(***************************************************************************)
EXTENDS DialledLink, TLAPS, SequenceTheorems

-----------------------------------------------------------------------------
(* Queues *)

\* The places of a queue are counted from one.
LEMMA Places ==
  ASSUME NEW S, NEW q \in Seq(S)
  PROVE  /\ Len(q) \in Nat /\ DOMAIN q = 1..Len(q)
         /\ \A i \in DOMAIN q : q[i] \in S
  OBVIOUS

\* A watch that takes the front of its queue leaves what stood behind it.
LEMMA TailHolds ==
  ASSUME NEW S, NEW q \in Seq(S), q # <<>>
  PROVE  /\ Tail(q) \in Seq(S) /\ 1 \in DOMAIN q /\ Head(q) = q[1]
         /\ \A i \in DOMAIN Tail(q) : i + 1 \in DOMAIN q /\ Tail(q)[i] = q[i + 1]
<1>1. Len(q) \in Nat /\ DOMAIN q = 1..Len(q) /\ Len(q) # 0
  BY EmptySeq, LenProperties
<1>2. /\ Tail(q) \in Seq(S) /\ Len(Tail(q)) = Len(q) - 1
      /\ \A i \in 1..Len(Tail(q)) : Tail(q)[i] = q[i + 1]
  BY HeadTailProperties
<1>3. DOMAIN Tail(q) = 1..(Len(q) - 1)
  BY <1>2, LenProperties
<1>4. Head(q) = q[1]
  OBVIOUS
<1> QED BY <1>1, <1>2, <1>3, <1>4

\* A broadcast adds its event and, to a full queue only, a lag: everything else
\* in the queue was there before.
LEMMA EnqueuedHolds ==
  ASSUME NEW q \in Seq(Events), NEW event \in Events, DialledAssumption
  PROVE  /\ Enqueued(q, event) \in Seq(Events)
         /\ \A i \in DOMAIN Enqueued(q, event) :
              \/ Enqueued(q, event)[i] = event
              \/ Enqueued(q, event)[i] = Lagged /\ Len(q) >= EventCap
              \/ \E j \in DOMAIN q : Enqueued(q, event)[i] = q[j]
<1> DEFINE e == Enqueued(q, event)
<1>0. Len(q) \in Nat /\ DOMAIN q = 1..Len(q) /\ EventCap \in Nat
  BY Places DEF DialledAssumption
<1>1. CASE Len(q) < EventCap
  <2>1. e = Append(q, event)
    BY <1>1 DEF Enqueued
  <2>2. /\ Append(q, event) \in Seq(Events)
        /\ DOMAIN Append(q, event) = 1..(Len(q) + 1)
        /\ \A i \in 1..Len(q) : Append(q, event)[i] = q[i]
        /\ Append(q, event)[Len(q) + 1] = event
    BY AppendProperties, LenProperties
  <2>3. \A i \in 1..(Len(q) + 1) : i \in 1..Len(q) \/ i = Len(q) + 1
    BY <1>0
  <2> QED BY <1>0, <2>1, <2>2, <2>3
<1>2. CASE ~(Len(q) < EventCap)
  <2> DEFINE lag == <<Lagged>>
             rest == SubSeq(q, 3, Len(q))
             last == <<event>>
  <2>1. e = lag \o rest \o last
    BY <1>2 DEF Enqueued
  <2>2. Len(q) >= EventCap
    BY <1>0, <1>2
  <2>3. Lagged \in Events
    BY DEF Events, Lagged
  <2>4. /\ lag \in Seq(Events) /\ Len(lag) = 1 /\ lag[1] = Lagged
        /\ last \in Seq(Events) /\ Len(last) = 1 /\ last[1] = event
    BY <2>3
  <2>5. /\ rest \in Seq(Events)
        /\ \A i \in 1..Len(rest) : \E j \in DOMAIN q : rest[i] = q[j]
    <3>1. CASE 3 <= Len(q)
      <4>1. /\ rest \in Seq(Events) /\ Len(rest) = Len(q) - 2
            /\ \A i \in 1..Len(q) - 2 : rest[i] = q[i + 2]
        BY <1>0, <3>1
      <4>2. \A i \in 1..Len(q) - 2 : i + 2 \in DOMAIN q
        BY <1>0, <3>1
      <4> QED BY <4>1, <4>2
    <3>2. CASE ~(3 <= Len(q))
      <4>1. rest = <<>>
        BY <1>0, <3>2, SubSeqEmpty
      <4> QED BY <4>1
    <3> QED BY <3>1, <3>2
  <2> HIDE DEF lag, rest, last
  <2>6. lag \o rest \in Seq(Events) /\ e \in Seq(Events)
    BY <2>1, <2>4, <2>5, ConcatProperties
  <2>7. Len(rest) \in Nat
    BY <2>5, LenProperties
  <2>8. /\ Len(lag \o rest) = 1 + Len(rest)
        /\ \A i \in 1..(1 + Len(rest)) :
             (lag \o rest)[i] = IF i <= 1 THEN lag[i] ELSE rest[i - 1]
    <3>1. /\ Len(lag \o rest) = Len(lag) + Len(rest)
          /\ \A i \in 1..(Len(lag) + Len(rest)) :
               (lag \o rest)[i] = IF i <= Len(lag) THEN lag[i] ELSE rest[i - Len(lag)]
      BY <2>4, <2>5, ConcatProperties
    <3> QED BY <2>4, <3>1
  <2>9. /\ Len(e) = 1 + Len(rest) + 1
        /\ \A i \in 1..(1 + Len(rest) + 1) :
             e[i] = IF i <= 1 + Len(rest) THEN (lag \o rest)[i] ELSE last[i - (1 + Len(rest))]
    BY <2>1, <2>4, <2>6, <2>8, ConcatProperties
  <2>10. ASSUME NEW i \in DOMAIN e
         PROVE  \/ e[i] = event
                \/ e[i] = Lagged
                \/ \E j \in DOMAIN q : e[i] = q[j]
    <3>1. i \in 1..(1 + Len(rest) + 1)
      BY <2>6, <2>9, LenProperties
    <3>2. CASE i = 1
      <4>1. e[1] = lag[1]
        BY <2>7, <2>8, <2>9
      <4> QED BY <3>2, <4>1, <2>4
    <3>3. CASE i # 1 /\ i <= 1 + Len(rest)
      <4>1. e[i] = rest[i - 1] /\ i - 1 \in 1..Len(rest)
        BY <2>7, <2>8, <2>9, <3>1, <3>3
      <4> QED BY <4>1, <2>5
    <3>4. CASE i = 1 + Len(rest) + 1
      <4>1. e[i] = last[1]
        BY <2>7, <2>9, <3>1, <3>4
      <4> QED BY <4>1, <2>4
    <3> QED BY <2>7, <3>1, <3>2, <3>3, <3>4
  <2> QED BY <2>2, <2>6, <2>10
<1> QED BY <1>1, <1>2

-----------------------------------------------------------------------------
(* What a queue holds stays true *)

\* Nothing that happened is undone: a lag stays recorded, a loss of the radio
\* counted, a lost link down.
Lasting ==
  /\ missed \subseteq missed' /\ radioLost <= radioLost'
  /\ \A s \in Dials : link[s] = "down" => link'[s] = "down"

\* So what was true of an event when it was queued is true of it later.
LEMMA HappenedLasts ==
  ASSUME TypeOK, TypeOK', Lasting, NEW d \in Dials, NEW event \in Events,
         Happened(d, event), DialledAssumption
  PROVE  /\ event.type = "Lagged" => d \in missed'
         /\ event.type = "RadioOff" => radioLost' > 0
         /\ event.type = "Disconnected" /\ event.role = "Central"
              => link'[event.session] = "down"
<1>1. radioLost \in Int /\ radioLost' \in Int
  BY DEF TypeOK, DialledAssumption
<1>2. event.type = "Disconnected" => event.session \in Dials
  BY DEF Events
<1> QED BY <1>1, <1>2 DEF Lasting, Happened

\* A step that queues no event keeps the queues true.
LEMMA NoNewEvent ==
  ASSUME TypeOK, TypeOK', QueuesAreTrue, Lasting, DialledAssumption,
         \A d \in Dials : \A i \in DOMAIN queue'[d] :
           \E j \in DOMAIN queue[d] : queue'[d][i] = queue[d][j]
  PROVE  QueuesAreTrue'
<1> SUFFICES ASSUME NEW d \in Dials, NEW i \in DOMAIN queue'[d]
             PROVE  Happened(d, queue[d][i])'
  BY DEF QueuesAreTrue
<1>1. PICK j \in DOMAIN queue[d] : queue'[d][i] = queue[d][j]
  OBVIOUS
<1>2. queue[d] \in Seq(Events)
  BY DEF TypeOK
<1>3. queue[d][j] \in Events /\ Happened(d, queue[d][j])
  BY <1>1, <1>2, Places DEF QueuesAreTrue
<1> HIDE DEF Happened
<1>4. /\ queue'[d][i].type = "Lagged" => d \in missed'
      /\ queue'[d][i].type = "RadioOff" => radioLost' > 0
      /\ queue'[d][i].type = "Disconnected" /\ queue'[d][i].role = "Central"
           => link'[queue'[d][i].session] = "down"
  BY <1>1, <1>3, HappenedLasts
<1> QED BY <1>4 DEF Happened

\* Neither does a step that leaves the queues alone, or ends a subscription.
LEMMA SameQueues ==
  ASSUME TypeOK, TypeOK', QueuesAreTrue, Lasting, DialledAssumption,
         \/ UNCHANGED queue
         \/ \E d \in Dials : Unsubscribes(d)
  PROVE  QueuesAreTrue'
<1>1. CASE UNCHANGED queue
  BY <1>1, NoNewEvent
<1>2. ASSUME NEW d \in Dials, Unsubscribes(d) PROVE QueuesAreTrue'
  <2>1. \A e \in Dials : queue'[e] = IF e = d THEN <<>> ELSE queue[e]
    BY <1>2 DEF Unsubscribes, TypeOK
  <2>2. DOMAIN <<>> = {}
    OBVIOUS
  <2>3. \A e \in Dials : \A i \in DOMAIN queue'[e] :
           \E j \in DOMAIN queue[e] : queue'[e][i] = queue[e][j]
    BY <2>1, <2>2
  <2> QED BY <2>3, NoNewEvent
<1> QED BY <1>1, <1>2

\* A published event that is true keeps them true: who overran is recorded.
LEMMA PublishKeeps ==
  ASSUME TypeOK, TypeOK', QueuesAreTrue, Lasting, DialledAssumption,
         NEW event \in Events, Publish(event),
         event.type = "RadioOff" => radioLost' > 0,
         event.type # "Lagged",
         event.type = "Disconnected" /\ event.role = "Central"
           => link'[event.session] = "down"
  PROVE  QueuesAreTrue'
<1> SUFFICES ASSUME NEW d \in Dials, NEW i \in DOMAIN queue'[d]
             PROVE  Happened(d, queue[d][i])'
  BY DEF QueuesAreTrue
<1>1. queue[d] \in Seq(Events)
  BY DEF TypeOK
<1>2. queue'[d] = IF Subscribed(d) THEN Enqueued(queue[d], event) ELSE queue[d]
  BY DEF Publish
<1>3. \/ queue'[d][i] = event
      \/ queue'[d][i] = Lagged /\ d \in missed'
      \/ \E j \in DOMAIN queue[d] : queue'[d][i] = queue[d][j]
  <2>1. CASE ~Subscribed(d)
    BY <1>2, <2>1
  <2>2. CASE Subscribed(d)
    <3>1. queue'[d] = Enqueued(queue[d], event)
      BY <1>2, <2>2
    <3>2. \/ queue'[d][i] = event
          \/ queue'[d][i] = Lagged /\ Len(queue[d]) >= EventCap
          \/ \E j \in DOMAIN queue[d] : queue'[d][i] = queue[d][j]
      <4>1. i \in DOMAIN Enqueued(queue[d], event)
        BY <3>1
      <4>2. \/ Enqueued(queue[d], event)[i] = event
            \/ Enqueued(queue[d], event)[i] = Lagged /\ Len(queue[d]) >= EventCap
            \/ \E j \in DOMAIN queue[d] : Enqueued(queue[d], event)[i] = queue[d][j]
        BY <1>1, <4>1, EnqueuedHolds, DialledAssumption
      <4> QED BY <3>1, <4>2
    <3>3. Len(queue[d]) >= EventCap => d \in missed'
      BY <2>2 DEF Publish
    <3> QED BY <3>2, <3>3
  <2> QED BY <2>1, <2>2
<1>4. CASE queue'[d][i] = event
  BY <1>4 DEF Happened
<1>5. CASE queue'[d][i] = Lagged /\ d \in missed'
  BY <1>5 DEF Happened, Lagged
<1>6. CASE \E j \in DOMAIN queue[d] : queue'[d][i] = queue[d][j]
  <2>1. PICK j \in DOMAIN queue[d] : queue'[d][i] = queue[d][j]
    BY <1>6
  <2>2. queue[d][j] \in Events /\ Happened(d, queue[d][j])
    BY <1>1, Places DEF QueuesAreTrue
  <2>3. /\ queue'[d][i].type = "Lagged" => d \in missed'
        /\ queue'[d][i].type = "RadioOff" => radioLost' > 0
        /\ queue'[d][i].type = "Disconnected" /\ queue'[d][i].role = "Central"
             => link'[queue'[d][i].session] = "down"
    BY <2>1, <2>2, HappenedLasts
  <2> QED BY <2>3 DEF Happened
<1> QED BY <1>3, <1>4, <1>5, <1>6

\* A published event keeps the types.
LEMMA PublishTypes ==
  ASSUME TypeOK, DialledAssumption, NEW event \in Events, Publish(event)
  PROVE  queue' \in [Dials -> Seq(Events)] /\ missed' \subseteq Dials /\ missed \subseteq missed'
<1>1. \A d \in Dials : queue[d] \in Seq(Events)
  BY DEF TypeOK
<1>2. \A d \in Dials :
         (IF Subscribed(d) THEN Enqueued(queue[d], event) ELSE queue[d]) \in Seq(Events)
  BY <1>1, EnqueuedHolds
<1>3. queue' \in [Dials -> Seq(Events)]
  BY <1>2 DEF Publish
<1> QED BY <1>3 DEF Publish, TypeOK

-----------------------------------------------------------------------------
(* The steps *)

\* The steps that change neither a link nor what is queued, or only end a
\* subscription: a dial, its end, and what happens at the sink.
LEMMA OwnerKeeps ==
  ASSUME LInv, DialledAssumption, NEW d \in Dials,
         \/ \E k \in {"channel", "handle"} : Dial(d, k)
         \/ ConnectFails(d) \/ SetupDone(d) \/ SetupFails(d)
         \/ SendBegins(d) \/ SendEnds(d) \/ CloseEnds(d)
         \/ DropOwner(d) \/ DropTaskTakes(d)
  PROVE  LInv'
<1> USE DEF LInv
<1>1. <<>> \in Seq(Events)
  OBVIOUS
<1>2. TypeOK'
  <2>1. CASE \E k \in {"channel", "handle"} : Dial(d, k)
    BY <2>1 DEF TypeOK, Dial, sink, watch, radio
  <2>2. CASE ConnectFails(d)
    BY <1>1, <2>2 DEF TypeOK, ConnectFails, Unsubscribes, sink, watch, radio
  <2>3. CASE SetupDone(d)
    BY <2>3 DEF TypeOK, SetupDone, radio
  <2>4. CASE SetupFails(d)
    BY <1>1, <2>4 DEF TypeOK, SetupFails, Unsubscribes, watch, radio
  <2>5. CASE SendBegins(d) \/ SendEnds(d) \/ CloseEnds(d)
    BY <2>5 DEF TypeOK, SendBegins, SendEnds, CloseEnds, owner, watch, radio
  <2>6. CASE DropOwner(d)
    BY <1>1, <2>6 DEF TypeOK, DropOwner, Unsubscribes, radio
  <2>7. CASE DropTaskTakes(d)
    BY <2>7 DEF TypeOK, DropTaskTakes, owner, watch, radio
  <2> QED BY <2>1, <2>2, <2>3, <2>4, <2>5, <2>6, <2>7
<1>3. UNCHANGED <<link, owed, missed, radioLost>>
  BY DEF Dial, ConnectFails, SetupDone, SetupFails, SendBegins, SendEnds, CloseEnds,
         DropOwner, DropTaskTakes, owner, sink, watch, radio
<1>4. UNCHANGED queue \/ Unsubscribes(d)
  BY DEF Dial, ConnectFails, SetupDone, SetupFails, SendBegins, SendEnds, CloseEnds,
         DropOwner, DropTaskTakes, owner, sink, watch, radio
<1>5. \A e \in Dials : stage'[e] \in {"unused", "dialling"} =>
                         stage[e] \in {"unused", "dialling"}
  BY DEF TypeOK, Dial, ConnectFails, SetupDone, SetupFails, SendBegins, SendEnds,
         CloseEnds, DropOwner, DropTaskTakes, owner, sink, watch, radio
<1>6. LinksFollowDials'
  BY <1>3, <1>5 DEF LinksFollowDials
<1>7. Lasting
  <2>1. radioLost \in Int
    BY DEF TypeOK, DialledAssumption
  <2> QED BY <1>3, <2>1 DEF Lasting
<1>8. QueuesAreTrue'
  BY <1>2, <1>4, <1>7, SameQueues
<1> QED BY <1>2, <1>6, <1>8

\* The driver answers a dial, or an owner asks for a disconnect: links move,
\* none that is down, and nothing is queued.
LEMMA LinkKeeps ==
  ASSUME LInv, DialledAssumption, NEW d \in Dials,
         \/ ConnectSucceeds(d) \/ Close(d) \/ Disconnect(d) \/ TaskDisconnects(d)
         \/ LinkCloses(d) \/ LinkDrops(d)
  PROVE  LInv'
<1> USE DEF LInv
<1>2. TypeOK'
  <2>1. CASE ConnectSucceeds(d)
    BY <2>1 DEF TypeOK, ConnectSucceeds, radio
  <2>2. CASE Close(d) \/ TaskDisconnects(d)
    BY <2>2 DEF TypeOK, Close, TaskDisconnects, Asks, owner, watch, radio
  <2>3. CASE Disconnect(d)
    BY <2>3 DEF TypeOK, Disconnect, Asks, owner, radio
  <2>4. CASE LinkCloses(d) \/ LinkDrops(d)
    BY <2>4 DEF TypeOK, LinkCloses, LinkDrops, owner, sink, watch, radio
  <2> QED BY <2>1, <2>2, <2>3, <2>4
<1>3. UNCHANGED <<missed, radioLost, queue>>
  BY DEF ConnectSucceeds, Close, Disconnect, TaskDisconnects, LinkCloses, LinkDrops,
         owner, sink, watch, radio
<1>4. \A s \in Dials : link[s] = "down" => link'[s] = "down"
  <2>1. CASE ConnectSucceeds(d)
    BY <2>1 DEF TypeOK, LinksFollowDials, ConnectSucceeds
  <2>2. CASE ~ConnectSucceeds(d)
    BY <2>2 DEF TypeOK, Close, Disconnect, TaskDisconnects, Asks, LinkCloses, LinkDrops
  <2> QED BY <2>1, <2>2
<1>5. \A s \in Dials : stage'[s] \in {"unused", "dialling"} =>
                         stage[s] \in {"unused", "dialling"} /\ link'[s] = link[s]
  <2>1. CASE ConnectSucceeds(d)
    BY <2>1 DEF TypeOK, ConnectSucceeds
  <2>2. CASE Close(d) \/ Disconnect(d) \/ TaskDisconnects(d)
    BY <2>2 DEF TypeOK, LinksFollowDials, Close, Disconnect, TaskDisconnects, Asks, owner
  <2>3. CASE LinkCloses(d) \/ LinkDrops(d)
    BY <2>3 DEF TypeOK, LinksFollowDials, LinkCloses, LinkDrops, owner
  <2> QED BY <2>1, <2>2, <2>3
<1>6. \A s \in owed' : link'[s] = "down"
  <2>1. \A s \in owed' : s \in owed \/ (s = d /\ (LinkCloses(d) \/ LinkDrops(d)))
    BY DEF ConnectSucceeds, Close, Disconnect, TaskDisconnects, LinkCloses, LinkDrops
  <2>2. LinkCloses(d) \/ LinkDrops(d) => link'[d] = "down"
    BY DEF TypeOK, LinkCloses, LinkDrops
  <2>3. owed \subseteq Dials
    BY DEF TypeOK
  <2> QED BY <1>4, <2>1, <2>2, <2>3 DEF LinksFollowDials
<1>7. LinksFollowDials'
  BY <1>5, <1>6 DEF LinksFollowDials
<1>8. Lasting
  <2>1. radioLost \in Int
    BY DEF TypeOK, DialledAssumption
  <2> QED BY <1>3, <1>4, <2>1 DEF Lasting
<1>9. QueuesAreTrue'
  BY <1>2, <1>3, <1>8, SameQueues
<1> QED BY <1>2, <1>7, <1>9

\* A lost link is reported.
LEMMA PublishesLossKeeps ==
  ASSUME LInv, DialledAssumption, NEW s \in Dials, PublishesLoss(s)
  PROVE  LInv'
<1> USE DEF LInv
<1> DEFINE event == Disconnected("Central", s)
<1>1. event \in Events /\ event.type = "Disconnected" /\ event.session = s
  BY DEF Events, Disconnected
<1>2. /\ Publish(event) /\ owed' = owed \ {s} /\ s \in owed
      /\ UNCHANGED <<link, owner, sink, watch, radio>>
  BY DEF PublishesLoss
<1> HIDE DEF event
<1>3. queue' \in [Dials -> Seq(Events)] /\ missed' \subseteq Dials /\ missed \subseteq missed'
  BY <1>1, <1>2, PublishTypes
<1>4. TypeOK'
  BY <1>2, <1>3 DEF TypeOK, owner, sink, watch, radio
<1>5. LinksFollowDials'
  BY <1>2 DEF LinksFollowDials, owner
<1>6. Lasting
  <2>1. radioLost \in Int
    BY DEF TypeOK, DialledAssumption
  <2> QED BY <1>2, <1>3, <2>1 DEF Lasting, radio
<1>7. link'[s] = "down"
  BY <1>2 DEF LinksFollowDials
<1>8. QueuesAreTrue'
  BY <1>1, <1>2, <1>4, <1>6, <1>7, PublishKeeps
<1> QED BY <1>4, <1>5, <1>8

\* The peer leaves our server: an event of the other role.
LEMMA PeerLeavesKeeps ==
  ASSUME LInv, DialledAssumption, PeerLeavesServer
  PROVE  LInv'
<1> USE DEF LInv
<1>1. PICK s \in Dials : Publish(Disconnected("Peripheral", s))
  BY DEF PeerLeavesServer
<1> DEFINE event == Disconnected("Peripheral", s)
<1>2. event \in Events /\ event.type = "Disconnected" /\ event.role = "Peripheral"
  BY DEF Events, Disconnected
<1>3. Publish(event)
  BY <1>1
<1> HIDE DEF event
<1>4. queue' \in [Dials -> Seq(Events)] /\ missed' \subseteq Dials /\ missed \subseteq missed'
  BY <1>2, <1>3, PublishTypes
<1>5. left' \in 0..MaxLeaves /\ UNCHANGED <<link, owed, owner, sink, watch, radioLost>>
  BY DEF PeerLeavesServer, TypeOK, DialledAssumption
<1>6. TypeOK'
  BY <1>4, <1>5 DEF TypeOK, owner, sink, watch
<1>7. LinksFollowDials'
  BY <1>5 DEF LinksFollowDials, owner
<1>8. Lasting
  <2>1. radioLost \in Int
    BY DEF TypeOK, DialledAssumption
  <2> QED BY <1>4, <1>5, <2>1 DEF Lasting
<1>9. QueuesAreTrue'
  BY <1>2, <1>3, <1>6, <1>8, PublishKeeps
<1> QED BY <1>6, <1>7, <1>9

\* The radio goes, with every open link.
LEMMA RadioGoesKeeps ==
  ASSUME LInv, DialledAssumption, RadioGoes
  PROVE  LInv'
<1> USE DEF LInv
<1> DEFINE open == {s \in Dials : link[s] \in {"up", "closing"}}
<1>1. RadioOff \in Events /\ RadioOff.type = "RadioOff"
  BY DEF Events, RadioOff
<1>2. /\ Publish(RadioOff) /\ radioLost < MaxRadioLosses /\ radioLost' = radioLost + 1
      /\ link' = [s \in Dials |-> IF s \in open THEN "down" ELSE link[s]]
      /\ owed' = owed \cup open
      /\ UNCHANGED <<owner, sink, watch, left>>
  BY DEF RadioGoes
<1>3. queue' \in [Dials -> Seq(Events)] /\ missed' \subseteq Dials /\ missed \subseteq missed'
  BY <1>1, <1>2, PublishTypes
<1>4. radioLost \in Int /\ radioLost' > 0 /\ radioLost <= radioLost'
      /\ radioLost' \in 0..MaxRadioLosses
  BY <1>2 DEF TypeOK, DialledAssumption
<1>5. link' \in [Dials -> {"none", "up", "closing", "down"}] /\ owed' \subseteq Dials
  BY <1>2 DEF TypeOK
<1>6. TypeOK'
  BY <1>2, <1>3, <1>4, <1>5 DEF TypeOK, owner, sink, watch
<1>7. LinksFollowDials'
  BY <1>2 DEF LinksFollowDials, TypeOK, owner
<1>8. Lasting
  BY <1>2, <1>3, <1>4 DEF Lasting
<1>9. QueuesAreTrue'
  BY <1>1, <1>2, <1>4, <1>6, <1>8, PublishKeeps
<1> QED BY <1>6, <1>7, <1>9

\* A watch reads its next event, or ends and with it the subscription.
LEMMA WatchKeeps ==
  ASSUME LInv, DialledAssumption, NEW d \in Dials, Watch(d)
  PROVE  LInv'
<1> USE DEF LInv
<1>1. queue[d] \in Seq(Events) /\ queue[d] # <<>>
  BY DEF TypeOK, Watch
<1>2. UNCHANGED <<link, owed, owner, sink, missed, radio>>
  BY DEF Watch
<1>3. \/ Unsubscribes(d) /\ watching' = watching \ {d} /\ ended' = ended \cup {d}
      \/ queue' = [queue EXCEPT ![d] = Tail(@)] /\ UNCHANGED watch
  BY DEF Watch
<1>4. <<>> \in Seq(Events) /\ Tail(queue[d]) \in Seq(Events)
  BY <1>1, TailHolds
<1>5. TypeOK'
  BY <1>2, <1>3, <1>4 DEF TypeOK, Unsubscribes, owner, sink, watch, radio
<1>6. LinksFollowDials'
  BY <1>2 DEF LinksFollowDials, owner
<1>7. Lasting
  <2>1. radioLost \in Int
    BY DEF TypeOK, DialledAssumption
  <2> QED BY <1>2, <2>1 DEF Lasting, radio
<1>8. CASE Unsubscribes(d)
  <2>1. QueuesAreTrue'
    BY <1>5, <1>7, <1>8, SameQueues
  <2> QED BY <1>5, <1>6, <2>1
<1>9. CASE queue' = [queue EXCEPT ![d] = Tail(@)]
  <2>1. \A e \in Dials : queue'[e] = IF e = d THEN Tail(queue[d]) ELSE queue[e]
    BY <1>9 DEF TypeOK
  <2>2. \A i \in DOMAIN Tail(queue[d]) :
          \E j \in DOMAIN queue[d] : Tail(queue[d])[i] = queue[d][j]
    BY <1>1, TailHolds
  <2>3. \A e \in Dials : \A i \in DOMAIN queue'[e] :
           \E j \in DOMAIN queue[e] : queue'[e][i] = queue[e][j]
    BY <2>1, <2>2
  <2>4. QueuesAreTrue'
    BY <1>5, <1>7, <2>3, NoNewEvent
  <2> QED BY <1>5, <1>6, <2>4
<1> QED BY <1>3, <1>8, <1>9

-----------------------------------------------------------------------------
(* The theorems *)

\* The invariant holds before the first dial.
LEMMA InitHolds ==
  ASSUME Init, DialledAssumption
  PROVE  LInv
<1>1. <<>> \in Seq(Events) /\ DOMAIN <<>> = {}
  OBVIOUS
<1>2. TypeOK
  BY <1>1 DEF Init, TypeOK, DialledAssumption
<1>3. LinksFollowDials /\ QueuesAreTrue
  BY <1>1 DEF Init, LinksFollowDials, QueuesAreTrue
<1> QED BY <1>2, <1>3 DEF LInv

\* Every step keeps it.
LEMMA StepKeeps ==
  ASSUME LInv, DialledAssumption, [Next]_vars
  PROVE  LInv'
<1>1. CASE UNCHANGED vars
  BY <1>1 DEF vars, owner, sink, watch, radio, LInv, TypeOK, LinksFollowDials,
              QueuesAreTrue, Happened
<1>2. CASE Next
  BY <1>2, OwnerKeeps, LinkKeeps, PublishesLossKeeps, PeerLeavesKeeps, RadioGoesKeeps,
     WatchKeeps DEF Next
<1> QED BY <1>1, <1>2

\* What a subscriber has queued happened and stays so, in every reachable state.
THEOREM DialledInvariance == Spec => []LInv
<1>1. Init => LInv
  BY InitHolds, DialledAssumption
<1>2. LInv /\ [Next]_vars => LInv'
  BY StepKeeps, DialledAssumption
<1> QED BY <1>1, <1>2, PTL DEF Spec

\* A watch ends its owner for what it reads, which happened.
LEMMA WatchEndsForCause ==
  ASSUME LInv, DialledAssumption, NEW d \in Dials, Watch(d), d \in ended' \ ended
  PROVE  \/ link'[d] # "up"
         \/ kind[d] = "channel" /\ d \in missed
         \/ kind[d] = "handle" /\ radioLost > 0
<1> DEFINE event == Head(queue[d])
<1>1. queue[d] \in Seq(Events) /\ queue[d] # <<>>
  BY DEF LInv, TypeOK, Watch
<1>2. EndsWatch(d, event) /\ link' = link
  BY DEF Watch, watch
<1>3. Happened(d, event)
  BY <1>1, TailHolds DEF LInv, QueuesAreTrue
<1> HIDE DEF event
<1>4. CASE LossOf(d, event)
  BY <1>2, <1>3, <1>4 DEF LossOf, Happened
<1>5. CASE kind[d] = "channel" /\ event = Lagged
  BY <1>3, <1>5 DEF Happened, Lagged
<1>6. CASE kind[d] = "handle" /\ event = RadioOff
  BY <1>3, <1>6 DEF Happened, RadioOff
<1> QED BY <1>2, <1>4, <1>5, <1>6 DEF EndsWatch

\* Who else ends an owner is the owner: it disconnects or is dropped.
LEMMA OwnerEndsItself ==
  ASSUME LInv, DialledAssumption, NEW d \in Dials, Disconnect(d) \/ DropOwner(d),
         NEW e \in ended' \ ended
  PROVE  stage'[e] = "gone" \/ link'[e] # "up"
<1>1. e = d
  BY DEF Disconnect, DropOwner
<1>2. CASE Disconnect(d)
  BY <1>1, <1>2 DEF LInv, TypeOK, Disconnect, Asks
<1>3. CASE DropOwner(d)
  BY <1>1, <1>3 DEF LInv, TypeOK, DropOwner
<1> QED BY <1>2, <1>3

\* An owner that is still held ends only with its own link, with the radio, or
\* after its events overran (spawn_link_loss_watch, watch_for_end): never for
\* what became of another session or of the peer's link to our server.
THEOREM OwnersEndForCause == Spec => EndsForCause
<1> DEFINE Cause(d) == \/ stage'[d] = "gone" \/ link'[d] # "up"
                       \/ kind[d] = "channel" /\ d \in missed
                       \/ kind[d] = "handle" /\ radioLost > 0
<1>1. ASSUME LInv, [Next]_vars, NEW d \in ended' \ ended
      PROVE  Cause(d)
  <2>1. PICK e \in Dials : Disconnect(e) \/ DropOwner(e) \/ Watch(e)
    <3>1. UNCHANGED vars => UNCHANGED ended
      BY DEF vars, watch
    <3>2. PeerLeavesServer \/ RadioGoes => UNCHANGED ended
      BY DEF PeerLeavesServer, RadioGoes, watch
    <3>3. ASSUME NEW e \in Dials,
                 \/ \E k \in {"channel", "handle"} : Dial(e, k)
                 \/ ConnectSucceeds(e) \/ ConnectFails(e) \/ SetupDone(e) \/ SetupFails(e)
                 \/ SendBegins(e) \/ SendEnds(e) \/ Close(e) \/ CloseEnds(e)
                 \/ DropTaskTakes(e) \/ TaskDisconnects(e)
                 \/ LinkCloses(e) \/ LinkDrops(e) \/ PublishesLoss(e)
          PROVE  UNCHANGED ended
      BY <3>3 DEF Dial, ConnectSucceeds, ConnectFails, SetupDone, SetupFails, SendBegins,
         SendEnds, Close, CloseEnds, DropTaskTakes, TaskDisconnects, LinkCloses,
         LinkDrops, PublishesLoss, watch
    <3> QED BY <1>1, <3>1, <3>2, <3>3 DEF Next
  <2>2. CASE Disconnect(e) \/ DropOwner(e)
    BY <1>1, <2>2, OwnerEndsItself, DialledAssumption
  <2>3. CASE Watch(e)
    <3>1. d = e
      BY <1>1, <2>3 DEF Watch, watch
    <3> QED BY <1>1, <2>3, <3>1, WatchEndsForCause, DialledAssumption
  <2> QED BY <2>1, <2>2, <2>3
<1>2. ASSUME LInv, [Next]_vars
      PROVE  \A d \in ended' \ ended : Cause(d)
  BY <1>1, <1>2
<1>3. LInv /\ [Next]_vars => [\A d \in ended' \ ended : Cause(d)]_vars
  BY <1>2
<1>4. Spec => [][\A d \in ended' \ ended : Cause(d)]_vars
  BY <1>3, DialledInvariance, PTL DEF Spec
<1> QED BY <1>4 DEF EndsForCause
=============================================================================
