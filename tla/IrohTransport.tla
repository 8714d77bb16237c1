---------------------------- MODULE IrohTransport ----------------------------
(***************************************************************************)
(* The iroh transport over datagram channels (ble-gatt-iroh/src/lib.rs).   *)
(* One endpoint is reached at some addresses.  Each address has at most    *)
(* one current link, which takes iroh's packets; a link it replaced goes   *)
(* on until it ends.  The hooks tell which connections use an address, and *)
(* when the last of them has ended its links are released: at once if the  *)
(* peer closed it, after the CONNECTION_CLOSE has left if this side did.   *)
(* A link's two queues are one here: both are first in, first out and drop *)
(* a packet, never a barrier, when they are full.                          *)
(***************************************************************************)
EXTENDS Naturals, Sequences, FiniteSets, SequencesExt

CONSTANTS Addrs,      \* addresses of the endpoint
          Conns,      \* iroh connections to it
          MaxLinks,   \* bound: channels dialled or attached
          QueueDepth  \* LINK_QUEUE_DEPTH

ASSUME IrohAssumption ==
  {MaxLinks, QueueDepth} \subseteq Nat \ {0} /\ 0 \notin Addrs

VARIABLES links,     \* links[a]: the link iroh's packets to a go to, or None
          link,      \* link[l]: its state, address, role, signals, and (history)
                     \* whether it carried a connection
          queue,     \* queue[l]: packets and barriers not sent yet
          learned,   \* learned[a]: the connections that used a
          conn,      \* conn[k]: how far the connection and its hook are
          drained,   \* connections QUIC has forgotten
          barriers,  \* barriers[k]: links that k has still to hear from
          lossy,     \* closing connections that saw a packet dropped
          answered,  \* answered[a]: "no", "yield" or "over"
          current,   \* the address set_peer_address recorded
          retired,   \* addresses it replaced
          waits,     \* waits[l]: links the dial of l still waits for
          attaching  \* addresses whose attach() has not reached links yet

book   == <<current, retired, attaching>>
hooks  == <<conn, drained, barriers>>
vars   == <<links, link, queue, learned, hooks, lossy, answered, book, waits>>

None  == 0
Links == 1 .. MaxLinks
Unborn == [st |-> "none", addr |-> None, role |-> "none",
           signal |-> FALSE, armed |-> FALSE, here |-> FALSE, carried |-> FALSE]

NoneLearned == [known |-> FALSE, connections |-> {}, open |-> {}, ended |-> {}]

\* What the queues tell apart: a CONNECTION_CLOSE, a barrier, other packets.
Entry(kind, k) == [kind |-> kind, conn |-> k]
Other == Entry("other", None)
InUse(a)     == learned[a].connections # {}
OnlyEnded(a) == learned[a].connections = {} /\ learned[a].ended # {}
LinksOf(a)   == {l \in Links : link[l].addr = a}
\* (bound) Links are numbered as they come; one attach() runs at a time.
Next0 == Cardinality({l \in Links : link[l].st # "none"}) + 1
Becomes(l, st) == link' = [link EXCEPT ![l].st = st]

Init ==
  /\ links = [a \in Addrs |-> None]
  /\ link = [l \in Links |-> Unborn]
  /\ queue = [l \in Links |-> <<>>]
  /\ learned = [a \in Addrs |-> NoneLearned]
  /\ conn = [k \in Conns |-> "none"]
  /\ drained = {} /\ lossy = {}
  /\ barriers = [k \in Conns |-> {}]
  /\ answered = [a \in Addrs |-> "no"]
  /\ current \in Addrs /\ retired = {}
  /\ waits = [l \in Links |-> {}]
  /\ attaching = {}

-----------------------------------------------------------------------------
(* Sender::send *)

Closing(k) == conn[k] \in {"closing", "closingBuilt", "waiting"}

\* A dropped packet may be the close of any closing connection on a.
Drop(a) ==
  lossy' = lossy \cup {k \in learned[a].connections : Closing(k) /\ k \notin drained}

\* No channel yet, and none to be opened for this packet.
HoldsBack(a, kind) ==
  \/ a \in retired
  \/ kind # "initial" /\ OnlyEnded(a)
  \/ answered[a] # "no" /\ (a # current \/ answered[a] = "yield")

\* Closes under way on the endpoint's other addresses: those recorded,
\* retired or learned.
ClosingElsewhere(a) ==
  IF a # current THEN {}
  ELSE {l \in Links : /\ link[l].st = "closing" /\ link[l].addr # a
                      /\ link[l].addr \in retired \cup {b \in Addrs : learned[b].known}}

\* The packet goes to the current link, is dropped, or starts a dial with the
\* packet in its queue.
Send(a, kind, k) ==
  LET l == links[a]
      packet == IF kind = "close" THEN Entry(kind, k) ELSE Other
  IN
  IF l # None
  THEN /\ IF Len(queue[l]) < QueueDepth
          THEN queue' = [queue EXCEPT ![l] = Append(@, packet)] /\ UNCHANGED lossy
          ELSE Drop(a) /\ UNCHANGED queue
       /\ UNCHANGED <<links, link, waits>>
  ELSE IF HoldsBack(a, kind)
  THEN UNCHANGED <<links, link, queue, lossy, waits>>
  ELSE /\ Next0 + Cardinality(attaching) \in Links
       /\ links' = [links EXCEPT ![a] = Next0]
       /\ link' = [link EXCEPT ![Next0] = [Unborn EXCEPT !.st = "dialling",
                                             !.addr = a, !.role = "central"]]
       /\ queue' = [queue EXCEPT ![Next0] = <<packet>>]
       /\ waits' = [waits EXCEPT ![Next0] = ClosingElsewhere(a)]
       /\ UNCHANGED lossy

\* iroh opens a connection, an open one sends, or a closing one answers a late
\* packet of the peer's with its CONNECTION_CLOSE again.
IrohSends(k, a) ==
  /\ \/ conn[k] = "none" /\ Send(a, "initial", k)
     \/ conn[k] = "open" /\ k \in learned[a].connections
        /\ Send(a, "data", k)
     \/ conn[k] \in {"waiting", "ended"} /\ k \notin drained
        /\ learned[a].known /\ Send(a, "again", k)
  /\ UNCHANGED <<learned, hooks, answered, book>>

DialWaited(l) ==
  /\ link[l].st = "dialling"
  /\ \E m \in waits[l] : link[m].st = "down" /\ waits' = [waits EXCEPT ![l] = @ \ {m}]
  /\ UNCHANGED <<links, link, queue, learned, hooks, lossy, answered, book>>

\* CLOSE_WAIT_LIMIT.
DialWaitsNoMore(l) ==
  /\ link[l].st = "dialling" /\ waits[l] # {}
  /\ waits' = [waits EXCEPT ![l] = {}]
  /\ UNCHANGED <<links, link, queue, learned, hooks, lossy, answered, book>>

DialSucceeds(l) ==
  /\ link[l].st = "dialling" /\ waits[l] = {}
  /\ Becomes(l, "spawned")
  /\ answered' = [answered EXCEPT ![link[l].addr] = "no"]
  /\ UNCHANGED <<links, queue, learned, hooks, lossy, book, waits>>

\* What the properties no longer tell apart of a link that is down.
Gone(l) == link' = [link EXCEPT ![l] = [Unborn EXCEPT !.st = "down", !.addr = link[l].addr]]

\* (fault) The place is cleared whoever holds it.
ClearsPlace(l) == links' = [links EXCEPT ![link[l].addr] = None]

\* remove_link, and the end of run_link: only the link's own place.
LeavesPlace(l) ==
  links' = [links EXCEPT ![link[l].addr] = IF @ = l THEN None ELSE @]

\* The dial fails, or close_link cancels it: close_link stores a permit with
\* each link of an address, and here it acts when the link takes its permit.
\* What it had queued goes, and with it the barriers that wait there.
DialEnds(l) ==
  /\ link[l].st = "dialling"
  /\ Gone(l) /\ LeavesPlace(l)
  /\ queue' = [queue EXCEPT ![l] = <<>>]
  /\ waits' = [waits EXCEPT ![l] = {}]
  /\ barriers' = [k \in Conns |-> barriers[k] \ {l}]
  /\ UNCHANGED <<learned, conn, drained, lossy, answered, book>>

-----------------------------------------------------------------------------
(* attach, set_peer_address *)

\* A channel the peer dialled is handed over: its address no longer yields,
\* then it takes the place.  A link is numbered as it enters links.
AttachBegins(a) ==
  /\ attaching = {} /\ Next0 \in Links
  /\ attaching' = {a}
  /\ answered' = [answered EXCEPT ![a] = "no"]
  /\ UNCHANGED <<links, link, queue, learned, hooks, lossy, current, retired, waits>>

Attached(a) ==
  /\ a \in attaching /\ attaching' = {}
  /\ links' = [links EXCEPT ![a] = Next0]
  /\ link' = [link EXCEPT ![Next0] = [Unborn EXCEPT !.st = "spawned",
                                        !.addr = a, !.role = "peripheral"]]
  /\ UNCHANGED <<queue, learned, hooks, lossy, answered, current, retired, waits>>

\* run_link starts: from here the link hears releases.
Registered(l) ==
  /\ link[l].st = "spawned"
  /\ link' = [link EXCEPT ![l].st = "up", ![l].carried = InUse(link[l].addr)]
  /\ UNCHANGED <<links, queue, learned, hooks, lossy, answered, book, waits>>

\* (bound) One address has been recorded from the start, and is replaced once,
\* while there are links to come: it only tells which dials may start.
SetPeerAddress(a) ==
  /\ current # a /\ retired = {} /\ Next0 \in Links /\ current' = a
  /\ retired' = {current}
  /\ UNCHANGED <<links, link, queue, learned, hooks, lossy, answered, waits, attaching>>

-----------------------------------------------------------------------------
(* run_link *)

\* The send task sends what is in front; a barrier behind it is reached.
Sent(l) ==
  /\ link[l].st \in {"spawned", "up"} /\ queue[l] # <<>>
  /\ queue' = [queue EXCEPT ![l] = Tail(@)]
  /\ barriers' = LET front == Head(queue[l]) IN
       IF front.kind = "barrier"
       THEN [barriers EXCEPT ![front.conn] = @ \ {l}] ELSE barriers
  /\ UNCHANGED <<links, link, learned, conn, drained, lossy, answered, book, waits>>

\* The signal is taken; the delay starts if nothing uses the address.
ReleaseHeard(l) ==
  /\ link[l].st = "up" /\ link[l].signal
  /\ link' = [link EXCEPT ![l].signal = FALSE,
                          ![l].armed = @ \/ ~InUse(link[l].addr)]
  /\ UNCHANGED <<links, queue, learned, hooks, lossy, answered, book, waits>>

\* A connection took the link over before the delay was up.
ReleaseCalledOff(l) ==
  /\ link[l].st = "up" /\ link[l].armed /\ InUse(link[l].addr)
  /\ link' = [link EXCEPT ![l].armed = FALSE]
  /\ UNCHANGED <<links, queue, learned, hooks, lossy, answered, book, waits>>

\* What every end does first: the send task is aborted, the signals go, the
\* barriers still queued fail.
Ends(l, here) ==
  /\ link' = [link EXCEPT ![l].st = "closing", ![l].here = here,
                          ![l].signal = FALSE, ![l].armed = FALSE, ![l].carried = FALSE]
  /\ queue' = [queue EXCEPT ![l] = <<>>]
  /\ barriers' = [k \in Conns |-> barriers[k] \ {l}]
  /\ UNCHANGED <<links, learned, conn, drained, lossy, answered, book, waits>>

Releases(l) ==
  /\ link[l].st = "up" /\ link[l].armed /\ ~InUse(link[l].addr)
  /\ Ends(l, TRUE)

\* The application closed the link, or it was idle long enough.
ApplicationCloses(l) == link[l].st = "up" /\ Ends(l, TRUE)

\* The peer goes, or sending fails.
ChannelDrops(l) == link[l].st = "up" /\ Ends(l, FALSE)

\* The channel has been closed or disconnected.  Only while it owns the place
\* does a link the peer dialled leave a yield behind.
Down(l) ==
  LET a == link[l].addr
      owns == links[a] = l
      allClosing == learned[a].known /\ learned[a].open = {}
  IN
  /\ link[l].st = "closing" /\ Gone(l)
  /\ queue' = [queue EXCEPT ![l] = <<>>]
  /\ barriers' = [k \in Conns |-> barriers[k] \ {l}]
  /\ LeavesPlace(l)
  /\ answered' = IF owns /\ link[l].role = "peripheral"
                 THEN [answered EXCEPT ![a] =
                         IF link[l].here \/ allClosing THEN "over" ELSE "yield"]
                 ELSE answered
  /\ learned' = IF owns /\ ~InUse(a) /\ learned[a].ended = {}
                THEN [learned EXCEPT ![a] = NoneLearned] ELSE learned
  /\ UNCHANGED <<conn, drained, lossy, book, waits>>

\* REDIAL_YIELD.
YieldEnds(a) ==
  /\ answered[a] = "yield" /\ answered' = [answered EXCEPT ![a] = "over"]
  /\ UNCHANGED <<links, link, queue, learned, hooks, lossy, book, waits>>

-----------------------------------------------------------------------------
(* The hooks *)

Learns(k, a) ==
  learned' = [learned EXCEPT ![a].known = TRUE, ![a].connections = @ \cup {k}, ![a].open = @ \cup {k}]

\* The handshake ends over a link, or a path opens on one; the hook may hear
\* of it when the link has gone.
Handshake(k, a) ==
  /\ conn[k] \in {"none", "open"} /\ k \notin learned[a].connections
  /\ \E l \in LinksOf(a) : link[l].st \in {"up", "closing", "down"}
  /\ conn' = [conn EXCEPT ![k] = "open"]
  /\ Learns(k, a)
  /\ link' = [l \in Links |-> IF l \in LinksOf(a) /\ link[l].st = "up"
                              THEN [link[l] EXCEPT !.carried = TRUE] ELSE link[l]]
  /\ UNCHANGED <<links, queue, drained, barriers, lossy, answered, book, waits>>

\* connection_closing, after a close by either side or a lost connection.
CloseStarts(k, how) ==
  /\ conn[k] = "open"
  /\ conn' = [conn EXCEPT ![k] = how]
  /\ learned' = [a \in Addrs |-> [learned[a] EXCEPT !.open = @ \ {k}]]
  /\ UNCHANGED <<links, link, queue, drained, barriers, lossy, answered, book, waits>>

ClosedHere(k) == CloseStarts(k, "closing")
ClosedByPeer(k) == CloseStarts(k, "over")

\* noq builds the CONNECTION_CLOSE and hands it to the transport.
CloseBuilt(k) ==
  /\ conn[k] = "closing"
  /\ \E a \in Addrs : k \in learned[a].connections /\ Send(a, "close", k)
  /\ conn' = [conn EXCEPT ![k] = "closingBuilt"]
  /\ UNCHANGED <<learned, drained, barriers, answered, book>>

\* (fault) The close counts as sent once it is built.
NoBarriers(k) == {}

\* The current links of the addresses the connection used.
BarrierLinks(k) ==
  {links[a] : a \in {b \in Addrs : k \in learned[b].connections /\ links[b] # None}}

\* A barrier goes behind what a link has queued.  It waits for room rather than
\* be dropped, so it may exceed the queue's depth here.
BarrierQueued(k, l) == queue' = [queue EXCEPT ![l] = Append(@, Entry("barrier", k))]

\* close_sent finds the close counted, takes the links it will ask and asks one.
CloseCounted(k) ==
  /\ conn[k] = "closingBuilt"
  /\ conn' = [conn EXCEPT ![k] = "waiting"]
  /\ barriers' = [barriers EXCEPT ![k] = BarrierLinks(k)]
  /\ \/ BarrierLinks(k) = {} /\ UNCHANGED queue
     \/ \E l \in BarrierLinks(k) : BarrierQueued(k, l)
  /\ UNCHANGED <<links, link, learned, drained, lossy, answered, book, waits>>

\* The next one is asked once the last has answered or ended.
NextAsked(k) ==
  /\ conn[k] = "waiting"
  /\ \A l \in Links : Entry("barrier", k) \notin Range(queue[l])
  /\ \E l \in barriers[k] : BarrierQueued(k, l)
  /\ UNCHANGED <<links, link, learned, hooks, lossy, answered, book, waits>>

\* Behind a drop the barrier proves nothing.
Proved(k) == k \notin lossy

\* (fault) Only the current link of an address is signalled.
CurrentOnly(a) == {links[a]}

\* Every running link to the address hears that nothing uses it.
Signalled(a) == {l \in LinksOf(a) : link[l].st = "up"}

\* forget_connection, once the close is out or the connection has drained.
\* An address nothing uses any more has its links signalled.
Forgets(k) ==
  LET free == {a \in Addrs : learned[a].connections = {k}} IN
  /\ \/ conn[k] = "over"
     \/ conn[k] = "waiting" /\ barriers[k] = {} /\ Proved(k)
     \/ conn[k] \in {"closing", "closingBuilt", "waiting"} /\ k \in drained
  /\ conn' = [conn EXCEPT ![k] = "ended"]
  /\ learned' = [a \in Addrs |->
       IF k \in learned[a].connections
       THEN [learned[a] EXCEPT !.connections = @ \ {k}, !.ended = @ \cup {k}]
       ELSE learned[a]]
  /\ link' = [l \in Links |-> IF \E a \in free : l \in Signalled(a)
                              THEN [link[l] EXCEPT !.signal = TRUE] ELSE link[l]]
  /\ lossy' = lossy \ {k} /\ barriers' = [barriers EXCEPT ![k] = {}]
  /\ UNCHANGED <<links, queue, drained, answered, book, waits>>

\* QUIC forgets a closed connection after its closing or draining period;
\* close_sent waits no longer, whatever its barriers prove.
Drains(k) ==
  /\ Closing(k) /\ k \notin drained
  /\ drained' = drained \cup {k}
  /\ lossy' = lossy \ {k} /\ barriers' = [barriers EXCEPT ![k] = {}]
  /\ UNCHANGED <<links, link, queue, learned, conn, answered, book, waits>>

\* connection_drained, once the connection has drained.  An entry that holds nothing stays while the address
\* has a link.
Forgotten(k) ==
  /\ conn[k] = "ended"
  /\ conn' = [conn EXCEPT ![k] = "forgotten"] /\ drained' = drained \cup {k}
  /\ learned' = [a \in Addrs |->
       IF InUse(a) \/ learned[a].ended \ {k} # {} \/ links[a] # None
       THEN [learned[a] EXCEPT !.ended = @ \ {k}] ELSE NoneLearned]
  /\ UNCHANGED <<links, link, queue, barriers, lossy, answered, book, waits>>

-----------------------------------------------------------------------------
LinkStep(l) ==
  \/ DialWaited(l) \/ DialWaitsNoMore(l) \/ DialSucceeds(l) \/ DialEnds(l)
  \/ Registered(l) \/ Sent(l) \/ ReleaseHeard(l)
  \/ ReleaseCalledOff(l) \/ Releases(l) \/ ApplicationCloses(l)
  \/ ChannelDrops(l) \/ Down(l)

HookStep(k) ==
  \/ ClosedHere(k) \/ ClosedByPeer(k) \/ CloseBuilt(k)
  \/ CloseCounted(k) \/ NextAsked(k)
  \/ Forgets(k) \/ Drains(k) \/ Forgotten(k)

Next ==
  \/ \E l \in Links : LinkStep(l)
  \/ \E k \in Conns : HookStep(k)
  \/ \E k \in Conns, a \in Addrs : IrohSends(k, a) \/ Handshake(k, a)
  \/ \E a \in Addrs :
       AttachBegins(a) \/ Attached(a) \/ SetPeerAddress(a) \/ YieldEnds(a)

Spec == Init /\ [][Next]_vars

-----------------------------------------------------------------------------
\* iroh's packets go to the newest channel: while the last link dialled or
\* attached for an address is alive it holds the address's place, whichever
\* older links and dials end meanwhile.
NewestOwns ==
  \A a \in Addrs :
    \A l \in LinksOf(a) :
      (link[l].st \in {"dialling", "spawned", "up"} /\ \A m \in LinksOf(a) : m <= l)
        => links[a] = l

Replaced(l) == \E m \in LinksOf(link[l].addr) : m > l

\* A release never cuts a CONNECTION_CLOSE off: the link that carries it stays
\* until it has been sent, unless QUIC gave the connection up first or another
\* link took the address over.
CloseGoesOut ==
  [][\A l \in Links, k \in Conns :
       Releases(l) /\ Entry("close", k) \in Range(queue[l])
         => k \in drained \/ Replaced(l)]_vars

\* No release is lost: while nothing uses the address of a link that carried a
\* connection, the link's release delay runs or its signal is there to start it,
\* whichever links replaced it and however connections came and went before.
ReleaseIsComing ==
  \A l \in Links :
    link[l].st = "up" /\ link[l].carried /\ ~InUse(link[l].addr)
      => link[l].signal \/ link[l].armed

\* What the proofs need beside these properties.
Entries == [kind : {"close", "barrier", "other"}, conn : Conns \cup {None}]

LinkStates == [st : {"none", "dialling", "spawned", "up", "closing", "down"},
               addr : Addrs \cup {None}, role : {"none", "central", "peripheral"},
               signal : BOOLEAN, armed : BOOLEAN, here : BOOLEAN, carried : BOOLEAN]
Uses == [known : BOOLEAN, connections : SUBSET Conns,
         open : SUBSET Conns, ended : SUBSET Conns]

TypeOK ==
  /\ links \in [Addrs -> Links \cup {None}] /\ link \in [Links -> LinkStates]
  /\ queue \in [Links -> Seq(Entries)] /\ learned \in [Addrs -> Uses]
  /\ conn \in [Conns -> {"none", "open", "closing", "closingBuilt", "waiting",
                         "over", "ended", "forgotten"}]
  /\ drained \subseteq Conns /\ lossy \subseteq Conns
  /\ barriers \in [Conns -> SUBSET Links]
  /\ answered \in [Addrs -> {"no", "yield", "over"}]
  /\ current \in Addrs /\ retired \subseteq Addrs
  /\ waits \in [Links -> SUBSET Links]
  /\ attaching \subseteq Addrs

\* Links are numbered as they come, an attach() that runs has a number left,
\* and a link keeps the address it came for.
Numbered ==
  /\ \E n \in 0 .. MaxLinks : /\ {l \in Links : link[l].st # "none"} = 1 .. n
                              /\ attaching # {} => n < MaxLinks
  /\ attaching = {} \/ \E a \in Addrs : attaching = {a}
  /\ \A l \in Links : link[l].st = "none" <=> link[l].addr = None

\* The place of an address is held by a link to it that has not gone, and by
\* the newest of them from its dial or attach to its end.
PlaceIsNewest ==
  /\ \A a \in Addrs : links[a] # None =>
       link[links[a]].addr = a /\ link[links[a]].st # "down"
  /\ \A l \in Links :
       link[l].st \notin {"none", "down"} /\ ~Replaced(l) => links[link[l].addr] = l
  /\ \A l \in Links : link[l].st \in {"none", "down"} =>
       queue[l] = <<>> /\ \A k \in Conns : l \notin barriers[k]

\* A close that is queued on the newest link of its address keeps the address
\* in use, until the barrier behind it is reached or QUIC forgets it.
ClosePending(k, l) ==
  /\ k \in learned[link[l].addr].connections
  /\ \/ conn[k] = "closingBuilt"
     \/ conn[k] = "waiting" /\ l \in barriers[k]

ClosesAreKept ==
  \A l \in Links, k \in Conns : \A i \in DOMAIN queue[l] :
    queue[l][i] = Entry("close", k)
      => k \in drained \/ Replaced(l) \/ ClosePending(k, l)

BarriersAreBehind ==
  \A l \in Links, k \in Conns : \A i \in DOMAIN queue[l] :
    queue[l][i] = Entry("barrier", k)
      => /\ conn[k] \in {"waiting", "ended", "forgotten"}
         /\ \A j \in DOMAIN queue[l] : queue[l][j] = Entry("close", k) => j < i

RInv ==
  /\ TypeOK /\ Numbered /\ PlaceIsNewest
  /\ ClosesAreKept /\ BarriersAreBehind /\ ReleaseIsComing
=============================================================================
