------------------------------ MODULE LinkState ------------------------------
(***************************************************************************)
(* The three pure state machines of connection/link_state.rs: RadioState   *)
(* (one per driver), CentralLink and PeripheralLink (one per peer).  Each  *)
(* apply() of the source is a pair of operators here: the next state and   *)
(* the teardown the transition demands.                                    *)
(*                                                                         *)
(* The source stores an Instant "since" and compares now - since with a    *)
(* window; a link here carries that difference, its age, which the clock   *)
(* advances and which no comparison can tell apart past the window.        *)
(***************************************************************************)
EXTENDS Integers

CONSTANTS
  DialWindow,        \* how long a dial may run
  DisconnectWindow,  \* how long a disconnect may stay unconfirmed
  DrainWindow        \* how long one cleanup attempt may run

ASSUME WindowsAssumption ==
  /\ DialWindow \in Nat \ {0}
  /\ DisconnectWindow \in Nat \ {0}
  /\ DrainWindow \in Nat \ {0}

-----------------------------------------------------------------------------
(* RadioState *)

RadioStates == {"On", "Off", "Unsupported"}
RadioEvents == {"PoweredOn", "PoweredOff", "NoAdapter"}

Usable(radio) == radio = "On"

\* (fault) Unsupported is final.
UnsupportedIsFinal(radio, event) ==
  IF radio = "Unsupported" \/ event = "NoAdapter" THEN "Unsupported"
  ELSE IF event = "PoweredOn" THEN "On" ELSE "Off"

\* Unsupported is left by PoweredOn only: it also stands for a capability
\* probe that failed once and is repeated on the next RadioChanged.
RadioApply(radio, event) ==
  CASE event = "PoweredOn"  -> "On"
    [] event = "NoAdapter"  -> "Unsupported"
    [] event = "PoweredOff" -> IF radio = "Unsupported" THEN radio ELSE "Off"

\* The InvalidateAllLinks effect.
InvalidatesLinks(radio, event) == Usable(radio) /\ event # "PoweredOn"

-----------------------------------------------------------------------------
(* CentralLink *)

CentralStates ==
  {"Idle", "Dialing", "Connected", "Disconnecting", "Draining", "RadioOff"}

CentralEvents ==
  {"DialStarted", "DialSucceeded", "DialFailed", "DisconnectRequested",
   "LinkDropped", "DisconnectConfirmed", "CleanupStarted", "CleanupConfirmed",
   "RadioLost", "RadioBack", "Tick"}

\* Option<Session>: sessions that identify a link are positive.
NoSession == 0

Link(state, session) == [state |-> state, age |-> 0, session |-> session]
Without(state) == Link(state, NoSession)

HasConnection(c) == c.state \in {"Connected", "Disconnecting"}
HoldsResource(c) == c.state \notin {"Idle", "RadioOff"}
MayDial(c) == c.state = "Idle"

\* CentralLink::apply, the next state.  s is the payload of DialStarted.
CentralApply(c, event, s) ==
  CASE event = "RadioLost" -> Without("RadioOff")
    [] event = "RadioBack" /\ c.state = "RadioOff" -> Without("Idle")
    [] event = "DialStarted" /\ c.state = "Idle" -> Link("Dialing", s)
    [] event = "DialSucceeded" /\ c.state = "Dialing" ->
         Link("Connected", c.session)
    [] \/ event = "DialFailed" /\ c.state = "Dialing"
       \/ event = "Tick" /\ c.state = "Dialing" /\ c.age >= DialWindow
       \/ event = "LinkDropped" /\ c.state = "Connected"
       \/ event = "DisconnectConfirmed" /\ c.state = "Disconnecting"
       \/ event = "Tick" /\ c.state = "Disconnecting" /\ c.age >= DisconnectWindow
       \/ event = "CleanupConfirmed" /\ c.state = "Draining" -> Without("Idle")
    [] event = "DisconnectRequested" /\ c.state = "Connected" ->
         Link("Disconnecting", c.session)
    [] \/ event = "CleanupStarted" /\ c.state \in {"Idle", "Dialing"}
       \/ event = "Tick" /\ c.state = "Draining" /\ c.age >= DrainWindow ->
         Without("Draining")
    [] OTHER -> c

\* The teardown of the same transition: "none", "silent" (the platform handle
\* is closed) or "emit" (it is closed and Disconnected is pushed as well).
CentralTearDown(c, event) ==
  CASE \/ event = "RadioLost" /\ HasConnection(c)
       \/ event = "LinkDropped" /\ c.state = "Connected"
       \/ event = "Tick" /\ c.state = "Disconnecting" /\ c.age >= DisconnectWindow
         -> "emit"
    [] \/ event = "RadioLost" /\ c.state \in {"Dialing", "Draining"}
       \/ event = "DialFailed" /\ c.state = "Dialing"
       \/ event = "Tick" /\ c.state = "Dialing" /\ c.age >= DialWindow
       \/ event = "Tick" /\ c.state = "Draining" /\ c.age >= DrainWindow
         -> "silent"
    [] OTHER -> "none"

-----------------------------------------------------------------------------
(* PeripheralLink *)

PeripheralStates == {"Absent", "Accepted", "Serving", "Disconnecting", "RadioOff"}

PeripheralEvents ==
  {"CentralConnected", "CentralSubscribed", "CentralUnsubscribed",
   "CentralDropped", "DisconnectRequested", "DisconnectConfirmed",
   "RadioLost", "RadioBack", "Tick"}

HoldsSlot(l) == l.state \in {"Accepted", "Serving", "Disconnecting"}

\* PeripheralLink::apply, the next state.  s is the payload of CentralConnected.
PeripheralApply(l, event, s) ==
  CASE event = "RadioLost" -> Without("RadioOff")
    [] event = "RadioBack" /\ l.state = "RadioOff" -> Without("Absent")
    [] event = "CentralConnected" /\ l.state \in {"Absent", "Accepted", "Serving"} ->
         Link("Accepted", s)
    [] event = "CentralSubscribed" /\ l.state = "Accepted" ->
         Link("Serving", l.session)
    [] \/ /\ event \in {"CentralUnsubscribed", "CentralDropped"}
          /\ l.state \in {"Accepted", "Serving"}
       \/ /\ event \in {"DisconnectConfirmed", "CentralDropped"}
          /\ l.state = "Disconnecting"
       \/ event = "Tick" /\ l.state = "Disconnecting" /\ l.age >= DisconnectWindow ->
         Without("Absent")
    [] event = "DisconnectRequested" /\ l.state \in {"Accepted", "Serving"} ->
         Link("Disconnecting", l.session)
    [] OTHER -> l

\* Every peripheral teardown tells the consumer; a confirmed one is silent.
PeripheralTearDown(l, event) ==
  IF \/ event = "RadioLost" /\ HoldsSlot(l)
     \/ /\ event \in {"CentralUnsubscribed", "CentralDropped"}
        /\ l.state \in {"Accepted", "Serving"}
     \/ event = "CentralDropped" /\ l.state = "Disconnecting"
     \/ event = "Tick" /\ l.state = "Disconnecting" /\ l.age >= DisconnectWindow
  THEN "emit" ELSE "none"

-----------------------------------------------------------------------------
(* Time *)

\* The window after which a Tick takes a link out of its state; 0 where the
\* source has no deadline.
Window(link) ==
  CASE link.state = "Dialing"       -> DialWindow
    [] link.state = "Disconnecting" -> DisconnectWindow
    [] link.state = "Draining"      -> DrainWindow
    [] OTHER                        -> 0

\* One unit of time passes; an age stops at its window.
Aged(link) ==
  [link EXCEPT !.age = IF @ < Window(link) THEN @ + 1 ELSE @]
=============================================================================
