---------------------------- MODULE DatagramService ----------------------------
(***************************************************************************)
(* What the application at the receiving end of a datagram channel may     *)
(* rely on, with no fragment, table, queue or task in sight: recv returns  *)
(* messages whose send has had its turn, never an earlier one after a      *)
(* later one unless the link reorders, and nothing once it has returned    *)
(* None.  It may leave messages out, and return one again.                 *)
(***************************************************************************)
EXTENDS Naturals, SequencesExt

CONSTANT Messages  \* what may be sent

VARIABLES
    turns,      \* the messages in the order in which their sends got the sink
    got,        \* the messages recv returned
    last,       \* the last of them, 0 before the first
    scrambled,  \* the link has reordered something
    ended       \* recv has returned None

vars == <<turns, got, last, scrambled, ended>>

Turn(m) == Min({k \in DOMAIN turns : turns[k] = m})

Init == turns = <<>> /\ got = {} /\ last = 0 /\ ~scrambled /\ ~ended

\* A message has one turn.
Takes(m) ==
    /\ m \notin Range(turns)
    /\ turns' = Append(turns, m)
    /\ UNCHANGED <<got, last, scrambled, ended>>

Returns(m) ==
    /\ ~ended /\ m \in Range(turns)
    /\ scrambled \/ last = 0 \/ Turn(last) <= Turn(m)
    /\ got' = got \cup {m} /\ last' = m
    /\ UNCHANGED <<turns, scrambled, ended>>

Scrambles == scrambled' = TRUE /\ UNCHANGED <<turns, got, last, ended>>

Ends == ended' = TRUE /\ UNCHANGED <<turns, got, last, scrambled>>

Next == (\E m \in Messages : Takes(m) \/ Returns(m)) \/ Scrambles \/ Ends

Spec == Init /\ [][Next]_vars
=============================================================================
