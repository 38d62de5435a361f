------------------------------- MODULE Channel -------------------------------
(***************************************************************************)
(* What one direction of a message connection promises its users, and what *)
(* module Session takes its queues to be: messages come whole, once and in *)
(* order until the reader gives up; and it gives up only for a cause.  A   *)
(* message that the writer has torn, and those behind it, are not promised.*)
(***************************************************************************)
EXTENDS Naturals, Sequences

CONSTANTS
    Messages,  \* what can be sent
    Large      \* the messages that are too large to be received

VARIABLES
    queue,  \* the messages sent and not received
    got,    \* the messages received
    end,    \* the writer's end: "open", "closed", or "broken" by the network
    torn,   \* the numbers of the messages that the writer has torn
    over    \* has the reader given up?

vars == <<queue, got, end, torn, over>>

Init ==
    /\ queue = <<>>
    /\ got = <<>>
    /\ end = "open"
    /\ torn = {}
    /\ over = FALSE

Send(m) ==
    /\ end = "open"
    /\ queue' = Append(queue, m)
    /\ UNCHANGED <<got, end, torn, over>>

\* The message sent last is torn; it has not been received.
Tear ==
    /\ end = "open"
    /\ queue # <<>>
    /\ torn' = torn \cup {Len(got) + Len(queue)}
    /\ UNCHANGED <<queue, got, end, over>>

Spoilt == \E i \in torn : i <= Len(got) + 1

End ==
    /\ end = "open"
    /\ end' \in {"closed", "broken"}
    /\ UNCHANGED <<queue, got, torn, over>>

Receive ==
    /\ ~over
    /\ ~Spoilt
    /\ queue # <<>>
    /\ Head(queue) \notin Large
    /\ queue' = Tail(queue)
    /\ got' = Append(got, Head(queue))
    /\ UNCHANGED <<end, torn, over>>

\* The network may lose anything, the end of the stream at most the last
\* message, a torn message those from there on.
GiveUp ==
    /\ ~over
    /\ \/ end = "broken"
       \/ end = "closed" /\ Len(queue) <= 1
       \/ queue # <<>> /\ Head(queue) \in Large
       \/ Spoilt
    /\ over' = TRUE
    /\ UNCHANGED <<queue, got, end, torn>>

Next == Tear \/ End \/ Receive \/ GiveUp \/ \E m \in Messages : Send(m)

Spec == Init /\ [][Next]_vars
=============================================================================
