------------------------------ MODULE MCPolling ------------------------------
(* Small instances of Polling for TLC.                                     *)
EXTENDS Polling

CONSTANTS c1, e1

Payload(event, st, turns, bad) ==
    [event_id |-> event, id |-> None, execution_id |-> c1, status |-> st,
     turns |-> turns, badDuration |-> bad, rest |-> 0]

\* A webhook with an id of its own, and one whose body is what GET answers, so
\* that both have one key.
Started == Payload(e1, "in-progress", FALSE, FALSE)
Talking == Payload(None, "in-progress", FALSE, FALSE)
Done    == Payload(None, "completed", TRUE, FALSE)

\* An end whose duration is malformed, which the provider corrects.
Malformed == Payload(None, "completed", TRUE, TRUE)

MCPayloads == {Started, Talking, Malformed, Done}
MCWebhook == [c \in Calls |-> <<Started, Malformed, Done>>]
MCAnswer == [c \in Calls |-> <<Talking, Malformed, Done>>]

\* An ordinary call whose provider sends one webhook, at the end (PRD.md:442,
\* "completion-oriented delivery plus polling fallback").
PlainPayloads == {Talking, Done}
PlainWebhook == [c \in Calls |-> <<None, Done>>]
PlainAnswer == [c \in Calls |-> <<Talking, Done>>]
=============================================================================
