----------------------------- MODULE MCCallPage -----------------------------
(* A small instance of CallPage for TLC.                                   *)
EXTENDS CallPage

CONSTANTS c1, g1, g2, e1

Payload(event, st, turns) ==
    [event_id |-> event, id |-> None, execution_id |-> c1, status |-> st,
     turns |-> turns, badDuration |-> FALSE, rest |-> 0]

\* The end of the call is told twice, as "stopped" and with the transcript,
\* in either order.
Cut    == Payload(e1, "stopped", FALSE)
Spoken == Payload(None, "completed", TRUE)

MCPayloads == {Cut, Spoken}
MCWatched == [g \in Pages |-> c1]
=============================================================================
