----------------------------- MODULE MCIngestion -----------------------------
(* Small instances of Ingestion for TLC.                                   *)
EXTENDS Ingestion, TLC

CONSTANTS c1, c2, e1, h1, h2, h3

Payload(event, id, exec, st, turns, bad) ==
    [event_id |-> event, id |-> id, execution_id |-> exec, status |-> st,
     turns |-> turns, badDuration |-> bad, rest |-> 0]

MCCalls == {c1, c2}
MCIds == {e1}

Started   == Payload(None, None, c1, "in-progress", FALSE, FALSE)
\* The end of the call as a webhook tells it (with an id) and as polling does.
Completed == Payload(None, e1, c1, "completed", TRUE, FALSE)
Polled    == Payload(None, None, c1, "completed", TRUE, FALSE)
Unknown   == Payload(None, None, c1, "initiated", FALSE, FALSE)
Poison    == Payload(None, None, c1, "error", FALSE, TRUE)
\* A payload whose only identifier is the execution id, under `id`.
Busy      == Payload(None, c2, None, "busy", FALSE, FALSE)

\* The end of call c1 is reported twice over webhook and once by polling,
\* beside a late status and an event of another call.
RacingEnds == {Started, Completed, Polled, Busy}

\* The same end among payloads the application cannot use or map.
OddPayloads == {Completed, Polled, Poison, Unknown}

CompletedTwice == [p \in Payloads |-> IF p = Completed THEN 2 ELSE 1]

HandlerSymmetry == Permutations(Handlers)
=============================================================================
