----------------------------- MODULE BolnaEvents -----------------------------
(***************************************************************************)
(* The provider's payloads and the pure functions the ingestion service    *)
(* (services/bolna/ingestion.py) applies to them.                          *)
(***************************************************************************)
EXTENDS Naturals, Sequences, FiniteSets

CONSTANTS
    Calls,         \* CallSession rows; also the provider's execution ids
    Payloads,      \* the payloads the provider may send
    Ids,           \* event identifiers found in payloads
    None           \* an absent field

RawStatuses == {"queued", "ringing", "in-progress", "in_progress", "completed",
                "busy", "no-answer", "no_answer", "canceled", "failed",
                "stopped", "error", "initiated"}

\* A payload: its identifiers, its status, whether the transcript it carries
\* parses to at least one turn, whether its duration is not an integer, and
\* the rest of its body, which only the digest of the key sees.
PayloadType == [event_id: Ids \cup {None}, id: Ids \cup Calls \cup {None},
                execution_id: Calls \cup {None}, status: RawStatuses,
                turns: BOOLEAN, badDuration: BOOLEAN, rest: Nat]

ASSUME PayloadAssumption == Payloads \subseteq PayloadType
ASSUME NoneAssumption == None \notin Calls \cup Ids \cup RawStatuses \cup PayloadType

Statuses == {"initiating", "queued", "ringing", "in_progress", "completed",
             "busy", "no_answer", "canceled", "failed"}

TerminalStatuses == {"completed", "no_answer", "busy", "failed", "canceled"}

\* The raw-status map followed by the event-to-status map; None for a status
\* the provider may send and the application does not know.
SessionStatus(p) ==
    CASE p.status = "in-progress"         -> "in_progress"
      [] p.status = "no-answer"           -> "no_answer"
      [] p.status \in {"stopped", "error"} -> "failed"
      [] p.status = "initiated"           -> None
      [] OTHER                            -> p.status

Known(p) == SessionStatus(p) # None

Terminal(p) == SessionStatus(p) \in TerminalStatuses

\* An explicit event id names the event; otherwise the whole payload does
\* (execution id, status and a digest of the payload).
IdempotencyKey(p) ==
    IF p.event_id # None THEN [id |-> p.event_id, body |-> None]
    ELSE IF p.id # None  THEN [id |-> p.id, body |-> None]
    ELSE [id |-> None, body |-> p]

ExecutionId(p) == IF p.execution_id # None THEN p.execution_id ELSE p.id

\* A transcript is persisted on terminal events only.
CarriesTranscript(p) == p.turns /\ Terminal(p)

\* int(duration), evaluated on terminal events only, raises.
Poisoned(p) == p.badDuration /\ Terminal(p)

Keys == {IdempotencyKey(p) : p \in Payloads}

\* The idempotency keys of the events recorded in a CallEvent table.
RecordedKeys(table) ==
    UNION {{IdempotencyKey(table[c][i]) : i \in DOMAIN table[c]} : c \in DOMAIN table}
=============================================================================
