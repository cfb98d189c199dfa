------------------------------ MODULE EventKeys ------------------------------
(***************************************************************************)
(* How the idempotency keys of process_bolna_event guard the ledger: who   *)
(* sets the key of an event works on it alone, until it is recorded, the   *)
(* key is given back, or the run is lost and the key stays.  Nobody looks  *)
(* whether the event is recorded.  Between EventLedger and those that feed *)
(* it, Ingestion step by step and Polling with a run in two steps.         *)
(***************************************************************************)
EXTENDS BolnaEvents

VARIABLES
    published, status, log, utterances, jobs, \* as in EventLedger
    idem,   \* idempotency keys present
    held    \* keys of events that are being worked on

ledgerVars == <<published, status, log, utterances, jobs>>
vars == <<ledgerVars, idem, held>>

Ledger == INSTANCE EventLedger WITH published <- published, status <- status,
                                    log <- log, utterances <- utterances, jobs <- jobs

Init == Ledger!Init /\ idem = {} /\ held = {}

Take(p) ==
    /\ IdempotencyKey(p) \notin idem
    /\ idem' = idem \cup {IdempotencyKey(p)}
    /\ held' = held \cup {IdempotencyKey(p)}
    /\ UNCHANGED ledgerVars

Record(p) ==
    LET c == ExecutionId(p) IN
    /\ c \in published
    /\ IdempotencyKey(p) \in held
    /\ log' = [log EXCEPT ![c] = Append(@, p)]
    /\ status' = IF Known(p) THEN [status EXCEPT ![c] = SessionStatus(p)] ELSE status
    /\ utterances' = IF CarriesTranscript(p) THEN utterances \cup {c} ELSE utterances
    /\ held' = held \ {IdempotencyKey(p)}
    /\ UNCHANGED <<published, jobs, idem>>

GiveBack(k) ==
    /\ k \in held
    /\ idem' = idem \ {k}
    /\ held' = held \ {k}
    /\ UNCHANGED ledgerVars

Lose(k) ==
    /\ k \in held
    /\ held' = held \ {k}
    /\ UNCHANGED <<ledgerVars, idem>>

Next ==
    \/ \E p \in Payloads : Take(p) \/ Record(p)
    \/ \E k \in Keys : GiveBack(k) \/ Lose(k)
    \/ \E c \in Calls : (Ledger!Publish(c) \/ Ledger!Dispatch(c)) /\ UNCHANGED <<idem, held>>

Spec == Init /\ [][Next]_vars
=============================================================================
