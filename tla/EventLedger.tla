----------------------------- MODULE EventLedger -----------------------------
(***************************************************************************)
(* What ingestion promises: whatever is delivered, lost, repeated or       *)
(* reordered, each provider event takes effect at most once, atomically,   *)
(* and a call's transcript starts the post-call pipeline at most once.     *)
(***************************************************************************)
EXTENDS BolnaEvents

VARIABLES published, status, log, utterances, jobs
vars == <<published, status, log, utterances, jobs>>

Init ==
    /\ published = {}
    /\ status = [c \in Calls |-> "initiating"]
    /\ log = [c \in Calls |-> <<>>]
    /\ utterances = {}
    /\ jobs = [c \in Calls |-> 0]

Publish(c) ==
    /\ c \notin published
    /\ published' = published \cup {c}
    /\ status' = [status EXCEPT ![c] = "queued"]
    /\ UNCHANGED <<log, utterances, jobs>>

(* The event, the projection and the transcript appear together, once.     *)
Record(p) ==
    LET c == ExecutionId(p) IN
    /\ c \in published
    /\ IdempotencyKey(p) \notin RecordedKeys(log)
    /\ log' = [log EXCEPT ![c] = Append(@, p)]
    /\ status' = IF Known(p) THEN [status EXCEPT ![c] = SessionStatus(p)] ELSE status
    /\ utterances' = IF CarriesTranscript(p) THEN utterances \cup {c} ELSE utterances
    /\ UNCHANGED <<published, jobs>>

(* The pipeline of a call is started once, after its transcript is stored. *)
Dispatch(c) ==
    /\ c \in utterances
    /\ jobs[c] = 0
    /\ jobs' = [jobs EXCEPT ![c] = 1]
    /\ UNCHANGED <<published, status, log, utterances>>

Next ==
    \/ \E c \in Calls : Publish(c) \/ Dispatch(c)
    \/ \E p \in Payloads : Record(p)

Spec == Init /\ [][Next]_vars
=============================================================================
