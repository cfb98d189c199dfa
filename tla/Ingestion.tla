------------------------------ MODULE Ingestion ------------------------------
(***************************************************************************)
(* Provider events entering the application: the webhook handler           *)
(* (api/webhooks.py) and process_bolna_event (services/bolna/ingestion.py) *)
(* with the transcript writer it calls (services/transcripts/service.py).  *)
(*                                                                         *)
(* A handler is one run of process_bolna_event: a coroutine of the API     *)
(* process or of the polling actor.  Each await of the code that leaves    *)
(* the process (Redis, PostgreSQL, the broker) ends one atomic step, so    *)
(* handlers interleave exactly where the event loop or the database lets   *)
(* them.  A handler's open transaction is its pair of locals: fresh (it    *)
(* has inserted utterances) and locked (it has updated, hence row-locked,  *)
(* the session).  Postgres runs it at READ COMMITTED.                      *)
(***************************************************************************)
EXTENDS BolnaEvents

CONSTANTS
    Handlers,      \* concurrent runs of process_bolna_event
    MaxDeliveries, \* bound: deliveries of each payload
    Faults         \* which failures of the environment may happen

AllFaults == {"crash",         \* the process dies between two steps
              "db_error",      \* a statement of the transaction raises
              "resolve_error", \* the SELECT that resolves the session raises
              "commit_lost",   \* COMMIT succeeds but its reply is lost
              "broker_error",  \* extract_call.send raises (and is swallowed)
              "expiry"}        \* the provider redelivers after the key's TTL

ASSUME BoundAssumption == MaxDeliveries \in [Payloads -> Nat]
ASSUME FaultAssumption == Faults \subseteq AllFaults

-----------------------------------------------------------------------------
VARIABLES
    (* Redis *)
    idem,        \* idempotency keys present
    (* PostgreSQL, committed *)
    published,   \* calls whose provider_call_id is committed
    status,      \* CallSession.status
    log,         \* CallEvent rows of each call, in commit order
    utterances,  \* calls with TranscriptUtterance rows
    processing,  \* CallSession.processing_status
    endedBy,     \* position in log of the event that last set ended_at (0: NULL)
    (* the broker, the realtime channel and the provider *)
    jobs,        \* extract_call messages sent for each call
    hints,       \* realtime hints published for each call
    delivered,   \* deliveries of each payload so far
    (* the handlers *)
    pc, pay, fresh, locked

redisVars == <<idem>>
dbVars    == <<published, status, log, utterances, processing, endedBy>>
outVars   == <<jobs, hints, delivered>>
localVars == <<pc, pay, fresh, locked>>
vars == <<redisVars, dbVars, outVars, localVars>>

Steps == {"idle", "check", "resolve", "unresolved", "append", "persist",
          "update", "commit", "failed", "rollback", "notify", "enqueue", "reply"}

\* Steps at which the handler has set its idempotency key and not deleted it.
Owning == {"resolve", "unresolved", "append", "persist", "update", "commit",
           "failed", "notify", "enqueue"}

\* Steps at which the handler's transaction may hold rows and locks.
InTransaction == {"persist", "update", "commit", "failed", "rollback"}

Key(h)  == IdempotencyKey(pay[h])
Call(h) == ExecutionId(pay[h])

\* Uncommitted utterances, and the row lock, of the handler's transaction.
HoldsTurns(h) == pc[h] \in InTransaction /\ fresh[h]
HoldsRow(h)   == pc[h] \in InTransaction /\ locked[h]

Init ==
    /\ idem = {}
    /\ published = {}
    /\ status = [c \in Calls |-> "initiating"]
    /\ log = [c \in Calls |-> <<>>]
    /\ utterances = {}
    /\ processing = [c \in Calls |-> "pending"]
    /\ endedBy = [c \in Calls |-> 0]
    /\ jobs = [c \in Calls |-> 0]
    /\ hints = [c \in Calls |-> 0]
    /\ delivered = [p \in Payloads |-> 0]
    /\ pc = [h \in Handlers |-> "idle"]
    /\ pay = [h \in Handlers |-> None]
    /\ fresh = [h \in Handlers |-> FALSE]
    /\ locked = [h \in Handlers |-> FALSE]

Goto(h, step) == pc' = [pc EXCEPT ![h] = step]

\* The run ends, its session closed: what was not committed is rolled back.
Finish(h) ==
    /\ Goto(h, "idle")
    /\ pay' = [pay EXCEPT ![h] = None]
    /\ fresh' = [fresh EXCEPT ![h] = FALSE]
    /\ locked' = [locked EXCEPT ![h] = FALSE]

-----------------------------------------------------------------------------
(* The decisions of the code; a mutant of each is a bug a run must find.   *)

\* SET NX fails.  Mutant: SET without NX.
Seen_WithoutNX(k) == FALSE
Seen(k) == k \in idem

\* SELECT by provider_call_id finds a row.  Mutant: any call is resolved.
Resolvable_Unpublished(c) == c \in Calls
Resolvable(c) == c \in published

\* The unique index on utterances lets h insert.  Mutant: no such index.
IndexFree_NotUnique(h) == TRUE
IndexFree(h) == \A g \in Handlers \ {h} : HoldsTurns(g) => Call(g) # Call(h)

\* The insert succeeds.  Mutant: a redelivery is taken for a stored transcript.
StoresTurns_FirstDelivery(h) == Call(h) \notin utterances /\ delivered[pay[h]] = 1
StoresTurns(h) == Call(h) \notin utterances

\* The session row is not locked.  Mutant: waits for the index's waiters too.
RowFree_LockOrder(h) ==
    \A g \in Handlers \ {h} : HoldsRow(g) \/ pc[g] = "persist" => Call(g) # Call(h)
RowFree(h) == \A g \in Handlers \ {h} : HoldsRow(g) => Call(g) # Call(h)

\* The update writes ended_at.  Mutant: every event does.
SetsEndedAt_Always(p) == TRUE
SetsEndedAt(p) == Terminal(p)

\* DELETE of the key.  Mutant: the key is kept.
Released_Kept(h) == idem
Released(h) == idem \ {Key(h)}

-----------------------------------------------------------------------------
(* The call initiator commits the provider's id together with "queued".    *)
Publish(c) ==
    /\ c \notin published
    /\ published' = published \cup {c}
    /\ status' = [status EXCEPT ![c] = "queued"]
    /\ UNCHANGED <<redisVars, log, utterances, processing, endedBy, outVars, localVars>>

(* A delivery reaches the webhook handler and passes its size and JSON     *)
(* checks; a delivery it refuses changes nothing.  Deliveries come in any  *)
(* order, and a payload may be delivered again whatever the answer was.    *)
Deliver(h, p) ==
    /\ pc[h] = "idle"
    /\ delivered[p] < MaxDeliveries[p]
    /\ delivered' = [delivered EXCEPT ![p] = @ + 1]
    /\ pay' = [pay EXCEPT ![h] = p]
    /\ Goto(h, "check")
    /\ UNCHANGED <<redisVars, dbVars, jobs, hints, fresh, locked>>

(* SET key NX EX: the first handler goes on, a later one answers 200.      *)
CheckIdempotency(h) ==
    /\ pc[h] = "check"
    /\ idem' = idem \cup {Key(h)}
    /\ Goto(h, IF Seen(Key(h)) THEN "reply" ELSE "resolve")
    /\ UNCHANGED <<dbVars, outVars, pay, fresh, locked>>

ResolveSession(h) ==
    /\ pc[h] = "resolve"
    /\ Goto(h, IF Resolvable(Call(h)) THEN "append" ELSE "unresolved")
    /\ UNCHANGED <<redisVars, dbVars, outVars, pay, fresh, locked>>

(* No session has this provider id: the key is released, the answer is 200.*)
ReleaseUnresolved(h) ==
    /\ pc[h] = "unresolved"
    /\ idem' = Released(h)
    /\ Goto(h, "reply")
    /\ UNCHANGED <<dbVars, outVars, pay, fresh, locked>>

(* INSERT the event; what follows depends on the payload only.  On a       *)
(* terminal event int(duration) may raise, before the transcript is seen.  *)
AppendEvent(h) ==
    /\ pc[h] = "append"
    /\ Goto(h, IF Poisoned(pay[h]) THEN "failed"
               ELSE IF CarriesTranscript(pay[h]) THEN "persist"
               ELSE IF Known(pay[h]) THEN "update" ELSE "commit")
    /\ UNCHANGED <<redisVars, dbVars, outVars, pay, fresh, locked>>

(* INSERT the utterances in a savepoint.  The unique index on (session,    *)
(* sequence number) makes a second writer wait for the first transaction   *)
(* to end; rows already committed are an IntegrityError, answered with [].  *)
PersistTranscript(h) ==
    /\ pc[h] = "persist"
    /\ IndexFree(h)
    /\ fresh' = [fresh EXCEPT ![h] = StoresTurns(h)]
    /\ Goto(h, "update")
    /\ UNCHANGED <<redisVars, dbVars, outVars, pay, locked>>

(* UPDATE the session: waits for the row lock of another transaction.      *)
UpdateProjection(h) ==
    /\ pc[h] = "update"
    /\ RowFree(h)
    /\ locked' = [locked EXCEPT ![h] = TRUE]
    /\ Goto(h, "commit")
    /\ UNCHANGED <<redisVars, dbVars, outVars, pay, fresh>>

(* What COMMIT makes visible: the event, the projection, the utterances.   *)
WriteThrough(h) ==
    LET c == Call(h)  p == pay[h] IN
    /\ log' = [log EXCEPT ![c] = Append(@, p)]
    /\ status' = IF Known(p) THEN [status EXCEPT ![c] = SessionStatus(p)] ELSE status
    /\ endedBy' = IF SetsEndedAt(p) THEN [endedBy EXCEPT ![c] = Len(log[c]) + 1] ELSE endedBy
    /\ utterances' = IF fresh[h] THEN utterances \cup {c} ELSE utterances
    /\ processing' = IF fresh[h] THEN [processing EXCEPT ![c] = "transcript_finalized"]
                                 ELSE processing
    /\ locked' = [locked EXCEPT ![h] = FALSE]
    /\ UNCHANGED published

Commit(h) ==
    /\ pc[h] = "commit"
    /\ WriteThrough(h)
    /\ Goto(h, IF Known(pay[h]) THEN "notify" ELSE "reply")
    /\ UNCHANGED <<redisVars, outVars, pay, fresh>>

(* The transaction is durable but the handler sees an exception.           *)
CommitLost(h) ==
    /\ "commit_lost" \in Faults
    /\ pc[h] = "commit"
    /\ WriteThrough(h)
    /\ fresh' = [fresh EXCEPT ![h] = FALSE]
    /\ Goto(h, "failed")
    /\ UNCHANGED <<redisVars, outVars, pay>>

(* Best-effort hint after the commit.  A publish that fails is logged and  *)
(* swallowed: to a subscriber, a hint lost on the way.                     *)
NotifyCallUpdate(h) ==
    /\ pc[h] = "notify"
    /\ hints' = [hints EXCEPT ![Call(h)] = @ + 1]
    /\ Goto(h, IF fresh[h] THEN "enqueue" ELSE "reply")
    /\ UNCHANGED <<redisVars, dbVars, jobs, delivered, pay, fresh, locked>>

(* extract_call.send; an exception of the broker is logged and swallowed.  *)
EnqueueExtraction(h) ==
    /\ pc[h] = "enqueue"
    /\ \/ jobs' = [jobs EXCEPT ![Call(h)] = @ + 1]
       \/ "broker_error" \in Faults /\ UNCHANGED jobs
    /\ fresh' = [fresh EXCEPT ![h] = FALSE]
    /\ Goto(h, "reply")
    /\ UNCHANGED <<redisVars, dbVars, hints, delivered, pay, locked>>

\* Mutant: the key is released when the request ends.
Reply_Releases(h) ==
    /\ pc[h] = "reply"
    /\ idem' = idem \ {Key(h)}
    /\ Finish(h)
    /\ UNCHANGED <<dbVars, jobs, hints, delivered>>

(* The webhook answers 200, whatever process_bolna_event returned.         *)
Reply(h) ==
    /\ pc[h] = "reply"
    /\ Finish(h)
    /\ UNCHANGED <<redisVars, dbVars, jobs, hints, delivered>>

-----------------------------------------------------------------------------
(* The failures the code handles, or does not.                             *)

(* A statement inside the try block raises.                                *)
StatementFails(h) ==
    /\ "db_error" \in Faults
    /\ pc[h] \in {"append", "persist", "update", "commit"}
    /\ Goto(h, "failed")
    /\ UNCHANGED <<redisVars, dbVars, outVars, pay, fresh, locked>>

(* The except clause deletes the key before the session rolls back.        *)
ReleaseFailed(h) ==
    /\ pc[h] = "failed"
    /\ idem' = Released(h)
    /\ Goto(h, "rollback")
    /\ UNCHANGED <<dbVars, outVars, pay, fresh, locked>>

(* The exception leaves the `async with` block: rollback, then a 500.      *)
Rollback(h) ==
    /\ pc[h] = "rollback"
    /\ Finish(h)
    /\ UNCHANGED <<redisVars, dbVars, outVars>>

(* The SELECT is outside the try block: a 500 that keeps the key.          *)
ResolveFails(h) ==
    /\ "resolve_error" \in Faults
    /\ pc[h] = "resolve"
    /\ Finish(h)
    /\ UNCHANGED <<redisVars, dbVars, outVars>>

(* The process dies: PostgreSQL rolls its transaction back, Redis keeps    *)
(* the key, whatever was still to be sent is not.                          *)
Crash(h) ==
    /\ "crash" \in Faults
    /\ pc[h] # "idle"
    /\ Finish(h)
    /\ UNCHANGED <<redisVars, dbVars, outVars>>

(* A key lives 24 hours, longer than any handler.                          *)
ExpireKey(k) ==
    /\ "expiry" \in Faults
    /\ k \in idem
    /\ \A h \in Handlers : pc[h] # "idle" => Key(h) # k
    /\ idem' = idem \ {k}
    /\ UNCHANGED <<dbVars, outVars, localVars>>

Handle(h) ==
    \/ CheckIdempotency(h) \/ ResolveSession(h) \/ ReleaseUnresolved(h)
    \/ AppendEvent(h) \/ PersistTranscript(h) \/ UpdateProjection(h)
    \/ Commit(h) \/ NotifyCallUpdate(h) \/ EnqueueExtraction(h) \/ Reply(h)
    \/ ReleaseFailed(h) \/ Rollback(h)

Fault(h) == StatementFails(h) \/ ResolveFails(h) \/ CommitLost(h) \/ Crash(h)

Next ==
    \/ \E c \in Calls : Publish(c)
    \/ \E h \in Handlers, p \in Payloads : Deliver(h, p)
    \/ \E h \in Handlers : Handle(h) \/ Fault(h)
    \/ \E k \in Keys : ExpireKey(k)

Spec == Init /\ [][Next]_vars

(* The event loop resumes a coroutine whose await has completed, and       *)
(* PostgreSQL grants a lock that has been released.  Nothing makes the     *)
(* provider deliver, nor a fault happen.                                   *)
FairSpec == Spec /\ \A h \in Handlers : WF_vars(Handle(h))

-----------------------------------------------------------------------------
(* Properties.                                                             *)

TypeOK ==
    /\ idem \subseteq Keys
    /\ published \subseteq Calls
    /\ status \in [Calls -> Statuses]
    /\ log \in [Calls -> Seq(Payloads)]
    /\ utterances \subseteq Calls
    /\ processing \in [Calls -> {"pending", "transcript_finalized"}]
    /\ endedBy \in [Calls -> Nat]
    /\ jobs \in [Calls -> Nat]
    /\ hints \in [Calls -> Nat]
    /\ delivered \in [Payloads -> Nat] /\ \A p \in Payloads : delivered[p] <= MaxDeliveries[p]
    /\ pc \in [Handlers -> Steps]
    /\ pay \in [Handlers -> Payloads \cup {None}]
    /\ fresh \in [Handlers -> BOOLEAN]
    /\ locked \in [Handlers -> BOOLEAN]
    /\ \A h \in Handlers : pc[h] # "idle" => pay[h] \in Payloads

\* Two runs never work on the same event at once: the handler that set a
\* key is its only owner until it deletes the key or finishes, even when a
\* failing handler deletes its key while its transaction is still open.
KeyExclusive ==
    \A g, h \in Handlers :
        g # h /\ pc[g] \in Owning /\ pc[h] \in Owning => Key(g) # Key(h)

\* No event is recorded twice: at most one CallEvent row per idempotency key
\* (unless the key expires or the outcome of a COMMIT is unknown).
EventsRecordedOnce ==
    \A c, d \in Calls : \A i \in DOMAIN log[c], j \in DOMAIN log[d] :
        IdempotencyKey(log[c][i]) = IdempotencyKey(log[d][j]) => c = d /\ i = j

\* The session row is a fold of its committed events: its status is that of
\* the last known event, and ended_at was set by the last terminal one.
LastOf(c, P(_), n) ==
    IF \E i \in DOMAIN log[c] : P(log[c][i])
    THEN n \in DOMAIN log[c] /\ P(log[c][n])
         /\ \A i \in DOMAIN log[c] : P(log[c][i]) => i <= n
    ELSE n = 0

ProjectionFoldsLog ==
    \A c \in Calls :
        /\ \E n \in 0 .. Len(log[c]) :
              /\ LastOf(c, Known, n)
              /\ status[c] = IF n > 0 THEN SessionStatus(log[c][n])
                             ELSE IF c \in published THEN "queued" ELSE "initiating"
        /\ LastOf(c, Terminal, endedBy[c])

\* A transcript the provider sent with a terminal event is never lost and
\* never invented: utterances exist, and the session is ready for the
\* pipeline, exactly when such an event is committed, even when the first
\* writer of the utterances rolls back under a second one.
TranscriptMatchesEvents ==
    \A c \in Calls :
        LET sent == \E i \in DOMAIN log[c] : CarriesTranscript(log[c][i])
        IN  /\ sent <=> c \in utterances
            /\ sent <=> processing[c] = "transcript_finalized"

\* Webhook and polling may both report the end of a call: the pipeline is
\* started once, and never for a transcript that is not committed.
PipelineStartedOnce ==
    \A c \in Calls : jobs[c] <= 1 /\ (jobs[c] = 1 => c \in utterances)

\* A key stays in Redis only while its event is being handled or once the
\* event is recorded, so that a failed event can be delivered again
\* (ingestion.py:276-278).
KeyHeldForAReason ==
    \A k \in idem :
        \/ k \in RecordedKeys(log)
        \/ \E h \in Handlers : pc[h] \in Owning /\ Key(h) = k

\* Ingestion implements the ledger: its commits are the recorded events.
Ledger == INSTANCE EventLedger WITH published <- published, status <- status,
                                    log <- log, utterances <- utterances, jobs <- jobs
ImplementsLedger == Ledger!Spec

\* The keys guard the events: a run that has set a key is alone with its event
\* until it commits, gives the key back or is lost, and never looks whether the
\* event is recorded; no key is ever taken from a run or from an event.
UnderWay == {Key(h) : h \in {g \in Handlers : pc[g] \in Owning \ {"notify", "enqueue"}}}
Guard == INSTANCE EventKeys WITH published <- published, status <- status, log <- log,
                                 utterances <- utterances, jobs <- jobs, held <- UnderWay
KeysGuardEvents == Guard!Spec

\* Every run returns: the waits on the utterance index and on the session
\* row never form a cycle.
HandlersReturn == \A h \in Handlers : pc[h] # "idle" ~> pc[h] = "idle"
=============================================================================
