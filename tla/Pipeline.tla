------------------------------- MODULE Pipeline -------------------------------
(***************************************************************************)
(* The processing of finished calls: the Dramatiq actors extract_call,     *)
(* compute_risk, generate_recommendations and embed_memory_documents       *)
(* (workers/tasks.py) with the services they run, the ingestion commit     *)
(* that starts them, and the redaction of what they wrote                  *)
(* (services/call/service.py).  The calls belong to one deal.              *)
(*                                                                         *)
(* A worker is one thread of the worker process.  A stage claims its call  *)
(* by moving processing_status under a row lock, commits, reads what it    *)
(* needs, runs for a while and commits what it produced: each of these is  *)
(* an atomic step.  Redis delivers a message at least once.                *)
(***************************************************************************)
EXTENDS Integers, FiniteSets

CONSTANTS
    Calls,          \* call sessions of a deal
    Workers,        \* worker threads
    MaxRetries,     \* max_retries of the actor of each stage
    MaxTranscripts, \* bound: terminal events of a call that store a transcript
    MaxRedelivered, \* bound: messages delivered again
    Faults          \* what may go wrong

Stages == {"extract", "risk", "recommend", "memory"}

AllFaults == {"llm",       \* the model answers nothing usable
              "db_error",  \* a statement raises
              "abort",     \* what the except clauses miss: the actor's time
                           \* limit, a failing read before the try block
              "crash",     \* a worker dies
              "partition", \* the broker takes a live worker for dead
              "stale",     \* a claim becomes a minute old
              "broker",    \* .send raises (and is swallowed)
              "redact"}    \* users redact calls

ASSUME RetryAssumption == MaxRetries \in [Stages -> Nat]
ASSUME BoundAssumption == MaxTranscripts \in Nat /\ MaxRedelivered \in Nat
ASSUME FaultAssumption == Faults \subseteq AllFaults

Messages ==
    UNION {[stage : {s}, call : Calls, tries : 0 .. MaxRetries[s]] : s \in Stages}

VARIABLES
    (* PostgreSQL, committed *)
    processing,  \* CallSession.processing_status
    stale,       \* calls whose updated_at is a minute old
    turns,       \* which transcript of a call is stored (0: no utterances)
    rows,        \* number of artifacts of each call and stage
    raw,         \* stages of a call some artifact of which is not redacted
    redacted,    \* CallSession.transcript_redacted
    (* the broker *)
    queue,       \* how many copies of a message are to be delivered
    dead,        \* messages that have used up their retries
    redelivered, \* messages delivered again so far
    (* the workers *)
    pc, msg,
    source,      \* the transcript an extraction read (its utterances' ids)
    text,        \* whether what the worker read is unredacted
    (* history *)
    received,    \* transcripts stored for each call so far
    failed,      \* calls that ever were failed_retryable
    resumed,     \* calls a stale claim of which was taken over
    exposed      \* calls redacted while a worker held their text, or
                 \* whose transcript was stored again afterwards, or
                 \* whose recommendations were made afterwards from the
                 \* deal's summary

dbVars     == <<processing, stale, turns, rows, raw, redacted>>
brokerVars == <<queue, dead, redelivered>>
workerVars == <<pc, msg, source, text>>
history    == <<received, failed, resumed, exposed>>
vars == <<dbVars, brokerVars, workerVars, history>>

NoMessage == [stage |-> "none"]

Call(w)  == msg[w].call
Stage(w) == msg[w].stage

Statuses == {"pending", "transcript_finalized", "extraction_running",
    "extraction_completed", "snapshots_updating", "risk_running",
    "recommendation_running", "recommendation_completed",
    "failed_retryable", "failed_terminal"}

Steps == {"idle", "claim", "read", "persist", "fail", "terminate", "send",
          "raise", "ack"}

\* Between its claim and the end of its last transaction.
Working(w) == pc[w] \in {"read", "persist", "fail", "terminate"}

(* What a stage calls its claim and its success, and when it may start.    *)
Running == [s \in {"extract", "risk", "recommend"} |->
    CASE s = "extract"   -> "extraction_running"
      [] s = "risk"      -> "snapshots_updating"
      [] s = "recommend" -> "recommendation_running"]

Completed == [s \in {"extract", "risk", "recommend"} |->
    CASE s = "extract"   -> "extraction_completed"
      [] s = "risk"      -> "risk_running"
      [] s = "recommend" -> "recommendation_completed"]

Ready == [s \in {"extract", "risk", "recommend"} |->
    CASE s = "extract"   -> "transcript_finalized"
      [] s = "risk"      -> "extraction_completed"
      [] s = "recommend" -> "risk_running"]

Follower == [s \in {"extract", "risk", "recommend"} |->
    CASE s = "extract"   -> "risk"
      [] s = "risk"      -> "recommend"
      [] s = "recommend" -> "memory"]

Init ==
    /\ processing = [c \in Calls |-> "pending"]
    /\ stale = {} /\ redacted = {}
    /\ turns = [c \in Calls |-> 0]
    /\ rows = [c \in Calls |-> [s \in Stages |-> 0]]
    /\ raw = [c \in Calls |-> {}]
    /\ queue = [m \in Messages |-> 0]
    /\ dead = {} /\ redelivered = 0
    /\ pc = [w \in Workers |-> "idle"]
    /\ msg = [w \in Workers |-> NoMessage]
    /\ source = [w \in Workers |-> 0]
    /\ text = [w \in Workers |-> FALSE]
    /\ received = [c \in Calls |-> 0]
    /\ failed = {} /\ resumed = {} /\ exposed = {}

Goto(w, step) == pc' = [pc EXCEPT ![w] = step]

Deliver(m) == queue' = [queue EXCEPT ![m] = @ + 1]

First(s, c) == [stage |-> s, call |-> c, tries |-> 0]

SetStatus(c, st) == processing' = [processing EXCEPT ![c] = st]

\* The message is done with (or gone), the worker takes another.
Release(w) ==
    /\ Goto(w, "idle")
    /\ msg' = [msg EXCEPT ![w] = NoMessage]
    /\ source' = [source EXCEPT ![w] = 0]
    /\ text' = [text EXCEPT ![w] = FALSE]

-----------------------------------------------------------------------------
(* The decisions of the code; a mutant of each is a bug a run must find.   *)

\* The claim under the row lock.  Mutants: no check of the status; a call
\* that failed is not taken up again.
Claimable_Unguarded(w) == TRUE
Claimable_NoRetry(w) == processing[Call(w)] = Ready[Stage(w)]
Claimable(w) ==
    \/ processing[Call(w)] \in {Ready[Stage(w)], "failed_retryable"}
    \/ /\ Stage(w) # "extract"
       /\ processing[Call(w)] = Running[Stage(w)] /\ Call(w) \in stale

\* SELECT ... FOR UPDATE of the deal returns.
DealFree(w) ==
    \A v \in Workers \ {w} : ~(pc[v] = "persist" /\ Stage(v) = "risk")

\* What the next stage is enqueued for: a result that is not None or [].
\* Mutant: the result is not looked at.
Follows_Always(n) == TRUE
Follows(n) == n > 0

\* The unique constraint on memory documents.  Mutant: none.
Unembedded_NotUnique(c) == TRUE
Unembedded(c) == rows[c]["memory"] = 0

\* What a redaction leaves: snapshots and projections of the deal keep the
\* summary.  Mutant: memory documents are forgotten.
Unscrubbed_Memory(c) == raw[c] \cap {"risk", "memory"}
Unscrubbed(c) == raw[c] \cap {"risk"}

-----------------------------------------------------------------------------
(* Ingestion commits the transcript of a terminal event and enqueues the   *)
(* extraction; it inserts utterances whenever there are none, and sets the *)
(* status whatever it was (Ingestion models the interleavings of this).    *)
StoreTranscript(c) ==
    /\ turns[c] = 0
    /\ received[c] < MaxTranscripts
    /\ received' = [received EXCEPT ![c] = @ + 1]
    /\ turns' = [turns EXCEPT ![c] = received[c] + 1]
    /\ SetStatus(c, "transcript_finalized")
    /\ \/ Deliver(First("extract", c))
       \/ "broker" \in Faults /\ UNCHANGED queue
    /\ resumed' = IF received[c] > 0 THEN resumed \cup {c} ELSE resumed
    /\ exposed' = IF c \in redacted THEN exposed \cup {c} ELSE exposed
    /\ UNCHANGED <<stale, rows, raw, redacted, dead, redelivered, workerVars, failed>>

Receive(w, m) ==
    /\ pc[w] = "idle"
    /\ queue[m] > 0
    /\ queue' = [queue EXCEPT ![m] = @ - 1]
    /\ msg' = [msg EXCEPT ![w] = m]
    /\ Goto(w, IF m.stage = "memory" THEN "read" ELSE "claim")
    /\ UNCHANGED <<dbVars, dead, redelivered, source, text, history>>

(* SELECT the call FOR UPDATE, check its status, commit the claim.  The    *)
(* claims of risk and recommendation refresh updated_at.                   *)
Claim(w) ==
    /\ pc[w] = "claim"
    /\ Claimable(w)
    /\ SetStatus(Call(w), Running[Stage(w)])
    /\ stale' = IF Stage(w) = "extract" THEN stale ELSE stale \ {Call(w)}
    /\ resumed' = IF processing[Call(w)] = Running[Stage(w)]
                  THEN resumed \cup {Call(w)} ELSE resumed
    /\ Goto(w, "read")
    /\ UNCHANGED <<turns, rows, raw, redacted, brokerVars, msg, source, text,
                   received, failed, exposed>>

(* Another status: the stage returns None, and nothing follows.            *)
Skip(w) ==
    /\ pc[w] = "claim"
    /\ ~Claimable(w)
    /\ Goto(w, "ack")
    /\ UNCHANGED <<dbVars, brokerVars, msg, source, text, history>>

(* Read the utterances, then ask the model, repairing what it answers:     *)
(* with no utterances, or no valid answer in the end, the stage fails; on  *)
(* any other error of the model it gives up.                               *)
Extract(w) ==
    /\ pc[w] = "read" /\ Stage(w) = "extract"
    /\ source' = [source EXCEPT ![w] = turns[Call(w)]]
    /\ text' = [text EXCEPT ![w] = turns[Call(w)] # 0]
    /\ \/ turns[Call(w)] # 0 /\ Goto(w, "persist")
       \/ turns[Call(w)] = 0 /\ Goto(w, "fail")
       \/ "llm" \in Faults /\ turns[Call(w)] # 0 /\ Goto(w, "fail")
       \/ "llm" \in Faults /\ turns[Call(w)] # 0 /\ Goto(w, "terminate")
    /\ UNCHANGED <<dbVars, brokerVars, msg, history>>

\* Risk needs an extraction of the call, recommendation also a risk snapshot
\* of the deal, of whichever call.
ContextFound(w) ==
    /\ rows[Call(w)]["extract"] > 0
    /\ Stage(w) = "recommend" => \E c \in Calls : rows[c]["risk"] > 0

\* The advisor is told the deal's summary, which was made from the call by
\* the risk update and stays when the call is redacted.
DealTells(w) == Stage(w) = "recommend" /\ "risk" \in raw[Call(w)]

(* Risk locks the deal first, and keeps it until it commits; a failing     *)
(* model of the recommendation is replaced by a fallback.                  *)
ReadContext(w) ==
    /\ pc[w] = "read" /\ Stage(w) \in {"risk", "recommend"}
    /\ Stage(w) = "risk" => DealFree(w)
    /\ text' = [text EXCEPT ![w] = "extract" \in raw[Call(w)] \/ DealTells(w)]
    /\ exposed' = IF DealTells(w) /\ Call(w) \in redacted
                  THEN exposed \cup {Call(w)} ELSE exposed
    /\ Goto(w, IF ContextFound(w) THEN "persist" ELSE "fail")
    /\ UNCHANGED <<dbVars, brokerVars, msg, source, received, failed, resumed>>

(* The memory stage has no claim: it looks for documents of the call.      *)
ReadMemoryContext(w) ==
    /\ pc[w] = "read" /\ Stage(w) = "memory"
    /\ text' = [text EXCEPT ![w] = "extract" \in raw[Call(w)]]
    /\ Goto(w, IF rows[Call(w)]["memory"] = 0 /\ rows[Call(w)]["extract"] > 0
               THEN "persist" ELSE "ack")
    /\ UNCHANGED <<dbVars, brokerVars, msg, source, history>>

\* Insert n artifacts made from what the worker has read.
Produce(w, n) ==
    /\ rows' = [rows EXCEPT ![Call(w)][Stage(w)] = @ + n]
    /\ raw' = IF text[w] THEN [raw EXCEPT ![Call(w)] = @ \cup {Stage(w)}] ELSE raw

(* Commit the artifacts and the new status, whatever the status is by now. *)
(* A recommendation may consist of drafts only.                            *)
Persist(w) ==
    /\ pc[w] = "persist" /\ Stage(w) # "memory"
    /\ \E n \in IF Stage(w) = "recommend" THEN {0, 1} ELSE {1} :
         /\ Produce(w, n)
         /\ Goto(w, IF Follows(n) THEN "send" ELSE "ack")
    /\ SetStatus(Call(w), Completed[Stage(w)])
    /\ UNCHANGED <<stale, turns, redacted, brokerVars, msg, source, text, history>>

(* Documents that another worker committed first are an IntegrityError.    *)
PersistMemory(w) ==
    /\ pc[w] = "persist" /\ Stage(w) = "memory"
    /\ IF Unembedded(Call(w)) THEN Produce(w, 1) ELSE UNCHANGED <<rows, raw>>
    /\ Goto(w, "ack")
    /\ UNCHANGED <<processing, stale, turns, redacted, brokerVars, msg, source, text, history>>

(* .send of the next stage; an exception is logged and swallowed.          *)
Send(w) ==
    /\ pc[w] = "send"
    /\ \/ Deliver(First(Follower[Stage(w)], Call(w)))
       \/ "broker" \in Faults /\ UNCHANGED queue
    /\ Goto(w, "ack")
    /\ UNCHANGED <<dbVars, dead, redelivered, msg, source, text, history>>

(* The except clause: roll back, commit failed_retryable, raise.           *)
Fail(w) ==
    /\ pc[w] = "fail"
    /\ SetStatus(Call(w), "failed_retryable")
    /\ failed' = failed \cup {Call(w)}
    /\ Goto(w, "raise")
    /\ UNCHANGED <<stale, turns, rows, raw, redacted, brokerVars, msg, source, text,
                   received, resumed, exposed>>

Terminate(w) ==
    /\ pc[w] = "terminate"
    /\ SetStatus(Call(w), "failed_terminal")
    /\ Goto(w, "ack")
    /\ UNCHANGED <<stale, turns, rows, raw, redacted, brokerVars, msg, source, text, history>>

(* Dramatiq enqueues a failed message again, up to the actor's budget.     *)
Raise(w) ==
    LET m == msg[w] IN
    /\ pc[w] = "raise"
    /\ \/ /\ m.tries < MaxRetries[m.stage]
          /\ Deliver([m EXCEPT !.tries = @ + 1])
          /\ UNCHANGED dead
       \/ /\ m.tries >= MaxRetries[m.stage]
          /\ dead' = dead \cup {m}
          /\ UNCHANGED queue
    /\ Release(w)
    /\ UNCHANGED <<dbVars, redelivered, history>>

Ack(w) ==
    /\ pc[w] = "ack"
    /\ Release(w)
    /\ UNCHANGED <<dbVars, brokerVars, history>>

-----------------------------------------------------------------------------
(* What may go wrong.                                                      *)

\* Mutant: the claim is inside the try block too.
Caught_ClaimToo(w) == IF Stage(w) = "memory" THEN "raise" ELSE "fail"
\* Where an exception inside the try block of the stage leads.
Caught(w) == IF pc[w] = "claim" \/ Stage(w) = "memory" THEN "raise" ELSE "fail"

(* A statement raises.  The one that reads the utterances is outside the   *)
(* try block.  Utterances that are gone fail the anchors that point to     *)
(* them, if any do.                                                        *)
StatementFails(w) ==
    /\ \/ "db_error" \in Faults /\ pc[w] \in {"claim", "persist"}
       \/ "db_error" \in Faults /\ pc[w] = "read" /\ Stage(w) # "extract"
       \/ pc[w] = "persist" /\ Stage(w) = "extract" /\ source[w] # turns[Call(w)]
    /\ Goto(w, Caught(w))
    /\ UNCHANGED <<dbVars, brokerVars, msg, source, text, history>>

(* The stage ends with an exception its except clauses do not see.         *)
Abort(w) ==
    /\ "abort" \in Faults
    /\ pc[w] \in {"read", "persist"}
    /\ Goto(w, "raise")
    /\ UNCHANGED <<dbVars, brokerVars, msg, source, text, history>>

(* The worker dies: its message is delivered again.                        *)
Crash(w) ==
    /\ "crash" \in Faults /\ pc[w] # "idle"
    /\ redelivered < MaxRedelivered
    /\ redelivered' = redelivered + 1
    /\ Deliver(msg[w])
    /\ Release(w)
    /\ UNCHANGED <<dbVars, dead, history>>

(* The broker misses a live worker's heartbeat: the message goes to        *)
(* another worker as well.                                                 *)
Partition(w) ==
    /\ "partition" \in Faults /\ pc[w] # "idle"
    /\ redelivered < MaxRedelivered
    /\ redelivered' = redelivered + 1
    /\ Deliver(msg[w])
    /\ UNCHANGED <<dbVars, dead, workerVars, history>>

(* A minute passes since the claim.                                        *)
Age(c) ==
    /\ "stale" \in Faults
    /\ processing[c] \in {"snapshots_updating", "recommendation_running"}
    /\ stale' = stale \cup {c}
    /\ UNCHANGED <<processing, turns, rows, raw, redacted, brokerVars, workerVars, history>>

HoldsText(w, c) == pc[w] = "persist" /\ Call(w) = c /\ text[w]

(* Delete the utterances of the calls, overwrite what was derived.  Of the *)
(* statements of this transaction only the last touches a row a worker     *)
(* updates, so a commit in between is one before or after it.              *)
Scrub(C) ==
    /\ turns' = [c \in Calls |-> IF c \in C THEN 0 ELSE turns[c]]
    /\ raw' = [c \in Calls |-> IF c \in C THEN Unscrubbed(c) ELSE raw[c]]
    /\ redacted' = redacted \cup C
    /\ exposed' = exposed \cup {c \in C : \E w \in Workers : HoldsText(w, c)}
    /\ UNCHANGED <<processing, stale, rows, brokerVars, workerVars, received, failed, resumed>>

Redact(c) == "redact" \in Faults /\ Scrub({c})

(* The sweep redacts the calls that ended 90 days ago, once.  By then no   *)
(* message is left.                                                        *)
RetentionSweep ==
    LET expired == {c \in Calls : received[c] > 0} \ redacted IN
    /\ "redact" \in Faults /\ expired # {}
    /\ \A w \in Workers : pc[w] = "idle"
    /\ \A m \in Messages : queue[m] = 0
    /\ Scrub(expired)

Work(w) ==
    \/ Claim(w) \/ Skip(w) \/ Extract(w) \/ ReadContext(w) \/ ReadMemoryContext(w)
    \/ Persist(w) \/ PersistMemory(w) \/ Send(w) \/ Fail(w) \/ Terminate(w)
    \/ Raise(w) \/ Ack(w)

Next ==
    \/ \E c \in Calls : StoreTranscript(c) \/ Age(c) \/ Redact(c)
    \/ \E w \in Workers, m \in Messages : Receive(w, m)
    \/ \E w \in Workers :
         Work(w) \/ StatementFails(w) \/ Abort(w) \/ Crash(w) \/ Partition(w)
    \/ RetentionSweep

Spec == Init /\ [][Next]_vars

(* Worker threads take messages while there are any, and PostgreSQL grants *)
(* a lock that has been released.  Nothing makes a transcript arrive, a    *)
(* minute pass in the middle of a stage, or a fault happen.                *)
FairSpec ==
    /\ Spec
    /\ \A w \in Workers : WF_vars(Work(w) \/ \E m \in Messages : Receive(w, m))

-----------------------------------------------------------------------------
(* Properties.                                                             *)

TypeOK ==
    /\ processing \in [Calls -> Statuses]
    /\ stale \subseteq Calls /\ redacted \subseteq Calls
    /\ turns \in [Calls -> Nat]
    /\ rows \in [Calls -> [Stages -> Nat]]
    /\ raw \in [Calls -> SUBSET Stages]
    /\ queue \in [Messages -> Nat]
    /\ dead \subseteq Messages /\ redelivered \in Nat
    /\ pc \in [Workers -> Steps]
    /\ msg \in [Workers -> Messages \cup {NoMessage}]
    /\ \A w \in Workers : pc[w] # "idle" => msg[w] \in Messages
    /\ \A w \in Workers :
         pc[w] \in {"claim", "fail", "terminate", "send"} => Stage(w) # "memory"
    /\ source \in [Workers -> Nat]
    /\ text \in [Workers -> BOOLEAN]
    /\ received \in [Calls -> Nat]
    /\ failed \subseteq Calls /\ resumed \subseteq Calls /\ exposed \subseteq Calls

\* The status of a call is a lock: at most one worker processes it, in any
\* stage, whatever messages are delivered twice and whichever worker dies,
\* until a claim a minute old is taken over or a late transcript restarts
\* the call.
OneWorkerPerCall ==
    \A c \in Calls \ resumed : \A v, w \in Workers :
        /\ Working(v) /\ Stage(v) # "memory" /\ Call(v) = c
        /\ Working(w) /\ Stage(w) # "memory" /\ Call(w) = c
        => v = w

\* A message delivered twice does not do the work twice (PRD.md:1676): each
\* artifact is produced once, unless the call failed or was taken over, and
\* memory documents in any case.
ArtifactsOnce ==
    \A c \in Calls :
        /\ rows[c]["memory"] <= 1
        /\ c \notin failed \cup resumed => \A s \in Stages : rows[c][s] <= 1

\* Nothing is derived from what was never stored, although every stage may
\* claim a call that failed in another one: risk follows an extraction,
\* recommendations a risk snapshot, memory a recommendation.
ArtifactsInOrder ==
    \A c \in Calls :
        /\ rows[c]["extract"] > 0 => received[c] > 0
        /\ rows[c]["risk"] > 0 => rows[c]["extract"] > 0
        /\ rows[c]["recommend"] > 0 =>
             rows[c]["extract"] > 0 /\ \E d \in Calls : rows[d]["risk"] > 0
        /\ rows[c]["memory"] > 0 => rows[c]["recommend"] > 0

\* After a redaction no stage brings text of the call back, unless a worker
\* had read it before, the transcript arrives again, or the recommendations
\* are made from the deal's summary, which the redaction leaves
\* (call/service.py:389).
RedactionHolds ==
    \A c \in redacted \ exposed :
        /\ turns[c] = 0 /\ raw[c] \subseteq {"risk"}
        /\ \A w \in Workers : ~HoldsText(w, c)

\* The status of a call moves along the stages whatever is delivered twice,
\* fails or dies, and a commit never overwrites the status another stage has
\* set: the page's lists of statuses can rely on it (lib/calls.ts:61).
Progress == INSTANCE CallProgress WITH
    progress <- [c \in Calls |-> IF c \in resumed THEN "unsupervised" ELSE processing[c]]
FollowsStages == Progress!Spec

\* A call ends with recommendations, given up, or with a message in the
\* dead-letter queue of Dramatiq.
Settled(c) ==
    \/ processing[c] \in {"recommendation_completed", "failed_terminal"}
    \/ \E m \in dead : m.call = c

\* A message of a stage waits for the call: it is queued, a worker has it and
\* has not claimed the call or gives it back, or it is about to be sent.
Awaited(c, s) ==
    \/ \E m \in Messages : queue[m] > 0 /\ m.call = c /\ m.stage = s
    \/ \E w \in Workers : pc[w] \in {"claim", "raise"} /\ Call(w) = c /\ Stage(w) = s
    \/ \E w \in Workers : pc[w] = "send" /\ Call(w) = c /\ Follower[Stage(w)] = s

InHand(c, s) == \E w \in Workers : Working(w) /\ Call(w) = c /\ Stage(w) = s

\* No call is left behind: one that is not settled is in the hands of the
\* worker its status names, or a message waits for it whose stage takes a call
\* of that status; and so it is with the memory of its recommendations.
WorkRemains ==
    \A c \in Calls :
        /\ received[c] > 0 /\ ~Settled(c) => \E s \in DOMAIN Ready :
             \/ processing[c] \in {Ready[s], "failed_retryable"} /\ Awaited(c, s)
             \/ processing[c] = Running[s] /\ InHand(c, s)
        /\ rows[c]["recommend"] > 0 =>
             \/ rows[c]["memory"] > 0
             \/ Awaited(c, "memory") \/ InHand(c, "memory")
             \/ \E m \in dead : m.call = c /\ m.stage = "memory"

\* Every transcript is processed to the end, and recommendations are
\* embedded, as long as workers live and the broker takes messages.
Settles ==
    \A c \in Calls :
        /\ received[c] > 0 ~> Settled(c)
        /\ rows[c]["recommend"] > 0 ~>
             \/ rows[c]["memory"] > 0
             \/ \E m \in dead : m.call = c /\ m.stage = "memory"

-----------------------------------------------------------------------------
(* What the documents say and the code does not do.                        *)

\* PRD.md:774, "Failed downstream jobs are retryable"; PRD.md:1676,
\* "Background jobs are retry-safe": a stage whose worker dies is resumed.
JobsAreRetrySafe == \A c \in Calls : received[c] > 0 ~> Settled(c)
=============================================================================
