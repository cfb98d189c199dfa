------------------------------- MODULE Polling -------------------------------
(***************************************************************************)
(* The polling actor (workers/tasks.py, poll_execution_status) beside the  *)
(* webhook, over the row of a call.  Both feed process_bolna_event; here a *)
(* run of it is two steps, taking the idempotency key and recording the    *)
(* event as EventLedger says, which Ingestion implements.  The execution   *)
(* at the provider goes through a life of several states; on entering one  *)
(* it may send a webhook, and GET /executions/{id} answers with the state  *)
(* it is in (services/bolna/adapter.py).                                   *)
(***************************************************************************)
EXTENDS BolnaEvents

CONSTANTS
    Webhook,       \* what a call's execution sends on entering each state, or None
    Answer,        \* what GET answers in each state
    MaxAttempts,   \* BOLNA_EXECUTION_POLL_MAX_ATTEMPTS
    MaxTries,      \* max_retries of the actor
    Faults

AllFaults == {"http",     \* GET fails, or answers something that is no execution
              "limited",  \* GET answers 429
              "broker",   \* the polling job is not enqueued
              "poll",     \* a statement of the actor raises
              "webhook",  \* a statement of a webhook's handler raises
              "orphan"}   \* a run ends without giving its key back: the process
                          \* dies, or the SELECT of the session raises

ASSUME LifeAssumption ==
    /\ Webhook \in [Calls -> Seq(Payloads \cup {None})]
    /\ Answer \in [Calls -> Seq(Payloads)]
    /\ \A c \in Calls :
         /\ Len(Webhook[c]) = Len(Answer[c]) /\ Len(Answer[c]) > 0
         /\ \A i \in DOMAIN Answer[c] :
              /\ Webhook[c][i] # None => ExecutionId(Webhook[c][i]) = c
              /\ ExecutionId(Answer[c][i]) = c
ASSUME BoundAssumption == MaxAttempts \in Nat \ {0} /\ MaxTries \in Nat
ASSUME FaultAssumption == Faults \subseteq AllFaults

VARIABLES
    published, status, log, utterances, jobs,  \* as in EventLedger
    idem,      \* idempotency keys present
    handling,  \* payloads a webhook's handler has the key of
    at,        \* the state each execution is in
    pc,        \* where the polling job of each call stands
    attempt,   \* the loop's counter
    tries,     \* retries of the message so far
    backoff,   \* 429 answers to the present request
    answer,    \* the payload in hand; None for one without identifiers
    spoiled    \* history: calls with an event whose key was taken in vain

ledgerVars  == <<published, status, log, utterances, jobs>>
webhookVars == <<handling, at, spoiled>>
jobVars     == <<pc, attempt, tries, backoff, answer>>
vars == <<ledgerVars, idem, webhookVars, jobVars>>

EventStore == INSTANCE EventLedger WITH published <- published, status <- status,
                                        log <- log, utterances <- utterances, jobs <- jobs

\* Polling and webhooks take and keep the keys of events as Ingestion does.
Guard == INSTANCE EventKeys WITH
    published <- published, status <- status, log <- log, utterances <- utterances,
    jobs <- jobs, idem <- idem,
    held <- {IdempotencyKey(p) : p \in
               handling \cup {answer[c] : c \in {d \in Calls : pc[d] = "work"}}}

Finished == {"stopped", "exhausted", "dead"}
Steps == Finished \cup {"absent", "queued", "sleep", "ask", "look", "check", "work", "next"}

Init ==
    /\ EventStore!Init
    /\ idem = {} /\ handling = {}
    /\ at = [c \in Calls |-> 1]
    /\ pc = [c \in Calls |-> "absent"]
    /\ attempt = [c \in Calls |-> 0]
    /\ tries = [c \in Calls |-> 0]
    /\ backoff = [c \in Calls |-> 0]
    /\ answer = [c \in Calls |-> None]
    /\ spoiled = {}

Goto(c, step) == pc' = [pc EXCEPT ![c] = step]

Ended(c) == \E i \in DOMAIN log[c] : Terminal(log[c][i])

-----------------------------------------------------------------------------
(* The decisions of the code; a mutant of each is a bug a run must find.   *)

\* The provider's own word is one of the session's terminal statuses ("no-answer",
\* "stopped" and "error" are not): the answer stops the loop.
StopsPolling(p) == p # None /\ p.status \in TerminalStatuses

\* Where the job goes with an answer in hand.  Mutant: it looks at the answer
\* before it has been processed.
AfterLook_StopFirst(c) ==
    IF status[c] \in TerminalStatuses \/ StopsPolling(answer[c]) THEN "stopped" ELSE "check"
AfterLook(c) == IF status[c] \in TerminalStatuses THEN "stopped" ELSE "check"

\* A payload is taken unless its key is there.  Mutant: unless its event is in
\* the table.
Free_Unrecorded(p) == IdempotencyKey(p) \notin RecordedKeys(log)
Free(p) == IdempotencyKey(p) \notin idem

\* A failing run deletes the key.  Mutant: it keeps it.
Released_Kept(k) == idem
Released(k) == idem \ {k}

\* The retry of a job begins with its first attempt.  Mutant: retries without
\* a limit.
Retried_Always(c) == "queued"
Retried(c) == IF tries[c] < MaxTries THEN "queued" ELSE "dead"

-----------------------------------------------------------------------------
(* The provider's id is committed, then the polling job enqueued.          *)
Publish(c) ==
    /\ EventStore!Publish(c)
    /\ \/ Goto(c, "queued")
       \/ "broker" \in Faults /\ UNCHANGED pc
    /\ UNCHANGED <<idem, webhookVars, attempt, tries, backoff, answer>>

(* The execution goes on.                                                  *)
Enter(c) ==
    /\ at[c] < Len(Answer[c])
    /\ at' = [at EXCEPT ![c] = @ + 1]
    /\ UNCHANGED <<ledgerVars, idem, handling, spoiled, jobVars>>

(* A webhook, in whatever order and however often: one that is early or a  *)
(* duplicate is answered 200 and changes nothing; one that is lost never   *)
(* comes.                                                                  *)
ReceiveWebhook(c) ==
    /\ c \in published
    /\ \E i \in 1 .. at[c] : LET p == Webhook[c][i] IN
         /\ p # None /\ Free(p)
         /\ idem' = idem \cup {IdempotencyKey(p)}
         /\ handling' = handling \cup {p}
    /\ UNCHANGED <<ledgerVars, at, spoiled, jobVars>>

RecordWebhook(p) ==
    /\ p \in handling /\ ~Poisoned(p)
    /\ EventStore!Record(p)
    /\ handling' = handling \ {p}
    /\ UNCHANGED <<idem, at, spoiled, jobVars>>

(* The handler rolls back, gives the key back and answers 500; or it dies. *)
FailWebhook(p) ==
    /\ p \in handling
    /\ \/ /\ "webhook" \in Faults \/ Poisoned(p)
          /\ idem' = Released(IdempotencyKey(p))
       \/ "orphan" \in Faults /\ UNCHANGED idem
    /\ handling' = handling \ {p}
    /\ spoiled' = spoiled \cup {ExecutionId(p)}
    /\ UNCHANGED <<ledgerVars, at, jobVars>>

(* The extraction of a stored transcript is enqueued.                      *)
Dispatch(c) ==
    /\ EventStore!Dispatch(c)
    /\ UNCHANGED <<idem, webhookVars, jobVars>>

-----------------------------------------------------------------------------
(* The job.  It reads the provider's id: without one it gives up.          *)
Start(c) ==
    /\ pc[c] = "queued"
    /\ Goto(c, IF c \in published THEN "sleep" ELSE "stopped")
    /\ attempt' = [attempt EXCEPT ![c] = 1]
    /\ UNCHANGED <<ledgerVars, idem, webhookVars, tries, backoff, answer>>

Sleep(c) ==
    /\ pc[c] = "sleep"
    /\ Goto(c, "ask")
    /\ UNCHANGED <<ledgerVars, idem, webhookVars, attempt, tries, backoff, answer>>

Receive(c, p) ==
    /\ answer' = [answer EXCEPT ![c] = p]
    /\ backoff' = [backoff EXCEPT ![c] = 0]
    /\ Goto(c, "look")

(* GET /executions/{id}.  A 429 is retried three times, a fourth one is an *)
(* answer; an error, and a body that is no execution, is a payload without *)
(* identifiers.                                                            *)
GetExecution(c) ==
    /\ pc[c] = "ask"
    /\ \/ Receive(c, Answer[c][at[c]])
       \/ "http" \in Faults /\ Receive(c, None)
       \/ "limited" \in Faults /\ backoff[c] = 3 /\ Receive(c, None)
       \/ /\ "limited" \in Faults /\ backoff[c] < 3
          /\ backoff' = [backoff EXCEPT ![c] = @ + 1]
          /\ UNCHANGED <<answer, pc>>
    /\ UNCHANGED <<ledgerVars, idem, webhookVars, attempt, tries>>

(* The session is read: a call that has ended meanwhile is not polled.     *)
LookAtSession(c) ==
    /\ pc[c] = "look"
    /\ Goto(c, AfterLook(c))
    /\ UNCHANGED <<ledgerVars, idem, webhookVars, attempt, tries, backoff, answer>>

(* process_bolna_event takes the key, unless it is taken; the key of an    *)
(* answer without identifiers is given back at once.                       *)
TakeKey(c) ==
    LET p == answer[c]
        free == p # None /\ Free(p)
    IN  /\ pc[c] = "check"
        /\ idem' = IF free THEN idem \cup {IdempotencyKey(p)} ELSE idem
        /\ Goto(c, IF free THEN "work" ELSE "next")
        /\ UNCHANGED <<ledgerVars, webhookVars, attempt, tries, backoff, answer>>

RecordAnswer(c) ==
    /\ pc[c] = "work" /\ ~Poisoned(answer[c])
    /\ EventStore!Record(answer[c])
    /\ Goto(c, "next")
    /\ UNCHANGED <<idem, webhookVars, attempt, tries, backoff, answer>>

(* Whether or not the answer was processed.                                *)
EndAttempt(c) ==
    /\ pc[c] = "next"
    /\ IF ~StopsPolling(answer[c]) /\ attempt[c] < MaxAttempts
       THEN Goto(c, "sleep") /\ attempt' = [attempt EXCEPT ![c] = @ + 1]
       ELSE /\ Goto(c, IF StopsPolling(answer[c]) THEN "stopped" ELSE "exhausted")
            /\ UNCHANGED attempt
    /\ answer' = [answer EXCEPT ![c] = None]
    /\ UNCHANGED <<ledgerVars, idem, webhookVars, tries, backoff>>

(* Dramatiq retries a message whose job has raised.                        *)
Retry(c) ==
    /\ Goto(c, Retried(c))
    /\ tries' = [tries EXCEPT ![c] = IF @ < MaxTries THEN @ + 1 ELSE @]
    /\ answer' = [answer EXCEPT ![c] = None]

(* A statement raises; a key that was taken is given back.                 *)
FailPoll(c) ==
    /\ \/ "poll" \in Faults /\ pc[c] = "look" /\ UNCHANGED idem
       \/ /\ pc[c] = "work" /\ ("poll" \in Faults \/ Poisoned(answer[c]))
          /\ idem' = Released(IdempotencyKey(answer[c]))
    /\ Retry(c)
    /\ UNCHANGED <<ledgerVars, webhookVars, attempt, backoff>>

(* The key is taken and kept, and nothing recorded.                        *)
OrphanKey(c) ==
    /\ "orphan" \in Faults /\ pc[c] = "work"
    /\ Retry(c)
    /\ spoiled' = spoiled \cup {c}
    /\ UNCHANGED <<ledgerVars, idem, handling, at, attempt, backoff>>

Poll(c) ==
    \/ Start(c) \/ Sleep(c) \/ GetExecution(c) \/ LookAtSession(c) \/ TakeKey(c)
    \/ RecordAnswer(c) \/ EndAttempt(c) \/ FailPoll(c) \/ OrphanKey(c)

Next ==
    \/ \E c \in Calls :
         Publish(c) \/ Enter(c) \/ ReceiveWebhook(c) \/ Dispatch(c) \/ Poll(c)
    \/ \E p \in Payloads : RecordWebhook(p) \/ FailWebhook(p)

Spec == Init /\ [][Next]_vars

(* A worker runs its job, whose sleeps, requests and statements end; a     *)
(* webhook's handler returns (HandlersReturn of Ingestion).  Nothing makes *)
(* the execution go on or a webhook come.                                  *)
FairSpec ==
    /\ Spec
    /\ \A c \in Calls : WF_vars(Poll(c))
    /\ \A p \in Payloads : WF_vars(RecordWebhook(p) \/ FailWebhook(p))

-----------------------------------------------------------------------------
(* Properties.                                                             *)

TypeOK ==
    /\ published \subseteq Calls
    /\ status \in [Calls -> Statuses]
    /\ log \in [Calls -> Seq(Payloads)]
    /\ utterances \subseteq Calls
    /\ jobs \in [Calls -> 0 .. 1]
    /\ idem \subseteq Keys
    /\ handling \subseteq Payloads
    /\ at \in [Calls -> Nat] /\ \A c \in Calls : at[c] \in DOMAIN Answer[c]
    /\ pc \in [Calls -> Steps]
    /\ attempt \in [Calls -> 0 .. MaxAttempts]
    /\ tries \in [Calls -> 0 .. MaxTries]
    /\ backoff \in [Calls -> 0 .. 3]
    /\ answer \in [Calls -> Payloads \cup {None}]
    /\ spoiled \subseteq Calls

\* A run that has taken a key is the only one to record its event, and finds
\* it unrecorded: the lock of a poll and of a webhook on one event is the key,
\* also after either has failed and given it back.
WritersExclude ==
    /\ \A p \in handling : IdempotencyKey(p) \in idem \ RecordedKeys(log)
    /\ \A c \in Calls : pc[c] = "work" =>
         /\ IdempotencyKey(answer[c]) \in idem \ RecordedKeys(log)
         /\ \A p \in handling : IdempotencyKey(p) # IdempotencyKey(answer[c])
    /\ RecordedKeys(log) \subseteq idem

\* A job that has stopped leaves a call that has ended, or whose end a webhook
\* is about to record; or one of whose webhooks has failed.  The provider's word
\* for it (tasks.py:101) is never the only trace of the end: the event was
\* recorded by the job, or its key was somebody's who does.
StopsOnAnEnd ==
    \A c \in Calls : pc[c] = "stopped" =>
        \/ Ended(c) \/ c \in spoiled
        \/ \E p \in handling : Terminal(p) /\ ExecutionId(p) = c

\* A call whose end the provider has told the job is ended here, by the job
\* or by the webhook that has the key of the event, unless that webhook fails
\* or the message is retried and gets no further answer: the job stops on the
\* provider's word alone (tasks.py:101).  An early webhook that was dropped, or one that
\* never came, does not leave the call open.
ReportedEndIsRecorded ==
    \A c \in Calls :
        pc[c] = "look" /\ answer[c] # None /\ Terminal(answer[c])
            ~> \/ Ended(c) \/ c \in spoiled
               \/ pc[c] = "dead" \/ (pc[c] = "exhausted" /\ tries[c] > 0)

\* A job comes to an end: no call is polled for ever.
PollingEnds == \A c \in Calls : pc[c] = "queued" ~> pc[c] \in Finished

-----------------------------------------------------------------------------
(* What the documents say and the code does not do.                        *)

\* PRD.md:1468, "Event order should be handled defensively": a call that has
\* ended and that an event fetched earlier takes back is ended again in the end.
\* With one webhook, at the end, and no fault, TLC finds the opposite.  A poll
\* fetches in-progress (tasks.py:57), the execution completes, the poll reads a
\* session that has not ended (tasks.py:62) and takes its key; the webhook
\* records the end, the poll writes in_progress over it; the next poll's answer
\* is a duplicate of the webhook and stops the job (tasks.py:98).
EndedCallsStayEnded ==
    \A c \in Calls : Ended(c) ~> [](status[c] \in TerminalStatuses)
=============================================================================
