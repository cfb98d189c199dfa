# Bolna SignalLayer: specifications, model checking and proofs

TLA+ specifications of the backend in `src/backend/app`, the TLC
configurations that check them on small instances, and theorems about them
proved with TLAPS. Paths below are relative to `src/backend/app` unless they
begin with `PRD.md` or `frontend/`.

Every module is written from the code. Where a document says something the
code does not do, the section *Divergences* says so; two runs exhibit such
behaviour.

## 1. The system

A salesperson calls a stakeholder of a deal through a voice-AI provider
(Bolna). The provider reports what happens to the call by webhook, a polling
job asks for it as a fallback, and when the call has ended with a transcript a
chain of background jobs extracts structured data, updates the deal's risk,
proposes actions and stores memory documents for the next call. Redis holds
guards and the job queue, PostgreSQL everything else; browsers are told to
refetch by hints over a WebSocket.

```
 browser --POST /calls--> api/calls.py --initiate_call--> Redis guards, provider
                              |  commit provider_call_id; enqueue poll job
                              v
 provider --webhook--> api/webhooks.py --+
 poll job --get_execution----------------+--> process_bolna_event --> PostgreSQL
                                                  |  hint (Redis pub/sub) --> api/ws.py --> browser
                                                  v  extract_call.send
       extract_call -> compute_risk -> generate_recommendations -> embed_memory_documents
            (Dramatiq workers; each claims the call under a row lock and commits its artifacts)
 user or retention sweep --redact--> utterances, snapshots, drafts, documents
```

| component | state it keeps | operations | what is hard |
|---|---|---|---|
| Event ingestion (`services/bolna/ingestion.py`, `api/webhooks.py`, `services/transcripts/service.py`) | idempotency keys (Redis), `call_events`, `call_sessions.status/ended_at`, utterances | `process_bolna_event`, called by webhook and polling | repeated, reordered, early events; a failure between setting the key and the commit; two writers of one transcript |
| Call initiation (`services/call/service.py`, `api/calls.py`, `services/bolna/adapter.py`) | quota counter per user, cooldown key per stakeholder (Redis), the session row | `initiate_call`, slot releases | guards taken and given back by racing requests; the provider accepts and the answer or the process is lost |
| Processing pipeline (`workers/tasks.py`, `services/extraction`, `risk`, `recommendation`, `memory`) | `processing_status`, artifacts, Dramatiq's queue | the four stages, their retries | at-least-once delivery, dying workers, stale claims, statuses shared by stages, lost `.send` |
| Redaction and retention (`services/call/service.py` 389-493) | `transcript_redacted`, the scrubbed rows | redact one call, sweep expired ones | a stage that still holds the text; a text or an embedding that is forgotten |
| Transcript writer (`services/transcripts/service.py`) | utterances | parse the provider's text into turns, insert them | text around and between labels |
| Recommendations API (`api/intelligence.py`) | `action_recommendations` | accept, dismiss, PATCH | load, update, commit and refresh are apart; redaction in between |
| Risk scoring and deal projection (`services/risk`) | snapshots, `deals.*_current`, `stakeholders.*_current` | `run_risk_update` | calls of one deal finishing together; snapshots ordered by another clock than projections |
| Polling actor (`workers/tasks.py` 16-113) | attempt counter | poll until terminal, 24 attempts | races the webhook; stops on the provider's word |
| Realtime (`services/realtime/pubsub.py`, `api/ws.py`, `frontend/src/hooks/use-call-realtime.ts`) | subscriptions, query cache | publish, relay, refetch, interval poll | a hint published before the subscription is lost |
| Login throttle (`services/auth/service.py`) | failure counter (Redis) | check, verify, record, clear | the check and the increment are apart |
| Dead letters (`core/queue.py`) | Redis list | middleware hook | the hook that is overridden is not the one that runs |
| Stakeholders, deals and memory APIs | rows | CRUD, search | last writer wins |

What makes each correct is what the properties below say; the hazards of the
code, each at its line with the properties that cover it, are in
`PROJECT.json`, and so is the status of every component.

## 2. The modules

| module | models | abstraction |
|---|---|---|
| `BolnaEvents` | payloads, the status map, the idempotency key, terminal and transcript-bearing events | a payload is a record of the fields the code branches on |
| `EventLedger` | what ingestion promises: an event takes effect at most once, atomically | abstract specification |
| `EventKeys` | how the idempotency keys guard the ledger: who has set an event's key is alone with it until it records the event, gives the key back or is lost; nobody looks whether the event is recorded | intermediate specification |
| `CallProgress` | what the pipeline promises: which status may follow which | abstract specification |
| `Ingestion` | `process_bolna_event` with the webhook's answer, one step per await | a transaction is what a handler holds: inserted utterances (`fresh`) and the row lock (`locked`) |
| `CallInit` | `initiate_call`, one step per Redis command, commit and HTTP request | windows end when nobody is in one |
| `Pipeline` | the four stages, Dramatiq, redaction, retention | an artifact is a count per call and stage, and whether its text is unredacted |
| `RiskScoring` | `score_extraction` and `risk_level` | an extraction is the signals the rules read |
| `DealRisk` | `run_risk_update` of several calls of one deal, adding stakeholders | the claim is left to `Pipeline`; a job is one message |
| `Polling` | `poll_execution_status` of every call beside the webhook's handlers, with the adapter's `get_execution` | a run of `process_bolna_event` is two steps, taking the key and recording as `EventLedger` says; both are steps of `EventKeys` |
| `CallPage` | the call page: hints, socket, refetches, when it stops | ingestion and pipeline are `EventLedger` and `CallProgress` |
| `LoginThrottle` | `login` and the counter of failures | a password is right or wrong by choice |
| `Transcript` | `_parse_turns` as a function | a line is a label, if it has one, and whether it says anything |
| `CallTexts` | the texts of one call: turns, what each stage makes of them, users' edits, redaction, search | a text is where it comes from: said in the call, scrubbed, typed by a user, canned |
| `MC...` | small instances of the above | |
| `...Proofs` | theorems | |

How state corresponds to code: variables named after a column or key stand for
it (`status`, `processing`, `idem`, `cooldown`, `counter`); `log` is the
`call_events` table in commit order; `pc` is the await at which a coroutine or
worker thread stands; `queue`, `dead` are Dramatiq's. History variables (in the
groups marked *history*) record what the code does not store and are read by
properties only: no guard mentions them, except that `Pipeline`'s `received`
numbers and bounds the transcripts and tells the retention sweep which calls
have one. `delivered` and `redelivered` bound deliveries. An action is everything the code
does from one await that leaves the process to the next; `PROJECT.json` maps
each definition to its lines.

Decisions of the code that a mistake would get wrong stand in operators of
their own (`Seen`, `RowFree`, `Claimable`, `Reached`, ...). The operator above
each, with a suffix, is a plausible bug: with it in place TLC must find the
property it is paired with in `PROJECT.json` violated.

### Faults

The constant `Faults` says what may go wrong: crashes between any two steps
(PostgreSQL rolls back, Redis keeps), statements that raise, a COMMIT whose
answer is lost, a failing broker, expiring keys (`Ingestion`); crashes, errors,
a provider timeout after acceptance (`CallInit`); a model without a usable
answer, aborts that no `except` clause catches, dead workers, workers taken
for dead, claims a minute old, failing `.send`, redaction (`Pipeline`).
`DealRisk` always allows a rollback and a lost COMMIT. A failing or limited
provider, a job that is not enqueued, statements that raise, a key left behind
(`Polling`); lost hints, connections and requests (`CallPage`); commands of
Redis that fail (`LoginThrottle`, bounded by `MaxOutages`).

### How the modules fit together

`Ingestion` implements `EventKeys`, which implements `EventLedger`, and
`Pipeline` implements `CallProgress` (by refinement mappings, checked by TLC and
proved). `Polling` and `CallPage` build on the abstract specifications, and it
is proved that they add nothing to them: a run of `process_bolna_event` that
`Polling` takes in two steps keeps `EventKeys` as the handlers of `Ingestion`
do step by step, both paths together implement `EventLedger`, and the row that
`CallPage`'s pages read changes as `EventLedger` and `CallProgress` say. So what
they show holds with the detailed modules in their place. `Pipeline` has the workers and their
interleavings with one bit for the text they hold; `CallTexts` has the texts one
by one and takes each stage's reading and writing as two steps. `CallTexts`
extends `Transcript`, so that every turn it stores is a parsed one.

## 3. Runs

All bounds are constants in the `.cfg` files.

| run | instance | what it shows |
|---|---|---|
| `ingest_races` | 3 handlers, 2 calls, 4 payloads (one delivered twice), crash, statement, resolve and broker errors | a key has one owner, an event is recorded once, and `Ingestion` implements `EventKeys` (`KeysGuardEvents`) and `EventLedger` |
| `ingest_faults` | 2 handlers, 1 call, odd payloads (malformed duration, unknown status), lost COMMITs, expiring keys | the session row is the fold of the events, the transcript matches them, the pipeline starts once, no key is left behind, every handler returns |
| `call_init` | 3 requests of 2 users to 2 stakeholders, quota 1, all faults | one call per cooldown, failures are recorded, polling finds the execution, the quota holds unless a counter is clobbered, for the calls whose answer arrives |
| `pipeline_faults` | 1 call, 2 workers, all faults, 2 redeliveries, a retry of extraction and of risk | one worker per call, artifacts once and in order, redaction holds, the status moves as `CallProgress` says |
| `pipeline_settles` | 2 calls of a deal, 2 workers, failing model and database | every transcript is processed, given up or dead-lettered (liveness), and until then there is a worker, a message or a claim that has to do with it (`WorkRemains`) |
| `pipeline_crash` | the crash of a worker | must fail: see *Divergences* |
| `deal_risk` | 3 jobs, 3 stakeholders, 1 retry each | no contact is lost, a known buyer is counted, changes are against the latest snapshot |
| `polling` | 1 call, 4 payloads, 2 attempts, 1 retry, all faults | job and webhook exclude each other; a job stops on an end that is known here (`StopsOnAnEnd`); an end the job was told is recorded; the job ends (liveness) |
| `polling_reopens` | an ordinary call with one webhook, at its end, no faults | must fail: see *Divergences* |
| `call_page` | 1 page, a call whose end is told twice, lost hints, sockets and requests | the page never goes back; one that has stopped soon after the end shows a processing that is over (`StoppedPagesHaveFollowed`); it shows the final status and follows the processing (liveness) |
| `logins` | 3 requests at a time, one account spelled in two ways, limit 2, window of 2 ticks, 1 outage | wrong passwords in a window are bounded, Retry-After is in the window, lockouts end (liveness) |
| `call_texts` | every transcript of up to 3 lines; a plain one with 8 outcomes of extraction, with and without quotes; 2 edits, a redaction | turns keep the words, a redacted call is silent, replies are current |

Why the bounds are enough for what is asked. A race in ingestion needs the
owner of a key, a rival and, to see an owner's deletion hit a third party, one
more: three handlers. Two payloads of one end with different keys reach the
unique index on utterances; a third payload of the call gives a late event, an
event of another call checks that nothing leaks between calls. A cooldown or
quota race needs two requests of one user or stakeholder, and the third is
another user's. A pipeline fault needs the worker that had the call and the
one that takes it up. A lost contact needs two jobs; the third makes the
previous snapshot another job's. A poll races a webhook of the same key and one
with another key; two attempts make a job that has seen an answer go on, and a
retry makes it start again. The end that is told twice gives the page an end to
stop on that another replaces; a second page shares nothing with the first but
the row (the proof is for any number). Three logins are two in flight past a third that
is refused. The edges of the parser (text before the first label, an empty turn,
no label, the last turn) all occur within three lines. Larger instances that are too slow for
routine checking also passed: `call_init` with 4 requests (16 million states),
`pipeline_faults` with a second transcript of the call (10 million),
`deal_risk` without forgetting a finished job's locals (25 million).

`CHECK_DEADLOCK FALSE` is set because every instance really stops: requests and
transcripts are used up. That handlers and workers are not stuck is stated by
`HandlersReturn`, `Settles` and `PollingEnds`. Symmetry is used for handlers, workers
and requests in runs of safety properties only.

### Fairness

`Ingestion!FairSpec`: weak fairness of each handler's own steps. The event loop
resumes a coroutine when its await completes and PostgreSQL grants a released
lock; nothing forces the provider to deliver, or a fault to happen.
`Pipeline!FairSpec`: weak fairness of each worker on receiving and working.
Dramatiq threads take messages while there are any.
`Polling!FairSpec`: weak fairness of each job, whose sleeps and requests end,
and of each webhook's handler, which returns (`HandlersReturn`); the provider
need not go on or send anything. `CallPage!FairSpec`: weak fairness of the
page's interval, and strong fairness of a request's reaching the row and of its
reply: fetches may fail or be cancelled by the next one, but not all of them;
hints and sockets need never come through. `LoginThrottle!FairSpec`: weak
fairness of the clock. No time passes of
necessity in `Pipeline`: a claim need not become stale, so a call that depends on it is not
settled by fairness. Safety properties are checked without fairness.

### Divergences

Two runs must fail, each on a property that quotes a document.

| run | said | done |
|---|---|---|
| `pipeline_crash` | "Background jobs are retry-safe" (`PRD.md:1676`) | a call whose worker dies in `extraction_running` is never taken up again |
| `polling_reopens` | "Event order should be handled defensively" (`PRD.md:1468`) | TLC's trace: the first poll fetches in-progress, the execution completes, the job finds the session not ended and takes the key of its answer, the webhook records the end, the job records in-progress over it (`ingestion.py:187`, `tasks.py:57-76`); the second poll's completed is a duplicate of the webhook and stops the job (`tasks.py:98`): the call stays in progress |

Others are visible in the models and have no run of their own.

- `id` is taken for an event id (`ingestion.py:77`). `PRD.md:446` says that it
  may be the execution's, and `PRD.md:496` asks for a key of execution, status
  and hash when there is no event id. If it is the execution's, every status after the
  first is dropped as a duplicate and answered 200. The payloads of the runs
  have it for at most one event of a call (`Busy` of `MCIngestion`); with such
  payloads `StopsOnAnEnd` fails, and its theorem assumes that keys tell ends
  apart (`KeysTellEnds`).
- Giving a user slot back is GET, DECR, DELETE (`services/call/service.py:110`),
  and erases a slot another request takes in between, although "two requests
  cannot both slip through" (line 64): `QuotaUnlessClobbered` has to exclude it.
- A call whose answer is lost (`services/bolna/adapter.py:89`) is taken for a
  failure: its cooldown and its slot are given back, although the provider may
  be placing it. `OneRecentCall` and `QuotaUnlessClobbered` leave such calls out
  by name (`unheard`).
- A process that dies between SET NX and the commit, and the SELECT outside the
  `try` block when it raises, leave the key for 24 hours
  (`services/bolna/ingestion.py:241-251`), and the provider's retries are
  duplicates of it: `KeyHeldForAReason` is checked without these faults. After a
  COMMIT that took effect and raised, the retry records the event again and, as
  the utterances exist, does not start the pipeline.
- A `.send` that raises is swallowed (`workers/tasks.py:133`) and the chain of
  stages ends there: `Settles` and `WorkRemains` are checked with a broker that
  takes messages.
- After a crash between the provider's acceptance and the commit (line 327) the
  "initiating" row, which "lets webhook / polling recover" (line 309), has no
  id by which either looks it up.
- Concurrent completions "do not corrupt snapshots or projections"
  (`PRD.md:1766`), but a snapshot's `created_at` is when its transaction began
  (`services/risk/service.py:311`) and the deal shows the score of the one that
  got the lock last (line 178): the latest snapshot may have another score.
- Redaction leaves `deals.summary_current`, which the risk update has written
  from the call's summary (`services/risk/service.py:329`). A recommendation
  made later is told it (`services/recommendation/service.py:107`), and so is
  the next call's agent (`services/call/service.py:210`), although the function is
  said to "scrub transcript-derived artifacts" (line 393). `RedactionHolds` and
  `RedactedCallIsSilent` exclude such a recommendation (`exposed`).
- The polling job stops when the provider says the call is over, whether or not
  the event was recorded (`tasks.py:98-101`): a webhook that holds the key and
  then fails leaves the call open (`spoiled` in `ReportedEndIsRecorded`).
- The page takes `recommendation_running` and `failed_retryable` for ends
  (`frontend/src/lib/calls.ts:61`) and stops there, although the processing
  goes on (`PageFollowsProcessing` and `StoppedPagesHaveFollowed` exclude them).
- Text before the first label of a transcript is not stored
  (`services/transcripts/service.py:51`; `TurnsKeepTheWords` says so).
- An error of the model that is not an invalid answer ends the extraction
  without a retry (`services/extraction/service.py:298`; `Terminate`), a
  recommendation of drafts only is followed by no memory documents
  (`Follows`), and the hook meant to record dead letters is `after_skip_message`
  (`core/queue.py:54`), which does not run for exhausted retries. No property
  speaks of these: each is a policy or a missing log, not a wrong state.

## 4. Proofs

All theorems hold for every value of the constants that satisfies the named
assumptions (types of the constants, a positive quota, `Faults` among those
listed). TLC evaluates the assumptions on every run. A theorem that needs more
than these names what it assumes; each such hypothesis is listed below with the
behaviour it leaves out. `TypeOK` is a theorem of every module (`TypeCorrect`,
`TextsAreTyped`), and no run spends a property on it where another says more.

**`IngestionProofs`.** `Inv1` is typing with the fact that a handler past
resolving works on a call whose provider id is committed. `Inv2` says that an owner's
key is in Redis and owners have different keys: alone, exclusion is not
inductive, since an owner could have lost its key to a rival's DELETE. `Inv3`
ties utterances, the open transactions that inserted some, committed transcript
events and jobs together: a handler past the insert either inserted, or the
utterances were committed before. It does not need `Inv2`: the unique index keeps it, so
it holds even when keys expire. From these: `TypeCorrect`, `KeysExclusive`,
`TranscriptsMatchEvents`, `StartedOnce`. `Inv4` (a recorded key is in Redis, and an owner that has not
committed has a key that is not recorded) gives `RecordedOnce`.
`Inv5` adds to
`KeyHeldForAReason` that a handler past its commit has its key recorded
(`KeysHeldForAReason`, from `KeysReturned`: a process that dies, or the SELECT
outside the `try` block, does leave a key). `Inv6` adds to `ProjectionFoldsLog`
that a call without a provider id has no events, so that "queued" overwrites
nothing (`ProjectionsFoldLogs`); appending to a sequence moves the last element
with a property as `LastAppended` says.

The refinement has two parts. `KeysAreGuarded`: every step of a handler is one of
`EventKeys` for the owners' keys, or a stutter. `KeysKeepLedger`: whatever keeps
`EventKeys` keeps `EventLedger`, by the invariant `HeldUnrecorded` (a key that is held is
taken and none of its events is recorded), and with no hypothesis. Together they are `Refinement`.
`RecordedOnce` and `KeysAreGuarded` assume `ReliableKeys`, that neither expiry nor a
lost COMMIT is among the faults: with either the code does record an event
twice, as there is no unique index on `provider_event_id`.

`RunsNeverWedge` is the safety in `HandlersReturn`. A handler waits for another's
utterances or for its session row; it has inserted only in the steps of
`FreshSteps` and has the row only in those of `LockedSteps`, so whoever
is waited for is at a later `Place` (`WaitsHaveAnOrder`). No step of a
run goes back to an earlier place (`RunsGoOn`).

**`CallInitProofs`.** `CoolInv`: from SET NX to DELETE, and from an accepted
call to the end of the window, the cooldown key is one request's; hence
`OneCallPerCooldown`. `RowInv` follows a request's row along its steps; hence
`PollingFindsExecution`, `FailuresRecorded`. `QuotaInv`: while nobody has
deleted a counter with a slot in it, the counter is at least the number of
slots held, and these are at most the quota. `PlacedInv`: a call accepted in
the present window has its slot, unless its answer was lost; such calls come on
top of the quota. Hence `QuotaHolds`, by cardinalities.

**`PipelineProofs`.** `RedactionHolds` is inductive with typing. `OrderInv`
says what a message in the queue or in a worker's hands means (`Due`): that the
artifacts of the earlier stages exist; without it a stage could run on a
message nobody had reason to send. `OwnerInv`: the status of a call names the
stage of the one worker that holds it. `OnceInv`: on a call that never failed
and was never taken over, the status determines which artifacts exist
(`Straight`, `After`). Hence `ArtifactsFollow`, `CallsHaveOneWorker`,
`ArtifactsAreProducedOnce`. `ProgressInv` (a call with a status has received
a transcript, and only an extraction gives up) makes every step one of
`CallProgress` or a stutter: `StagesAreFollowed`.

`NoCallIsLeftBehind` is the safety in `Settles`: a call that is not settled
has a message in the queue or in a worker's hands (`WorkRemains`). It is
inductive with `TypeOK` and `OrderInv`: a stage hands its call to its follower (`Waits`,
`Tells`), and one that cannot claim leaves it to whoever can. It assumes that `abort`,
`crash` and `broker` are not among the faults: a worker that
dies with a claim, or a `.send` whose error is swallowed, does leave a call behind.

**`DealRiskProofs`.** `LockInv`: at most one job is between lock and commit,
and what it has read, stakeholders added since excepted, and the snapshot it
compares with are still current;
hence the coverage, the buyer and the comparison. `GoodNewsLowersRisk` is a
lemma about the scoring rules for every extraction and needs no state machine.

**`PollingProofs`.** `WritersExclude` needs that a job works on a payload
(`WorkHasAnswer`), a handler on one of a call (`EventsHaveCalls`), and that
neither two handlers nor two jobs hold one key (`HoldersDiffer`): else the commit
of one would leave the other with an event that is recorded. The same invariant
makes every step one of `EventLedger` (`ImplementsLedger`) and one of `EventKeys`
(`ImplementsKeys`), for the keys in the hands of a handler or a job (`Held`). `CallsAreTold` is
argued from the steps of `EventLedger` alone, and so holds of whatever
implements it.

`JobsStopOnAnEnd` is the safety in `ReportedEndIsRecorded`. `KeysAccounted`: a key
that is taken stands for an event that is recorded, one about to be, or one
whose run has failed (`spoiled`). So a job that has read an end and found its
key taken has reason to stop (`StopsKnowing`). It assumes `KeysTellEnds`, that events with one key
are of one call and all end it or none does: section 3 tells of the payloads
for which it is false. `JobsAlwaysGoOn` is the safety in `PollingEnds`: every step of a
job takes it to a later place, attempt or delivery.

**`CallPageProofs`.** `RepliesAreNewer`: a page has one request, since starting
another cancels or joins it, and the row read for it is not older than what
the page shows.
With `LastEndExists` (what `EndedAt` chooses exists) it gives the action property
`PageNeverGoesBack`, for any number of pages. `OversTrue`: a row whose processing is
over has the processing the call has now, as no stage starts after it; hence
`PagesFollowToTheEnd`, the safety in `PageFollowsProcessing`. The rows the pages read are those of `EventLedger`
and `CallProgress` (`RowsImplementLedger`, `RowsImplementProgress`), so what the pages are shown
is what `Ingestion` and `Pipeline` write.

**`LoginThrottleProofs`.** `GuessesCounted`: a wrong password is counted, about
to be, or one that Redis failed to count. `AdmissionBounded`: those let through and
not counted yet fit beside the count, at most one for each request the server
runs. `GuessesBounded` follows by cardinalities of the sets of handlers.
`LockoutsWane` is the safety in `LockoutEnds`: a counter has an expiry
(`CountersExpire`), and while an account is locked nobody is let through, and only one
of those under way, who become fewer, renews the window.

**`CallTextsProofs`.** `SnapshotsHonest` and `NothingHeld`: after a redaction
that met no stage at work, what is in the tables and in the stages' hands has no
words of the call. `InTheirTurn`: the deal has no summary while the risk update
runs, so that this one cannot bring the words to a recommendation that is
running. `CommitsCounted` and `RowStays` give `ReplyIsCurrent`. `Speakers` and
`Built` are lemmas about the parser and the documents. `WordsAreKept` is about
`ParseTurns` of any transcript: its turns, one after the other, have the words
that follow the first label, in their order, or all the words when no label says
anything, and there are none only of a blank one; `TurnsParsed`, that nothing
or all of them is stored. Hence `TurnsKeepWhatWasSaid`. It needs no induction,
as the turns are given by the ordered set of the lines with labels.

Only model-checked: liveness (`HandlersReturn`, `Settles`,
`ReportedEndIsRecorded`, `PollingEnds`, `PageShowsFinalStatus`,
`PageFollowsProcessing`, `LockoutEnds`), which is beyond this prover. But for
`PageShowsFinalStatus` the safety each of them rests on is proved, as said above; what is left to TLC and to
fairness is that steps which can be taken are taken.

## 5. What is not modelled

The wording of prompts, answers and summaries (a text is its origin); the
ranking of search results; HTTP, JSON and address checks that refuse a delivery
without a state change; tokens and password hashing, the read endpoints,
configuration, logging, migrations, the payload capture and the other pages:
pure or single-statement code. PostgreSQL (READ COMMITTED, row locks, unique indexes), Redis and
Dramatiq are modelled from how the code uses them.

## 6. Plan

Done: `Ingestion` with `EventLedger` and `EventKeys`, `CallInit`, `Pipeline` with
`CallProgress`, `RiskScoring` and `DealRisk`, `Polling`, `CallPage`,
`LoginThrottle`, `Transcript` and `CallTexts`, each with its proofs; `Polling`
and `CallPage` as implementations of the ledger they share. Left:

1. `CallSystem`: initiation, `EventLedger` and `CallProgress` composed over one
   session row, to state end-to-end properties (an accepted call ends with its
   recommendations or a visible failure).
2. What whoever implements `CallProgress` keeps, argued from its steps alone as
   `CallsAreTold` is from those of `EventLedger`.
