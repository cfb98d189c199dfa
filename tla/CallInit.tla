------------------------------- MODULE CallInit -------------------------------
(***************************************************************************)
(* Placing a call: POST /api/deals/{deal}/calls (api/calls.py) and         *)
(* initiate_call (services/call/service.py), with the two Redis guards it  *)
(* takes before dialling (a quota per user, a cooldown per stakeholder),   *)
(* the CallSession row it writes and the provider it calls.                *)
(*                                                                         *)
(* A request is one run of the route.  Each Redis command, commit and HTTP *)
(* call is an atomic step, so requests interleave between them; in         *)
(* particular giving a user slot back is GET, DECR and perhaps DELETE.     *)
(***************************************************************************)
EXTENDS Integers, FiniteSets

CONSTANTS
    Requests,          \* requests made (each once)
    Users,
    Stakeholders,
    UserOf,            \* the user who makes a request
    StakeholderOf,     \* the stakeholder a request calls
    Quota,             \* CALL_INIT_MAX_PER_USER_WINDOW
    NoKey,             \* an absent Redis key
    Faults             \* which failures of the environment may happen

AllFaults == {"crash",     \* the API process dies
              "error",     \* a query, a commit or the broker raises
              "timeout"}   \* the provider accepts, its answer is lost

ASSUME RequestAssumption ==
    /\ UserOf \in [Requests -> Users]
    /\ StakeholderOf \in [Requests -> Stakeholders]
ASSUME QuotaAssumption == Quota \in Nat \ {0}
ASSUME NoKeyAssumption == NoKey \notin Int
ASSUME FaultAssumption == Faults \subseteq AllFaults

VARIABLES
    counter,     \* Redis: slots counted for each user, or NoKey
    cooldown,    \* Redis: stakeholders whose cooldown key exists
    row,         \* PostgreSQL: status of the CallSession of a request
    published,   \* requests whose provider_call_id is committed
    accepted,    \* calls the provider has accepted
    polling,     \* requests whose polling job was enqueued
    pc,
    (* History: what the present windows of 10 and 5 minutes have seen.    *)
    reserved,    \* requests that hold a user slot of the present window
    recent,      \* calls accepted within the present cooldown
    inWindow,    \* calls accepted within the present window of their user
    unheard,     \* accepted calls whose answer from the provider was lost
    clobbered    \* users whose counter was deleted with a slot in it

redisVars == <<counter, cooldown>>
dbVars    == <<row, published>>
envVars   == <<accepted, polling>>
history   == <<reserved, recent, inWindow, unheard, clobbered>>
vars == <<redisVars, dbVars, envVars, pc, history>>

\* How a request ends: the answers 201, 404, 429, 502, 500, or none.
Answers == {"placed", "refused", "limited", "unplaced", "errored", "crashed"}

Steps == Answers \cup
    {"start", "cool", "build", "dial", "publish", "enqueue", "uncool",
     "read", "decrement", "drop", "fail"}

Active(r) == pc[r] \notin Answers \cup {"start"}

\* Steps at which the cooldown key of the stakeholder is this request's.
Cooling == {"build", "dial", "publish", "enqueue", "uncool"}

Init ==
    /\ counter = [u \in Users |-> NoKey]
    /\ cooldown = {}
    /\ row = [r \in Requests |-> "none"]
    /\ published = {} /\ accepted = {} /\ polling = {}
    /\ pc = [r \in Requests |-> "start"]
    /\ reserved = {} /\ recent = {} /\ inWindow = {} /\ unheard = {} /\ clobbered = {}

Goto(r, step) == pc' = [pc EXCEPT ![r] = step]

\* The value INCR and DECR start from.
Count(u) == IF counter[u] = NoKey THEN 0 ELSE counter[u]

Placed(u) == {r \in inWindow \ unheard : UserOf[r] = u}

-----------------------------------------------------------------------------
(* The decisions of the code; a mutant of each is a bug a run must find.   *)

\* INCR returned more than the quota.  Mutant: the test is off by one.
OverQuota_OffByOne(n) == n > Quota + 1
OverQuota(n) == n > Quota

\* SET NX succeeds.  Mutant: SET without NX.
CoolFree_WithoutNX(s) == TRUE
CoolFree(s) == s \notin cooldown

\* Where a slot release returns to: the 429 of a cooling stakeholder or the
\* 502 of a provider failure.  Mutant: a failed row is not written.
AfterRelease_Unmarked(r) == IF row[r] = "none" THEN "limited" ELSE "unplaced"
AfterRelease(r) == IF row[r] = "none" THEN "limited" ELSE "fail"

\* The status of a placed call.  Mutant: the provider's own word for it.
Placing_Raw == "scheduled"
Placing == "queued"

\* What follows a successful dial.  Mutant: polling is enqueued first.
AfterDial_PollFirst(r) == "enqueue"
AfterDial(r) == "publish"

-----------------------------------------------------------------------------
(* The deal, the stakeholder or its phone number is missing: 404.          *)
Refuse(r) ==
    /\ pc[r] = "start"
    /\ Goto(r, "refused")
    /\ UNCHANGED <<redisVars, dbVars, envVars, history>>

(* INCR and EXPIRE in one MULTI; over the quota the slot stays counted.    *)
AcquireUserSlot(r) ==
    LET u == UserOf[r]  n == Count(u) + 1 IN
    /\ pc[r] = "start"
    /\ counter' = [counter EXCEPT ![u] = n]
    /\ \/ /\ OverQuota(n)
          /\ Goto(r, "limited")
          /\ UNCHANGED reserved
       \/ /\ ~OverQuota(n)
          /\ Goto(r, "cool")
          /\ reserved' = reserved \cup {r}
    /\ UNCHANGED <<cooldown, dbVars, envVars, recent, inWindow, unheard, clobbered>>

(* SET NX EX; when it fails the user slot is given back.                   *)
AcquireStakeholderSlot(r) ==
    LET s == StakeholderOf[r] IN
    /\ pc[r] = "cool"
    /\ cooldown' = cooldown \cup {s}
    /\ Goto(r, IF CoolFree(s) THEN "build" ELSE "read")
    /\ UNCHANGED <<counter, dbVars, envVars, history>>

(* Releasing the user slot: GET, and nothing more if the key is gone.      *)
ReadCounter(r) ==
    /\ pc[r] = "read"
    /\ Goto(r, IF counter[UserOf[r]] = NoKey THEN AfterRelease(r) ELSE "decrement")
    /\ UNCHANGED <<redisVars, dbVars, envVars, history>>

Decrement(r) ==
    LET u == UserOf[r]  n == Count(u) - 1 IN
    /\ pc[r] = "decrement"
    /\ counter' = [counter EXCEPT ![u] = n]
    /\ reserved' = reserved \ {r}
    /\ Goto(r, IF n <= 0 THEN "drop" ELSE AfterRelease(r))
    /\ UNCHANGED <<cooldown, dbVars, envVars, recent, inWindow, unheard, clobbered>>

(* DELETE, whatever the key holds by now.                                  *)
DropCounter(r) ==
    LET u == UserOf[r] IN
    /\ pc[r] = "drop"
    /\ counter' = [counter EXCEPT ![u] = NoKey]
    /\ clobbered' = IF Count(u) > 0 THEN clobbered \cup {u} ELSE clobbered
    /\ Goto(r, AfterRelease(r))
    /\ UNCHANGED <<cooldown, dbVars, envVars, reserved, recent, inWindow, unheard>>

(* The context is read and the "initiating" row committed.                 *)
InsertSession(r) ==
    /\ pc[r] = "build"
    /\ row' = [row EXCEPT ![r] = "initiating"]
    /\ Goto(r, "dial")
    /\ UNCHANGED <<redisVars, published, envVars, history>>

Accept(r) ==
    /\ accepted' = accepted \cup {r}
    /\ recent' = recent \cup {r}
    /\ inWindow' = inWindow \cup {r}

(* The provider accepts the call; refuses it (or is out of reach); or      *)
(* accepts it and the adapter times out, which it reports as a failure.    *)
Dial(r) ==
    /\ pc[r] = "dial"
    /\ \/ Accept(r) /\ Goto(r, AfterDial(r)) /\ UNCHANGED unheard
       \/ Goto(r, "uncool") /\ UNCHANGED <<accepted, recent, inWindow, unheard>>
       \/ /\ "timeout" \in Faults
          /\ Accept(r) /\ Goto(r, "uncool")
          /\ unheard' = unheard \cup {r}
    /\ UNCHANGED <<redisVars, dbVars, polling, reserved, clobbered>>

(* The route commits the provider's id and the status "queued".            *)
PublishSession(r) ==
    /\ pc[r] = "publish"
    /\ row' = [row EXCEPT ![r] = Placing]
    /\ published' = published \cup {r}
    /\ Goto(r, "enqueue")
    /\ UNCHANGED <<redisVars, envVars, history>>

EnqueuePoll(r) ==
    /\ pc[r] = "enqueue"
    /\ polling' = polling \cup {r}
    /\ Goto(r, "placed")
    /\ UNCHANGED <<redisVars, dbVars, accepted, history>>

ReleaseStakeholderSlot(r) ==
    /\ pc[r] = "uncool"
    /\ cooldown' = cooldown \ {StakeholderOf[r]}
    /\ Goto(r, "read")
    /\ UNCHANGED <<counter, dbVars, envVars, history>>

(* The route commits the status "failed" and answers 502.                  *)
FailSession(r) ==
    /\ pc[r] = "fail"
    /\ row' = [row EXCEPT ![r] = "failed"]
    /\ Goto(r, "unplaced")
    /\ UNCHANGED <<redisVars, published, envVars, history>>

(* A query (the stakeholder has two summaries, the database is away), a    *)
(* commit, the refresh before dialling or the broker raises: a 500 that    *)
(* gives nothing back.  Redis is taken to answer.                          *)
Error(r) ==
    /\ "error" \in Faults
    /\ pc[r] \in {"build", "dial", "publish", "enqueue", "fail"}
    /\ Goto(r, "errored")
    /\ UNCHANGED <<redisVars, dbVars, envVars, history>>

Crash(r) ==
    /\ "crash" \in Faults
    /\ Active(r)
    /\ Goto(r, "crashed")
    /\ UNCHANGED <<redisVars, dbVars, envVars, history>>

(* Ten minutes without an attempt of the user end the quota window.  No    *)
(* request lasts that long.  A counter below zero is one that DECR created *)
(* and a crash kept from being deleted: it has no TTL.                     *)
ExpireQuota(u) ==
    /\ \A r \in Requests : UserOf[r] = u => ~Active(r)
    /\ counter[u] # NoKey /\ counter[u] >= 0
    /\ counter' = [counter EXCEPT ![u] = NoKey]
    /\ reserved' = {r \in reserved : UserOf[r] # u}
    /\ inWindow' = {r \in inWindow : UserOf[r] # u}
    /\ clobbered' = clobbered \ {u}
    /\ UNCHANGED <<cooldown, dbVars, envVars, pc, recent, unheard>>

(* Five minutes pass after the last call to the stakeholder.               *)
ExpireCooldown(s) ==
    /\ \A r \in Requests : StakeholderOf[r] = s => ~Active(r)
    /\ cooldown' = cooldown \ {s}
    /\ recent' = {r \in recent : StakeholderOf[r] # s}
    /\ UNCHANGED <<counter, dbVars, envVars, pc, reserved, inWindow, unheard, clobbered>>

Handle(r) ==
    \/ Refuse(r) \/ AcquireUserSlot(r) \/ AcquireStakeholderSlot(r)
    \/ ReadCounter(r) \/ Decrement(r) \/ DropCounter(r)
    \/ InsertSession(r) \/ Dial(r) \/ PublishSession(r) \/ EnqueuePoll(r)
    \/ ReleaseStakeholderSlot(r) \/ FailSession(r) \/ Error(r) \/ Crash(r)

Next ==
    \/ \E r \in Requests : Handle(r)
    \/ \E u \in Users : ExpireQuota(u)
    \/ \E s \in Stakeholders : ExpireCooldown(s)

Spec == Init /\ [][Next]_vars

-----------------------------------------------------------------------------
(* Properties.                                                             *)

TypeOK ==
    /\ counter \in [Users -> Int \cup {NoKey}]
    /\ cooldown \subseteq Stakeholders
    /\ row \in [Requests -> {"none", "initiating", "queued", "failed"}]
    /\ published \subseteq Requests /\ accepted \subseteq Requests
    /\ polling \subseteq Requests
    /\ pc \in [Requests -> Steps]
    /\ reserved \subseteq Requests /\ recent \subseteq Requests
    /\ inWindow \subseteq Requests /\ unheard \subseteq Requests
    /\ clobbered \subseteq Users

\* A stakeholder's phone rings once per cooldown (PRD.md:1538), however many
\* users and requests race and whichever of them crash or fail; a request
\* never gives back a cooldown that another one took.  Only a call whose
\* answer was lost, which the code takes for a failure, may ring besides.
OneRecentCall ==
    \A q, r \in recent \ unheard : StakeholderOf[q] = StakeholderOf[r] => q = r

\* The polling job of a call always finds the provider's id, and an id is
\* committed only for a call the provider accepted (tasks.py:43 gives up
\* without it).
PollFindsExecution ==
    /\ polling \subseteq published
    /\ published \subseteq accepted
    /\ \A r \in Requests : r \in published <=> row[r] = "queued"

\* A request the user is told has failed at the provider leaves a failed row.
FailureIsRecorded ==
    \A r \in Requests : pc[r] = "unplaced" => row[r] = "failed" /\ r \notin published

\* The quota of calls placed per user and window holds, however many requests
\* race, fail or crash, unless a releasing request deletes the counter after
\* another one has incremented it.  A call whose answer was lost is not counted
\* either: the code takes it for a failure and gives its slot back
\* (adapter.py:89, call/service.py:349), so that it comes on top of the quota.
QuotaUnlessClobbered ==
    \A u \in Users \ clobbered : Cardinality(Placed(u)) <= Quota
=============================================================================
