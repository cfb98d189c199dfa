------------------------------ MODULE DealRisk ------------------------------
(***************************************************************************)
(* The risk updates of one deal (services/risk/service.py, run_risk_update *)
(* after its claim): calls of the deal that finish at the same time each   *)
(* lock the deal row, read the stakeholders and the latest risk snapshot,  *)
(* score the extraction and commit snapshots and projections, while users  *)
(* add stakeholders (services/stakeholder/service.py).                     *)
(*                                                                         *)
(* A job is one compute_risk message of a call.  What a transaction writes *)
(* is visible at its commit; created_at of a snapshot is now(), the time   *)
(* at which its transaction began, before it waited for the lock.          *)
(***************************************************************************)
EXTENDS RiskScoring, Sequences, FiniteSets

CONSTANTS
    Jobs,          \* risk updates of calls of the deal
    Stakeholders,  \* that the deal has or may get
    Target,        \* the stakeholder a job's call was with
    Extraction,    \* the latest extraction of a job's call
    MaxRetries     \* max_retries of compute_risk

ASSUME JobAssumption ==
    /\ Target \in [Jobs -> Stakeholders]
    /\ Extraction \in [Jobs -> Extractions]
    /\ MaxRetries \in Nat

VARIABLES
    (* PostgreSQL, committed *)
    members,    \* stakeholders of the deal
    contacted,  \* those with a last_contacted_at
    role,       \* Stakeholder.role_label_current
    snapshots,  \* RiskSnapshot and DealSnapshot rows, in the order of commits
    deal,       \* the projections on the deal
    (* time *)
    clock,
    (* a job *)
    pc, created, view, compared, retries,
    (* history *)
    late        \* members that the job whose projection stands has not read

dbVars  == <<members, contacted, role, snapshots, deal>>
jobVars == <<pc, created, view, compared, retries>>
vars == <<dbVars, clock, jobVars, late>>

Coverages == {"none", "partial", "full"}

NoView == [members |-> {}, contacted |-> {}, buyer |-> FALSE]

NotScored == [score |-> 0, level |-> "low", coverage |-> "none"]

Holding(j) == pc[j] \in {"read", "compare", "write"}

Init ==
    /\ members \in SUBSET Stakeholders
    /\ contacted = {}
    /\ role = [s \in Stakeholders |-> "unknown"]
    /\ snapshots = <<>> /\ deal = NotScored
    /\ clock = 0
    /\ pc = [j \in Jobs |-> "ready"]
    /\ created = [j \in Jobs |-> 0]
    /\ view = [j \in Jobs |-> NoView]
    /\ compared = [j \in Jobs |-> 0]
    /\ retries = [j \in Jobs |-> 0]
    /\ late = {}

Goto(j, step) == pc' = [pc EXCEPT ![j] = step]

\* The session is closed.
Leave(j) ==
    /\ created' = [created EXCEPT ![j] = 0]
    /\ view' = [view EXCEPT ![j] = NoView]
    /\ compared' = [compared EXCEPT ![j] = 0]

\* The row k is one a query for the latest of the first n snapshots may
\* answer: ORDER BY created_at DESC LIMIT 1.
IsLatest(k, n) ==
    /\ k \in 1 .. n
    /\ \A m \in 1 .. n : snapshots[m].created <= snapshots[k].created

-----------------------------------------------------------------------------
(* The decisions of the code; a mutant of each is a bug a run must find.   *)

\* SELECT ... FOR UPDATE of the deal returns.  Mutant: a plain SELECT.
DealFree_NoLock(j) == TRUE
DealFree(j) == \A i \in Jobs : ~Holding(i)

\* Coverage counts the call's own stakeholder, whose last_contacted_at was
\* just set.  Mutant: the rows as they were read.
Reached_AsRead(j) == view[j].contacted
Reached(j) == view[j].contacted \cup {Target[j]}

\* Mutant: only the extraction is asked for an economic buyer.
HasEconomicBuyer_OwnCall(j) == Extraction[j].role = "economic_buyer"
HasEconomicBuyer(j) == view[j].buyer \/ Extraction[j].role = "economic_buyer"

Coverage(M, C) ==
    CASE M = {} \/ M \cap C = {} -> "none"
      [] M # {} /\ M \subseteq C -> "full"
      [] M \cap C # {} /\ ~(M \subseteq C) -> "partial"

-----------------------------------------------------------------------------
\* The first statement after the claim's commit begins a transaction.
Begin(j) ==
    /\ pc[j] = "ready"
    /\ Target[j] \in members
    /\ clock' = clock + 1
    /\ created' = [created EXCEPT ![j] = clock + 1]
    /\ Goto(j, "lock")
    /\ UNCHANGED <<dbVars, view, compared, retries, late>>

LockDeal(j) ==
    /\ pc[j] = "lock"
    /\ DealFree(j)
    /\ Goto(j, "read")
    /\ UNCHANGED <<dbVars, clock, created, view, compared, retries, late>>

ReadStakeholders(j) ==
    /\ pc[j] = "read"
    /\ view' = [view EXCEPT ![j] =
         [members   |-> members,
          contacted |-> contacted,
          buyer     |-> \E s \in members : role[s] = "economic_buyer"]]
    /\ Goto(j, "compare")
    /\ UNCHANGED <<dbVars, clock, created, compared, retries, late>>

\* The snapshot the change summary compares with; 0 if there is none.
ReadPrevious(j) ==
    /\ pc[j] = "compare"
    /\ \E k \in 0 .. Len(snapshots) :
         /\ IF snapshots = <<>> THEN k = 0 ELSE IsLatest(k, Len(snapshots))
         /\ compared' = [compared EXCEPT ![j] = k]
    /\ Goto(j, "write")
    /\ UNCHANGED <<dbVars, clock, created, view, retries, late>>

\* The transaction of j takes effect.  An unknown role keeps the known one.
Persist(j) ==
    LET buyer    == HasEconomicBuyer(j)
        score    == Score(Extraction[j], Cardinality(view[j].members), buyer)
        coverage == Coverage(view[j].members, Reached(j))
    IN
    /\ contacted' = contacted \cup {Target[j]}
    /\ role' = IF Extraction[j].role = "unknown" THEN role
               ELSE [role EXCEPT ![Target[j]] = Extraction[j].role]
    /\ snapshots' = Append(snapshots,
         [job |-> j, created |-> created[j], score |-> score, buyer |-> buyer,
          compared |-> compared[j]])
    /\ deal' = [score |-> score, level |-> Level(score), coverage |-> coverage]
    /\ late' = members \ view[j].members

Commit(j) ==
    /\ pc[j] = "write"
    /\ Persist(j)
    /\ Goto(j, "done") /\ Leave(j)
    /\ UNCHANGED <<members, clock, retries>>

\* The session is rolled back, the call becomes failed_retryable, Dramatiq
\* delivers the job again while it has retries left.
Retry(j) ==
    IF retries[j] < MaxRetries
    THEN retries' = [retries EXCEPT ![j] = @ + 1] /\ Goto(j, "ready")
    ELSE UNCHANGED retries /\ Goto(j, "failed")

\* A statement raises, or the worker dies and the server drops its session.
Rollback(j) ==
    /\ pc[j] = "lock" \/ Holding(j)
    /\ Retry(j) /\ Leave(j)
    /\ UNCHANGED <<dbVars, clock, late>>

\* COMMIT takes effect but its answer is lost: an exception for the service.
CommitLost(j) ==
    /\ pc[j] = "write"
    /\ Persist(j)
    /\ Retry(j) /\ Leave(j)
    /\ UNCHANGED <<members, clock>>

AddStakeholder(s) ==
    /\ s \notin members
    /\ members' = members \cup {s}
    /\ late' = late \cup {s}
    /\ UNCHANGED <<contacted, role, snapshots, deal, clock, jobVars>>

Next ==
    \/ \E j \in Jobs :
         \/ Begin(j) \/ LockDeal(j) \/ ReadStakeholders(j) \/ ReadPrevious(j)
         \/ Commit(j) \/ Rollback(j) \/ CommitLost(j)
    \/ \E s \in Stakeholders : AddStakeholder(s)

Spec == Init /\ [][Next]_vars

-----------------------------------------------------------------------------
(* Properties.                                                             *)

TypeOK ==
    /\ members \subseteq Stakeholders /\ contacted \subseteq Stakeholders
    /\ late \subseteq members
    /\ role \in [Stakeholders -> RoleLabels]
    /\ snapshots \in Seq([job : Jobs, created : Nat, score : 0 .. 100,
                          buyer : BOOLEAN, compared : Nat])
    /\ deal \in [score : 0 .. 100, level : Levels, coverage : Coverages]
    /\ clock \in Nat
    /\ pc \in [Jobs -> {"ready", "lock", "read", "compare", "write", "done", "failed"}]
    /\ created \in [Jobs -> Nat]
    /\ view \in [Jobs -> [members : SUBSET Stakeholders, contacted : SUBSET Stakeholders,
                          buyer : BOOLEAN]]
    /\ compared \in [Jobs -> Nat]
    /\ retries \in [Jobs -> 0 .. MaxRetries]

\* No contact is lost when calls with several stakeholders finish at once:
\* the coverage on the deal counts every stakeholder contacted so far,
\* among those the last update could read.
CoverageTellsContacts ==
    snapshots # <<>> => deal.coverage = Coverage(members \ late, contacted)

\* A deal one of whose stakeholders is known to be the economic buyer is not
\* scored as one without, whichever call found the buyer.
BuyerIsCounted ==
    (\E s \in members : role[s] = "economic_buyer") =>
        snapshots # <<>> /\ snapshots[Len(snapshots)].buyer

\* The changes a snapshot reports are those against the latest snapshot
\* there was when it was committed, not one that another call's replaced.
ComparedWithLatest ==
    \A n \in 1 .. Len(snapshots) :
        IF n = 1 THEN snapshots[n].compared = 0
        ELSE IsLatest(snapshots[n].compared, n - 1)
=============================================================================
