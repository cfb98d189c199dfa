--------------------------- MODULE DealRiskProofs ---------------------------
(***************************************************************************)
(* Proofs about RiskScoring and DealRisk, for any calls, stakeholders,     *)
(* extractions and retries.                                                *)
(***************************************************************************)
EXTENDS DealRisk, TLAPS

(* Scores.                                                                 *)

\* The rules add up to a number; objections, to at most 15 points.
LEMMA PointsAreNatural ==
    ASSUME NEW x \in Extractions, NEW n, NEW b \in BOOLEAN
    PROVE  Points(x, n, b) \in Nat /\ ObjectionPoints(x) \in 0 .. 15
<1>1. ObjectionPoints(x) \in 0 .. 15
  BY DEF ObjectionPoints, Extractions
<1> QED
  BY <1>1 DEF Points, PointsIf

\* A score is between 0 and 100 and has a level (min(score, 100), scoring.py).
LEMMA ScoreRange ==
    ASSUME NEW x \in Extractions, NEW n, NEW b \in BOOLEAN
    PROVE  Score(x, n, b) \in 0 .. 100 /\ Level(Score(x, n, b)) \in Levels
<1>1. Score(x, n, b) \in 0 .. 100
  BY PointsAreNatural DEF Score, Capped
<1> QED
  BY <1>1 DEF Level, Levels

\* How serious a level is.
Rank(level) ==
    CASE level = "low" -> 0 [] level = "medium" -> 1
      [] level = "high" -> 2 [] level = "critical" -> 3

\* The levels change after 25, 50 and 75.
LEMMA RankOfScore ==
    ASSUME NEW s \in 0 .. 100
    PROVE  Rank(Level(s)) = IF s <= 25 THEN 0 ELSE IF s <= 50 THEN 1
                            ELSE IF s <= 75 THEN 2 ELSE 3
<1>1. CASE s <= 25
  BY <1>1 DEF Rank, Level
<1>2. CASE s > 25 /\ s <= 50
  <2>1. Level(s) = "medium"
    BY <1>2 DEF Level
  <2> QED
    BY <1>2, <2>1 DEF Rank
<1>3. CASE s > 50 /\ s <= 75
  <2>1. Level(s) = "high"
    BY <1>3 DEF Level
  <2> QED
    BY <1>3, <2>1 DEF Rank
<1>4. CASE s > 75
  <2>1. Level(s) = "critical"
    BY <1>4 DEF Level
  <2> QED
    BY <1>4, <2>1 DEF Rank
<1> QED
  BY <1>1, <1>2, <1>3, <1>4

(* Good news never makes a deal look worse: an economic buyer or another   *)
(* stakeholder raises neither the score nor the level (scoring.py).        *)
THEOREM GoodNewsLowersRisk ==
    ASSUME NEW x \in Extractions, NEW b \in BOOLEAN,
           NEW m \in Nat, NEW n \in Nat, m <= n
    PROVE  /\ Score(x, n, b) <= Score(x, m, b)
           /\ Score(x, m, TRUE) <= Score(x, m, FALSE)
           /\ Rank(Level(Score(x, n, b))) <= Rank(Level(Score(x, m, b)))
<1>1. /\ Points(x, n, b) \in Nat /\ Points(x, m, b) \in Nat
      /\ Points(x, m, TRUE) \in Nat /\ Points(x, m, FALSE) \in Nat
  BY PointsAreNatural
<1>2. ObjectionPoints(x) \in Nat
  BY PointsAreNatural
<1>3. Points(x, n, b) <= Points(x, m, b)
  BY <1>2 DEF Points, PointsIf
<1>4. Points(x, m, TRUE) <= Points(x, m, FALSE)
  BY <1>2 DEF Points, PointsIf
<1>5. Score(x, n, b) <= Score(x, m, b) /\ Score(x, m, TRUE) <= Score(x, m, FALSE)
  <2>1. ASSUME NEW p \in Nat, NEW q \in Nat, p <= q PROVE Capped(p) <= Capped(q)
    BY <2>1 DEF Capped
  <2> QED
    BY <1>1, <1>3, <1>4, <2>1 DEF Score
<1>6. Score(x, n, b) \in 0 .. 100 /\ Score(x, m, b) \in 0 .. 100
  BY ScoreRange
<1>7. ASSUME NEW s \in 0 .. 100, NEW t \in 0 .. 100, s <= t
      PROVE  Rank(Level(s)) <= Rank(Level(t))
  <2>1. Rank(Level(s)) = IF s <= 25 THEN 0 ELSE IF s <= 50 THEN 1 ELSE IF s <= 75 THEN 2 ELSE 3
    BY RankOfScore
  <2>2. Rank(Level(t)) = IF t <= 25 THEN 0 ELSE IF t <= 50 THEN 1 ELSE IF t <= 75 THEN 2 ELSE 3
    BY RankOfScore
  <2> QED
    BY <1>7, <2>1, <2>2
<1> QED
  BY <1>5, <1>6, <1>7

-----------------------------------------------------------------------------
Snapshot == [job : Jobs, created : Nat, score : 0 .. 100, buyer : BOOLEAN, compared : Nat]

\* The record that the commit of j appends.
Recorded(j) ==
    [job |-> j, created |-> created[j],
     score |-> Score(Extraction[j], Cardinality(view[j].members), HasEconomicBuyer(j)),
     buyer |-> HasEconomicBuyer(j), compared |-> compared[j]]

\* A commit writes what the job prepared, whether or not it hears of it.
LEMMA CommitWrites ==
    ASSUME NEW j \in Jobs, Commit(j) \/ CommitLost(j)
    PROVE  pc[j] = "write" /\ Persist(j)
BY DEF Commit, CommitLost

\* What a commit writes is well typed.
LEMMA PersistTypes ==
    ASSUME TypeOK, NEW j \in Jobs, Persist(j)
    PROVE  /\ Recorded(j) \in Snapshot
           /\ snapshots' = Append(snapshots, Recorded(j))
           /\ snapshots' \in Seq(Snapshot)
           /\ deal' \in [score : 0 .. 100, level : Levels, coverage : Coverages]
           /\ role' \in [Stakeholders -> RoleLabels]
<1>1. Extraction[j] \in Extractions /\ Extraction[j].role \in RoleLabels
  BY JobAssumption DEF Extractions
<1>2. HasEconomicBuyer(j) \in BOOLEAN
  BY DEF HasEconomicBuyer, TypeOK
<1>3. /\ Recorded(j).score \in 0 .. 100
      /\ Level(Recorded(j).score) \in Levels
  BY <1>1, <1>2, ScoreRange DEF Recorded
<1>4. Recorded(j) \in Snapshot
  BY <1>2, <1>3 DEF Recorded, Snapshot, TypeOK
<1>5. Coverage(view[j].members, Reached(j)) \in Coverages
  BY DEF Coverage, Coverages
<1>6. snapshots' = Append(snapshots, Recorded(j))
  BY DEF Persist, Recorded
<1>7. snapshots' \in Seq(Snapshot)
  BY <1>4, <1>6 DEF TypeOK, Snapshot
<1>8. deal' \in [score : 0 .. 100, level : Levels, coverage : Coverages]
  BY <1>3, <1>5 DEF Persist, Recorded
<1>9. role' \in [Stakeholders -> RoleLabels]
  BY <1>1, JobAssumption DEF Persist, TypeOK
<1> QED
  BY <1>4, <1>6, <1>7, <1>8, <1>9

\* A job that is over, or retried, is well typed.
LEMMA LeaveTypes ==
    ASSUME TypeOK, NEW j \in Jobs, Leave(j),
           (Goto(j, "done") /\ UNCHANGED retries) \/ Retry(j)
    PROVE  /\ pc' \in [Jobs -> {"ready", "lock", "read", "compare", "write", "done", "failed"}]
           /\ created' \in [Jobs -> Nat]
           /\ view' \in [Jobs -> [members : SUBSET Stakeholders,
                                  contacted : SUBSET Stakeholders, buyer : BOOLEAN]]
           /\ compared' \in [Jobs -> Nat]
           /\ retries' \in [Jobs -> 0 .. MaxRetries]
<1>1. retries' \in [Jobs -> 0 .. MaxRetries]
  <2>1. CASE retries[j] < MaxRetries /\ retries' = [retries EXCEPT ![j] = @ + 1]
    <3>1. retries[j] + 1 \in 0 .. MaxRetries
      BY <2>1, JobAssumption DEF TypeOK
    <3> QED
      BY <2>1, <3>1 DEF TypeOK
  <2>2. CASE UNCHANGED retries
    BY <2>2 DEF TypeOK
  <2> QED
    BY <2>1, <2>2 DEF Retry
<1>2. pc' = [pc EXCEPT ![j] = "done"] \/ pc' = [pc EXCEPT ![j] = "ready"]
      \/ pc' = [pc EXCEPT ![j] = "failed"]
  BY DEF Goto, Retry
<1>3. NoView \in [members : SUBSET Stakeholders, contacted : SUBSET Stakeholders,
                   buyer : BOOLEAN]
  BY DEF NoView
<1>4. view' \in [Jobs -> [members : SUBSET Stakeholders, contacted : SUBSET Stakeholders,
                         buyer : BOOLEAN]]
  BY <1>3 DEF TypeOK, Leave
<1>5. pc' \in [Jobs -> {"ready", "lock", "read", "compare", "write", "done", "failed"}]
  BY <1>2 DEF TypeOK
<1> QED
  BY <1>1, <1>4, <1>5 DEF TypeOK, Leave

(* Every reachable state is well typed; in particular scores stay between  *)
(* 0 and 100 and every coverage is one of the three.                       *)
THEOREM TypeCorrect == Spec => []TypeOK
<1>1. Init => TypeOK
  BY JobAssumption DEF Init, TypeOK, RoleLabels, NotScored, Levels, Coverages, NoView
<1>2. TypeOK /\ [Next]_vars => TypeOK'
  <2> SUFFICES ASSUME TypeOK, [Next]_vars PROVE TypeOK'
    OBVIOUS
  <2> USE DEF dbVars, jobVars
  <2>1. ASSUME NEW j \in Jobs, Begin(j) PROVE TypeOK'
    <3>1. clock + 1 \in Nat /\ created' = [created EXCEPT ![j] = clock + 1]
      BY <2>1 DEF Begin, TypeOK
    <3>2. clock' \in Nat /\ created' \in [Jobs -> Nat]
      BY <2>1, <3>1 DEF Begin, TypeOK
    <3> QED
      BY <2>1, <3>2 DEF Begin, Goto, TypeOK
  <2>2. ASSUME NEW j \in Jobs, LockDeal(j) PROVE TypeOK'
    BY <2>2 DEF LockDeal, Goto, TypeOK
  <2>3. ASSUME NEW j \in Jobs, ReadPrevious(j) PROVE TypeOK'
    <3>1. Len(snapshots) \in Nat
      BY DEF TypeOK
    <3>2. compared' \in [Jobs -> Nat]
      BY <2>3, <3>1 DEF ReadPrevious, TypeOK
    <3> QED
      BY <2>3, <3>2 DEF ReadPrevious, Goto, TypeOK
  <2>4. ASSUME NEW j \in Jobs, ReadStakeholders(j) PROVE TypeOK'
    <3>1. view' \in [Jobs -> [members : SUBSET Stakeholders, contacted : SUBSET Stakeholders,
                             buyer : BOOLEAN]]
      BY <2>4 DEF ReadStakeholders, TypeOK
    <3> QED
      BY <2>4, <3>1 DEF ReadStakeholders, Goto, TypeOK
  <2>5. ASSUME NEW j \in Jobs, Rollback(j) PROVE TypeOK'
    BY <2>5, LeaveTypes DEF Rollback, TypeOK
  <2>6. ASSUME NEW j \in Jobs, Commit(j) \/ CommitLost(j) PROVE TypeOK'
    <3>1. Persist(j)
      BY <2>6, CommitWrites
    <3>2. /\ Leave(j) /\ UNCHANGED <<members, clock>>
          /\ (Goto(j, "done") /\ UNCHANGED retries) \/ Retry(j)
      BY <2>6 DEF Commit, CommitLost
    <3>3. contacted' \subseteq Stakeholders /\ late' \subseteq members'
      BY <3>1, <3>2, JobAssumption DEF Persist, TypeOK
    <3> QED
      BY <3>1, <3>2, <3>3, PersistTypes, LeaveTypes DEF TypeOK, Snapshot
  <2>7. ASSUME NEW s \in Stakeholders, AddStakeholder(s) PROVE TypeOK'
    BY <2>7 DEF AddStakeholder, TypeOK
  <2>8. CASE UNCHANGED vars
    BY <2>8 DEF vars, TypeOK
  <2> QED
    BY <2>1, <2>2, <2>3, <2>4, <2>5, <2>6, <2>7, <2>8 DEF Next
<1> QED
  BY <1>1, <1>2, PTL DEF Spec

-----------------------------------------------------------------------------
(* The row lock.  One job at a time holds the deal, so what it has read is *)
(* still so when it commits: nobody else contacts or labels a stakeholder  *)
(* or adds a snapshot in between.  Users may add stakeholders, but those   *)
(* have neither a label nor a contact.                                     *)
KnownBuyer == \E s \in Stakeholders : role[s] = "economic_buyer"

OneHolder == \A i, j \in Jobs : Holding(i) /\ Holding(j) => i = j

ViewIsCurrent ==
    \A j \in Jobs : pc[j] \in {"compare", "write"} =>
        /\ view[j].members \subseteq members
        /\ contacted \subseteq view[j].members
        /\ view[j].contacted = contacted
        /\ view[j].buyer <=> KnownBuyer
        /\ Target[j] \in view[j].members

ComparedIsLatest ==
    \A j \in Jobs : pc[j] = "write" =>
        IF snapshots = <<>> THEN compared[j] = 0
        ELSE IsLatest(compared[j], Len(snapshots))

LockInv ==
    /\ OneHolder
    /\ ViewIsCurrent
    /\ ComparedIsLatest
    /\ \A j \in Jobs : pc[j] = "lock" \/ Holding(j) => Target[j] \in members
    /\ contacted \subseteq members
    /\ \A s \in Stakeholders : role[s] # "unknown" => s \in contacted

\* The commit of the holder leaves no view behind that it could make stale.
LEMMA LockKeptByCommit ==
    ASSUME TypeOK, LockInv, NEW j \in Jobs, pc[j] = "write", Persist(j), Leave(j),
           UNCHANGED members, pc'[j] \in {"done", "ready", "failed"},
           \A i \in Jobs \ {j} : pc'[i] = pc[i]
    PROVE  LockInv'
<1>1. \A i \in Jobs : ~Holding(i)'
  BY DEF LockInv, OneHolder, Holding
<1>2. \A i \in Jobs : pc'[i] = "lock" => Target[i] \in members
  BY DEF LockInv
<1>3. contacted' = contacted \cup {Target[j]} /\ Target[j] \in members
  BY DEF Persist, LockInv, Holding
<1>4. \A s \in Stakeholders : role'[s] # "unknown" => s \in contacted'
  <2>1. \A s \in Stakeholders : role'[s] = role[s] \/ s = Target[j]
    BY DEF Persist, TypeOK
  <2> QED
    BY <1>3, <2>1 DEF LockInv
<1> QED
  BY <1>1, <1>2, <1>3, <1>4
  DEF LockInv, OneHolder, ViewIsCurrent, ComparedIsLatest, Holding

\* What a job has read under the deal's lock is current until it commits
\* (services/risk/service.py:106, FOR UPDATE).
THEOREM LockProtects == Spec => []LockInv
<1>1. Init => LockInv
  BY DEF Init, LockInv, OneHolder, ViewIsCurrent, ComparedIsLatest, Holding
<1>2. TypeOK /\ LockInv /\ [Next]_vars => LockInv'
  <2> SUFFICES ASSUME TypeOK, LockInv, [Next]_vars PROVE LockInv'
    OBVIOUS
  <2> USE DEF dbVars, jobVars
  <2>1. ASSUME NEW j \in Jobs, Begin(j) PROVE LockInv'
    BY <2>1 DEF Begin, Goto, TypeOK, LockInv, OneHolder, ViewIsCurrent, ComparedIsLatest,
                Holding, IsLatest, KnownBuyer
  <2>2. ASSUME NEW j \in Jobs, LockDeal(j) PROVE LockInv'
    BY <2>2 DEF LockDeal, DealFree, Goto, TypeOK, LockInv, OneHolder, ViewIsCurrent,
                ComparedIsLatest, Holding, IsLatest, KnownBuyer
  <2>3. ASSUME NEW j \in Jobs, ReadStakeholders(j) PROVE LockInv'
    <3>1. \A i \in Jobs \ {j} : pc'[i] = pc[i] /\ view'[i] = view[i]
      BY <2>3 DEF ReadStakeholders, Goto, TypeOK
    <3>2. /\ pc'[j] = "compare" /\ view'[j].members = members
          /\ view'[j].contacted = contacted
          /\ view'[j].buyer <=> \E s \in members : role[s] = "economic_buyer"
      BY <2>3 DEF ReadStakeholders, Goto, TypeOK
    <3>3. Holding(j) /\ \A i \in Jobs \ {j} : ~Holding(i)
      BY <2>3 DEF ReadStakeholders, Holding, LockInv, OneHolder
    <3>4. KnownBuyer <=> \E s \in members : role[s] = "economic_buyer"
      BY DEF KnownBuyer, LockInv, TypeOK
    <3>5. UNCHANGED <<dbVars, compared>>
      BY <2>3 DEF ReadStakeholders
    <3> QED
      BY <3>1, <3>2, <3>3, <3>4, <3>5
      DEF LockInv, OneHolder, ViewIsCurrent, ComparedIsLatest, Holding, KnownBuyer
  <2>4. ASSUME NEW j \in Jobs, ReadPrevious(j) PROVE LockInv'
    <3>1. \A i \in Jobs \ {j} : pc'[i] = pc[i] /\ compared'[i] = compared[i]
      BY <2>4 DEF ReadPrevious, Goto, TypeOK
    <3>2. /\ pc'[j] = "write"
          /\ IF snapshots = <<>> THEN compared'[j] = 0
             ELSE IsLatest(compared'[j], Len(snapshots))
      BY <2>4 DEF ReadPrevious, Goto, TypeOK
    <3>3. pc[j] = "compare" /\ UNCHANGED <<dbVars, view>>
      BY <2>4 DEF ReadPrevious
    <3> QED
      BY <3>1, <3>2, <3>3
      DEF LockInv, OneHolder, ViewIsCurrent, ComparedIsLatest, Holding, KnownBuyer, IsLatest
  <2>5. ASSUME NEW j \in Jobs, Rollback(j) PROVE LockInv'
    <3>1. pc'[j] \in {"ready", "failed"} /\ \A i \in Jobs \ {j} :
              pc'[i] = pc[i] /\ view'[i] = view[i] /\ compared'[i] = compared[i]
      BY <2>5 DEF Rollback, Retry, Leave, Goto, TypeOK
    <3>2. UNCHANGED dbVars
      BY <2>5 DEF Rollback
    <3> QED
      BY <3>1, <3>2
      DEF LockInv, OneHolder, ViewIsCurrent, ComparedIsLatest, Holding, KnownBuyer, IsLatest
  <2>6. ASSUME NEW j \in Jobs, Commit(j) \/ CommitLost(j) PROVE LockInv'
    <3>1. /\ pc'[j] \in {"done", "ready", "failed"}
          /\ \A i \in Jobs \ {j} : pc'[i] = pc[i]
      BY <2>6 DEF Commit, CommitLost, Retry, Goto, TypeOK
    <3>2. Leave(j) /\ UNCHANGED members
      BY <2>6 DEF Commit, CommitLost
    <3> QED
      BY <2>6, <3>1, <3>2, CommitWrites, LockKeptByCommit
  <2>7. ASSUME NEW s \in Stakeholders, AddStakeholder(s) PROVE LockInv'
    <3>1. members \subseteq members' /\ UNCHANGED <<contacted, role, snapshots, jobVars>>
      BY <2>7 DEF AddStakeholder
    <3> QED
      BY <3>1 DEF LockInv, OneHolder, ViewIsCurrent, ComparedIsLatest, Holding, KnownBuyer, IsLatest
  <2>8. CASE UNCHANGED vars
    BY <2>8 DEF vars, LockInv, OneHolder, ViewIsCurrent, ComparedIsLatest, Holding,
                KnownBuyer, IsLatest
  <2> QED
    BY <2>1, <2>2, <2>3, <2>4, <2>5, <2>6, <2>7, <2>8 DEF Next
<1> QED
  BY <1>1, <1>2, TypeCorrect, PTL DEF Spec

-----------------------------------------------------------------------------
(* No contact is lost when calls with several stakeholders finish at once. *)
THEOREM CoverageIsRight == Spec => []CoverageTellsContacts
<1> DEFINE Inv == CoverageTellsContacts /\ late \cap contacted = {}
<1>1. Init => Inv
  BY DEF Init, CoverageTellsContacts
<1>2. TypeOK /\ LockInv /\ Inv /\ [Next]_vars => Inv'
  <2> SUFFICES ASSUME TypeOK, LockInv, Inv, [Next]_vars PROVE Inv'
    OBVIOUS
  <2>1. ASSUME NEW j \in Jobs, Commit(j) \/ CommitLost(j) PROVE Inv'
    <3>1. pc[j] = "write" /\ Persist(j)
      BY <2>1, CommitWrites
    <3>2. /\ view[j].members \subseteq members /\ Target[j] \in view[j].members
          /\ view[j].contacted = contacted /\ contacted \subseteq view[j].members
      BY <3>1 DEF LockInv, ViewIsCurrent
    <3>3. /\ contacted' = contacted \cup {Target[j]}
          /\ late' = members \ view[j].members
          /\ deal'.coverage = Coverage(view[j].members, contacted \cup {Target[j]})
      BY <3>1, <3>2 DEF Persist, Reached
    <3>4. UNCHANGED members
      BY <2>1 DEF Commit, CommitLost
    <3>5. members' \ late' = view[j].members
      BY <3>2, <3>3, <3>4
    <3> QED
      BY <3>2, <3>3, <3>5 DEF CoverageTellsContacts
  <2>2. ASSUME NEW s \in Stakeholders, AddStakeholder(s) PROVE Inv'
    <3>1. /\ (members \cup {s}) \ (late \cup {s}) = members \ late
          /\ s \notin contacted
      BY <2>2 DEF AddStakeholder, TypeOK, LockInv
    <3>2. UNCHANGED <<contacted, snapshots, deal>>
      BY <2>2 DEF AddStakeholder
    <3> QED
      BY <2>2, <3>1, <3>2 DEF AddStakeholder, CoverageTellsContacts
  <2>3. CASE UNCHANGED <<dbVars, late>>
    BY <2>3 DEF dbVars, CoverageTellsContacts
  <2> QED
    BY <2>1, <2>2, <2>3
    DEF Next, vars, Begin, LockDeal, ReadStakeholders, ReadPrevious, Rollback
<1> QED
  BY <1>1, <1>2, TypeCorrect, LockProtects, PTL DEF Spec

(* A deal with a known economic buyer is not scored as one without.        *)
THEOREM BuyersAreCounted == Spec => []BuyerIsCounted
<1>1. Init => BuyerIsCounted
  BY DEF Init, BuyerIsCounted
<1>2. TypeOK /\ LockInv /\ BuyerIsCounted /\ [Next]_vars => BuyerIsCounted'
  <2> SUFFICES ASSUME TypeOK, LockInv, BuyerIsCounted, [Next]_vars PROVE BuyerIsCounted'
    OBVIOUS
  <2>1. ASSUME NEW j \in Jobs, Commit(j) \/ CommitLost(j) PROVE BuyerIsCounted'
    <3>1. pc[j] = "write" /\ Persist(j)
      BY <2>1, CommitWrites
    <3>2. view[j].buyer <=> KnownBuyer
      BY <3>1 DEF LockInv, ViewIsCurrent
    <3>3. (\E s \in Stakeholders : role'[s] = "economic_buyer") => HasEconomicBuyer(j)
      BY <3>1, <3>2 DEF Persist, HasEconomicBuyer, KnownBuyer, TypeOK
    <3>4. /\ snapshots' = Append(snapshots, Recorded(j)) /\ Recorded(j) \in Snapshot
          /\ snapshots \in Seq(Snapshot)
      BY <3>1, PersistTypes DEF TypeOK, Snapshot
    <3>5. snapshots' # <<>> /\ snapshots'[Len(snapshots')] = Recorded(j)
      BY <3>4
    <3>6. members' \subseteq Stakeholders
      BY <2>1 DEF Commit, CommitLost, TypeOK
    <3> QED
      BY <3>3, <3>5, <3>6 DEF BuyerIsCounted, Recorded
  <2>2. ASSUME NEW s \in Stakeholders, AddStakeholder(s) PROVE BuyerIsCounted'
    BY <2>2 DEF AddStakeholder, BuyerIsCounted, LockInv, TypeOK
  <2>3. CASE UNCHANGED dbVars
    BY <2>3 DEF dbVars, BuyerIsCounted
  <2> QED
    BY <2>1, <2>2, <2>3
    DEF Next, vars, Begin, LockDeal, ReadStakeholders, ReadPrevious, Rollback
<1> QED
  BY <1>1, <1>2, TypeCorrect, LockProtects, PTL DEF Spec

(* The changes a snapshot reports are those against the latest snapshot    *)
(* there was when it was committed.                                        *)
THEOREM ComparisonsAreCurrent == Spec => []ComparedWithLatest
<1>1. Init => ComparedWithLatest
  BY DEF Init, ComparedWithLatest
<1>2. TypeOK /\ LockInv /\ ComparedWithLatest /\ [Next]_vars => ComparedWithLatest'
  <2> SUFFICES ASSUME TypeOK, LockInv, ComparedWithLatest, [Next]_vars
               PROVE  ComparedWithLatest'
    OBVIOUS
  <2>1. ASSUME NEW j \in Jobs, Commit(j) \/ CommitLost(j) PROVE ComparedWithLatest'
    <3> DEFINE StillLatest(k, n) ==
          /\ k \in 1 .. n
          /\ \A m \in 1 .. n : snapshots'[m].created <= snapshots'[k].created
    <3>1. pc[j] = "write" /\ Persist(j)
      BY <2>1, CommitWrites
    <3>2. /\ snapshots' = Append(snapshots, Recorded(j)) /\ Recorded(j) \in Snapshot
          /\ snapshots \in Seq(Snapshot)
      BY <3>1, PersistTypes DEF TypeOK, Snapshot
    <3>3. PICK L \in Nat : L = Len(snapshots)
      BY DEF TypeOK
    <3>4. /\ Len(snapshots') = L + 1 /\ snapshots'[L + 1] = Recorded(j)
          /\ \A n \in 1 .. L : snapshots'[n] = snapshots[n]
      BY <3>2, <3>3
    <3>5. Recorded(j).compared = compared[j]
      BY DEF Recorded
    <3>6. IF L = 0 THEN compared[j] = 0 ELSE IsLatest(compared[j], L)
      BY <3>1, <3>2, <3>3 DEF LockInv, ComparedIsLatest
    <3>7. ASSUME NEW n \in 0 .. L, NEW k PROVE IsLatest(k, n) => StillLatest(k, n)
      BY <3>4, <3>7 DEF IsLatest
    <3> HIDE DEF StillLatest
    <3>8. ASSUME NEW n \in 1 .. L + 1
          PROVE  IF n = 1 THEN snapshots'[n].compared = 0
                 ELSE StillLatest(snapshots'[n].compared, n - 1)
      <4>1. CASE n = L + 1
        BY <3>4, <3>5, <3>6, <3>7, <4>1
      <4>2. CASE n \in 1 .. L
        <5>1. IF n = 1 THEN snapshots[n].compared = 0
              ELSE IsLatest(snapshots[n].compared, n - 1)
          BY <4>2, <3>3 DEF ComparedWithLatest
        <5>2. n - 1 \in 0 .. L /\ snapshots'[n] = snapshots[n]
          BY <3>4, <4>2
        <5> QED
          BY <3>7, <5>1, <5>2
      <4> QED
        BY <3>4, <4>1, <4>2
    <3> QED
      BY <3>4, <3>8 DEF ComparedWithLatest, IsLatest, StillLatest
  <2>2. CASE UNCHANGED snapshots
    BY <2>2 DEF ComparedWithLatest, IsLatest
  <2> QED
    BY <2>1, <2>2
    DEF Next, vars, dbVars, Begin, LockDeal, ReadStakeholders, ReadPrevious, Rollback,
        AddStakeholder
<1> QED
  BY <1>1, <1>2, TypeCorrect, LockProtects, PTL DEF Spec
=============================================================================
