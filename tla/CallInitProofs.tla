---------------------------- MODULE CallInitProofs ----------------------------
(***************************************************************************)
(* Proofs about CallInit, for any requests, users, quota and faults.       *)
(***************************************************************************)
EXTENDS CallInit, FiniteSetTheorems, TLAPS

(* Every reachable state is well typed (the rows and keys of               *)
(* services/call/service.py hold values of their columns).                 *)
THEOREM TypeCorrect == Spec => []TypeOK
<1>1. Init => TypeOK
  BY RequestAssumption DEF Init, TypeOK, Steps
<1>2. TypeOK /\ [Next]_vars => TypeOK'
  <2> SUFFICES ASSUME TypeOK, [Next]_vars PROVE TypeOK'
    OBVIOUS
  <2> USE RequestAssumption
  <2> USE DEF TypeOK, Steps, Answers, redisVars, dbVars, envVars, history
  <2>1. \A u \in Users : Count(u) \in Int
    BY NoKeyAssumption DEF Count
  <2>2. ASSUME NEW r \in Requests, Refuse(r) PROVE TypeOK'
    BY <2>2 DEF Refuse, Goto
  <2>3. ASSUME NEW r \in Requests, AcquireUserSlot(r) PROVE TypeOK'
    BY <2>1, <2>3 DEF AcquireUserSlot, Goto
  <2>4. ASSUME NEW r \in Requests, AcquireStakeholderSlot(r) PROVE TypeOK'
    BY <2>4 DEF AcquireStakeholderSlot, Goto
  <2>5. ASSUME NEW r \in Requests, ReadCounter(r) PROVE TypeOK'
    BY <2>5 DEF ReadCounter, Goto, AfterRelease
  <2>6. ASSUME NEW r \in Requests, Decrement(r) PROVE TypeOK'
    BY <2>1, <2>6 DEF Decrement, Goto, AfterRelease
  <2>7. ASSUME NEW r \in Requests, DropCounter(r) PROVE TypeOK'
    BY <2>7 DEF DropCounter, Goto, AfterRelease
  <2>8. ASSUME NEW r \in Requests, InsertSession(r) PROVE TypeOK'
    BY <2>8 DEF InsertSession, Goto
  <2>9. ASSUME NEW r \in Requests, Dial(r) PROVE TypeOK'
    BY <2>9 DEF Dial, Accept, Goto, AfterDial
  <2>10. ASSUME NEW r \in Requests, PublishSession(r) PROVE TypeOK'
    BY <2>10 DEF PublishSession, Goto, Placing
  <2>11. ASSUME NEW r \in Requests, EnqueuePoll(r) PROVE TypeOK'
    BY <2>11 DEF EnqueuePoll, Goto
  <2>12. ASSUME NEW r \in Requests, ReleaseStakeholderSlot(r) PROVE TypeOK'
    BY <2>12 DEF ReleaseStakeholderSlot, Goto
  <2>13. ASSUME NEW r \in Requests, FailSession(r) PROVE TypeOK'
    BY <2>13 DEF FailSession, Goto
  <2>14. ASSUME NEW r \in Requests, Error(r) \/ Crash(r) PROVE TypeOK'
    BY <2>14 DEF Error, Crash, Goto
  <2>15. ASSUME NEW u \in Users, ExpireQuota(u) PROVE TypeOK'
    BY <2>15 DEF ExpireQuota
  <2>16. ASSUME NEW s \in Stakeholders, ExpireCooldown(s) PROVE TypeOK'
    BY <2>16 DEF ExpireCooldown
  <2>17. CASE UNCHANGED vars
    BY <2>17 DEF vars
  <2> QED
    BY <2>2, <2>3, <2>4, <2>5, <2>6, <2>7, <2>8, <2>9, <2>10, <2>11, <2>12,
       <2>13, <2>14, <2>15, <2>16, <2>17 DEF Next, Handle
<1> QED
  BY <1>1, <1>2, PTL DEF Spec

-----------------------------------------------------------------------------
(* What makes the cooldown work: from SET NX to DELETE, and from the call  *)
(* on, the key belongs to one request.                                     *)

Rings(r) == r \in recent \ unheard

CoolInv ==
    /\ \A r \in Requests :
         pc[r] \in Cooling \/ Rings(r) => StakeholderOf[r] \in cooldown
    /\ \A q, r \in Requests :
         /\ q # r
         /\ StakeholderOf[q] = StakeholderOf[r]
         /\ pc[q] \in Cooling \/ Rings(q)
         => pc[r] \notin Cooling /\ ~Rings(r)
    /\ \A r \in Requests : Rings(r) =>
         pc[r] \notin {"start", "cool", "build", "dial", "uncool"}

(* One call rings per stakeholder and cooldown: a request holds its        *)
(* stakeholder's key from SET NX until it gives up, and a call it placed   *)
(* keeps it, in every interleaving of requests, failures and expiries.     *)
THEOREM OneCallPerCooldown == Spec => []OneRecentCall
<1>1. Init => CoolInv
  BY DEF Init, CoolInv, Rings, Cooling
<1>2. TypeOK /\ CoolInv /\ [Next]_vars => CoolInv'
  <2> SUFFICES ASSUME TypeOK, CoolInv, [Next]_vars PROVE CoolInv'
    OBVIOUS
  <2> USE RequestAssumption
  <2> USE DEF TypeOK, CoolInv, Rings, Cooling, redisVars, dbVars, envVars, history
  <2>2. ASSUME NEW r \in Requests, Refuse(r) PROVE CoolInv'
    BY <2>2 DEF Refuse, Goto
  <2>3. ASSUME NEW r \in Requests, AcquireUserSlot(r) PROVE CoolInv'
    BY <2>3 DEF AcquireUserSlot, Goto
  <2>4. ASSUME NEW r \in Requests, AcquireStakeholderSlot(r) PROVE CoolInv'
    BY <2>4 DEF AcquireStakeholderSlot, Goto, CoolFree
  <2>5. ASSUME NEW r \in Requests, ReadCounter(r) PROVE CoolInv'
    BY <2>5 DEF ReadCounter, Goto, AfterRelease
  <2>6. ASSUME NEW r \in Requests, Decrement(r) PROVE CoolInv'
    BY <2>6 DEF Decrement, Goto, AfterRelease
  <2>7. ASSUME NEW r \in Requests, DropCounter(r) PROVE CoolInv'
    BY <2>7 DEF DropCounter, Goto, AfterRelease
  <2>8. ASSUME NEW r \in Requests, InsertSession(r) PROVE CoolInv'
    BY <2>8 DEF InsertSession, Goto
  <2>9. ASSUME NEW r \in Requests, Dial(r) PROVE CoolInv'
    <3>1. CASE Accept(r) /\ Goto(r, AfterDial(r)) /\ UNCHANGED unheard
      BY <2>9, <3>1 DEF Dial, Accept, Goto, AfterDial
    <3>2. CASE Goto(r, "uncool") /\ UNCHANGED <<accepted, recent, unheard>>
      BY <2>9, <3>2 DEF Dial, Goto
    <3>3. CASE Accept(r) /\ Goto(r, "uncool") /\ unheard' = unheard \cup {r}
      BY <2>9, <3>3 DEF Dial, Accept, Goto
    <3> QED
      BY <2>9, <3>1, <3>2, <3>3 DEF Dial
  <2>10. ASSUME NEW r \in Requests, PublishSession(r) PROVE CoolInv'
    BY <2>10 DEF PublishSession, Goto
  <2>11. ASSUME NEW r \in Requests, EnqueuePoll(r) PROVE CoolInv'
    BY <2>11 DEF EnqueuePoll, Goto
  <2>12. ASSUME NEW r \in Requests, ReleaseStakeholderSlot(r) PROVE CoolInv'
    BY <2>12 DEF ReleaseStakeholderSlot, Goto
  <2>13. ASSUME NEW r \in Requests, FailSession(r) PROVE CoolInv'
    BY <2>13 DEF FailSession, Goto
  <2>14. ASSUME NEW r \in Requests, Error(r) \/ Crash(r) PROVE CoolInv'
    BY <2>14 DEF Error, Crash, Active, Answers, Goto
  <2>15. ASSUME NEW u \in Users, ExpireQuota(u) PROVE CoolInv'
    BY <2>15 DEF ExpireQuota
  <2>16. ASSUME NEW s \in Stakeholders, ExpireCooldown(s) PROVE CoolInv'
    BY <2>16 DEF ExpireCooldown, Active, Answers
  <2>17. CASE UNCHANGED vars
    BY <2>17 DEF vars
  <2> QED
    BY <2>2, <2>3, <2>4, <2>5, <2>6, <2>7, <2>8, <2>9, <2>10, <2>11, <2>12,
       <2>13, <2>14, <2>15, <2>16, <2>17 DEF Next, Handle
<1>3. TypeOK /\ CoolInv => OneRecentCall
  BY DEF TypeOK, CoolInv, OneRecentCall, Rings
<1> QED
  BY <1>1, <1>2, <1>3, TypeCorrect, PTL DEF Spec

-----------------------------------------------------------------------------
(* How the row of a request follows its steps.                             *)
RowInv ==
    /\ \A r \in Requests :
         /\ pc[r] \in {"dial", "publish"} => row[r] = "initiating"
         /\ row[r] = "queued" <=> r \in published
         /\ r \in published \/ pc[r] \in {"publish", "enqueue"} => r \in accepted
         /\ pc[r] = "enqueue" \/ r \in polling => r \in published
         /\ pc[r] \in {"start", "cool", "build"} => row[r] = "none"
         /\ r \in published => pc[r] \in {"enqueue", "placed", "errored", "crashed"}
         /\ pc[r] = "uncool" => row[r] = "initiating"
         /\ pc[r] = "unplaced" => row[r] = "failed"

(* The strengthening is an invariant of the requests.                       *)
LEMMA RowsFollowSteps == Spec => []RowInv
<1>1. Init => RowInv
  BY DEF Init, RowInv
<1>2. TypeOK /\ RowInv /\ [Next]_vars => RowInv'
  <2> SUFFICES ASSUME TypeOK, RowInv, [Next]_vars PROVE RowInv'
    OBVIOUS
  <2> USE RequestAssumption
  <2> USE DEF TypeOK, RowInv, redisVars, dbVars, envVars, history
  <2>2. ASSUME NEW r \in Requests, Refuse(r) PROVE RowInv'
    BY <2>2 DEF Refuse, Goto
  <2>3. ASSUME NEW r \in Requests, AcquireUserSlot(r) PROVE RowInv'
    BY <2>3 DEF AcquireUserSlot, Goto
  <2>4. ASSUME NEW r \in Requests, AcquireStakeholderSlot(r) PROVE RowInv'
    BY <2>4 DEF AcquireStakeholderSlot, Goto
  <2>5. ASSUME NEW r \in Requests, ReadCounter(r) PROVE RowInv'
    BY <2>5 DEF ReadCounter, Goto, AfterRelease
  <2>6. ASSUME NEW r \in Requests, Decrement(r) PROVE RowInv'
    BY <2>6 DEF Decrement, Goto, AfterRelease
  <2>7. ASSUME NEW r \in Requests, DropCounter(r) PROVE RowInv'
    BY <2>7 DEF DropCounter, Goto, AfterRelease
  <2>8. ASSUME NEW r \in Requests, InsertSession(r) PROVE RowInv'
    BY <2>8 DEF InsertSession, Goto
  <2>9. ASSUME NEW r \in Requests, Dial(r) PROVE RowInv'
    BY <2>9 DEF Dial, Accept, Goto, AfterDial
  <2>10. ASSUME NEW r \in Requests, PublishSession(r) PROVE RowInv'
    BY <2>10 DEF PublishSession, Goto, Placing
  <2>11. ASSUME NEW r \in Requests, EnqueuePoll(r) PROVE RowInv'
    BY <2>11 DEF EnqueuePoll, Goto
  <2>12. ASSUME NEW r \in Requests, ReleaseStakeholderSlot(r) PROVE RowInv'
    BY <2>12 DEF ReleaseStakeholderSlot, Goto
  <2>13. ASSUME NEW r \in Requests, FailSession(r) PROVE RowInv'
    BY <2>13 DEF FailSession, Goto
  <2>14. ASSUME NEW r \in Requests, Error(r) \/ Crash(r) PROVE RowInv'
    BY <2>14 DEF Error, Crash, Goto
  <2>15. ASSUME NEW u \in Users, ExpireQuota(u) PROVE RowInv'
    BY <2>15 DEF ExpireQuota
  <2>16. ASSUME NEW s \in Stakeholders, ExpireCooldown(s) PROVE RowInv'
    BY <2>16 DEF ExpireCooldown
  <2>17. CASE UNCHANGED vars
    BY <2>17 DEF vars
  <2> QED
    BY <2>2, <2>3, <2>4, <2>5, <2>6, <2>7, <2>8, <2>9, <2>10, <2>11, <2>12,
       <2>13, <2>14, <2>15, <2>16, <2>17 DEF Next, Handle
<1> QED
  BY <1>1, <1>2, TypeCorrect, PTL DEF Spec

(* The polling job of a call finds the provider's id: it is enqueued after *)
(* the commit of the id, which follows the provider's answer.              *)
THEOREM PollingFindsExecution == Spec => []PollFindsExecution
<1>1. TypeOK /\ RowInv => PollFindsExecution
  BY DEF TypeOK, RowInv, PollFindsExecution
<1> QED
  BY <1>1, TypeCorrect, RowsFollowSteps, PTL

(* A request answered 502 has left a failed row that no id points to.      *)
THEOREM FailuresRecorded == Spec => []FailureIsRecorded
<1>1. TypeOK /\ RowInv => FailureIsRecorded
  BY DEF TypeOK, RowInv, FailureIsRecorded
<1> QED
  BY <1>1, TypeCorrect, RowsFollowSteps, PTL

-----------------------------------------------------------------------------
(* What makes the quota work: as long as nobody deletes a counter with a   *)
(* slot in it, the counter is at least the number of slots held, and a     *)
(* request gets a slot only at a value within the quota.                   *)
Holders(u) == {r \in reserved : UserOf[r] = u}

\* Steps at which a request holds the slot of its user.
Holding == Cooling \cup {"cool", "read", "decrement"}

QuotaInv ==
    /\ \A u \in Users : IsFiniteSet(Holders(u))
    /\ \A u \in Users \ clobbered :
         Cardinality(Holders(u)) <= Count(u) /\ Cardinality(Holders(u)) <= Quota
    /\ \A r \in Requests : pc[r] \in Holding => r \in reserved

(* A step that changes neither counters nor slots keeps the count.          *)
LEMMA QuotaKept ==
    ASSUME QuotaInv, counter' = counter, reserved' = reserved, clobbered' = clobbered,
           \A r \in Requests : pc'[r] \in Holding => pc[r] \in Holding
    PROVE  QuotaInv'
<1>1. \A u : Holders(u)' = Holders(u) /\ Count(u)' = Count(u)
  BY DEF Holders, Count
<1> QED
  BY <1>1 DEF QuotaInv

(* INCR: the slot is the request's only when the value is in the quota.     *)
LEMMA QuotaKeptByAcquire ==
    ASSUME TypeOK, QuotaInv, NEW r \in Requests, AcquireUserSlot(r)
    PROVE  QuotaInv'
<1> DEFINE u == UserOf[r]  n == Count(u) + 1
<1> USE RequestAssumption, QuotaAssumption, NoKeyAssumption DEF TypeOK
<1>1. u \in Users /\ n \in Int /\ Count(u) \in Int /\ Count(u)' = n /\ clobbered' = clobbered
  BY DEF AcquireUserSlot, Count, history
<1>2. \A v \in Users \ {u} : Count(v)' = Count(v) /\ Holders(v)' = Holders(v)
  BY DEF AcquireUserSlot, Count, Holders
<1>3. CASE ~OverQuota(n) /\ Goto(r, "cool") /\ reserved' = reserved \cup {r}
  <2>1. Holders(u)' = Holders(u) \cup {r}
    BY <1>3 DEF Holders
  <2>2. IsFiniteSet(Holders(u)) /\ Cardinality(Holders(u)) \in Nat
    BY <1>1, FS_CardinalityType DEF QuotaInv
  <2>3. /\ IsFiniteSet(Holders(u)')
        /\ Cardinality(Holders(u)') \in Nat
        /\ Cardinality(Holders(u)') <= Cardinality(Holders(u)) + 1
    <3> DEFINE H == Holders(u)
    <3>1. /\ IsFiniteSet(H \cup {r})
          /\ Cardinality(H \cup {r}) = IF r \in H THEN Cardinality(H) ELSE Cardinality(H) + 1
      BY <2>2, FS_AddElement
    <3> HIDE DEF H
    <3> QED
      BY <2>1, <2>2, <3>1 DEF H
  <2>4. u \notin clobbered =>
          Cardinality(Holders(u)') <= n /\ Cardinality(Holders(u)') <= Quota
    BY <1>1, <1>3, <2>2, <2>3 DEF QuotaInv, OverQuota
  <2>5. \A q \in Requests : pc'[q] \in Holding => q \in reserved'
    BY <1>3 DEF QuotaInv, Goto
  <2> QED
    BY <1>1, <1>2, <2>3, <2>4, <2>5 DEF QuotaInv
<1>4. CASE Goto(r, "limited") /\ UNCHANGED reserved
  <2>1. Holders(u)' = Holders(u)
    BY <1>4 DEF Holders
  <2>2. IsFiniteSet(Holders(u)) /\ Cardinality(Holders(u)) \in Nat
    BY <1>1, FS_CardinalityType DEF QuotaInv
  <2>3. u \notin clobbered => Cardinality(Holders(u)) <= n
    BY <1>1, <2>2 DEF QuotaInv
  <2>4. \A q \in Requests : pc'[q] \in Holding => q \in reserved'
    BY <1>4 DEF QuotaInv, Goto, Holding, Cooling
  <2> QED
    BY <1>1, <1>2, <2>1, <2>2, <2>3, <2>4 DEF QuotaInv
<1> QED
  BY <1>3, <1>4 DEF AcquireUserSlot

(* DECR: a request gives back the slot it holds, and only that one.         *)
LEMMA QuotaKeptByDecrement ==
    ASSUME TypeOK, QuotaInv, NEW r \in Requests, Decrement(r)
    PROVE  QuotaInv'
<1> DEFINE u == UserOf[r]  n == Count(u) - 1
<1> USE RequestAssumption, QuotaAssumption, NoKeyAssumption DEF TypeOK
<1>1. u \in Users /\ n \in Int /\ Count(u) \in Int /\ Count(u)' = n /\ clobbered' = clobbered
  BY DEF Decrement, Count
<1>2. \A v \in Users \ {u} : Count(v)' = Count(v) /\ Holders(v)' = Holders(v)
  BY DEF Decrement, Count, Holders
<1>3. r \in Holders(u) /\ Holders(u)' = Holders(u) \ {r}
  BY DEF Decrement, Holders, QuotaInv, Holding
<1>4. IsFiniteSet(Holders(u)) /\ Cardinality(Holders(u)) \in Nat
  BY <1>1, FS_CardinalityType DEF QuotaInv
<1>5. /\ IsFiniteSet(Holders(u)')
      /\ Cardinality(Holders(u)') = Cardinality(Holders(u)) - 1
  BY <1>3, <1>4, FS_RemoveElement
<1>6. u \notin clobbered =>
        Cardinality(Holders(u)') <= n /\ Cardinality(Holders(u)') <= Quota
  BY <1>1, <1>4, <1>5 DEF QuotaInv
<1>7. \A q \in Requests : pc'[q] \in Holding => q \in reserved'
  BY DEF Decrement, QuotaInv, Goto, AfterRelease, Holding, Cooling
<1> QED
  BY <1>1, <1>2, <1>5, <1>6, <1>7 DEF QuotaInv

(* DELETE: with no slot in the counter nobody holds one.                    *)
LEMMA QuotaKeptByDrop ==
    ASSUME TypeOK, QuotaInv, NEW r \in Requests, DropCounter(r)
    PROVE  QuotaInv'
<1> DEFINE u == UserOf[r]
<1> USE RequestAssumption, QuotaAssumption, NoKeyAssumption DEF TypeOK
<1>1. u \in Users /\ Count(u) \in Int /\ Count(u)' = 0 /\ reserved' = reserved
  BY DEF DropCounter, Count
<1>2. \A v \in Users : Holders(v)' = Holders(v)
  BY <1>1 DEF Holders
<1>3. \A v \in Users \ {u} : Count(v)' = Count(v)
  BY DEF DropCounter, Count
<1>4. IsFiniteSet(Holders(u)) /\ Cardinality(Holders(u)) \in Nat
  BY <1>1, FS_CardinalityType DEF QuotaInv
<1>5. u \notin clobbered' => u \notin clobbered /\ Count(u) <= 0
  BY <1>1 DEF DropCounter
<1>6. u \notin clobbered' => Cardinality(Holders(u)) <= 0 /\ Cardinality(Holders(u)) <= Quota
  BY <1>1, <1>4, <1>5 DEF QuotaInv
<1>7. \A q \in Requests : pc'[q] \in Holding => q \in reserved'
  BY DEF DropCounter, QuotaInv, Goto, AfterRelease, Holding, Cooling
<1>8. clobbered \subseteq clobbered'
  BY DEF DropCounter
<1> QED
  BY <1>1, <1>2, <1>3, <1>4, <1>6, <1>7, <1>8 DEF QuotaInv

(* The end of a window: no request of the user is under way.                *)
LEMMA QuotaKeptByExpiry ==
    ASSUME TypeOK, QuotaInv, NEW u \in Users, ExpireQuota(u)
    PROVE  QuotaInv'
<1> USE RequestAssumption, QuotaAssumption, NoKeyAssumption DEF TypeOK
<1>1. Holders(u)' = {} /\ Count(u)' = 0
  BY DEF ExpireQuota, Holders, Count
<1>2. \A v \in Users \ {u} : Count(v)' = Count(v) /\ Holders(v)' = Holders(v)
  BY DEF ExpireQuota, Holders, Count
<1>3. IsFiniteSet({}) /\ Cardinality({}) = 0
  BY FS_EmptySet
<1>4. \A q \in Requests : pc'[q] \in Holding => q \in reserved'
  BY DEF ExpireQuota, QuotaInv, Holding, Cooling, Active, Answers
<1>5. \A v \in Users \ {u} : v \notin clobbered' => v \notin clobbered
  BY DEF ExpireQuota
<1>6. IsFiniteSet(Holders(u)') /\ Cardinality(Holders(u)') <= Count(u)' /\ Cardinality(Holders(u)') <= Quota
  BY <1>1, <1>3
<1>7. \A v \in Users \ {u} : IsFiniteSet(Holders(v)') /\
        (v \notin clobbered' => Cardinality(Holders(v)') <= Count(v)' /\ Cardinality(Holders(v)') <= Quota)
  BY <1>2, <1>5 DEF QuotaInv
<1> QED
  BY <1>4, <1>6, <1>7 DEF QuotaInv

(* The slots held are counted, whatever requests race, crash or fail.       *)
LEMMA SlotsAreCounted == Spec => []QuotaInv
<1>1. Init => QuotaInv
  <2> SUFFICES ASSUME Init PROVE QuotaInv
    OBVIOUS
  <2>1. \A u \in Users : Holders(u) = {} /\ Count(u) = 0
    BY DEF Init, Holders, Count
  <2>2. \A r \in Requests : pc[r] \notin Holding
    BY DEF Init, Holding, Cooling
  <2> QED
    BY <2>1, <2>2, FS_EmptySet, QuotaAssumption DEF QuotaInv
<1>2. TypeOK /\ QuotaInv /\ [Next]_vars => QuotaInv'
  <2> SUFFICES ASSUME TypeOK, QuotaInv, [Next]_vars PROVE QuotaInv'
    OBVIOUS
  <2>1. ASSUME NEW r \in Requests,
               \/ Refuse(r) \/ AcquireStakeholderSlot(r) \/ ReadCounter(r) \/ InsertSession(r)
               \/ Dial(r) \/ PublishSession(r) \/ EnqueuePoll(r) \/ ReleaseStakeholderSlot(r)
               \/ FailSession(r) \/ Error(r) \/ Crash(r)
        PROVE  QuotaInv'
    <3>1. counter' = counter /\ reserved' = reserved /\ clobbered' = clobbered
      BY <2>1 DEF Refuse, AcquireStakeholderSlot, ReadCounter, InsertSession, Dial,
         PublishSession, EnqueuePoll, ReleaseStakeholderSlot, FailSession, Error, Crash,
         redisVars, history
    <3>2. \A q \in Requests : pc'[q] \in Holding => pc[q] \in Holding
      BY <2>1 DEF TypeOK, Goto, Holding, Cooling, Refuse, AcquireStakeholderSlot, ReadCounter,
         AfterRelease, InsertSession, Dial, AfterDial, PublishSession, EnqueuePoll,
         ReleaseStakeholderSlot, FailSession, Error, Crash
    <3> QED
      BY <3>1, <3>2, QuotaKept
  <2>2. ASSUME NEW s \in Stakeholders, ExpireCooldown(s) PROVE QuotaInv'
    BY <2>2, QuotaKept DEF ExpireCooldown
  <2>3. CASE UNCHANGED vars
    BY <2>3, QuotaKept DEF vars, redisVars, history
  <2> QED
    BY <2>1, <2>2, <2>3, QuotaKeptByAcquire, QuotaKeptByDecrement, QuotaKeptByDrop,
       QuotaKeptByExpiry DEF Next, Handle
<1> QED
  BY <1>1, <1>2, TypeCorrect, PTL DEF Spec

(* A call the provider has confirmed keeps its slot for the window: no      *)
(* request gives one back once it is past dialling with an answer.          *)
PlacedInv ==
    \A r \in inWindow \ unheard :
        /\ r \in reserved
        /\ pc[r] \notin {"start", "cool", "build", "dial", "uncool", "read", "decrement"}

(* Calls are placed with the slot that was taken for them.                  *)
LEMMA PlacedKeepSlots == Spec => []PlacedInv
<1>1. Init => PlacedInv
  BY DEF Init, PlacedInv
<1>2. TypeOK /\ QuotaInv /\ PlacedInv /\ [Next]_vars => PlacedInv'
  <2> SUFFICES ASSUME TypeOK, QuotaInv, PlacedInv, [Next]_vars PROVE PlacedInv'
    OBVIOUS
  <2> USE DEF TypeOK, PlacedInv, Goto, redisVars, dbVars, envVars, history
  <2>1. ASSUME NEW r \in Requests, Refuse(r) PROVE PlacedInv'
    BY <2>1 DEF Refuse
  <2>2. ASSUME NEW r \in Requests, AcquireUserSlot(r) PROVE PlacedInv'
    BY <2>2 DEF AcquireUserSlot
  <2>3. ASSUME NEW r \in Requests, AcquireStakeholderSlot(r) PROVE PlacedInv'
    BY <2>3 DEF AcquireStakeholderSlot
  <2>4. ASSUME NEW r \in Requests, ReadCounter(r) PROVE PlacedInv'
    BY <2>4 DEF ReadCounter
  <2>5. ASSUME NEW r \in Requests, Decrement(r) PROVE PlacedInv'
    BY <2>5 DEF Decrement
  <2>6. ASSUME NEW r \in Requests, DropCounter(r) PROVE PlacedInv'
    BY <2>6 DEF DropCounter, AfterRelease
  <2>7. ASSUME NEW r \in Requests, InsertSession(r) PROVE PlacedInv'
    BY <2>7 DEF InsertSession
  <2>8. ASSUME NEW r \in Requests, Dial(r) PROVE PlacedInv'
    <3>1. r \in reserved
      BY <2>8 DEF Dial, QuotaInv, Holding, Cooling
    <3> QED BY <2>8, <3>1 DEF Dial, Accept, AfterDial
  <2>9. ASSUME NEW r \in Requests, PublishSession(r) PROVE PlacedInv'
    BY <2>9 DEF PublishSession
  <2>10. ASSUME NEW r \in Requests, EnqueuePoll(r) PROVE PlacedInv'
    BY <2>10 DEF EnqueuePoll
  <2>11. ASSUME NEW r \in Requests, ReleaseStakeholderSlot(r) PROVE PlacedInv'
    BY <2>11 DEF ReleaseStakeholderSlot
  <2>12. ASSUME NEW r \in Requests, FailSession(r) PROVE PlacedInv'
    BY <2>12 DEF FailSession
  <2>13. ASSUME NEW r \in Requests, Error(r) \/ Crash(r) PROVE PlacedInv'
    BY <2>13 DEF Error, Crash
  <2>14. ASSUME NEW u \in Users, ExpireQuota(u) PROVE PlacedInv'
    BY <2>14 DEF ExpireQuota
  <2>15. ASSUME NEW s \in Stakeholders, ExpireCooldown(s) PROVE PlacedInv'
    BY <2>15 DEF ExpireCooldown
  <2>16. CASE UNCHANGED vars
    BY <2>16 DEF vars
  <2> QED
    BY <2>1, <2>2, <2>3, <2>4, <2>5, <2>6, <2>7, <2>8, <2>9, <2>10, <2>11, <2>12,
       <2>13, <2>14, <2>15, <2>16 DEF Next, Handle
<1> QED
  BY <1>1, <1>2, TypeCorrect, SlotsAreCounted, PTL DEF Spec

(* A user places no more calls per window than the quota, whatever fails or *)
(* crashes, unless a release (GET, DECR, DELETE) erased the slot another    *)
(* request had just taken.  Calls whose answer was lost come on top: their  *)
(* slots are given back as if they had failed (adapter.py:89).              *)
THEOREM QuotaHolds == Spec => []QuotaUnlessClobbered
<1>1. QuotaInv /\ PlacedInv => QuotaUnlessClobbered
  <2> SUFFICES ASSUME QuotaInv, PlacedInv, NEW u \in Users \ clobbered
               PROVE  Cardinality(Placed(u)) <= Quota
    BY DEF QuotaUnlessClobbered
  <2>1. Placed(u) \subseteq Holders(u)
    BY DEF PlacedInv, Placed, Holders
  <2>2. IsFiniteSet(Holders(u)) /\ Cardinality(Holders(u)) <= Quota
    BY DEF QuotaInv
  <2>3. Cardinality(Placed(u)) <= Cardinality(Holders(u)) /\ IsFiniteSet(Placed(u))
    BY <2>1, <2>2, FS_Subset
  <2>4. Cardinality(Placed(u)) \in Nat /\ Cardinality(Holders(u)) \in Nat
    BY <2>2, <2>3, FS_CardinalityType
  <2> QED
    BY <2>2, <2>3, <2>4, QuotaAssumption
<1> QED
  BY <1>1, PlacedKeepSlots, SlotsAreCounted, PTL
=============================================================================
