------------------------- MODULE LoginThrottleProofs -------------------------
(* Proofs about LoginThrottle, for any number of handlers, emails and      *)
(* addresses, and any limit.                                               *)
EXTENDS LoginThrottle, FiniteSetTheorems, TLAPS

N == Cardinality(Handlers)

\* Those whose password has been let through to be verified.
Admitted(k) == At(k, {"verify", "record"})
Pending(k) == At(k, {"record"})

\* A handler's pair is spelled the normal way, and the counter of a pair and
\* the guesses that wait to be counted are all the guesses of its window.
PairsNormal == \A h \in Handlers : pc[h] # "idle" => Account(pair[h]) = pair[h]

NormalPairs == {k \in Pairs : Account(k) = k}

GuessesCounted ==
    \A k \in NormalPairs : guesses[k] = count[k] + Cardinality(Pending(k)) + uncounted[k]

\* The counters of an email not spelled the normal way are never used.
OthersUnused == \A k \in Pairs \ NormalPairs : count[k] = 0 /\ guesses[k] = 0 /\ ttl[k] = 0

\* The count and those let through never exceed the limit by more than the
\* handlers there are: each was let through at a count below the limit.
AdmissionBounded ==
    \A k \in NormalPairs : count[k] + Cardinality(Admitted(k)) + 1 <= MaxAttempts + N

IInv == TypeOK /\ PairsNormal /\ GuessesCounted /\ OthersUnused /\ AdmissionBounded

-----------------------------------------------------------------------------
\* The account a pair stands for is a normal pair.
LEMMA AccountsArePairs == \A k \in Pairs : Account(k) \in NormalPairs
BY EmailAssumption DEF Pairs, Account, NormalPairs

\* The requests at a step are finitely many, at most all.
LEMMA FiniteAt ==
    \A k, S : IsFiniteSet(At(k, S)) /\ Cardinality(At(k, S)) \in Nat /\ Cardinality(At(k, S)) <= N
BY HandlerAssumption, FS_Subset, FS_CardinalityType DEF At, N

\* And so they are after a step.
LEMMA FiniteAtPrime ==
    \A k, S : IsFiniteSet(At(k, S)') /\ Cardinality(At(k, S)') \in Nat
BY HandlerAssumption, FS_Subset, FS_CardinalityType DEF At

\* A handler that enters a place, and one that leaves it.
LEMMA OneMore ==
    ASSUME NEW h \in Handlers, NEW A \in SUBSET Handlers, h \notin A
    PROVE  /\ Cardinality(A \cup {h}) = Cardinality(A) + 1
           /\ Cardinality(A) + 1 <= N
<1>1. IsFiniteSet(A)
  BY HandlerAssumption, FS_Subset
<1>2. Cardinality(A \cup {h}) = Cardinality(A) + 1
  BY <1>1, FS_AddElement
<1>3. Cardinality(A \cup {h}) <= N
  BY HandlerAssumption, FS_Subset DEF N
<1> QED BY <1>2, <1>3

\* Without one of its members a set of requests is smaller by one.
LEMMA OneLess ==
    ASSUME NEW h \in Handlers, NEW A \in SUBSET Handlers, h \in A
    PROVE  Cardinality(A \ {h}) + 1 = Cardinality(A)
<1>1. IsFiniteSet(A) /\ IsFiniteSet(A \ {h})
  BY HandlerAssumption, FS_Subset
<1>2. Cardinality(A) \in Nat /\ Cardinality(A \ {h}) = Cardinality(A) - 1
  BY <1>1, FS_RemoveElement, FS_CardinalityType
<1> QED BY <1>2

\* What becomes of a place when one handler goes elsewhere.
LEMMA Moved ==
    ASSUME TypeOK, NEW h \in Handlers, NEW step,
           pc' = [pc EXCEPT ![h] = step],
           \A g \in Handlers \ {h} : pair'[g] = pair[g],
           NEW k, NEW S
    PROVE  /\ step \in S /\ Account(pair'[h]) = k => At(k, S)' = At(k, S) \cup {h}
           /\ ~(step \in S /\ Account(pair'[h]) = k) => At(k, S)' = At(k, S) \ {h}
BY DEF TypeOK, At, Account

\* A place a handler is neither in before nor after stays as it is.
LEMMA Elsewhere ==
    ASSUME TypeOK, NEW h \in Handlers, NEW step,
           pc' = [pc EXCEPT ![h] = step],
           \A g \in Handlers \ {h} : pair'[g] = pair[g],
           NEW S, pc[h] \notin S, step \notin S
    PROVE  \A k : At(k, S)' = At(k, S)
BY DEF TypeOK, At, Account

-----------------------------------------------------------------------------
(* Initially nothing has been tried.                                       *)
LEMMA InitInv == Init => IInv
<1> SUFFICES ASSUME Init PROVE IInv
  OBVIOUS
<1> USE DEF Init
<1>1. TypeOK
  BY BoundAssumption DEF TypeOK, Pairs
<1>2. \A k : Pending(k) = {} /\ Admitted(k) = {}
  BY DEF Pending, Admitted, At
<1>3. Cardinality({}) = 0 /\ N \in Nat
  BY FS_EmptySet, HandlerAssumption, FS_CardinalityType DEF N
<1>4. PairsNormal /\ OthersUnused
  BY DEF PairsNormal, OthersUnused
<1>5. GuessesCounted
  BY <1>2, <1>3 DEF GuessesCounted, NormalPairs
<1>6. AdmissionBounded
  BY <1>2, <1>3, BoundAssumption DEF AdmissionBounded, NormalPairs
<1> QED BY <1>1, <1>4, <1>5, <1>6 DEF IInv

\* Every step keeps the types.
LEMMA TypeStep == IInv /\ [Next]_vars => TypeOK'
<1> SUFFICES ASSUME IInv, [Next]_vars PROVE TypeOK'
  OBVIOUS
<1> USE BoundAssumption DEF IInv, TypeOK
<1>1. ASSUME NEW h \in Handlers, CheckRateLimit(h) PROVE TypeOK'
  BY <1>1, EmailAssumption DEF CheckRateLimit, RateLimitKey, Goto, Pairs
<1>2. ASSUME NEW h \in Handlers, Refuse(h) PROVE TypeOK'
  BY <1>2 DEF Refuse, RetryAfter, RefusedTtl, Goto
<1>3. ASSUME NEW h \in Handlers, Verify(h) PROVE TypeOK'
  BY <1>3, AccountsArePairs DEF Verify, Goto, NormalPairs
<1>4. ASSUME NEW h \in Handlers, RecordFailedAttempt(h) PROVE TypeOK'
  BY <1>4 DEF RecordFailedAttempt, Goto
<1>5. ASSUME NEW h \in Handlers, ClearFailedAttempts(h) PROVE TypeOK'
  BY <1>5, AccountsArePairs, FiniteAt DEF ClearFailedAttempts, Forget, Goto, NormalPairs
<1>6. ASSUME NEW h \in Handlers, RedisFails(h) PROVE TypeOK'
  BY <1>6, AccountsArePairs DEF RedisFails, Goto, NormalPairs
<1>7. ASSUME NEW k \in Pairs, Elapse(k) PROVE TypeOK'
  BY <1>7, AccountsArePairs, FiniteAt DEF Elapse, Forget, NormalPairs
<1>8. CASE UNCHANGED vars
  BY <1>8 DEF vars
<1> QED BY <1>1, <1>2, <1>3, <1>4, <1>5, <1>6, <1>7, <1>8 DEF Next

\* The pair of a request that runs has the key's spelling, and so only such
\* keys are ever written.
LEMMA NormalStep == IInv /\ [Next]_vars => PairsNormal' /\ OthersUnused'
<1> SUFFICES ASSUME IInv, [Next]_vars PROVE PairsNormal' /\ OthersUnused'
  OBVIOUS
<1> USE DEF IInv, TypeOK, PairsNormal, OthersUnused, NormalPairs
<1>1. ASSUME NEW h \in Handlers, CheckRateLimit(h) PROVE PairsNormal' /\ OthersUnused'
  <2> HIDE DEF IInv, PairsNormal, OthersUnused, NormalPairs
  <2>0. PairsNormal /\ pc \in [Handlers -> {"idle", "locked", "verify", "record", "clear"}]
    BY DEF IInv, TypeOK
  <2> HIDE DEF TypeOK
  <2>a. PICK e \in Emails, ip \in Addresses :
            /\ pair' = [pair EXCEPT ![h] = RateLimitKey(e, ip)]
            /\ \E st \in {"locked", "verify"} : pc' = [pc EXCEPT ![h] = st]
    BY <1>1 DEF CheckRateLimit, Goto
  <2>1. \A g \in Handlers \ {h} : pc'[g] = pc[g]
    BY <2>0, <2>a
  <2>2. Account(RateLimitKey(e, ip)) = RateLimitKey(e, ip)
    BY EmailAssumption DEF Account, RateLimitKey
  <2>4. pair \in [Handlers -> Pairs]
    BY DEF IInv, TypeOK
  <2>3. PairsNormal'
    BY <2>0, <2>a, <2>1, <2>2, <2>4 DEF PairsNormal
  <2>5. OthersUnused'
    BY <1>1 DEF CheckRateLimit, IInv, OthersUnused, NormalPairs, Account
  <2> QED BY <2>3, <2>5
<1>2. ASSUME NEW h \in Handlers, Refuse(h) PROVE PairsNormal' /\ OthersUnused'
  BY <1>2 DEF Refuse, RefusedTtl, Goto
<1>3. ASSUME NEW h \in Handlers, Verify(h) PROVE PairsNormal' /\ OthersUnused'
  BY <1>3 DEF Verify, Goto
<1>4. ASSUME NEW h \in Handlers, RecordFailedAttempt(h) PROVE PairsNormal' /\ OthersUnused'
  BY <1>4 DEF RecordFailedAttempt, Goto
<1>5. ASSUME NEW h \in Handlers, ClearFailedAttempts(h) PROVE PairsNormal' /\ OthersUnused'
  BY <1>5 DEF ClearFailedAttempts, Forget, Goto
<1>6. ASSUME NEW h \in Handlers, RedisFails(h) PROVE PairsNormal' /\ OthersUnused'
  BY <1>6 DEF RedisFails, Goto
<1>7. ASSUME NEW k \in Pairs, Elapse(k) PROVE PairsNormal' /\ OthersUnused'
  BY <1>7 DEF Elapse, Forget
<1>8. CASE UNCHANGED vars
  BY <1>8 DEF vars
<1> QED BY <1>1, <1>2, <1>3, <1>4, <1>5, <1>6, <1>7, <1>8 DEF Next

Counts == GuessesCounted /\ AdmissionBounded

\* A step that lets nobody in and judges nobody.
LEMMA CountsStay ==
    ASSUME IInv, UNCHANGED <<count, guesses, uncounted>>,
           \A k : Pending(k)' = Pending(k) /\ Admitted(k)' = Admitted(k)
    PROVE  Counts'
BY DEF IInv, Counts, GuessesCounted, AdmissionBounded, NormalPairs

\* A step that takes one pair's key away.
LEMMA CountsForgotten ==
    ASSUME IInv, NEW k \in NormalPairs,
           count' = [count EXCEPT ![k] = 0], Forget(k, Pending(k)),
           \A l : Pending(l)' = Pending(l) /\ Admitted(l)' = Admitted(l)
    PROVE  Counts'
<1>1. Account(k) = k /\ k \in Pairs
  BY DEF NormalPairs
<1>2. \A l \in NormalPairs :
          /\ l # k => count'[l] = count[l] /\ guesses'[l] = guesses[l] /\ uncounted'[l] = uncounted[l]
          /\ l = k => count'[l] = 0 /\ guesses'[l] = Cardinality(Pending(k)) /\ uncounted'[l] = 0
  BY <1>1 DEF Forget, IInv, TypeOK, NormalPairs
<1>3. \A l : Cardinality(Pending(l)) \in Nat /\ Cardinality(Admitted(l)) \in Nat
  BY FiniteAt DEF Pending, Admitted
<1>4. GuessesCounted'
  BY <1>2, <1>3 DEF IInv, GuessesCounted, NormalPairs
<1>5. \A l \in NormalPairs : count'[l] <= count[l]
  BY <1>2 DEF IInv, TypeOK, NormalPairs
<1>6. N \in Nat
  BY HandlerAssumption, FS_CardinalityType DEF N
<1>7. ASSUME NEW l \in NormalPairs
      PROVE  count'[l] + Cardinality(Admitted(l)') + 1 <= MaxAttempts + N
  <2>1. count[l] \in Nat /\ count'[l] \in Nat
    BY <1>2 DEF IInv, TypeOK, NormalPairs
  <2>2. count[l] + Cardinality(Admitted(l)) + 1 <= MaxAttempts + N
    BY DEF IInv, AdmissionBounded
  <2> QED BY <2>1, <2>2, <1>3, <1>5, <1>6, BoundAssumption
<1>8. AdmissionBounded'
  BY <1>7 DEF AdmissionBounded, NormalPairs
<1> QED BY <1>4, <1>8 DEF Counts

\* One handler goes on: what that does to the counts of its pair and of the
\* others.
LEMMA CountsMove ==
    ASSUME IInv, NEW h \in Handlers, NEW k \in NormalPairs, pair[h] = k,
           NEW a \in Nat, NEW b \in Nat, NEW c \in Nat, NEW d \in Nat,
           \A l \in NormalPairs \ {k} :
               /\ count'[l] = count[l] /\ guesses'[l] = guesses[l]
               /\ uncounted'[l] = uncounted[l]
               /\ Pending(l)' = Pending(l) /\ Admitted(l)' = Admitted(l),
           Cardinality(Pending(k)') + c = Cardinality(Pending(k)) + d,
           count'[k] = count[k] + a /\ uncounted'[k] = uncounted[k] + b,
           guesses'[k] = guesses[k] + d, c = a + b,
           count'[k] + Cardinality(Admitted(k)') <= count[k] + Cardinality(Admitted(k))
    PROVE  Counts'
<1>1. \A l : Cardinality(Pending(l)) \in Nat /\ Cardinality(Admitted(l)) \in Nat
  BY FiniteAt DEF Pending, Admitted
<1>2. Cardinality(Pending(k)') \in Nat /\ Cardinality(Admitted(k)') \in Nat /\ N \in Nat
  BY FiniteAtPrime, HandlerAssumption, FS_CardinalityType DEF Pending, Admitted, N
<1>3. count[k] \in Nat /\ uncounted[k] \in Nat /\ guesses[k] \in Nat
  BY BoundAssumption DEF IInv, TypeOK, NormalPairs
<1>4. guesses'[k] = count'[k] + Cardinality(Pending(k)') + uncounted'[k]
  <2>1. guesses[k] = count[k] + Cardinality(Pending(k)) + uncounted[k]
    BY DEF IInv, GuessesCounted
  <2> QED BY <2>1, <1>1, <1>2, <1>3
<1>5. count'[k] + Cardinality(Admitted(k)') + 1 <= MaxAttempts + N
  <2>1. count[k] + Cardinality(Admitted(k)) + 1 <= MaxAttempts + N
    BY DEF IInv, AdmissionBounded
  <2> QED BY <2>1, <1>1, <1>2, <1>3, BoundAssumption
<1>6. GuessesCounted'
  BY <1>4 DEF IInv, GuessesCounted, NormalPairs
<1>7. AdmissionBounded'
  BY <1>5 DEF IInv, AdmissionBounded, NormalPairs
<1> QED BY <1>6, <1>7 DEF Counts

\* Where one handler is not, nothing moves.
LEMMA OthersStay ==
    ASSUME TypeOK, NEW h \in Handlers, NEW step,
           pc' = [pc EXCEPT ![h] = step], pair' = pair,
           NEW l, Account(pair[h]) # l
    PROVE  Pending(l)' = Pending(l) /\ Admitted(l)' = Admitted(l)
BY DEF TypeOK, Pending, Admitted, At, Account

\* Every wrong password that is judged is counted, or waits to be, and nobody
\* is let through at the limit.
LEMMA CountStep == IInv /\ [Next]_vars => Counts'
<1> SUFFICES ASSUME IInv, [Next]_vars PROVE Counts'
  OBVIOUS
<1>0. TypeOK /\ PairsNormal /\ GuessesCounted /\ AdmissionBounded
  BY DEF IInv
<1>1. ASSUME NEW h \in Handlers, CheckRateLimit(h) PROVE Counts'
  <2>1. PICK e \in Emails, ip \in Addresses :
            /\ pair' = [pair EXCEPT ![h] = RateLimitKey(e, ip)]
            /\ pc' = [pc EXCEPT ![h] = IF LockedOut(RateLimitKey(e, ip)) THEN "locked" ELSE "verify"]
    BY <1>1 DEF CheckRateLimit, Goto
  <2> DEFINE k == RateLimitKey(e, ip)
             step == IF LockedOut(k) THEN "locked" ELSE "verify"
  <2>2. k \in NormalPairs /\ pair'[h] = k
    BY <2>1, <1>0, EmailAssumption DEF Account, RateLimitKey, NormalPairs, Pairs, TypeOK
  <2>3. pc[h] = "idle" /\ UNCHANGED <<count, guesses, uncounted>>
    BY <1>1 DEF CheckRateLimit
  <2>4. \A l : Pending(l)' = Pending(l)
    BY <2>1, <2>3, <1>0 DEF TypeOK, Pending, At, Account
  <2>5. CASE LockedOut(k)
    <3>1. \A l : Admitted(l)' = Admitted(l)
      BY <2>1, <2>3, <2>5, <1>0 DEF TypeOK, Admitted, At, Account
    <3> QED BY <3>1, <2>3, <2>4, CountsStay
  <2>6. CASE ~LockedOut(k)
    <3>1. \A l \in NormalPairs \ {k} : Admitted(l)' = Admitted(l)
      BY <2>1, <2>2, <2>3, <2>6, <1>0 DEF TypeOK, Admitted, At, Account, NormalPairs
    <3>2. Admitted(k)' = Admitted(k) \cup {h} /\ h \notin Admitted(k) /\ Admitted(k) \in SUBSET Handlers
      BY <2>1, <2>2, <2>3, <2>6, <1>0 DEF TypeOK, Admitted, At, Account, NormalPairs
    <3>3. Cardinality(Admitted(k)') = Cardinality(Admitted(k)) + 1 /\ Cardinality(Admitted(k)) + 1 <= N
      BY <3>2, OneMore
    <3>4. count[k] \in Nat /\ count[k] + 1 <= MaxAttempts
      BY <2>2, <2>6, <1>0, BoundAssumption DEF LockedOut, TypeOK, NormalPairs
    <3>5. Cardinality(Admitted(k)) \in Nat /\ N \in Nat
      BY FiniteAt, HandlerAssumption, FS_CardinalityType DEF Admitted, N
    <3>6. count[k] + Cardinality(Admitted(k)') + 1 <= MaxAttempts + N
      BY <3>3, <3>4, <3>5, BoundAssumption
    <3>7. AdmissionBounded'
      BY <1>0, <2>3, <3>1, <3>6 DEF AdmissionBounded, NormalPairs
    <3>8. GuessesCounted'
      BY <1>0, <2>3, <2>4 DEF GuessesCounted, NormalPairs
    <3> QED BY <3>7, <3>8 DEF Counts
  <2> QED BY <2>5, <2>6
<1>2. ASSUME NEW h \in Handlers, Refuse(h) PROVE Counts'
  <2>1. \A l : Pending(l)' = Pending(l) /\ Admitted(l)' = Admitted(l)
    BY <1>2, <1>0 DEF Refuse, Goto, TypeOK, Pending, Admitted, At, Account
  <2> QED BY <1>2, <2>1, CountsStay DEF Refuse
<1>3. ASSUME NEW h \in Handlers, Verify(h) PROVE Counts'
  <2>0. PICK k \in Pairs : k = pair[h]
    BY <1>0 DEF TypeOK
  <2>1. pc[h] = "verify" /\ pair' = pair /\ UNCHANGED <<count, uncounted>>
    BY <1>3 DEF Verify
  <2>2. k \in NormalPairs /\ Account(k) = k
    BY <2>0, <2>1, <1>0 DEF TypeOK, PairsNormal, NormalPairs
  <2>3. Admitted(k) \in SUBSET Handlers /\ Pending(k) \in SUBSET Handlers
        /\ h \in Admitted(k) /\ h \notin Pending(k)
    BY <2>0, <2>1, <2>2 DEF Admitted, Pending, At
  <2>4. Cardinality(Admitted(k)) \in Nat /\ Cardinality(Pending(k)) \in Nat
    BY FiniteAt DEF Admitted, Pending
  <2>5. CASE Goto(h, "clear") /\ UNCHANGED guesses
    <3>1. \A l \in NormalPairs \ {k} : Pending(l)' = Pending(l) /\ Admitted(l)' = Admitted(l)
      BY <2>0, <2>1, <2>2, <2>5, <1>0, OthersStay DEF Goto
    <3>2. Pending(k)' = Pending(k) /\ Admitted(k)' = Admitted(k) \ {h}
      BY <2>0, <2>1, <2>2, <2>5, <1>0 DEF Goto, TypeOK, Pending, Admitted, At
    <3>3. Cardinality(Admitted(k)') + 1 = Cardinality(Admitted(k))
      BY <3>2, <2>3, OneLess
    <3>4. Cardinality(Admitted(k)') \in Nat /\ count[k] \in Nat /\ uncounted[k] \in Nat /\ guesses[k] \in Nat
      BY FiniteAtPrime, <2>2, <1>0, BoundAssumption DEF Admitted, TypeOK, NormalPairs
    <3>5. /\ count'[k] = count[k] + 0 /\ uncounted'[k] = uncounted[k] + 0
          /\ guesses'[k] = guesses[k] + 0
          /\ Cardinality(Pending(k)') + 0 = Cardinality(Pending(k)) + 0
          /\ count'[k] + Cardinality(Admitted(k)') <= count[k] + Cardinality(Admitted(k))
      BY <2>1, <2>4, <2>5, <3>2, <3>3, <3>4
    <3>6. \A l \in NormalPairs \ {k} : count'[l] = count[l] /\ guesses'[l] = guesses[l] /\ uncounted'[l] = uncounted[l]
      BY <2>1, <2>5
    <3> QED BY <2>0, <2>2, <3>1, <3>5, <3>6, CountsMove
  <2>6. CASE Goto(h, "record") /\ guesses' = [guesses EXCEPT ![Account(pair[h])] = @ + 1]
    <3>1. \A l \in NormalPairs \ {k} : Pending(l)' = Pending(l) /\ Admitted(l)' = Admitted(l)
      BY <2>0, <2>1, <2>2, <2>6, <1>0, OthersStay DEF Goto
    <3>2. Pending(k)' = Pending(k) \cup {h} /\ Admitted(k)' = Admitted(k)
      BY <2>0, <2>1, <2>2, <2>6, <1>0 DEF Goto, TypeOK, Pending, Admitted, At
    <3>3. Cardinality(Pending(k)') = Cardinality(Pending(k)) + 1
      BY <3>2, <2>3, OneMore
    <3>4. count[k] \in Nat /\ uncounted[k] \in Nat /\ guesses[k] \in Nat
      BY <2>2, <1>0, BoundAssumption DEF TypeOK, NormalPairs
    <3>5. /\ count'[k] = count[k] + 0 /\ uncounted'[k] = uncounted[k] + 0
          /\ guesses'[k] = guesses[k] + 1
          /\ Cardinality(Pending(k)') + 0 = Cardinality(Pending(k)) + 1
          /\ count'[k] + Cardinality(Admitted(k)') <= count[k] + Cardinality(Admitted(k))
      BY <2>0, <2>1, <2>2, <2>4, <2>6, <3>2, <3>3, <3>4, <1>0 DEF TypeOK, NormalPairs
    <3>6. \A l \in NormalPairs \ {k} : count'[l] = count[l] /\ guesses'[l] = guesses[l] /\ uncounted'[l] = uncounted[l]
      BY <2>0, <2>1, <2>2, <2>6, <1>0 DEF TypeOK, NormalPairs
    <3> QED BY <2>0, <2>2, <3>1, <3>5, <3>6, CountsMove
  <2> QED BY <1>3, <2>5, <2>6 DEF Verify
<1>4. ASSUME NEW h \in Handlers, pc[h] = "record", Goto(h, "idle"),
             pair' = pair, guesses' = guesses,
             NEW a \in {0, 1},
             count' = [count EXCEPT ![pair[h]] = @ + a],
             uncounted' = [uncounted EXCEPT ![pair[h]] = @ + (1 - a)]
      PROVE  Counts'
  <2>0. PICK k \in Pairs : k = pair[h]
    BY <1>0 DEF TypeOK
  <2>2. k \in NormalPairs /\ Account(k) = k
    BY <2>0, <1>4, <1>0 DEF TypeOK, PairsNormal, NormalPairs
  <2>3. Admitted(k) \in SUBSET Handlers /\ Pending(k) \in SUBSET Handlers
        /\ h \in Admitted(k) /\ h \in Pending(k)
    BY <2>0, <1>4, <2>2 DEF Admitted, Pending, At
  <2>4. Cardinality(Admitted(k)) \in Nat /\ Cardinality(Pending(k)) \in Nat
    BY FiniteAt DEF Admitted, Pending
  <2>5. Cardinality(Admitted(k)') \in Nat /\ Cardinality(Pending(k)') \in Nat
    BY FiniteAtPrime DEF Admitted, Pending
  <2>6. \A l \in NormalPairs \ {k} : Pending(l)' = Pending(l) /\ Admitted(l)' = Admitted(l)
    BY <2>0, <1>4, <2>2, <1>0, OthersStay DEF Goto
  <2>7. Pending(k)' = Pending(k) \ {h} /\ Admitted(k)' = Admitted(k) \ {h}
    BY <2>0, <1>4, <2>2, <1>0 DEF Goto, TypeOK, Pending, Admitted, At
  <2>8. /\ Cardinality(Pending(k)') + 1 = Cardinality(Pending(k))
        /\ Cardinality(Admitted(k)') + 1 = Cardinality(Admitted(k))
    BY <2>3, <2>7, OneLess
  <2>9. count[k] \in Nat /\ uncounted[k] \in Nat /\ guesses[k] \in Nat
    BY <2>2, <1>0, BoundAssumption DEF TypeOK, NormalPairs
  <2>10. count'[k] = count[k] + a /\ uncounted'[k] = uncounted[k] + (1 - a)
    BY <2>0, <1>4, <2>2, <1>0 DEF TypeOK, NormalPairs
  <2>11. \A l \in NormalPairs \ {k} : count'[l] = count[l] /\ guesses'[l] = guesses[l] /\ uncounted'[l] = uncounted[l]
    BY <2>0, <1>4, <2>2, <1>0 DEF TypeOK, NormalPairs
  <2>12. /\ guesses'[k] = guesses[k] + 0 /\ a \in Nat /\ 1 - a \in Nat /\ 1 = a + (1 - a)
         /\ Cardinality(Pending(k)') + 1 = Cardinality(Pending(k)) + 0
         /\ count'[k] + Cardinality(Admitted(k)') <= count[k] + Cardinality(Admitted(k))
    BY <1>4, <2>4, <2>5, <2>8, <2>9, <2>10
  <2> QED BY <2>0, <2>2, <2>6, <2>10, <2>11, <2>12, CountsMove
<1>5. ASSUME NEW h \in Handlers, RecordFailedAttempt(h) PROVE Counts'
  <2>1. uncounted' = [uncounted EXCEPT ![pair[h]] = @ + (1 - 1)]
    BY <1>5, <1>0 DEF RecordFailedAttempt, TypeOK
  <2> QED BY <1>4, <1>5, <2>1 DEF RecordFailedAttempt
<1>6. ASSUME NEW h \in Handlers, ClearFailedAttempts(h) PROVE Counts'
  <2>1. pair[h] \in NormalPairs /\ Account(pair[h]) = pair[h]
    BY <1>6, <1>0 DEF ClearFailedAttempts, TypeOK, PairsNormal, NormalPairs
  <2>2. \A l : Pending(l)' = Pending(l) /\ Admitted(l)' = Admitted(l)
    BY <1>6, <1>0 DEF ClearFailedAttempts, Goto, TypeOK, Pending, Admitted, At, Account
  <2> QED BY <1>6, <2>1, <2>2, CountsForgotten DEF ClearFailedAttempts, Pending
<1>7. ASSUME NEW h \in Handlers, RedisFails(h) PROVE Counts'
  <2>1. CASE pc[h] = "record"
    <3>1. Account(pair[h]) = pair[h]
      BY <2>1, <1>0 DEF PairsNormal
    <3>2. /\ count' = [count EXCEPT ![pair[h]] = @ + 0]
          /\ uncounted' = [uncounted EXCEPT ![pair[h]] = @ + (1 - 0)]
      BY <1>7, <2>1, <3>1, <1>0 DEF RedisFails, TypeOK
    <3> QED BY <1>4, <1>7, <2>1, <3>2 DEF RedisFails
  <2>2. CASE pc[h] = "clear"
    <3>1. \A l : Pending(l)' = Pending(l) /\ Admitted(l)' = Admitted(l)
      BY <1>7, <2>2, <1>0 DEF RedisFails, Goto, TypeOK, Pending, Admitted, At, Account
    <3> QED BY <1>7, <2>2, <3>1, CountsStay DEF RedisFails
  <2> QED BY <1>7, <2>1, <2>2 DEF RedisFails
<1>8. ASSUME NEW k \in Pairs, Elapse(k) PROVE Counts'
  <2>1. k \in NormalPairs /\ Account(k) = k
    BY <1>8, BoundAssumption DEF Elapse, IInv, OthersUnused, NormalPairs
  <2>2. \A l : Pending(l)' = Pending(l) /\ Admitted(l)' = Admitted(l)
    BY <1>8 DEF Elapse, Pending, Admitted, At, Account
  <2>3. CASE ttl[k] > 1
    BY <1>8, <2>2, <2>3, CountsStay DEF Elapse
  <2>4. CASE ~(ttl[k] > 1)
    BY <1>8, <2>1, <2>2, <2>4, CountsForgotten DEF Elapse, Pending
  <2> QED BY <2>3, <2>4
<1>9. CASE UNCHANGED vars
  <2>1. \A l : Pending(l)' = Pending(l) /\ Admitted(l)' = Admitted(l)
    BY <1>9 DEF vars, Pending, Admitted, At, Account
  <2> QED BY <1>9, <2>1, CountsStay DEF vars
<1> QED BY <1>1, <1>2, <1>3, <1>5, <1>6, <1>7, <1>8, <1>9 DEF Next

\* Every step keeps the invariant.
LEMMA StepInv == IInv /\ [Next]_vars => IInv'
BY TypeStep, NormalStep, CountStep DEF IInv, Counts

\* The invariant holds in every reachable state.
LEMMA Invariance == Spec => []IInv
BY InitInv, StepInv, PTL DEF Spec

-----------------------------------------------------------------------------
\* The types, and with them that a refused client is told to wait between a
\* second and the window.
THEOREM TypeCorrect == Spec => []TypeOK
<1>1. IInv => TypeOK
  BY DEF IInv
<1> QED BY <1>1, Invariance, PTL

\* The wrong passwords of a window exceed the limit by less than the number
\* of requests the server runs at a time, but for those Redis did not count.
THEOREM GuessesAreBounded == Spec => []GuessesBounded
<1>1. IInv => GuessesBounded
  <2> SUFFICES ASSUME IInv, NEW k \in Pairs
               PROVE  guesses[k] + 1 <= MaxAttempts + Cardinality(Handlers) + uncounted[k]
    BY DEF GuessesBounded
  <2>1. N \in Nat /\ uncounted[k] \in Nat /\ count[k] \in Nat
    BY HandlerAssumption, FS_CardinalityType, BoundAssumption DEF N, IInv, TypeOK
  <2>2. CASE k \in NormalPairs
    <3>1. Cardinality(Pending(k)) <= Cardinality(Admitted(k))
      <4>1. Pending(k) \subseteq Admitted(k)
        BY DEF Pending, Admitted, At
      <4> QED BY <4>1, FiniteAt, FS_Subset DEF Admitted
    <3>2. Cardinality(Pending(k)) \in Nat /\ Cardinality(Admitted(k)) \in Nat
      BY FiniteAt DEF Pending, Admitted
    <3>3. guesses[k] = count[k] + Cardinality(Pending(k)) + uncounted[k]
      BY <2>2 DEF IInv, GuessesCounted
    <3>4. count[k] + Cardinality(Admitted(k)) + 1 <= MaxAttempts + N
      BY <2>2 DEF IInv, AdmissionBounded
    <3> QED BY <2>1, <3>1, <3>2, <3>3, <3>4, BoundAssumption DEF N
  <2>3. CASE k \notin NormalPairs
    <3>1. guesses[k] = 0
      BY <2>3 DEF IInv, OthersUnused
    <3> QED BY <2>1, <3>1, BoundAssumption DEF N
  <2> QED BY <2>2, <2>3
<1> QED BY <1>1, Invariance, PTL

-----------------------------------------------------------------------------
(* A lockout wanes.                                                        *)

\* A counter always has an expiry (MULTI INCR EXPIRE, service.py:51-54).
CountersExpire == \A k \in Pairs : count[k] > 0 => ttl[k] > 0

\* While an account is locked nobody is let through, and its window is renewed
\* only by one of those who had been.
Wanes(k) ==
    \/ count'[k] < MaxAttempts
    \/ /\ Admitted(k)' \subseteq Admitted(k)
       /\ Admitted(k)' = Admitted(k) => ttl'[k] <= ttl[k]

LockoutWanes == [][\A k \in Pairs : count[k] >= MaxAttempts => Wanes(k)]_vars

\* Every step keeps an expiry on each counter.
LEMMA ExpiryStep == TypeOK /\ CountersExpire /\ [Next]_vars => CountersExpire'
<1> SUFFICES ASSUME TypeOK, CountersExpire, [Next]_vars PROVE CountersExpire'
  OBVIOUS
<1> USE BoundAssumption DEF TypeOK, CountersExpire
<1>1. ASSUME NEW h \in Handlers, CheckRateLimit(h) \/ Verify(h) \/ RedisFails(h)
      PROVE  CountersExpire'
  BY <1>1 DEF CheckRateLimit, Verify, RedisFails
<1>2. ASSUME NEW h \in Handlers, Refuse(h) PROVE CountersExpire'
  BY <1>2 DEF Refuse, RefusedTtl
<1>3. ASSUME NEW h \in Handlers, RecordFailedAttempt(h) \/ ClearFailedAttempts(h)
      PROVE  CountersExpire'
  BY <1>3 DEF RecordFailedAttempt, ClearFailedAttempts
<1>4. ASSUME NEW k \in Pairs, Elapse(k) PROVE CountersExpire'
  BY <1>4 DEF Elapse
<1>5. CASE UNCHANGED vars
  BY <1>5 DEF vars
<1> QED BY <1>1, <1>2, <1>3, <1>4, <1>5 DEF Next

\* Every step lets a lockout wane.
LEMMA WaningStep ==
    ASSUME TypeOK, PairsNormal, [Next]_vars, NEW k \in Pairs, count[k] >= MaxAttempts
    PROVE  Wanes(k)
<1> USE DEF TypeOK, Goto
<1>0. /\ count[k] \in Nat /\ ttl[k] \in Nat /\ Window \in Nat /\ MaxAttempts \in Nat \ {0}
      /\ \A h \in Handlers : h \in Admitted(k) => pair[h] = k
  BY BoundAssumption DEF PairsNormal, Admitted, At
<1>1. ASSUME NEW h \in Handlers, CheckRateLimit(h) PROVE Wanes(k)
  <2>1. PICK l : /\ pair' = [pair EXCEPT ![h] = l] /\ pc[h] = "idle" /\ Account(l) = l
                 /\ pc' = [pc EXCEPT ![h] = IF LockedOut(l) THEN "locked" ELSE "verify"]
    <3>1. \A e \in Emails, ip \in Addresses : Account(RateLimitKey(e, ip)) = RateLimitKey(e, ip)
      BY EmailAssumption DEF Account, RateLimitKey
    <3> QED BY <1>1, <3>1 DEF CheckRateLimit
  <2>2. l = k => pc'[h] = "locked"
    BY <1>0, <2>1 DEF LockedOut
  <2>3. Admitted(k)' = Admitted(k)
    BY <2>1, <2>2 DEF Admitted, At, Account
  <2>4. UNCHANGED ttl
    BY <1>1 DEF CheckRateLimit
  <2> QED BY <1>0, <2>3, <2>4 DEF Wanes
<1>2. ASSUME NEW h \in Handlers, Refuse(h) PROVE Wanes(k)
  <2>1. Admitted(k)' = Admitted(k)
    BY <1>2 DEF Refuse, Admitted, At, Account
  <2>2. ttl'[k] = ttl[k]
    BY <1>2 DEF Refuse, RefusedTtl
  <2> QED BY <1>0, <2>1, <2>2 DEF Wanes
<1>3. ASSUME NEW h \in Handlers, Verify(h) \/ RedisFails(h) PROVE Wanes(k)
  <2>1. /\ pair' = pair /\ ttl' = ttl
        /\ pc[h] \in {"verify", "record", "clear"}
        /\ pc'[h] = "record" => pc[h] = "verify"
        /\ pc'[h] \in {"record", "clear", "idle"}
        /\ \A g \in Handlers \ {h} : pc'[g] = pc[g]
    BY <1>3 DEF Verify, RedisFails
  <2>2. Admitted(k)' \subseteq Admitted(k)
    BY <2>1 DEF Admitted, At, Account
  <2> QED BY <1>0, <2>1, <2>2 DEF Wanes
<1>4. ASSUME NEW h \in Handlers, RecordFailedAttempt(h) PROVE Wanes(k)
  <2>1. /\ pair' = pair /\ pc[h] = "record" /\ pc'[h] = "idle"
        /\ \A g \in Handlers \ {h} : pc'[g] = pc[g]
        /\ pair[h] # k => ttl'[k] = ttl[k]
    BY <1>4 DEF RecordFailedAttempt
  <2>2. Admitted(k)' \subseteq Admitted(k)
    BY <2>1 DEF Admitted, At, Account
  <2>3. CASE pair[h] = k
    <3>1. h \in Admitted(k) /\ h \notin Admitted(k)'
      BY <2>1, <2>3 DEF PairsNormal, Admitted, At, Account
    <3> QED BY <2>2, <3>1 DEF Wanes
  <2>4. CASE pair[h] # k
    BY <1>0, <2>1, <2>2, <2>4 DEF Wanes
  <2> QED BY <2>3, <2>4
<1>5. ASSUME NEW h \in Handlers, ClearFailedAttempts(h) PROVE Wanes(k)
  <2>1. CASE pair[h] = k
    BY <1>0, <1>5, <2>1 DEF ClearFailedAttempts, Wanes
  <2>2. CASE pair[h] # k
    <3>1. ttl'[k] = ttl[k]
      BY <1>5, <2>2 DEF ClearFailedAttempts
    <3>2. Admitted(k)' = Admitted(k)
      BY <1>5 DEF ClearFailedAttempts, Admitted, At, Account
    <3> QED BY <1>0, <3>1, <3>2 DEF Wanes
  <2> QED BY <2>1, <2>2
<1>6. ASSUME NEW l \in Pairs, Elapse(l) PROVE Wanes(k)
  <2>1. Admitted(k)' = Admitted(k)
    BY <1>6 DEF Elapse, Admitted, At, Account
  <2>2. ttl'[k] <= ttl[k]
    BY <1>0, <1>6 DEF Elapse
  <2> QED BY <2>1, <2>2 DEF Wanes
<1>7. CASE UNCHANGED vars
  BY <1>0, <1>7 DEF vars, Wanes, Admitted, At, Account
<1> QED BY <1>1, <1>2, <1>3, <1>4, <1>5, <1>6, <1>7 DEF Next

(* A locked account's key has an expiry, nobody is let through while it    *)
(* is locked, and only the attempts that were under way, of which there    *)
(* are ever fewer, renew the window (service.py:33, :53): refused ones do  *)
(* not.  The safety in LockoutEnds; what is left to fairness is the clock. *)
THEOREM LockoutsWane == Spec => []CountersExpire /\ LockoutWanes
<1>1. Init => CountersExpire
  BY DEF Init, CountersExpire
<1>2. TypeOK /\ PairsNormal /\ [Next]_vars =>
        [\A k \in Pairs : count[k] >= MaxAttempts => Wanes(k)]_vars
  BY WaningStep
<1>3. IInv => TypeOK /\ PairsNormal
  BY DEF IInv
<1> QED BY <1>1, <1>2, <1>3, ExpiryStep, Invariance, PTL DEF Spec, LockoutWanes
=============================================================================
