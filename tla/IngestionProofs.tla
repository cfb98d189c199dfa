--------------------------- MODULE IngestionProofs ---------------------------
(***************************************************************************)
(* Theorems about Ingestion, for every set of calls, handlers, payloads    *)
(* and faults.  The invariants are layered: each layer is inductive        *)
(* relative to the ones before it.                                         *)
(***************************************************************************)
EXTENDS Ingestion, TLAPS

-----------------------------------------------------------------------------
(* Facts about payloads.                                                   *)

\* A payload of a status the application knows gives one of the column's values.
LEMMA PayloadStatus ==
    ASSUME NEW p \in Payloads, Known(p)
    PROVE  SessionStatus(p) \in Statuses
BY PayloadAssumption DEF PayloadType, RawStatuses, SessionStatus, Known, Statuses

\* The key of a payload is one of the keys.
LEMMA PayloadKey ==
    ASSUME NEW p \in Payloads
    PROVE  IdempotencyKey(p) \in Keys
BY DEF Keys

-----------------------------------------------------------------------------
(* Layer 1: types, and a run past ResolveSession has a published call.     *)

Resolved == {"append", "persist", "update", "commit", "notify", "enqueue"}

Inv1 ==
    /\ TypeOK
    /\ \A h \in Handlers : pc[h] \in Resolved => Call(h) \in published

\* A run that returns is well typed, and idle.
LEMMA FinishType ==
    ASSUME TypeOK, NEW h \in Handlers, Finish(h)
    PROVE  /\ pc' \in [Handlers -> Steps]
           /\ pay' \in [Handlers -> Payloads \cup {None}]
           /\ fresh' \in [Handlers -> BOOLEAN]
           /\ locked' \in [Handlers -> BOOLEAN]
           /\ pc'[h] = "idle"
           /\ \A g \in Handlers \ {h} : pc'[g] = pc[g] /\ pay'[g] = pay[g]
                                        /\ fresh'[g] = fresh[g] /\ locked'[g] = locked[g]
BY DEF Finish, Goto, TypeOK, Steps

\* Typing holds initially.
LEMMA Inv1Init == Init => Inv1
BY BoundAssumption DEF Init, Inv1, TypeOK, Steps, Statuses, Resolved

\* What a commit writes is well typed.
LEMMA WriteThroughType ==
    ASSUME Inv1, NEW h \in Handlers, pc[h] = "commit", WriteThrough(h)
    PROVE  /\ log' \in [Calls -> Seq(Payloads)]
           /\ status' \in [Calls -> Statuses]
           /\ endedBy' \in [Calls -> Nat]
           /\ utterances' \subseteq Calls
           /\ processing' \in [Calls -> {"pending", "transcript_finalized"}]
           /\ locked' \in [Handlers -> BOOLEAN]
<1>1. Call(h) \in Calls /\ pay[h] \in Payloads
  BY DEF Inv1, TypeOK, Resolved
<1>2. log' \in [Calls -> Seq(Payloads)]
  <2>1. Append(log[Call(h)], pay[h]) \in Seq(Payloads)
    BY <1>1 DEF Inv1, TypeOK
  <2> QED BY <1>1, <2>1 DEF Inv1, TypeOK, WriteThrough
<1>3. status' \in [Calls -> Statuses]
  BY <1>1, PayloadStatus DEF Inv1, TypeOK, WriteThrough
<1>4. endedBy' \in [Calls -> Nat]
  <2>1. Len(log[Call(h)]) + 1 \in Nat
    BY <1>1 DEF Inv1, TypeOK
  <2> QED BY <1>1, <2>1 DEF Inv1, TypeOK, WriteThrough
<1> QED BY <1>1, <1>2, <1>3, <1>4 DEF Inv1, TypeOK, WriteThrough

\* Every step keeps typing.
LEMMA Inv1Next == Inv1 /\ [Next]_vars => Inv1'
<1> SUFFICES ASSUME Inv1, [Next]_vars PROVE Inv1'
  OBVIOUS
<1> USE DEF Inv1, TypeOK, Resolved
<1>1. ASSUME NEW c \in Calls, Publish(c) PROVE Inv1'
  BY <1>1 DEF Publish, redisVars, outVars, localVars, Call, Statuses
<1>2. ASSUME NEW h \in Handlers, NEW p \in Payloads, Deliver(h, p) PROVE Inv1'
  <2>1. delivered' \in [Payloads -> Nat] /\ \A q \in Payloads : delivered'[q] <= MaxDeliveries[q]
    <3>1. delivered' = [delivered EXCEPT ![p] = @ + 1] /\ delivered[p] < MaxDeliveries[p]
      BY <1>2 DEF Deliver
    <3>2. MaxDeliveries[p] \in Nat /\ delivered[p] \in Nat
      BY BoundAssumption
    <3> QED BY <3>1, <3>2
  <2> QED BY <1>2, <2>1 DEF Deliver, redisVars, dbVars, Goto, Call, Steps
<1>3. ASSUME NEW h \in Handlers, CheckIdempotency(h) PROVE Inv1'
  BY <1>3, PayloadKey DEF CheckIdempotency, dbVars, outVars, Goto, Call, Key, Steps
<1>4. ASSUME NEW h \in Handlers, ResolveSession(h) PROVE Inv1'
  BY <1>4 DEF ResolveSession, Resolvable, redisVars, dbVars, outVars, Goto, Call, Steps
<1>5. ASSUME NEW h \in Handlers, ReleaseUnresolved(h) PROVE Inv1'
  BY <1>5 DEF ReleaseUnresolved, Released, dbVars, outVars, Goto, Call, Steps
<1>6. ASSUME NEW h \in Handlers, AppendEvent(h) PROVE Inv1'
  BY <1>6 DEF AppendEvent, redisVars, dbVars, outVars, Goto, Call, Steps
<1>7. ASSUME NEW h \in Handlers, PersistTranscript(h) PROVE Inv1'
  BY <1>7 DEF PersistTranscript, IndexFree, StoresTurns, redisVars, dbVars, outVars, Goto, Call, Steps
<1>8. ASSUME NEW h \in Handlers, UpdateProjection(h) PROVE Inv1'
  BY <1>8 DEF UpdateProjection, redisVars, dbVars, outVars, Goto, Call, Steps
<1>9. ASSUME NEW h \in Handlers, Commit(h) PROVE Inv1'
  <2>1. WriteThrough(h) /\ pc[h] = "commit"
    BY <1>9 DEF Commit
  <2>2. published' = published
    BY <2>1 DEF WriteThrough
  <2> QED BY <1>9, <2>1, <2>2, WriteThroughType DEF Commit, redisVars, outVars, Goto, Call, Steps
<1>10. ASSUME NEW h \in Handlers, CommitLost(h) PROVE Inv1'
  <2>1. WriteThrough(h) /\ pc[h] = "commit"
    BY <1>10 DEF CommitLost
  <2>2. published' = published
    BY <2>1 DEF WriteThrough
  <2> QED BY <1>10, <2>1, <2>2, WriteThroughType DEF CommitLost, redisVars, outVars, Goto, Call, Steps
<1>11. ASSUME NEW h \in Handlers, NotifyCallUpdate(h) PROVE Inv1'
  BY <1>11 DEF NotifyCallUpdate, redisVars, dbVars, Goto, Call, Steps
<1>12. ASSUME NEW h \in Handlers, EnqueueExtraction(h) PROVE Inv1'
  <2>1. Call(h) \in Calls
    BY <1>12 DEF EnqueueExtraction
  <2>2. jobs' = [jobs EXCEPT ![Call(h)] = @ + 1] \/ jobs' = jobs
    BY <1>12 DEF EnqueueExtraction
  <2>3. jobs[Call(h)] + 1 \in Nat
    BY <2>1
  <2>4. jobs' \in [Calls -> Nat]
    BY <2>1, <2>2, <2>3
  <2> QED BY <1>12, <2>4 DEF EnqueueExtraction, redisVars, dbVars, Goto, Call, Steps
<1>13. ASSUME NEW h \in Handlers, Reply(h) PROVE Inv1'
  BY <1>13, FinishType DEF Reply, redisVars, dbVars, Call
<1>14. ASSUME NEW h \in Handlers, StatementFails(h) PROVE Inv1'
  BY <1>14 DEF StatementFails, redisVars, dbVars, outVars, Goto, Call, Steps
<1>15. ASSUME NEW h \in Handlers, ReleaseFailed(h) PROVE Inv1'
  BY <1>15 DEF ReleaseFailed, Released, dbVars, outVars, Goto, Call, Steps
<1>16. ASSUME NEW h \in Handlers, Rollback(h) \/ ResolveFails(h) \/ Crash(h) PROVE Inv1'
  <2>1. Finish(h) /\ UNCHANGED <<redisVars, dbVars, outVars>>
    BY <1>16 DEF Rollback, ResolveFails, Crash
  <2> QED BY <2>1, FinishType DEF redisVars, dbVars, outVars, Call
<1>17. ASSUME NEW k \in Keys, ExpireKey(k) PROVE Inv1'
  BY <1>17 DEF ExpireKey, dbVars, outVars, localVars, Call
<1>18. CASE UNCHANGED vars
  BY <1>18 DEF vars, redisVars, dbVars, outVars, localVars, Call
<1> QED
  BY <1>1, <1>2, <1>3, <1>4, <1>5, <1>6, <1>7, <1>8, <1>9, <1>10, <1>11, <1>12, <1>13,
     <1>14, <1>15, <1>16, <1>17, <1>18 DEF Next, Handle, Fault

\* Typing holds in every reachable state.
LEMMA Inv1Holds == Spec => []Inv1
BY Inv1Init, Inv1Next, PTL DEF Spec

\* Every reachable state of the ingestion service is well typed.
THEOREM TypeCorrect == Spec => []TypeOK
<1>1. Inv1 => TypeOK
  BY DEF Inv1
<1> QED BY <1>1, Inv1Holds, PTL

-----------------------------------------------------------------------------
(* Layer 2: an owner's key is in Redis, and no one else owns it.           *)

Inv2 ==
    /\ \A h \in Handlers : pc[h] \in Owning => Key(h) \in idem
    /\ KeyExclusive

\* Every step keeps keys with their owners.
LEMMA Inv2Next == Inv1 /\ Inv2 /\ [Next]_vars => Inv2'
<1> SUFFICES ASSUME Inv1, Inv2, [Next]_vars PROVE Inv2'
  OBVIOUS
<1> USE DEF Inv2, KeyExclusive, Key, Owning
<1>a. TypeOK
  BY DEF Inv1
<1>1. ASSUME NEW c \in Calls, Publish(c) PROVE Inv2'
  BY <1>1 DEF Publish, redisVars, localVars
<1>2. ASSUME NEW h \in Handlers, NEW p \in Payloads, Deliver(h, p) PROVE Inv2'
  BY <1>2, <1>a DEF Deliver, redisVars, Goto, TypeOK
<1>3. ASSUME NEW h \in Handlers, CheckIdempotency(h) PROVE Inv2'
  BY <1>3, <1>a DEF CheckIdempotency, Seen, Goto, TypeOK
<1>4. ASSUME NEW h \in Handlers, ResolveSession(h) PROVE Inv2'
  BY <1>4, <1>a DEF ResolveSession, redisVars, Goto, TypeOK
<1>5. ASSUME NEW h \in Handlers, ReleaseUnresolved(h) PROVE Inv2'
  BY <1>5, <1>a DEF Released, ReleaseUnresolved, Goto, TypeOK
<1>6. ASSUME NEW h \in Handlers, AppendEvent(h) PROVE Inv2'
  BY <1>6, <1>a DEF AppendEvent, redisVars, Goto, TypeOK
<1>7. ASSUME NEW h \in Handlers, PersistTranscript(h) \/ UpdateProjection(h) PROVE Inv2'
  BY <1>7, <1>a DEF PersistTranscript, UpdateProjection, redisVars, Goto, TypeOK
<1>8. ASSUME NEW h \in Handlers, Commit(h) \/ CommitLost(h) PROVE Inv2'
  BY <1>8, <1>a DEF Commit, CommitLost, redisVars, Goto, TypeOK
<1>9. ASSUME NEW h \in Handlers, NotifyCallUpdate(h) \/ EnqueueExtraction(h) PROVE Inv2'
  BY <1>9, <1>a DEF NotifyCallUpdate, EnqueueExtraction, redisVars, Goto, TypeOK
<1>10. ASSUME NEW h \in Handlers,
              Reply(h) \/ Rollback(h) \/ ResolveFails(h) \/ Crash(h)
       PROVE  Inv2'
  <2>1. Finish(h) /\ UNCHANGED idem
    BY <1>10 DEF Reply, Rollback, ResolveFails, Crash, redisVars
  <2> QED BY <2>1, <1>a, FinishType
<1>11. ASSUME NEW h \in Handlers, StatementFails(h) PROVE Inv2'
  BY <1>11, <1>a DEF StatementFails, redisVars, Goto, TypeOK
<1>12. ASSUME NEW h \in Handlers, ReleaseFailed(h) PROVE Inv2'
  BY <1>12, <1>a DEF Released, ReleaseFailed, Goto, TypeOK
<1>13. ASSUME NEW k \in Keys, ExpireKey(k) PROVE Inv2'
  BY <1>13, <1>a DEF ExpireKey, localVars, TypeOK
<1>14. CASE UNCHANGED vars
  BY <1>14 DEF vars, redisVars, localVars
<1> QED
  BY <1>1, <1>2, <1>3, <1>4, <1>5, <1>6, <1>7, <1>8, <1>9, <1>10, <1>11, <1>12, <1>13,
     <1>14 DEF Next, Handle, Fault

\* Keys are with their owners in every reachable state.
LEMMA Inv2Holds == Spec => []Inv2
<1>1. Init => Inv2
  BY DEF Init, Inv2, KeyExclusive, Owning
<1> QED BY <1>1, Inv1Holds, Inv2Next, PTL DEF Spec

\* However many runs receive copies of an event, and whatever fails, one of
\* them at a time works on it.
THEOREM KeysExclusive == Spec => []KeyExclusive
<1>1. Inv2 => KeyExclusive
  BY DEF Inv2
<1> QED BY <1>1, Inv2Holds, PTL

-----------------------------------------------------------------------------
(* Layer 3: the utterances of a call have one writer.  It does not depend  *)
(* on layer 2: the unique index keeps it, not the idempotency keys.        *)

\* The run has committed a transcript and has not sent it on yet.
Owes(h) == pc[h] = "enqueue" \/ (pc[h] = "notify" /\ fresh[h])

FreshSteps ==
    \A h \in Handlers : fresh[h] =>
        pc[h] \in {"update", "commit", "failed", "rollback", "notify", "enqueue"}

Inv3 ==
    /\ FreshSteps
    /\ \A h \in Handlers : HoldsTurns(h) =>
           Call(h) \notin utterances /\ CarriesTranscript(pay[h])
    /\ \A g, h \in Handlers :
           g # h /\ HoldsTurns(g) /\ HoldsTurns(h) => Call(g) # Call(h)
    /\ \A h \in Handlers : pc[h] \in {"update", "commit"} /\ CarriesTranscript(pay[h]) =>
           fresh[h] \/ Call(h) \in utterances
    /\ \A h \in Handlers : pc[h] = "persist" => CarriesTranscript(pay[h])
    /\ \A h \in Handlers : Owes(h) => Call(h) \in utterances /\ jobs[Call(h)] = 0
    /\ \A g, h \in Handlers : g # h /\ Owes(g) /\ Owes(h) => Call(g) # Call(h)
    /\ TranscriptMatchesEvents
    /\ PipelineStartedOnce

\* An end is a status the application knows.
LEMMA TerminalKnown == ASSUME NEW p, Terminal(p) PROVE Known(p)
BY NoneAssumption DEF Terminal, Known, TerminalStatuses, RawStatuses

\* A log has a transcript when the event appended brings one or it had one.
LEMMA AppendedTranscript ==
    ASSUME NEW s \in Seq(Payloads), NEW p \in Payloads
    PROVE  (\E i \in DOMAIN Append(s, p) : CarriesTranscript(Append(s, p)[i]))
           <=> CarriesTranscript(p) \/ \E i \in DOMAIN s : CarriesTranscript(s[i])
<1> DEFINE t == Append(s, p)
<1>1. /\ Len(s) \in Nat /\ DOMAIN s = 1 .. Len(s)
      /\ DOMAIN t = 1 .. Len(s) + 1
      /\ t[Len(s) + 1] = p
      /\ \A i \in 1 .. Len(s) : t[i] = s[i]
  OBVIOUS
<1> HIDE DEF t
<1>2. (\E i \in DOMAIN t : CarriesTranscript(t[i]))
      <=> CarriesTranscript(p) \/ \E i \in DOMAIN s : CarriesTranscript(s[i])
  <2>1. \A i \in DOMAIN t : i \in DOMAIN s \/ i = Len(s) + 1
    BY <1>1
  <2>2. \A i \in DOMAIN s : i \in DOMAIN t
    BY <1>1
  <2> QED BY <1>1, <2>1, <2>2
<1> QED BY <1>2 DEF t

\* A committed transcript event makes utterances exist, and only that does.
LEMMA CommittedTranscript ==
    ASSUME Inv1, Inv3, NEW h \in Handlers, pc[h] = "commit", WriteThrough(h)
    PROVE  /\ TranscriptMatchesEvents'
           /\ utterances \subseteq utterances'
           /\ utterances' \subseteq utterances \cup {Call(h)}
           /\ fresh[h] => Call(h) \in utterances'
           /\ ~fresh[h] => utterances' = utterances
<1> DEFINE c == Call(h)
           sent(tbl, d) == \E i \in DOMAIN tbl[d] : CarriesTranscript(tbl[d][i])
<1>1. c \in Calls /\ pay[h] \in Payloads /\ log[c] \in Seq(Payloads)
  BY DEF Inv1, TypeOK, Resolved
<1>2. sent(log', c) <=> CarriesTranscript(pay[h]) \/ sent(log, c)
  <2>1. log'[c] = Append(log[c], pay[h])
    BY <1>1 DEF WriteThrough, Inv1, TypeOK
  <2> QED BY <1>1, <2>1, AppendedTranscript
<1>3. \A d \in Calls : d # c => log'[d] = log[d]
  BY <1>1 DEF WriteThrough, Inv1, TypeOK
<1>4. CarriesTranscript(pay[h]) <=> fresh[h] \/ (CarriesTranscript(pay[h]) /\ c \in utterances)
  BY DEF Inv3, HoldsTurns, InTransaction
<1>5. utterances' = IF fresh[h] THEN utterances \cup {c} ELSE utterances
  BY DEF WriteThrough
<1>6. processing' = IF fresh[h] THEN [processing EXCEPT ![c] = "transcript_finalized"]
                                ELSE processing
  BY DEF WriteThrough
<1>7. \A d \in Calls : /\ sent(log, d) <=> d \in utterances
                       /\ sent(log, d) <=> processing[d] = "transcript_finalized"
  BY DEF Inv3, TranscriptMatchesEvents
<1>8. processing \in [Calls -> {"pending", "transcript_finalized"}]
  BY DEF Inv1, TypeOK
<1>9. \A d \in Calls : sent(log', d) <=> d \in utterances'
  BY <1>1, <1>2, <1>3, <1>4, <1>5, <1>7
<1>10. \A d \in Calls : d \in utterances' <=> processing'[d] = "transcript_finalized"
  BY <1>1, <1>5, <1>6, <1>7, <1>8
<1> QED BY <1>5, <1>9, <1>10 DEF TranscriptMatchesEvents

\* A step of one run that writes nothing shared, and neither acquires
\* uncommitted utterances nor a debt to the pipeline, keeps layer 3.
Unmoved(h) == \A g \in Handlers \ {h} : /\ pc'[g] = pc[g] /\ pay'[g] = pay[g]
                                        /\ fresh'[g] = fresh[g]

\* A step of one run that writes nothing, and takes up no duty, keeps Inv3.
LEMMA QuietStep ==
    ASSUME Inv3, NEW h \in Handlers, Unmoved(h),
           UNCHANGED <<log, utterances, processing, jobs>>,
           fresh'[h] => pc'[h] \in {"update", "commit", "failed", "rollback", "notify", "enqueue"},
           HoldsTurns(h)' => HoldsTurns(h) /\ pay'[h] = pay[h],
           Owes(h)' => Owes(h) /\ pay'[h] = pay[h],
           pc'[h] \in {"update", "commit"} =>
               (CarriesTranscript(pay'[h]) => fresh'[h] \/ Call(h)' \in utterances),
           pc'[h] = "persist" => CarriesTranscript(pay'[h])
    PROVE  Inv3'
<1> USE DEF Inv3, Unmoved
<1>1. FreshSteps'
  BY DEF FreshSteps
<1>2. \A g \in Handlers \ {h} : /\ HoldsTurns(g)' = HoldsTurns(g) /\ Owes(g)' = Owes(g)
                               /\ Call(g)' = Call(g)
  BY DEF HoldsTurns, Owes, Call
<1>3. /\ HoldsTurns(h)' => HoldsTurns(h) /\ Call(h)' = Call(h) /\ pay'[h] = pay[h]
      /\ Owes(h)' => Owes(h) /\ Call(h)' = Call(h)
  BY DEF HoldsTurns, Owes, Call
<1>4. TranscriptMatchesEvents' /\ PipelineStartedOnce'
  BY DEF TranscriptMatchesEvents, PipelineStartedOnce
<1>5. \A g \in Handlers : HoldsTurns(g)' =>
           Call(g)' \notin utterances' /\ CarriesTranscript(pay'[g])
  BY <1>2, <1>3
<1>6. \A f, g \in Handlers :
           f # g /\ HoldsTurns(f)' /\ HoldsTurns(g)' => Call(f)' # Call(g)'
  BY <1>2, <1>3
<1>7. \A g \in Handlers : pc'[g] \in {"update", "commit"} /\ CarriesTranscript(pay'[g]) =>
           fresh'[g] \/ Call(g)' \in utterances'
  BY <1>2
<1>8. \A g \in Handlers : Owes(g)' => Call(g)' \in utterances' /\ jobs'[Call(g)'] = 0
  BY <1>2, <1>3
<1>9. \A f, g \in Handlers : f # g /\ Owes(f)' /\ Owes(g)' => Call(f)' # Call(g)'
  BY <1>2, <1>3
<1> QED BY <1>1, <1>4, <1>5, <1>6, <1>7, <1>8, <1>9

\* Inserting utterances, or meeting the unique index, keeps Inv3.
LEMMA PersistKeeps ==
    ASSUME Inv1, Inv3, NEW h \in Handlers, PersistTranscript(h)
    PROVE  Inv3'
<1>1. /\ Unmoved(h) /\ UNCHANGED <<log, utterances, processing, jobs, pay>>
      /\ pc[h] = "persist" /\ pc'[h] = "update" /\ fresh'[h] = (Call(h) \notin utterances)
      /\ \A g \in Handlers \ {h} : HoldsTurns(g) => Call(g) # Call(h)
  BY DEF PersistTranscript, IndexFree, StoresTurns, Goto, Unmoved, dbVars, outVars, Inv1, TypeOK
<1> USE <1>1 DEF Inv3
<1>2. \A g \in Handlers : Call(g)' = Call(g)
  BY DEF Call
<1>3. \A g \in Handlers \ {h} : HoldsTurns(g)' = HoldsTurns(g) /\ Owes(g)' = Owes(g)
  BY DEF Unmoved, HoldsTurns, Owes
<1>4. FreshSteps' /\ ~Owes(h)' /\ CarriesTranscript(pay[h])
  BY DEF FreshSteps, Unmoved, Owes
<1>5. HoldsTurns(h)' => Call(h) \notin utterances
  BY DEF HoldsTurns
<1>6. \A g \in Handlers : HoldsTurns(g)' =>
           Call(g)' \notin utterances' /\ CarriesTranscript(pay'[g])
  BY <1>2, <1>3, <1>4, <1>5
<1>7. \A f, g \in Handlers :
           f # g /\ HoldsTurns(f)' /\ HoldsTurns(g)' => Call(f)' # Call(g)'
  BY <1>2, <1>3
<1>8. \A g \in Handlers : pc'[g] \in {"update", "commit"} /\ CarriesTranscript(pay'[g]) =>
           fresh'[g] \/ Call(g)' \in utterances'
  BY <1>2 DEF Unmoved
<1>9. \A g \in Handlers : pc'[g] = "persist" => CarriesTranscript(pay'[g])
  BY DEF Unmoved
<1>10. /\ \A g \in Handlers : Owes(g)' => Call(g)' \in utterances' /\ jobs'[Call(g)'] = 0
       /\ \A f, g \in Handlers : f # g /\ Owes(f)' /\ Owes(g)' => Call(f)' # Call(g)'
  BY <1>2, <1>3, <1>4
<1>11. TranscriptMatchesEvents' /\ PipelineStartedOnce'
  BY DEF TranscriptMatchesEvents, PipelineStartedOnce
<1> QED BY <1>4, <1>6, <1>7, <1>8, <1>9, <1>10, <1>11

\* A commit keeps Inv3, whether or not its answer arrives.
LEMMA CommitKeeps ==
    ASSUME Inv1, Inv3, NEW h \in Handlers, Commit(h) \/ CommitLost(h)
    PROVE  Inv3'
<1>1. /\ pc[h] = "commit" /\ WriteThrough(h) /\ UNCHANGED <<jobs, pay>>
      /\ pc'[h] \in {"notify", "reply", "failed"} /\ (pc'[h] = "failed" => ~fresh'[h])
      /\ fresh'[h] => fresh[h]
      /\ \A g \in Handlers \ {h} : pc'[g] = pc[g] /\ fresh'[g] = fresh[g]
      /\ (Known(pay[h]) => pc'[h] # "reply")
  BY DEF Commit, CommitLost, Goto, outVars, Inv1, TypeOK
<1>2. /\ TranscriptMatchesEvents'
      /\ utterances \subseteq utterances'
      /\ utterances' \subseteq utterances \cup {Call(h)}
      /\ fresh[h] => Call(h) \in utterances'
      /\ ~fresh[h] => utterances' = utterances
  BY <1>1, CommittedTranscript
<1>3. \A g \in Handlers : Call(g)' = Call(g)
  BY <1>1 DEF Call
<1>4. /\ \A g \in Handlers \ {h} : HoldsTurns(g)' = HoldsTurns(g) /\ Owes(g)' = Owes(g)
      /\ ~HoldsTurns(h)'
      /\ Owes(h)' => fresh[h]
      /\ fresh[h] => HoldsTurns(h)
  BY <1>1 DEF HoldsTurns, Owes, InTransaction
<1>5. FreshSteps'
  <2>1. fresh[h] => Known(pay[h])
    BY <1>4, TerminalKnown DEF Inv3, CarriesTranscript
  <2> QED BY <1>1, <2>1 DEF FreshSteps, Inv3
<1>6. fresh[h] => Call(h) \notin utterances /\ jobs[Call(h)] = 0
  <2>1. fresh[h] => Call(h) \notin utterances
    BY <1>4 DEF Inv3
  <2>2. Call(h) \in Calls
    BY <1>1 DEF Inv1, TypeOK, Resolved
  <2>3. jobs[Call(h)] \in Nat
    BY <2>2 DEF Inv1, TypeOK
  <2> QED BY <2>1, <2>2, <2>3 DEF Inv3, PipelineStartedOnce
<1>7. \A g \in Handlers : HoldsTurns(g)' =>
           Call(g)' \notin utterances' /\ CarriesTranscript(pay'[g])
  BY <1>1, <1>2, <1>3, <1>4 DEF Inv3
<1>8. \A f, g \in Handlers :
           f # g /\ HoldsTurns(f)' /\ HoldsTurns(g)' => Call(f)' # Call(g)'
  BY <1>3, <1>4 DEF Inv3
<1>9. \A g \in Handlers : pc'[g] \in {"update", "commit"} /\ CarriesTranscript(pay'[g]) =>
           fresh'[g] \/ Call(g)' \in utterances'
  BY <1>1, <1>2, <1>3 DEF Inv3
<1>10. \A g \in Handlers : pc'[g] = "persist" => CarriesTranscript(pay'[g])
  BY <1>1 DEF Inv3
<1>11. \A g \in Handlers : Owes(g)' => Call(g)' \in utterances' /\ jobs'[Call(g)'] = 0
  BY <1>1, <1>2, <1>3, <1>4, <1>6 DEF Inv3
<1>12. \A f, g \in Handlers : f # g /\ Owes(f)' /\ Owes(g)' => Call(f)' # Call(g)'
  <2>1. \A g \in Handlers \ {h} : Owes(g)' /\ Owes(h)' => Call(g) # Call(h)
    BY <1>4, <1>6 DEF Inv3
  <2> QED BY <1>3, <1>4, <2>1 DEF Inv3
<1>13. PipelineStartedOnce'
  BY <1>1, <1>2 DEF Inv3, PipelineStartedOnce
<1> QED BY <1>2, <1>5, <1>7, <1>8, <1>9, <1>10, <1>11, <1>12, <1>13 DEF Inv3

\* Starting the pipeline keeps Inv3.
LEMMA EnqueueKeeps ==
    ASSUME Inv1, Inv3, NEW h \in Handlers, EnqueueExtraction(h)
    PROVE  Inv3'
<1>1. /\ pc[h] = "enqueue" /\ pc'[h] = "reply" /\ ~fresh'[h]
      /\ UNCHANGED <<log, utterances, processing, pay>>
      /\ Unmoved(h)
      /\ jobs' = [jobs EXCEPT ![Call(h)] = @ + 1] \/ jobs' = jobs
  BY DEF EnqueueExtraction, Goto, dbVars, Unmoved, Inv1, TypeOK
<1>2. CASE jobs' = jobs
  BY <1>1, <1>2, QuietStep DEF HoldsTurns, Owes, InTransaction
<1>3. CASE jobs' = [jobs EXCEPT ![Call(h)] = @ + 1]
  <2>1. Owes(h) /\ Call(h) \in Calls /\ jobs \in [Calls -> Nat]
    BY <1>1 DEF Owes, Inv1, TypeOK, Resolved
  <2>2. Call(h) \in utterances /\ jobs[Call(h)] = 0
    BY <2>1 DEF Inv3
  <2>3. jobs' = [jobs EXCEPT ![Call(h)] = 1]
    BY <1>3, <2>1, <2>2
  <2>4. PipelineStartedOnce'
    BY <1>1, <2>1, <2>2, <2>3 DEF Inv3, PipelineStartedOnce
  <2>5. \A g \in Handlers : Call(g)' = Call(g)
    BY <1>1 DEF Call
  <2>6. /\ \A g \in Handlers \ {h} : HoldsTurns(g)' = HoldsTurns(g) /\ Owes(g)' = Owes(g)
        /\ ~HoldsTurns(h)' /\ ~Owes(h)'
    BY <1>1 DEF HoldsTurns, Owes, InTransaction, Unmoved
  <2>7. \A g \in Handlers : Owes(g)' => Call(g)' \in utterances' /\ jobs'[Call(g)'] = 0
    <3>1. \A g \in Handlers \ {h} : Owes(g) => Call(g) # Call(h) /\ jobs[Call(g)] = 0
      BY <2>1 DEF Inv3
    <3> QED BY <1>1, <2>1, <2>3, <2>5, <2>6, <3>1 DEF Inv3
  <2>8. FreshSteps'
    BY <1>1 DEF FreshSteps, Inv3, Unmoved
  <2>9. TranscriptMatchesEvents'
    BY <1>1 DEF TranscriptMatchesEvents, Inv3
  <2> QED BY <1>1, <2>4, <2>5, <2>6, <2>7, <2>8, <2>9 DEF Inv3, Unmoved
<1> QED BY <1>1, <1>2, <1>3

\* Every step keeps utterances, transcript events and jobs together.
LEMMA Inv3Next == Inv1 /\ Inv3 /\ [Next]_vars => Inv3'
<1> SUFFICES ASSUME Inv1, Inv3, [Next]_vars PROVE Inv3'
  OBVIOUS
<1> USE DEF Inv3, FreshSteps
<1>a. TypeOK
  BY DEF Inv1
<1>1. ASSUME NEW c \in Calls, Publish(c) PROVE Inv3'
  BY <1>1 DEF Publish, outVars, localVars, HoldsTurns, Owes, InTransaction, Call,
              TranscriptMatchesEvents, PipelineStartedOnce
<1>2. ASSUME NEW h \in Handlers, NEW p \in Payloads, Deliver(h, p) PROVE Inv3'
  BY <1>2, <1>a, QuietStep DEF Deliver, dbVars, Goto, TypeOK, Unmoved, HoldsTurns, Owes,
                               InTransaction
<1>3. ASSUME NEW h \in Handlers,
             CheckIdempotency(h) \/ ResolveSession(h) \/ ReleaseUnresolved(h) \/ AppendEvent(h)
      PROVE  Inv3'
  <2>1. /\ Unmoved(h) /\ UNCHANGED <<log, utterances, processing, jobs, pay, fresh>>
        /\ pc[h] \in {"check", "resolve", "unresolved", "append"}
    BY <1>3, <1>a DEF CheckIdempotency, ResolveSession, ReleaseUnresolved, AppendEvent, Unmoved,
       dbVars, outVars, Goto, TypeOK
  <2>2. ~fresh'[h] /\ ~HoldsTurns(h)' /\ ~Owes(h)'
    BY <1>3, <1>a, <2>1 DEF CheckIdempotency, ResolveSession, ReleaseUnresolved, AppendEvent,
       Goto, TypeOK, HoldsTurns, Owes
  <2>3. /\ pc'[h] = "persist" => CarriesTranscript(pay[h])
        /\ pc'[h] \in {"update", "commit"} => ~CarriesTranscript(pay[h])
    BY <1>3, <1>a DEF CheckIdempotency, ResolveSession, ReleaseUnresolved, AppendEvent,
       Goto, TypeOK
  <2> QED BY <2>1, <2>2, <2>3, QuietStep
<1>4. ASSUME NEW h \in Handlers, PersistTranscript(h) PROVE Inv3'
  BY <1>4, PersistKeeps
<1>5. ASSUME NEW h \in Handlers, UpdateProjection(h) PROVE Inv3'
  BY <1>5, <1>a, QuietStep DEF UpdateProjection, dbVars, outVars, Goto, TypeOK, Unmoved,
     HoldsTurns, Owes, InTransaction, Call
<1>6. ASSUME NEW h \in Handlers, Commit(h) \/ CommitLost(h) PROVE Inv3'
  BY <1>6, CommitKeeps
<1>7. ASSUME NEW h \in Handlers, NotifyCallUpdate(h) PROVE Inv3'
  BY <1>7, <1>a, QuietStep DEF NotifyCallUpdate, dbVars, Goto, TypeOK, Unmoved, HoldsTurns,
     Owes, InTransaction
<1>8. ASSUME NEW h \in Handlers, EnqueueExtraction(h) PROVE Inv3'
  BY <1>8, EnqueueKeeps
<1>9. ASSUME NEW h \in Handlers,
             Reply(h) \/ Rollback(h) \/ ResolveFails(h) \/ Crash(h)
      PROVE  Inv3'
  <2>1. Finish(h) /\ UNCHANGED <<log, utterances, processing, jobs>>
    BY <1>9 DEF Reply, Rollback, ResolveFails, Crash, outVars, dbVars
  <2>2. ~fresh'[h]
    BY <2>1, <1>a DEF Finish, TypeOK
  <2> QED BY <2>1, <2>2, <1>a, FinishType, QuietStep DEF Unmoved, HoldsTurns, Owes
<1>10. ASSUME NEW h \in Handlers, StatementFails(h) \/ ReleaseFailed(h) PROVE Inv3'
  <2>1. /\ Unmoved(h) /\ UNCHANGED <<log, utterances, processing, jobs, pay, fresh>>
        /\ pc[h] \in {"append", "persist", "update", "commit", "failed"}
        /\ pc'[h] \in {"failed", "rollback"}
    BY <1>10, <1>a DEF StatementFails, ReleaseFailed, Unmoved, dbVars, outVars, Goto, TypeOK
  <2>2. ~Owes(h)' /\ (HoldsTurns(h)' => HoldsTurns(h))
    BY <2>1 DEF HoldsTurns, Owes, InTransaction
  <2> QED BY <2>1, <2>2, QuietStep
<1>11. ASSUME NEW k \in Keys, ExpireKey(k) PROVE Inv3'
  BY <1>11 DEF ExpireKey, dbVars, outVars, localVars, HoldsTurns, Owes, InTransaction, Call,
               TranscriptMatchesEvents, PipelineStartedOnce
<1>12. CASE UNCHANGED vars
  BY <1>12 DEF vars, dbVars, outVars, localVars, HoldsTurns, Owes, InTransaction, Call,
               TranscriptMatchesEvents, PipelineStartedOnce
<1> QED
  BY <1>1, <1>2, <1>3, <1>4, <1>5, <1>6, <1>7, <1>8, <1>9, <1>10, <1>11, <1>12
     DEF Next, Handle, Fault

\* Utterances, transcript events and jobs agree in every reachable state.
LEMMA Inv3Holds == Spec => []Inv3
<1>1. Init => Inv3
  BY DEF Init, Inv3, FreshSteps, HoldsTurns, InTransaction, Owes, TranscriptMatchesEvents,
         PipelineStartedOnce
<1> QED BY <1>1, Inv1Holds, Inv3Next, PTL DEF Spec

\* Utterances exist exactly for the calls with a committed transcript event,
\* under every interleaving and every fault of the model.
THEOREM TranscriptsMatchEvents == Spec => []TranscriptMatchesEvents
<1>1. Inv3 => TranscriptMatchesEvents
  BY DEF Inv3
<1> QED BY <1>1, Inv3Holds, PTL

\* A call's pipeline is started at most once, and only from a committed
\* transcript, even when its idempotency keys expire or a commit is lost.
THEOREM StartedOnce == Spec => []PipelineStartedOnce
<1>1. Inv3 => PipelineStartedOnce
  BY DEF Inv3
<1> QED BY <1>1, Inv3Holds, PTL

-----------------------------------------------------------------------------
(* Layer 4: while keys do not expire and a failed COMMIT is not durable,   *)
(* the keys of the recorded events are in Redis, and an owner that has not *)
(* committed has a key of its own.                                         *)

ReliableKeys == "expiry" \notin Faults /\ "commit_lost" \notin Faults

Uncommitted == {"resolve", "unresolved", "append", "persist", "update", "commit", "failed"}

Inv4 ==
    /\ RecordedKeys(log) \subseteq idem
    /\ \A h \in Handlers : pc[h] \in Uncommitted => Key(h) \notin RecordedKeys(log)
    /\ EventsRecordedOnce

\* An event that is recorded adds its key to those recorded, and no other.
LEMMA RecordedAppend ==
    ASSUME NEW table \in [Calls -> Seq(Payloads)], NEW c \in Calls, NEW p \in Payloads
    PROVE  RecordedKeys([table EXCEPT ![c] = Append(@, p)])
               = RecordedKeys(table) \cup {IdempotencyKey(p)}
<1> DEFINE next == [table EXCEPT ![c] = Append(@, p)]
           n == Len(table[c]) + 1
<1>1. /\ next \in [Calls -> Seq(Payloads)]
      /\ \A d \in Calls \ {c} : next[d] = table[d]
      /\ DOMAIN next[c] = DOMAIN table[c] \cup {n}
      /\ n \notin DOMAIN table[c]
      /\ next[c][n] = p
      /\ \A i \in DOMAIN table[c] : next[c][i] = table[c][i]
  <2>1. next[c] = Append(table[c], p) /\ table[c] \in Seq(Payloads)
    OBVIOUS
  <2> QED BY <2>1
<1> HIDE DEF next, n
<1>2. RecordedKeys(next) = RecordedKeys(table) \cup {IdempotencyKey(p)}
  <2>1. ASSUME NEW k \in RecordedKeys(next)
        PROVE  k \in RecordedKeys(table) \cup {IdempotencyKey(p)}
    <3>1. PICK d \in Calls : \E i \in DOMAIN next[d] : k = IdempotencyKey(next[d][i])
      BY <1>1, <2>1 DEF RecordedKeys
    <3>2. PICK i \in DOMAIN next[d] : k = IdempotencyKey(next[d][i])
      BY <3>1
    <3>3. CASE d = c /\ i = n
      BY <1>1, <3>2, <3>3
    <3>4. CASE d # c \/ i # n
      <4>1. i \in DOMAIN table[d] /\ next[d][i] = table[d][i]
        BY <1>1, <3>2, <3>4
      <4> QED BY <3>2, <4>1 DEF RecordedKeys
    <3> QED BY <3>3, <3>4
  <2>2. ASSUME NEW k \in RecordedKeys(table) PROVE k \in RecordedKeys(next)
    <3>1. PICK d \in Calls : \E i \in DOMAIN table[d] : k = IdempotencyKey(table[d][i])
      BY <2>2 DEF RecordedKeys
    <3>2. PICK i \in DOMAIN table[d] : k = IdempotencyKey(table[d][i])
      BY <3>1
    <3>3. i \in DOMAIN next[d] /\ next[d][i] = table[d][i]
      BY <1>1, <3>2
    <3> QED BY <1>1, <3>2, <3>3 DEF RecordedKeys
  <2>3. IdempotencyKey(p) \in RecordedKeys(next)
    BY <1>1 DEF RecordedKeys
  <2> QED BY <2>1, <2>2, <2>3
<1> QED BY <1>2 DEF next

\* Committing a key that is not recorded keeps one row per key.
LEMMA CommitRecordsOnce ==
    ASSUME Inv1, Inv4, NEW h \in Handlers, pc[h] = "commit", WriteThrough(h)
    PROVE  /\ RecordedKeys(log)' = RecordedKeys(log) \cup {Key(h)}
           /\ EventsRecordedOnce'
<1> DEFINE c == Call(h)
           n == Len(log[c]) + 1
<1>1. /\ c \in Calls /\ pay[h] \in Payloads /\ log \in [Calls -> Seq(Payloads)]
      /\ log' = [log EXCEPT ![c] = Append(@, pay[h])]
      /\ Key(h) \notin RecordedKeys(log)
  BY DEF Inv1, Inv4, TypeOK, Resolved, WriteThrough, Uncommitted
<1>2. RecordedKeys(log)' = RecordedKeys(log) \cup {Key(h)}
  <2>1. RecordedKeys([log EXCEPT ![c] = Append(@, pay[h])])
            = RecordedKeys(log) \cup {IdempotencyKey(pay[h])}
    BY <1>1, RecordedAppend
  <2> QED BY <1>1, <2>1 DEF Key
<1>3. /\ \A d \in Calls \ {c} : log'[d] = log[d]
      /\ DOMAIN log'[c] = DOMAIN log[c] \cup {n}
      /\ log'[c][n] = pay[h]
      /\ \A i \in DOMAIN log[c] : log'[c][i] = log[c][i]
  <2>1. log'[c] = Append(log[c], pay[h]) /\ log[c] \in Seq(Payloads)
    BY <1>1
  <2> QED BY <1>1, <2>1
<1>4. \A d \in Calls : \A i \in DOMAIN log[d] : IdempotencyKey(log[d][i]) # Key(h)
  BY <1>1 DEF RecordedKeys
<1>5. \A d \in Calls : \A i \in DOMAIN log'[d] :
         \/ i \in DOMAIN log[d] /\ log'[d][i] = log[d][i]
         \/ d = c /\ i = n /\ IdempotencyKey(log'[d][i]) = Key(h)
  BY <1>3 DEF Key
<1>6. EventsRecordedOnce'
  <2> SUFFICES ASSUME NEW d \in Calls, NEW e \in Calls, NEW i \in DOMAIN log'[d],
                      NEW j \in DOMAIN log'[e],
                      IdempotencyKey(log'[d][i]) = IdempotencyKey(log'[e][j])
               PROVE  d = e /\ i = j
    BY DEF EventsRecordedOnce
  <2> QED BY <1>4, <1>5 DEF Inv4, EventsRecordedOnce
<1> QED BY <1>2, <1>6

\* Every step keeps recorded keys in Redis, and out of reach of the owners.
LEMMA Inv4Next == ASSUME ReliableKeys PROVE Inv1 /\ Inv2 /\ Inv4 /\ [Next]_vars => Inv4'
<1> SUFFICES ASSUME Inv1, Inv2, Inv4, [Next]_vars PROVE Inv4'
  OBVIOUS
<1> USE DEF Uncommitted, Key
<1>a. TypeOK
  BY DEF Inv1
<1>b. ASSUME UNCHANGED log PROVE RecordedKeys(log)' = RecordedKeys(log)
                                 /\ EventsRecordedOnce' = EventsRecordedOnce
  BY <1>b DEF RecordedKeys, EventsRecordedOnce
<1>1. ASSUME NEW c \in Calls, Publish(c) PROVE Inv4'
  BY <1>1, <1>b DEF Publish, redisVars, localVars, Inv4
<1>2. ASSUME NEW h \in Handlers, NEW p \in Payloads, Deliver(h, p) PROVE Inv4'
  BY <1>2, <1>a, <1>b DEF Deliver, redisVars, dbVars, Goto, TypeOK, Inv4
<1>3. ASSUME NEW h \in Handlers, CheckIdempotency(h) PROVE Inv4'
  BY <1>3, <1>a, <1>b DEF CheckIdempotency, Seen, dbVars, Goto, TypeOK, Inv4
<1>4. ASSUME NEW h \in Handlers, ResolveSession(h) PROVE Inv4'
  BY <1>4, <1>a, <1>b DEF ResolveSession, redisVars, dbVars, Goto, TypeOK, Inv4
<1>5. ASSUME NEW h \in Handlers, ReleaseUnresolved(h) \/ ReleaseFailed(h) PROVE Inv4'
  BY <1>5, <1>a, <1>b DEF Released, ReleaseUnresolved, ReleaseFailed, dbVars, Goto, TypeOK, Inv4
<1>6. ASSUME NEW h \in Handlers, AppendEvent(h) PROVE Inv4'
  BY <1>6, <1>a, <1>b DEF AppendEvent, redisVars, dbVars, Goto, TypeOK, Inv4
<1>7. ASSUME NEW h \in Handlers,
             PersistTranscript(h) \/ UpdateProjection(h) \/ StatementFails(h)
      PROVE  Inv4'
  BY <1>7, <1>a, <1>b DEF PersistTranscript, UpdateProjection, StatementFails, redisVars, dbVars,
     Goto, TypeOK, Inv4
<1>8. ASSUME NEW h \in Handlers, Commit(h) PROVE Inv4'
  <2>1. /\ pc[h] = "commit" /\ WriteThrough(h) /\ UNCHANGED <<idem, pay>>
        /\ pc'[h] \in {"notify", "reply"}
        /\ \A g \in Handlers \ {h} : pc'[g] = pc[g]
    BY <1>8, <1>a DEF Commit, redisVars, Goto, TypeOK
  <2>2. Key(h) \in idem /\ \A g \in Handlers \ {h} : pc[g] \in Owning => Key(g) # Key(h)
    BY <2>1 DEF Inv2, KeyExclusive, Owning
  <2> QED BY <2>1, <2>2, CommitRecordsOnce DEF Inv4, Owning
<1>9. ASSUME NEW h \in Handlers, NotifyCallUpdate(h) \/ EnqueueExtraction(h) PROVE Inv4'
  BY <1>9, <1>a, <1>b DEF NotifyCallUpdate, EnqueueExtraction, redisVars, dbVars, Goto, TypeOK, Inv4
<1>10. ASSUME NEW h \in Handlers,
              Reply(h) \/ Rollback(h) \/ ResolveFails(h) \/ Crash(h)
       PROVE  Inv4'
  <2>1. Finish(h) /\ UNCHANGED <<idem, log>>
    BY <1>10 DEF Reply, Rollback, ResolveFails, Crash, redisVars, dbVars
  <2> QED BY <2>1, <1>a, <1>b, FinishType DEF Inv4
<1>11. CASE UNCHANGED vars
  BY <1>11, <1>b DEF vars, redisVars, dbVars, localVars, Inv4
<1> QED
  BY <1>1, <1>2, <1>3, <1>4, <1>5, <1>6, <1>7, <1>8, <1>9, <1>10, <1>11
     DEF Next, Handle, Fault, ReliableKeys, ExpireKey, CommitLost

\* Recorded keys are in Redis in every reachable state.
LEMMA Inv4Holds == ASSUME ReliableKeys PROVE Spec => []Inv4
<1>1. Init => Inv4
  BY DEF Init, Inv4, RecordedKeys, EventsRecordedOnce, Uncommitted
<1>2. Inv1 /\ Inv2 /\ Inv4 /\ [Next]_vars => Inv4'
  BY Inv4Next
<1> QED BY <1>1, <1>2, Inv1Holds, Inv2Holds, PTL DEF Spec

\* Processing is idempotent: an idempotency key is recorded at most once,
\* whatever crashes and failures, as long as keys do not expire and a COMMIT
\* that raises has not happened.
THEOREM RecordedOnce == ASSUME ReliableKeys PROVE Spec => []EventsRecordedOnce
<1>1. Inv4 => EventsRecordedOnce
  BY DEF Inv4
<1> QED BY <1>1, Inv4Holds, PTL

-----------------------------------------------------------------------------
(* Layer 5: a key in Redis is recorded or owned.  A process that dies, or  *)
(* the SELECT outside the try block, leaves a key behind.                  *)

KeysReturned == "crash" \notin Faults /\ "resolve_error" \notin Faults

Inv5 ==
    /\ KeyHeldForAReason
    /\ \A h \in Handlers : pc[h] \in {"notify", "enqueue"} => Key(h) \in RecordedKeys(log)

\* A step of one run that loses no recorded event, sets no key but its own and
\* keeps its key only while it owns it, or for its event.
LEMMA ReasonsKept ==
    ASSUME Inv5, NEW h \in Handlers,
           \A g \in Handlers \ {h} : pc'[g] = pc[g] /\ pay'[g] = pay[g],
           RecordedKeys(log) \subseteq RecordedKeys(log)',
           \A k \in idem' : k \in idem \/ (pc'[h] \in Owning /\ Key(h)' = k),
           pc[h] \in Owning /\ Key(h) \in idem' =>
               (pc'[h] \in Owning /\ pay'[h] = pay[h]) \/ Key(h) \in RecordedKeys(log)',
           pc'[h] \in {"notify", "enqueue"} => Key(h)' \in RecordedKeys(log)'
    PROVE  Inv5'
<1>1. \A g \in Handlers \ {h} : Key(g)' = Key(g)
  BY DEF Key
<1>2. pay'[h] = pay[h] => Key(h)' = Key(h)
  BY DEF Key
<1>3. KeyHeldForAReason'
  <2> SUFFICES ASSUME NEW k \in idem'
               PROVE  \/ k \in RecordedKeys(log)'
                      \/ \E g \in Handlers : pc'[g] \in Owning /\ Key(g)' = k
    BY DEF KeyHeldForAReason
  <2>1. CASE pc'[h] \in Owning /\ Key(h)' = k
    BY <2>1
  <2>2. CASE k \in idem
    <3>1. CASE k \in RecordedKeys(log)
      BY <3>1
    <3>2. ASSUME NEW g \in Handlers, pc[g] \in Owning, Key(g) = k
          PROVE  \/ k \in RecordedKeys(log)'
                 \/ \E f \in Handlers : pc'[f] \in Owning /\ Key(f)' = k
      BY <1>1, <1>2, <3>2
    <3> QED BY <2>2, <3>1, <3>2 DEF Inv5, KeyHeldForAReason
  <2> QED BY <2>1, <2>2
<1>4. \A g \in Handlers : pc'[g] \in {"notify", "enqueue"} => Key(g)' \in RecordedKeys(log)'
  BY <1>1 DEF Inv5
<1> QED BY <1>3, <1>4 DEF Inv5

\* Every step keeps a reason for each key in Redis.
LEMMA Inv5Next == ASSUME KeysReturned PROVE Inv1 /\ Inv5 /\ [Next]_vars => Inv5'
<1> SUFFICES ASSUME Inv1, Inv5, [Next]_vars PROVE Inv5'
  OBVIOUS
<1>a. TypeOK
  BY DEF Inv1
<1>b. ASSUME UNCHANGED log PROVE RecordedKeys(log)' = RecordedKeys(log)
  BY <1>b DEF RecordedKeys
<1>1. ASSUME NEW c \in Calls, Publish(c) PROVE Inv5'
  BY <1>1, <1>b DEF Publish, redisVars, localVars, Inv5, KeyHeldForAReason, Key
<1>2. ASSUME NEW h \in Handlers, NEW p \in Payloads, Deliver(h, p) PROVE Inv5'
  <2>1. /\ pc[h] = "idle" /\ pc'[h] = "check" /\ UNCHANGED <<idem, log>>
        /\ \A g \in Handlers \ {h} : pc'[g] = pc[g] /\ pay'[g] = pay[g]
    BY <1>2, <1>a DEF Deliver, redisVars, dbVars, Goto, TypeOK
  <2> QED BY <2>1, <1>b, ReasonsKept DEF Owning
<1>3. ASSUME NEW h \in Handlers, CheckIdempotency(h) PROVE Inv5'
  <2>1. /\ pc[h] = "check" /\ pc'[h] = IF Key(h) \in idem THEN "reply" ELSE "resolve"
        /\ idem' = idem \cup {Key(h)} /\ UNCHANGED <<log, pay>>
        /\ \A g \in Handlers \ {h} : pc'[g] = pc[g]
    BY <1>3, <1>a DEF CheckIdempotency, Seen, dbVars, Goto, TypeOK
  <2>2. Key(h)' = Key(h)
    BY <2>1 DEF Key
  <2> QED BY <2>1, <2>2, <1>b, ReasonsKept DEF Owning
<1>4. ASSUME NEW h \in Handlers,
             \/ ResolveSession(h) \/ AppendEvent(h) \/ PersistTranscript(h)
             \/ UpdateProjection(h) \/ StatementFails(h)
      PROVE  Inv5'
  <2>1. /\ pc'[h] \in Owning \ {"notify", "enqueue"} /\ UNCHANGED <<idem, log, pay>>
        /\ \A g \in Handlers \ {h} : pc'[g] = pc[g]
    BY <1>4, <1>a DEF ResolveSession, AppendEvent, PersistTranscript, UpdateProjection,
       StatementFails, redisVars, dbVars, Goto, TypeOK, Owning
  <2> QED BY <2>1, <1>b, ReasonsKept
<1>5. ASSUME NEW h \in Handlers, ReleaseUnresolved(h) \/ ReleaseFailed(h) PROVE Inv5'
  <2>1. /\ pc'[h] \in {"reply", "rollback"} /\ idem' = idem \ {Key(h)} /\ UNCHANGED <<log, pay>>
        /\ \A g \in Handlers \ {h} : pc'[g] = pc[g]
    BY <1>5, <1>a DEF Released, ReleaseUnresolved, ReleaseFailed, dbVars, Goto, TypeOK
  <2> QED BY <2>1, <1>b, ReasonsKept
<1>6. ASSUME NEW h \in Handlers, Commit(h) \/ CommitLost(h) PROVE Inv5'
  <2>1. /\ pc[h] = "commit" /\ WriteThrough(h) /\ UNCHANGED <<idem, pay>>
        /\ \A g \in Handlers \ {h} : pc'[g] = pc[g]
    BY <1>6, <1>a DEF Commit, CommitLost, redisVars, Goto, TypeOK
  <2>2. RecordedKeys(log)' = RecordedKeys(log) \cup {Key(h)}
    <3>1. /\ Call(h) \in Calls /\ pay[h] \in Payloads /\ log \in [Calls -> Seq(Payloads)]
          /\ log' = [log EXCEPT ![Call(h)] = Append(@, pay[h])]
      BY <2>1 DEF Inv1, TypeOK, Resolved, WriteThrough
    <3>2. RecordedKeys([log EXCEPT ![Call(h)] = Append(@, pay[h])])
              = RecordedKeys(log) \cup {IdempotencyKey(pay[h])}
      BY <3>1, RecordedAppend
    <3> QED BY <3>1, <3>2 DEF Key
  <2>3. Key(h)' = Key(h)
    BY <2>1 DEF Key
  <2> QED BY <2>1, <2>2, <2>3, ReasonsKept
<1>7. ASSUME NEW h \in Handlers, NotifyCallUpdate(h) \/ EnqueueExtraction(h) PROVE Inv5'
  <2>1. /\ pc[h] \in {"notify", "enqueue"} /\ UNCHANGED <<idem, log, pay>>
        /\ \A g \in Handlers \ {h} : pc'[g] = pc[g]
    BY <1>7, <1>a DEF NotifyCallUpdate, EnqueueExtraction, redisVars, dbVars, Goto, TypeOK
  <2>2. Key(h) \in RecordedKeys(log) /\ Key(h)' = Key(h)
    BY <2>1 DEF Inv5, Key
  <2> QED BY <2>1, <2>2, <1>b, ReasonsKept
<1>8. ASSUME NEW h \in Handlers, Reply(h) \/ Rollback(h) PROVE Inv5'
  <2>1. Finish(h) /\ UNCHANGED <<idem, log>> /\ pc[h] \in {"reply", "rollback"}
    BY <1>8 DEF Reply, Rollback, redisVars, dbVars
  <2> QED BY <2>1, <1>a, <1>b, FinishType, ReasonsKept DEF Owning
<1>9. ASSUME NEW k \in Keys, ExpireKey(k) PROVE Inv5'
  BY <1>9, <1>b DEF ExpireKey, dbVars, localVars, Inv5, KeyHeldForAReason, Key
<1>10. CASE UNCHANGED vars
  BY <1>10, <1>b DEF vars, redisVars, dbVars, localVars, Inv5, KeyHeldForAReason, Key
<1> QED
  BY <1>1, <1>2, <1>3, <1>4, <1>5, <1>6, <1>7, <1>8, <1>9, <1>10
     DEF Next, Handle, Fault, KeysReturned, ResolveFails, Crash

\* A run that fails gives its key back, and one that succeeds keeps it with
\* its event: no key is left for nothing, whatever statements fail, keys
\* expire or COMMITs are lost, unless a process dies or the SELECT before the
\* try block raises.
THEOREM KeysHeldForAReason == ASSUME KeysReturned PROVE Spec => []KeyHeldForAReason
<1>1. Init => Inv5
  BY DEF Init, Inv5, KeyHeldForAReason
<1>2. Inv1 /\ Inv5 /\ [Next]_vars => Inv5'
  BY Inv5Next
<1>3. Inv5 => KeyHeldForAReason
  BY DEF Inv5
<1> QED BY <1>1, <1>2, <1>3, Inv1Holds, PTL DEF Spec

-----------------------------------------------------------------------------
(* Layer 6: the session row is a fold of its events.  Only an event of a   *)
(* published call is recorded, so that "queued" overwrites none.           *)

\* LastOf, for a sequence of events and a set of them.
LastIn(s, Q, n) ==
    IF \E i \in DOMAIN s : s[i] \in Q
    THEN n \in DOMAIN s /\ s[n] \in Q /\ \A i \in DOMAIN s : s[i] \in Q => i <= n
    ELSE n = 0

KnownOnes    == {p \in Payloads : Known(p)}
TerminalOnes == {p \in Payloads : Terminal(p)}

Projected(c) ==
    /\ \E n \in 0 .. Len(log[c]) :
          /\ LastIn(log[c], KnownOnes, n)
          /\ status[c] = IF n > 0 THEN SessionStatus(log[c][n])
                         ELSE IF c \in published THEN "queued" ELSE "initiating"
    /\ LastIn(log[c], TerminalOnes, endedBy[c])

Inv6 == \A c \in Calls : Projected(c) /\ (c \notin published => log[c] = <<>>)

\* The last element of a kind in a log: the one appended, or the one there was.
LEMMA LastAppended ==
    ASSUME NEW s \in Seq(Payloads), NEW p \in Payloads, NEW Q
    PROVE  /\ p \in Q => LastIn(Append(s, p), Q, Len(s) + 1)
           /\ p \notin Q => \A n : LastIn(s, Q, n) => LastIn(Append(s, p), Q, n)
<1> DEFINE t == Append(s, p)
           m == Len(s) + 1
<1>1. /\ DOMAIN t = DOMAIN s \cup {m} /\ t[m] = p /\ m \notin DOMAIN s
      /\ \A i \in DOMAIN s : t[i] = s[i] /\ i <= m
      /\ m <= m
  OBVIOUS
<1> HIDE DEF t, m
<1>2. /\ p \in Q => LastIn(t, Q, m)
      /\ p \notin Q => \A n : LastIn(s, Q, n) => LastIn(t, Q, n)
  BY <1>1 DEF LastIn
<1> QED BY <1>2 DEF t, m

\* A commit writes to the row what the event it appends says.
LEMMA CommitProjects ==
    ASSUME Inv1, Inv6, NEW h \in Handlers, pc[h] = "commit", WriteThrough(h)
    PROVE  Inv6'
<1> DEFINE c == Call(h)
           p == pay[h]
           s == log[c]
<1>1. /\ c \in Calls /\ c \in published /\ p \in Payloads /\ s \in Seq(Payloads)
      /\ log \in [Calls -> Seq(Payloads)] /\ status \in [Calls -> Statuses]
      /\ endedBy \in [Calls -> Nat]
  BY DEF Inv1, TypeOK, Resolved
<1>2. /\ log'[c] = Append(s, p) /\ published' = published
      /\ status'[c] = IF Known(p) THEN SessionStatus(p) ELSE status[c]
      /\ endedBy'[c] = IF Terminal(p) THEN Len(s) + 1 ELSE endedBy[c]
      /\ \A d \in Calls \ {c} :
           log'[d] = log[d] /\ status'[d] = status[d] /\ endedBy'[d] = endedBy[d]
  BY <1>1 DEF WriteThrough, SetsEndedAt
<1>3. /\ Len(s) \in Nat /\ Len(Append(s, p)) = Len(s) + 1 /\ Append(s, p)[Len(s) + 1] = p
      /\ \A i \in DOMAIN s : Append(s, p)[i] = s[i]
  BY <1>1
<1>4. LastIn(log'[c], TerminalOnes, endedBy'[c])
  <2>1. LastIn(s, TerminalOnes, endedBy[c])
    BY <1>1 DEF Inv6, Projected
  <2> QED BY <1>1, <1>2, <2>1, LastAppended DEF TerminalOnes
<1>5. \E n \in 0 .. Len(log'[c]) :
          /\ LastIn(log'[c], KnownOnes, n)
          /\ status'[c] = IF n > 0 THEN SessionStatus(log'[c][n])
                          ELSE IF c \in published' THEN "queued" ELSE "initiating"
  <2>1. CASE Known(p)
    <3>1. LastIn(log'[c], KnownOnes, Len(s) + 1)
      BY <1>1, <1>2, <2>1, LastAppended DEF KnownOnes
    <3>2. /\ Len(s) + 1 \in 0 .. Len(log'[c]) /\ Len(s) + 1 > 0
          /\ status'[c] = SessionStatus(log'[c][Len(s) + 1])
      BY <1>2, <1>3, <2>1
    <3> QED BY <3>1, <3>2
  <2>2. CASE ~Known(p)
    <3>1. PICK n \in 0 .. Len(s) :
              /\ LastIn(s, KnownOnes, n)
              /\ status[c] = IF n > 0 THEN SessionStatus(s[n])
                             ELSE IF c \in published THEN "queued" ELSE "initiating"
      BY <1>1 DEF Inv6, Projected
    <3>2. LastIn(log'[c], KnownOnes, n)
      BY <1>1, <1>2, <2>2, <3>1, LastAppended DEF KnownOnes
    <3>3. n \in 0 .. Len(log'[c])
      BY <1>2, <1>3
    <3>4. n > 0 => log'[c][n] = s[n]
      BY <1>2, <1>3, <1>1
    <3> QED BY <1>2, <2>2, <3>1, <3>2, <3>3, <3>4
  <2> QED BY <2>1, <2>2
<1>6. ASSUME NEW d \in Calls, d = c PROVE Projected(d)'
  BY <1>4, <1>5, <1>6 DEF Projected
<1>7. \A d \in Calls : d # c => Projected(d)' /\ (d \notin published' => log'[d] = <<>>)
  BY <1>2 DEF Inv6, Projected
<1>8. ASSUME NEW d \in Calls PROVE Projected(d)' /\ (d \notin published' => log'[d] = <<>>)
  BY <1>1, <1>2, <1>6, <1>7
<1> HIDE DEF c, p, s
<1> QED BY <1>8 DEF Inv6

\* Publishing a call overwrites no status an event has set.
LEMMA PublishProjects == ASSUME Inv1, Inv6, NEW c \in Calls, Publish(c) PROVE Inv6'
<1>1. /\ c \notin published /\ log[c] = <<>> /\ published' = published \cup {c}
      /\ status'[c] = "queued" /\ UNCHANGED <<log, endedBy>>
      /\ \A d \in Calls \ {c} : status'[d] = status[d]
  BY DEF Publish, Inv6, Inv1, TypeOK
<1>2. LastIn(log'[c], KnownOnes, 0) /\ Len(log'[c]) = 0
  BY <1>1 DEF LastIn
<1>3. Projected(c)'
  BY <1>1, <1>2 DEF Projected, Inv6
<1>4. \A d \in Calls \ {c} : Projected(d)' /\ (d \notin published' => log'[d] = <<>>)
  BY <1>1 DEF Inv6, Projected
<1> QED BY <1>1, <1>3, <1>4 DEF Inv6

\* Every step keeps the row a fold of the events.
LEMMA Inv6Next == Inv1 /\ Inv6 /\ [Next]_vars => Inv6'
<1> SUFFICES ASSUME Inv1, Inv6, [Next]_vars PROVE Inv6'
  OBVIOUS
<1>1. ASSUME NEW c \in Calls, Publish(c) PROVE Inv6'
  BY <1>1, PublishProjects
<1>2. ASSUME NEW h \in Handlers, Commit(h) \/ CommitLost(h) PROVE Inv6'
  BY <1>2, CommitProjects DEF Commit, CommitLost
<1>3. ASSUME UNCHANGED <<log, status, endedBy, published>> PROVE Inv6'
  BY <1>3 DEF Inv6, Projected
<1>4. ASSUME NEW h \in Handlers, NEW p \in Payloads, Deliver(h, p) PROVE Inv6'
  BY <1>3, <1>4 DEF Deliver, dbVars
<1>5. ASSUME NEW h \in Handlers, Handle(h) \/ Fault(h), ~Commit(h), ~CommitLost(h)
      PROVE  UNCHANGED <<log, status, endedBy, published>>
  BY <1>5 DEF Handle, Fault, CheckIdempotency, ResolveSession, ReleaseUnresolved, AppendEvent,
     PersistTranscript, UpdateProjection, NotifyCallUpdate, EnqueueExtraction, Reply,
     ReleaseFailed, Rollback, StatementFails, ResolveFails, Crash, dbVars
<1>6. ASSUME NEW k \in Keys, ExpireKey(k) PROVE Inv6'
  BY <1>3, <1>6 DEF ExpireKey, dbVars
<1>7. CASE UNCHANGED vars
  BY <1>3, <1>7 DEF vars, dbVars
<1> QED BY <1>1, <1>2, <1>3, <1>4, <1>5, <1>6, <1>7 DEF Next

\* The session row is what its recorded events make of it, in the order of
\* their commits, whatever interleaves and fails.
THEOREM ProjectionsFoldLogs == Spec => []ProjectionFoldsLog
<1>1. Init => Inv6
  BY DEF Init, Inv6, Projected, LastIn
<1>2. Inv1 /\ Inv6 => ProjectionFoldsLog
  <2> SUFFICES ASSUME Inv1, Inv6, NEW c \in Calls
               PROVE  /\ \E n \in 0 .. Len(log[c]) :
                            /\ LastOf(c, Known, n)
                            /\ status[c] = IF n > 0 THEN SessionStatus(log[c][n])
                                           ELSE IF c \in published THEN "queued" ELSE "initiating"
                      /\ LastOf(c, Terminal, endedBy[c])
    BY DEF ProjectionFoldsLog
  <2>1. \A i \in DOMAIN log[c] : log[c][i] \in Payloads
    BY DEF Inv1, TypeOK
  <2>2. \A n : LastIn(log[c], KnownOnes, n) => LastOf(c, Known, n)
    BY <2>1 DEF LastIn, LastOf, KnownOnes
  <2>3. \A n : LastIn(log[c], TerminalOnes, n) => LastOf(c, Terminal, n)
    BY <2>1 DEF LastIn, LastOf, TerminalOnes
  <2> QED BY <2>2, <2>3 DEF Inv6, Projected
<1> QED BY <1>1, <1>2, Inv6Next, Inv1Holds, PTL DEF Spec

-----------------------------------------------------------------------------
(* Refinement: handlers keep the protocol of the keys (EventKeys), and     *)
(* whoever keeps it keeps the ledger of events (EventLedger).              *)

\* The ledger's functions of a payload are those of BolnaEvents.
LEMMA SameFunctions ==
    /\ \A p : /\ Ledger!ExecutionId(p) = ExecutionId(p)
             /\ Ledger!IdempotencyKey(p) = IdempotencyKey(p)
             /\ Ledger!SessionStatus(p) = SessionStatus(p)
             /\ Ledger!Known(p) = Known(p)
             /\ Ledger!CarriesTranscript(p) = CarriesTranscript(p)
    /\ Ledger!RecordedKeys(log) = RecordedKeys(log)
<1>1. \A p : Ledger!ExecutionId(p) = ExecutionId(p)
  BY DEF Ledger!ExecutionId, ExecutionId
<1>2. \A p : Ledger!IdempotencyKey(p) = IdempotencyKey(p)
  BY DEF Ledger!IdempotencyKey, IdempotencyKey
<1>3. \A p : Ledger!SessionStatus(p) = SessionStatus(p)
  BY DEF Ledger!SessionStatus, SessionStatus
<1>4. \A p : Ledger!Known(p) = Known(p)
  BY <1>3 DEF Ledger!Known, Known
<1>5. \A p : Ledger!CarriesTranscript(p) = CarriesTranscript(p)
  BY <1>3 DEF Ledger!CarriesTranscript, CarriesTranscript, Ledger!Terminal, Terminal,
              Ledger!TerminalStatuses, TerminalStatuses
<1>6. Ledger!RecordedKeys(log) = RecordedKeys(log)
  BY <1>2 DEF Ledger!RecordedKeys, RecordedKeys
<1> QED BY <1>1, <1>2, <1>3, <1>4, <1>5, <1>6

\* The functions of a payload that Guard has are those of BolnaEvents.
LEMMA GuardFunctions ==
    /\ \A p : /\ Guard!ExecutionId(p) = ExecutionId(p)
              /\ Guard!IdempotencyKey(p) = IdempotencyKey(p)
              /\ Guard!SessionStatus(p) = SessionStatus(p)
              /\ Guard!Known(p) = Known(p)
              /\ Guard!CarriesTranscript(p) = CarriesTranscript(p)
    /\ Guard!Keys = Keys
<1>1. \A p : Guard!ExecutionId(p) = ExecutionId(p)
  BY DEF Guard!ExecutionId, ExecutionId
<1>2. \A p : Guard!IdempotencyKey(p) = IdempotencyKey(p)
  BY DEF Guard!IdempotencyKey, IdempotencyKey
<1>3. \A p : Guard!SessionStatus(p) = SessionStatus(p)
  BY DEF Guard!SessionStatus, SessionStatus
<1>4. \A p : Guard!Known(p) = Known(p)
  BY <1>3 DEF Guard!Known, Known
<1>5. \A p : Guard!CarriesTranscript(p) = CarriesTranscript(p)
  BY <1>3 DEF Guard!CarriesTranscript, CarriesTranscript, Guard!Terminal, Terminal,
              Guard!TerminalStatuses, TerminalStatuses
<1>6. Guard!Keys = Keys
  BY <1>2 DEF Guard!Keys, Keys
<1> QED BY <1>1, <1>2, <1>3, <1>4, <1>5, <1>6

\* The keys under way are those of the runs that have not committed.
LEMMA UnderWayKeys ==
    /\ UnderWay = {IdempotencyKey(pay[h]) : h \in {g \in Handlers : pc[g] \in Uncommitted}}
    /\ UnderWay' = {IdempotencyKey(pay'[h]) : h \in {g \in Handlers : pc'[g] \in Uncommitted}}
<1>1. Owning \ {"notify", "enqueue"} = Uncommitted
  BY DEF Owning, Uncommitted
<1> QED BY <1>1 DEF UnderWay, Key

\* When one run moves, the keys of the others stay under way.
LEMMA OthersUnderWay ==
    ASSUME Inv1, Inv2, NEW h \in Handlers,
           \A g \in Handlers \ {h} : pc'[g] = pc[g] /\ pay'[g] = pay[g]
    PROVE  /\ pc'[h] \in Uncommitted /\ pc[h] \in Uncommitted /\ pay'[h] = pay[h]
                => UnderWay' = UnderWay
           /\ pc'[h] \notin Uncommitted /\ pc[h] \notin Uncommitted => UnderWay' = UnderWay
           /\ pc'[h] \in Uncommitted /\ pc[h] \notin Uncommitted
                => UnderWay' = UnderWay \cup {IdempotencyKey(pay'[h])}
           /\ pc'[h] \notin Uncommitted /\ pc[h] \in Uncommitted
                => UnderWay' = UnderWay \ {Key(h)}
<1> DEFINE before == {g \in Handlers : pc[g] \in Uncommitted}
           after  == {g \in Handlers : pc'[g] \in Uncommitted}
<1>1. UnderWay = {IdempotencyKey(pay[g]) : g \in before}
  BY UnderWayKeys
<1>2. UnderWay' = {IdempotencyKey(pay'[g]) : g \in after}
  BY UnderWayKeys
<1>3. \A g \in before \ {h} : g \in after /\ pay'[g] = pay[g]
  OBVIOUS
<1>4. \A g \in after \ {h} : g \in before /\ pay'[g] = pay[g]
  OBVIOUS
<1>5. h \in before => \A g \in before \ {h} : IdempotencyKey(pay[g]) # IdempotencyKey(pay[h])
  BY DEF Inv2, KeyExclusive, Key, Owning, Uncommitted
<1>6. /\ h \in before <=> pc[h] \in Uncommitted
      /\ h \in after <=> pc'[h] \in Uncommitted
  OBVIOUS
<1>7. Key(h) = IdempotencyKey(pay[h])
  BY DEF Key
<1> HIDE DEF before, after
<1> QED BY <1>1, <1>2, <1>3, <1>4, <1>5, <1>6, <1>7
\* A commit records an event whose key is under way.
LEMMA CommitIsGuarded ==
    ASSUME Inv1, Inv2, Inv3, NEW h \in Handlers, Commit(h)
    PROVE  Guard!Record(pay[h])
<1>1. pc[h] = "commit" /\ WriteThrough(h) /\ UNCHANGED <<jobs, idem, pay>>
  BY DEF Commit, outVars, redisVars
<1>2. Call(h) \in published
  BY <1>1 DEF Inv1, Resolved
<1>3. fresh[h] => CarriesTranscript(pay[h])
  BY <1>1 DEF Inv3, HoldsTurns, InTransaction
<1>4. CarriesTranscript(pay[h]) => fresh[h] \/ Call(h) \in utterances
  BY <1>1 DEF Inv3
<1>5. utterances' = IF CarriesTranscript(pay[h]) THEN utterances \cup {Call(h)} ELSE utterances
  BY <1>1, <1>3, <1>4 DEF WriteThrough
<1>6. Key(h) \in UnderWay
  BY <1>1, UnderWayKeys DEF Key, Uncommitted
<1>7. UnderWay' = UnderWay \ {Key(h)}
  <2>1. /\ \A g \in Handlers \ {h} : pc'[g] = pc[g] /\ pay'[g] = pay[g]
        /\ pc'[h] \in {"notify", "reply"}
    BY <1>1 DEF Commit, Goto, Inv1, TypeOK
  <2> QED BY <1>1, <2>1, OthersUnderWay DEF Uncommitted
<1> QED
  BY <1>1, <1>2, <1>5, <1>6, <1>7, GuardFunctions DEF Guard!Record, WriteThrough, Call, Key

\* What a step of a run does to the keys, when it is no commit.
LEMMA RunKeepsProtocol ==
    ASSUME Inv1, Inv2, NEW h \in Handlers,
           UNCHANGED <<published, status, log, utterances, jobs>>,
           \A g \in Handlers \ {h} : pc'[g] = pc[g] /\ pay'[g] = pay[g],
           \/ /\ pc[h] = "check" /\ pc'[h] = "resolve" /\ pay'[h] = pay[h]
              /\ Key(h) \notin idem /\ idem' = idem \cup {Key(h)}
           \/ /\ pc[h] \in Uncommitted /\ pc'[h] \notin Uncommitted
              /\ idem' = idem \ {Key(h)} \/ idem' = idem
           \/ /\ (pc'[h] \in Uncommitted <=> pc[h] \in Uncommitted)
              /\ pc[h] \in Uncommitted => pay'[h] = pay[h]
              /\ idem' = idem
    PROVE  [Guard!Next]_(Guard!vars)
<1> USE DEF Guard!vars, Guard!ledgerVars
<1>1. CASE /\ pc[h] = "check" /\ pc'[h] = "resolve" /\ pay'[h] = pay[h]
           /\ Key(h) \notin idem /\ idem' = idem \cup {Key(h)}
  <2>1. pay[h] \in Payloads
    BY <1>1 DEF Inv1, TypeOK
  <2>2. UnderWay' = UnderWay \cup {Key(h)}
    BY <1>1, OthersUnderWay DEF Uncommitted, Key
  <2>3. Guard!Take(pay[h])
    BY <1>1, <2>2, GuardFunctions DEF Guard!Take, Key
  <2> QED BY <2>1, <2>3 DEF Guard!Next
<1>2. CASE /\ pc[h] \in Uncommitted /\ pc'[h] \notin Uncommitted
           /\ idem' = idem \ {Key(h)} \/ idem' = idem
  <2>1. Key(h) \in Keys
    BY <1>2, PayloadKey DEF Inv1, TypeOK, Uncommitted, Key
  <2>2. UnderWay' = UnderWay \ {Key(h)} /\ Key(h) \in UnderWay
    BY <1>2, OthersUnderWay, UnderWayKeys DEF Key
  <2>3. Guard!GiveBack(Key(h)) \/ Guard!Lose(Key(h))
    BY <1>2, <2>2 DEF Guard!GiveBack, Guard!Lose
  <2> QED BY <2>1, <2>3, GuardFunctions DEF Guard!Next
<1>3. CASE /\ (pc'[h] \in Uncommitted <=> pc[h] \in Uncommitted)
           /\ pc[h] \in Uncommitted => pay'[h] = pay[h]
           /\ idem' = idem
  <2>1. UnderWay' = UnderWay
    BY <1>3, OthersUnderWay
  <2> QED BY <1>3, <2>1
<1> QED BY <1>1, <1>2, <1>3

\* Every step of the handlers keeps to the protocol of the keys.
LEMMA StepIsGuarded ==
    ASSUME ReliableKeys
    PROVE  Inv1 /\ Inv2 /\ Inv3 /\ [Next]_vars => [Guard!Next]_(Guard!vars)
<1> SUFFICES ASSUME Inv1, Inv2, Inv3, [Next]_vars PROVE [Guard!Next]_(Guard!vars)
  OBVIOUS
<1>a. TypeOK
  BY DEF Inv1
<1> USE DEF dbVars, outVars, redisVars, Goto
<1>1. ASSUME NEW c \in Calls, Publish(c) PROVE [Guard!Next]_(Guard!vars)
  <2>1. UnderWay' = UnderWay
    BY <1>1, UnderWayKeys DEF Publish, localVars
  <2>2. Guard!Ledger!Publish(c)
    BY <1>1 DEF Publish, Guard!Ledger!Publish
  <2> QED BY <1>1, <2>1, <2>2 DEF Publish, Guard!Next
<1>2. ASSUME NEW h \in Handlers, NEW p \in Payloads, Deliver(h, p)
      PROVE  [Guard!Next]_(Guard!vars)
  <2>1. pc[h] = "idle" /\ pc'[h] = "check"
    BY <1>2, <1>a DEF Deliver, TypeOK
  <2> QED BY <1>2, <1>a, <2>1, RunKeepsProtocol DEF Deliver, TypeOK, Uncommitted
<1>3. ASSUME NEW h \in Handlers, CheckIdempotency(h) PROVE [Guard!Next]_(Guard!vars)
  <2>1. CASE Seen(Key(h))
    BY <1>3, <1>a, <2>1, RunKeepsProtocol DEF CheckIdempotency, Seen, TypeOK, Uncommitted
  <2>2. CASE ~Seen(Key(h))
    BY <1>3, <1>a, <2>2, RunKeepsProtocol DEF CheckIdempotency, Seen, TypeOK, Uncommitted
  <2> QED BY <2>1, <2>2
<1>4. ASSUME NEW h \in Handlers,
             \/ ResolveSession(h) \/ AppendEvent(h) \/ PersistTranscript(h)
             \/ UpdateProjection(h) \/ StatementFails(h)
      PROVE  [Guard!Next]_(Guard!vars)
  <2>1. /\ pc[h] \in Uncommitted /\ pc'[h] \in Uncommitted /\ UNCHANGED pay
        /\ \A g \in Handlers \ {h} : pc'[g] = pc[g]
    BY <1>4, <1>a DEF ResolveSession, AppendEvent, PersistTranscript, UpdateProjection,
                      StatementFails, TypeOK, Uncommitted
  <2>2. UNCHANGED <<published, status, log, utterances, jobs, idem>>
    BY <1>4 DEF ResolveSession, AppendEvent, PersistTranscript, UpdateProjection, StatementFails
  <2> QED BY <2>1, <2>2, RunKeepsProtocol
<1>5. ASSUME NEW h \in Handlers, ReleaseUnresolved(h) \/ ReleaseFailed(h)
      PROVE  [Guard!Next]_(Guard!vars)
  <2>1. /\ pc[h] \in Uncommitted /\ pc'[h] \notin Uncommitted /\ UNCHANGED pay
        /\ \A g \in Handlers \ {h} : pc'[g] = pc[g]
        /\ idem' = idem \ {Key(h)}
    BY <1>5, <1>a DEF ReleaseUnresolved, ReleaseFailed, Released, TypeOK, Uncommitted
  <2>2. UNCHANGED <<published, status, log, utterances, jobs>>
    BY <1>5 DEF ReleaseUnresolved, ReleaseFailed
  <2> QED BY <2>1, <2>2, RunKeepsProtocol
<1>6. ASSUME NEW h \in Handlers, Commit(h) PROVE [Guard!Next]_(Guard!vars)
  <2>1. pay[h] \in Payloads
    BY <1>6, <1>a DEF Commit, TypeOK
  <2> QED BY <1>6, <2>1, CommitIsGuarded DEF Guard!Next
<1>7. ASSUME NEW h \in Handlers, NotifyCallUpdate(h) PROVE [Guard!Next]_(Guard!vars)
  <2>1. /\ pc[h] \notin Uncommitted /\ pc'[h] \notin Uncommitted /\ UNCHANGED pay
        /\ \A g \in Handlers \ {h} : pc'[g] = pc[g]
    BY <1>7, <1>a DEF NotifyCallUpdate, TypeOK, Uncommitted
  <2> QED BY <1>7, <2>1, RunKeepsProtocol DEF NotifyCallUpdate
<1>8. ASSUME NEW h \in Handlers, EnqueueExtraction(h) PROVE [Guard!Next]_(Guard!vars)
  <2>1. /\ pc[h] = "enqueue" /\ pc'[h] = "reply" /\ UNCHANGED pay
        /\ \A g \in Handlers \ {h} : pc'[g] = pc[g]
    BY <1>8, <1>a DEF EnqueueExtraction, TypeOK
  <2>2. UnderWay' = UnderWay
    BY <2>1, OthersUnderWay DEF Uncommitted
  <2>3. Call(h) \in Calls /\ Call(h) \in utterances /\ jobs[Call(h)] = 0
    BY <2>1, <1>a DEF Inv1, Inv3, Owes, Resolved, TypeOK
  <2>4. Guard!Ledger!Dispatch(Call(h)) \/ jobs' = jobs
    BY <1>8, <2>3 DEF EnqueueExtraction, Guard!Ledger!Dispatch
  <2>5. UNCHANGED <<published, status, log, utterances, idem>>
    BY <1>8 DEF EnqueueExtraction
  <2> QED BY <2>2, <2>3, <2>4, <2>5 DEF Guard!Next, Guard!vars, Guard!ledgerVars
<1>9. ASSUME NEW h \in Handlers, Reply(h) \/ Rollback(h) \/ ResolveFails(h) \/ Crash(h)
      PROVE  [Guard!Next]_(Guard!vars)
  <2>1. /\ pc[h] # "idle" /\ pc'[h] = "idle"
        /\ \A g \in Handlers \ {h} : pc'[g] = pc[g] /\ pay'[g] = pay[g]
    BY <1>9, <1>a, FinishType DEF Reply, Rollback, ResolveFails, Crash
  <2>2. UNCHANGED <<published, status, log, utterances, jobs, idem>>
    BY <1>9 DEF Reply, Rollback, ResolveFails, Crash
  <2> QED BY <2>1, <2>2, RunKeepsProtocol DEF Uncommitted
<1>10. CASE UNCHANGED vars
  BY <1>10, UnderWayKeys DEF vars, localVars, Guard!vars, Guard!ledgerVars
<1> QED
  BY <1>1, <1>2, <1>3, <1>4, <1>5, <1>6, <1>7, <1>8, <1>9, <1>10
     DEF Next, Handle, Fault, ReliableKeys, ExpireKey, CommitLost

(* The handlers keep the protocol of the keys (ingestion.py:112-313): a    *)
(* run that has set the key of an event is alone with it until it commits, *)
(* gives the key back, or is lost with it.  None of them looks whether the *)
(* event is recorded: that it is not follows (KeysKeepLedger).             *)
THEOREM KeysAreGuarded == ASSUME ReliableKeys PROVE Spec => KeysGuardEvents
<1>1. Init => Guard!Init
  BY DEF Init, Guard!Init, Guard!Ledger!Init, UnderWay, Owning
<1>2. Inv1 /\ Inv2 /\ Inv3 /\ [Next]_vars => [Guard!Next]_(Guard!vars)
  BY StepIsGuarded
<1> QED BY <1>1, <1>2, Inv1Holds, Inv2Holds, Inv3Holds, PTL DEF Spec, Guard!Spec, KeysGuardEvents
\* Nothing that is held is recorded: what nobody has to look at.
HeldUnrecorded ==
    /\ published \subseteq Calls /\ log \in [Calls -> Seq(Payloads)]
    /\ RecordedKeys(log) \subseteq idem
    /\ UnderWay \subseteq idem \ RecordedKeys(log)

\* Recording a held event is EventLedger's Record.
LEMMA GuardedIsRecord ==
    ASSUME HeldUnrecorded, NEW p \in Payloads, Guard!Record(p)
    PROVE  Ledger!Record(p) /\ HeldUnrecorded'
<1>1. PICK c \in Calls : c = ExecutionId(p) /\ c \in published
  BY GuardFunctions DEF HeldUnrecorded, Guard!Record
<1>2. /\ IdempotencyKey(p) \in UnderWay
      /\ log' = [log EXCEPT ![c] = Append(@, p)]
      /\ UnderWay' = UnderWay \ {IdempotencyKey(p)} /\ UNCHANGED <<published, jobs, idem>>
  BY <1>1, GuardFunctions DEF Guard!Record
<1>3. RecordedKeys([log EXCEPT ![c] = Append(@, p)]) = RecordedKeys(log) \cup {IdempotencyKey(p)}
  BY RecordedAppend DEF HeldUnrecorded
<1>4. RecordedKeys(log)' = RecordedKeys(log) \cup {IdempotencyKey(p)}
  <2>1. RecordedKeys(log') = RecordedKeys(log) \cup {IdempotencyKey(p)}
    BY <1>2, <1>3
  <2> QED BY <2>1 DEF RecordedKeys
<1>5. log' \in [Calls -> Seq(Payloads)]
  <2>1. Append(log[c], p) \in Seq(Payloads) /\ log \in [Calls -> Seq(Payloads)]
    BY DEF HeldUnrecorded
  <2> QED BY <1>2, <2>1
<1>6. HeldUnrecorded'
  BY <1>2, <1>4, <1>5 DEF HeldUnrecorded
<1>7. IdempotencyKey(p) \notin RecordedKeys(log)
  BY <1>2 DEF HeldUnrecorded
<1> QED BY <1>1, <1>6, <1>7, GuardFunctions, SameFunctions DEF Guard!Record, Ledger!Record

\* The protocol keeps what is held unrecorded, and makes the ledger's steps.
LEMMA GuardedStep ==
    HeldUnrecorded /\ [Guard!Next]_(Guard!vars) => HeldUnrecorded' /\ [Ledger!Next]_(Ledger!vars)
<1> SUFFICES ASSUME HeldUnrecorded, [Guard!Next]_(Guard!vars)
             PROVE  HeldUnrecorded' /\ [Ledger!Next]_(Ledger!vars)
  OBVIOUS
<1>a. ASSUME UNCHANGED log PROVE RecordedKeys(log)' = RecordedKeys(log)
  BY <1>a DEF RecordedKeys
<1> USE DEF Guard!ledgerVars, Ledger!vars
<1>1. ASSUME NEW p \in Payloads, Guard!Take(p)
      PROVE  HeldUnrecorded' /\ [Ledger!Next]_(Ledger!vars)
  BY <1>1, <1>a, GuardFunctions DEF Guard!Take, HeldUnrecorded
<1>2. ASSUME NEW p \in Payloads, Guard!Record(p)
      PROVE  HeldUnrecorded' /\ [Ledger!Next]_(Ledger!vars)
  BY <1>2, GuardedIsRecord DEF Ledger!Next
<1>3. ASSUME NEW k, Guard!GiveBack(k) \/ Guard!Lose(k)
      PROVE  HeldUnrecorded' /\ [Ledger!Next]_(Ledger!vars)
  BY <1>3, <1>a DEF Guard!GiveBack, Guard!Lose, HeldUnrecorded
<1>4. ASSUME NEW c \in Calls, Guard!Ledger!Publish(c) \/ Guard!Ledger!Dispatch(c),
             UNCHANGED <<idem, UnderWay>>
      PROVE  HeldUnrecorded' /\ [Ledger!Next]_(Ledger!vars)
  <2>1. Ledger!Publish(c) \/ Ledger!Dispatch(c)
    BY <1>4 DEF Guard!Ledger!Publish, Guard!Ledger!Dispatch, Ledger!Publish, Ledger!Dispatch
  <2>2. UNCHANGED log /\ published' \subseteq Calls
    BY <2>1 DEF Ledger!Publish, Ledger!Dispatch, HeldUnrecorded
  <2> QED BY <1>4, <1>a, <2>1, <2>2 DEF HeldUnrecorded, Ledger!Next
<1>5. CASE UNCHANGED Guard!vars
  BY <1>5, <1>a DEF Guard!vars, HeldUnrecorded
<1> QED BY <1>1, <1>2, <1>3, <1>4, <1>5 DEF Guard!Next

(* The keys alone make the ledger: whoever keeps their protocol records    *)
(* each event once, though it never asks for the events that are recorded  *)
(* (ingestion.py:122).                                                     *)
THEOREM KeysKeepLedger == KeysGuardEvents => ImplementsLedger
<1>1. Guard!Init => HeldUnrecorded /\ Ledger!Init
  BY DEF Guard!Init, Guard!Ledger!Init, Ledger!Init, HeldUnrecorded, RecordedKeys
<1> QED
  BY <1>1, GuardedStep, PTL DEF KeysGuardEvents, Guard!Spec, ImplementsLedger, Ledger!Spec

(* Ingestion implements the ledger: every run of interleaved handlers      *)
(* looks like a sequence of atomic, once-only recordings.                  *)
THEOREM Refinement == ASSUME ReliableKeys PROVE Spec => ImplementsLedger
BY KeysAreGuarded, KeysKeepLedger, PTL

-----------------------------------------------------------------------------
(* Runs return.                                                            *)

\* h waits for a lock of g: for its utterances in the unique index, or for the
\* session row it has updated.
WaitsFor(h, g) ==
    /\ g # h /\ Call(g) = Call(h)
    /\ \/ pc[h] = "persist" /\ HoldsTurns(g)
       \/ pc[h] = "update" /\ HoldsRow(g)

\* The order in which a run passes its steps.  Locks are taken in this order.
Place(step) ==
    CASE step = "check"      -> 1
      [] step = "resolve"    -> 2
      [] step = "unresolved" -> 3
      [] step = "append"     -> 3
      [] step = "persist"    -> 4
      [] step = "update"     -> 5
      [] step = "commit"     -> 6
      [] step = "failed"     -> 7
      [] step = "rollback"   -> 8
      [] step = "notify"     -> 8
      [] step = "enqueue"    -> 9
      [] step = "reply"      -> 10
      [] OTHER               -> 0

\* Whoever is waited for is further on, and so the waits form no cycle.
WaitsHaveAnOrder ==
    \A g, h \in Handlers : WaitsFor(h, g) => Place(pc[h]) < Place(pc[g])

\* These are all the waits there are: the guards of the two steps that lock.
LEMMA WaitsAreAll ==
    ASSUME NEW h \in Handlers
    PROVE  /\ IndexFree(h) \/ pc[h] # "persist" <=> ~\E g \in Handlers : pc[h] = "persist" /\ WaitsFor(h, g)
           /\ RowFree(h) \/ pc[h] # "update" <=> ~\E g \in Handlers : pc[h] = "update" /\ WaitsFor(h, g)
BY DEF WaitsFor, IndexFree, RowFree

\* A run goes on until it is over, and never back.
RunsGoOn ==
    [][\A h \in Handlers :
          \/ pc'[h] = pc[h]
          \/ pc'[h] = "idle"
          \/ pc[h] = "idle" /\ pc'[h] = "check"
          \/ pc[h] # "idle" /\ Place(pc'[h]) > Place(pc[h])]_vars

\* A row lock is held from the update to the end of the transaction.
LockedSteps == \A h \in Handlers : locked[h] => pc[h] \in {"commit", "failed", "rollback"}

\* Every step keeps the row lock with the runs at the steps that may hold it.
LEMMA LockedStep == TypeOK /\ LockedSteps /\ [Next]_vars => LockedSteps'
<1> SUFFICES ASSUME TypeOK, LockedSteps, [Next]_vars PROVE LockedSteps'
  OBVIOUS
<1> USE DEF TypeOK, LockedSteps, Goto, localVars
<1>1. ASSUME NEW c \in Calls, Publish(c) PROVE LockedSteps'
  BY <1>1 DEF Publish
<1>2. ASSUME NEW h \in Handlers, NEW p \in Payloads, Deliver(h, p) PROVE LockedSteps'
  BY <1>2 DEF Deliver
<1>3. ASSUME NEW h \in Handlers,
             \/ CheckIdempotency(h) \/ ResolveSession(h) \/ ReleaseUnresolved(h)
             \/ AppendEvent(h) \/ PersistTranscript(h) \/ UpdateProjection(h)
             \/ NotifyCallUpdate(h) \/ EnqueueExtraction(h)
             \/ StatementFails(h) \/ ReleaseFailed(h)
      PROVE  LockedSteps'
  BY <1>3 DEF CheckIdempotency, ResolveSession, ReleaseUnresolved, AppendEvent,
              PersistTranscript, UpdateProjection, NotifyCallUpdate, EnqueueExtraction,
              StatementFails, ReleaseFailed
<1>4. ASSUME NEW h \in Handlers, Commit(h) \/ CommitLost(h) PROVE LockedSteps'
  BY <1>4 DEF Commit, CommitLost, WriteThrough
<1>5. ASSUME NEW h \in Handlers, Finish(h) PROVE LockedSteps'
  BY <1>5 DEF Finish
<1>6. ASSUME NEW h \in Handlers, Reply(h) \/ Rollback(h) \/ ResolveFails(h) \/ Crash(h)
      PROVE  LockedSteps'
  BY <1>5, <1>6 DEF Reply, Rollback, ResolveFails, Crash
<1>7. ASSUME NEW k \in Keys, ExpireKey(k) PROVE LockedSteps'
  BY <1>7 DEF ExpireKey
<1>8. CASE UNCHANGED vars
  BY <1>8 DEF vars
<1> QED BY <1>1, <1>2, <1>3, <1>4, <1>6, <1>7, <1>8 DEF Next, Handle, Fault

\* One step of one run, by what it does to the places.
LEMMA RunStep ==
    ASSUME TypeOK, [Next]_vars, NEW h \in Handlers
    PROVE  \/ pc'[h] = pc[h]
           \/ pc'[h] = "idle"
           \/ pc[h] = "idle" /\ pc'[h] = "check"
           \/ pc[h] # "idle" /\ Place(pc'[h]) > Place(pc[h])
<1> DEFINE On == \/ pc'[h] = pc[h]
                 \/ pc'[h] = "idle"
                 \/ pc[h] = "idle" /\ pc'[h] = "check"
                 \/ pc[h] # "idle" /\ Place(pc'[h]) > Place(pc[h])
<1> USE DEF Goto, localVars
<1>1. ASSUME NEW c \in Calls, Publish(c) PROVE On
  BY <1>1 DEF Publish
<1>2. ASSUME NEW g \in Handlers, NEW p \in Payloads, Deliver(g, p) PROVE On
  BY <1>2 DEF Deliver, TypeOK
<1>3. ASSUME NEW g \in Handlers,
             \/ CheckIdempotency(g) \/ ResolveSession(g) \/ ReleaseUnresolved(g) \/ AppendEvent(g)
      PROVE  On
  <2>1. \/ pc'[h] = pc[h]
        \/ pc[h] = "check" /\ pc'[h] \in {"reply", "resolve"}
        \/ pc[h] = "resolve" /\ pc'[h] \in {"append", "unresolved"}
        \/ pc[h] = "unresolved" /\ pc'[h] = "reply"
        \/ pc[h] = "append" /\ pc'[h] \in {"failed", "persist", "update", "commit"}
    BY <1>3 DEF CheckIdempotency, ResolveSession, ReleaseUnresolved, AppendEvent, TypeOK
  <2> QED BY <2>1 DEF Place
<1>4. ASSUME NEW g \in Handlers,
             \/ PersistTranscript(g) \/ UpdateProjection(g) \/ Commit(g) \/ CommitLost(g)
             \/ NotifyCallUpdate(g) \/ EnqueueExtraction(g)
      PROVE  On
  <2>1. \/ pc'[h] = pc[h]
        \/ pc[h] = "persist" /\ pc'[h] = "update"
        \/ pc[h] = "update" /\ pc'[h] = "commit"
        \/ pc[h] = "commit" /\ pc'[h] \in {"notify", "reply", "failed"}
        \/ pc[h] = "notify" /\ pc'[h] \in {"enqueue", "reply"}
        \/ pc[h] = "enqueue" /\ pc'[h] = "reply"
    BY <1>4 DEF PersistTranscript, UpdateProjection, Commit, CommitLost, NotifyCallUpdate,
                EnqueueExtraction, TypeOK
  <2> QED BY <2>1 DEF Place
<1>5. ASSUME NEW g \in Handlers, StatementFails(g) \/ ReleaseFailed(g) PROVE On
  <2>1. \/ pc'[h] = pc[h]
        \/ pc[h] \in {"append", "persist", "update", "commit"} /\ pc'[h] = "failed"
        \/ pc[h] = "failed" /\ pc'[h] = "rollback"
    BY <1>5 DEF StatementFails, ReleaseFailed, TypeOK
  <2> QED BY <2>1 DEF Place
<1>6. ASSUME NEW g \in Handlers, Reply(g) \/ Rollback(g) \/ ResolveFails(g) \/ Crash(g) PROVE On
  <2>1. pc' = [pc EXCEPT ![g] = "idle"]
    BY <1>6 DEF Reply, Rollback, ResolveFails, Crash, Finish
  <2> QED BY <2>1 DEF TypeOK
<1>7. ASSUME NEW k \in Keys, ExpireKey(k) PROVE On
  BY <1>7 DEF ExpireKey
<1>8. ASSUME UNCHANGED vars PROVE On
  BY <1>8 DEF vars
<1>9. On
  BY <1>1, <1>2, <1>3, <1>4, <1>5, <1>6, <1>7, <1>8 DEF Next, Handle, Fault
<1> QED BY <1>9

(* Whatever fails, the waits for the utterance index and the session row   *)
(* form no cycle, and no run goes back (ingestion.py:263-313,              *)
(* transcripts/service.py:98): a transaction takes its utterances before   *)
(* its row, and no lock after it.  The safety in HandlersReturn, for any   *)
(* number of runs: one that waits for nobody can take its step.            *)
THEOREM RunsNeverWedge == Spec => []WaitsHaveAnOrder /\ RunsGoOn
<1>1. Init => LockedSteps
  BY DEF Init, LockedSteps
<1>2. FreshSteps /\ LockedSteps => WaitsHaveAnOrder
  <2> SUFFICES ASSUME FreshSteps, LockedSteps, NEW g \in Handlers, NEW h \in Handlers,
                      WaitsFor(h, g)
               PROVE  Place(pc[h]) < Place(pc[g])
    BY DEF WaitsHaveAnOrder
  <2>1. CASE pc[h] = "persist" /\ HoldsTurns(g)
    <3>1. pc[g] \in {"update", "commit", "failed", "rollback"}
      BY <2>1 DEF FreshSteps, HoldsTurns, InTransaction
    <3> QED BY <2>1, <3>1 DEF Place
  <2>2. CASE pc[h] = "update" /\ HoldsRow(g)
    <3>1. pc[g] \in {"commit", "failed", "rollback"}
      BY <2>2 DEF LockedSteps, HoldsRow
    <3> QED BY <2>2, <3>1 DEF Place
  <2> QED BY <2>1, <2>2 DEF WaitsFor
<1>3. TypeOK /\ [Next]_vars =>
        [\A h \in Handlers :
          \/ pc'[h] = pc[h]
          \/ pc'[h] = "idle"
          \/ pc[h] = "idle" /\ pc'[h] = "check"
          \/ pc[h] # "idle" /\ Place(pc'[h]) > Place(pc[h])]_vars
  BY RunStep
<1>4. Inv3 => FreshSteps
  BY DEF Inv3
<1> QED
  BY <1>1, <1>2, <1>3, <1>4, LockedStep, TypeCorrect, Inv3Holds, PTL DEF Spec, RunsGoOn
=============================================================================
