---------------------------- MODULE PipelineProofs ----------------------------
(***************************************************************************)
(* Proofs about Pipeline, for any calls, workers, retry budgets, bounds    *)
(* and faults.  Types come first, then redaction, then the order of the    *)
(* artifacts (OrderInv: what a message means), then the claims (OwnerInv,  *)
(* which needs OrderInv for a call's first transcript), then what is       *)
(* produced once (OnceInv, which needs both).                              *)
(***************************************************************************)
EXTENDS Pipeline, TLAPS

Claiming == {"extract", "risk", "recommend"}

(* What a message says, and which messages stages and retries send.        *)
LEMMA MessageFields ==
    \A m \in Messages : /\ m.stage \in Stages /\ m.call \in Calls
                        /\ m.tries \in 0 .. MaxRetries[m.stage]
BY DEF Messages

\* The first message of a stage is a message.
LEMMA FirstMessage ==
    ASSUME NEW s \in Stages, NEW c \in Calls
    PROVE  /\ First(s, c) \in Messages
           /\ First(s, c).stage = s /\ First(s, c).call = c
<1>1. MaxRetries[s] \in Nat /\ 0 \in 0 .. MaxRetries[s]
  BY RetryAssumption
<1> QED
  BY <1>1 DEF First, Messages

\* A retry is a message of the same stage and call.
LEMMA NextTry ==
    ASSUME NEW m \in Messages, m.tries < MaxRetries[m.stage]
    PROVE  LET n == [m EXCEPT !.tries = @ + 1]
           IN  n \in Messages /\ n.stage = m.stage /\ n.call = m.call
<1> DEFINE n == [m EXCEPT !.tries = @ + 1]
<1>1. PICK s \in Stages : m \in [stage : {s}, call : Calls, tries : 0 .. MaxRetries[s]]
  BY DEF Messages
<1>2. MaxRetries[s] \in Nat
  BY RetryAssumption
<1>3. n \in [stage : {s}, call : Calls, tries : 0 .. MaxRetries[s]]
  BY <1>1, <1>2
<1>4. n.stage = m.stage /\ n.call = m.call
  BY <1>1
<1> QED
  BY <1>3, <1>4 DEF Messages

(* A worker that is not idle has a call and a stage.                       *)
LEMMA BusyWorker ==
    ASSUME TypeOK, NEW w \in Workers, pc[w] # "idle"
    PROVE  Call(w) \in Calls /\ Stage(w) \in Stages /\ msg[w] \in Messages
BY MessageFields DEF TypeOK, Call, Stage

\* The tables of the stages name statuses and stages.
LEMMA StageTables ==
    ASSUME NEW s \in Claiming
    PROVE  /\ Running[s] \in Statuses /\ Completed[s] \in Statuses
           /\ Follower[s] \in Stages
BY DEF Claiming, Running, Completed, Follower, Statuses, Stages

\* The worker variables are well typed.
WorkersTyped ==
    /\ pc \in [Workers -> Steps]
    /\ msg \in [Workers -> Messages \cup {NoMessage}]
    /\ \A w \in Workers : pc[w] # "idle" => msg[w] \in Messages
    /\ \A w \in Workers :
         pc[w] \in {"claim", "fail", "terminate", "send"} => Stage(w) # "memory"
    /\ source \in [Workers -> Nat]
    /\ text \in [Workers -> BOOLEAN]

\* A worker that is done is well typed.
LEMMA ReleasedTypes ==
    ASSUME TypeOK, NEW w \in Workers, Release(w)
    PROVE  WorkersTyped'
BY DEF TypeOK, WorkersTyped, Release, Goto, Stage, Steps

\* Artifacts that are inserted are well typed.
LEMMA ProducedTypes ==
    ASSUME TypeOK, NEW w \in Workers, Call(w) \in Calls, Stage(w) \in Stages,
           NEW n \in Nat, Produce(w, n)
    PROVE  rows' \in [Calls -> [Stages -> Nat]] /\ raw' \in [Calls -> SUBSET Stages]
<1> DEFINE c == Call(w)  s == Stage(w)
<1>1. rows[c] \in [Stages -> Nat] /\ rows[c][s] + n \in Nat
  BY DEF TypeOK
<1>2. rows' = [rows EXCEPT ![c] = [rows[c] EXCEPT ![s] = rows[c][s] + n]]
  BY DEF Produce
<1>3. rows' \in [Calls -> [Stages -> Nat]]
  BY <1>1, <1>2 DEF TypeOK
<1>4. raw' \in [Calls -> SUBSET Stages]
  BY DEF Produce, TypeOK
<1> QED
  BY <1>3, <1>4

-----------------------------------------------------------------------------
(* Every reachable state is well typed: the statuses are those of          *)
(* models/call_session.py, messages those of the four actors.              *)
THEOREM TypeCorrect == Spec => []TypeOK
<1>1. Init => TypeOK
  BY DEF Init, TypeOK, Statuses, Steps, Stages
<1>2. TypeOK /\ [Next]_vars => TypeOK'
  <2> SUFFICES ASSUME TypeOK, [Next]_vars PROVE TypeOK'
    OBVIOUS
  <2> USE DEF dbVars, brokerVars, workerVars, history, Stage, Goto, SetStatus, Deliver, Release
  <2>1. ASSUME NEW c \in Calls, StoreTranscript(c) PROVE TypeOK'
    BY <2>1, FirstMessage DEF StoreTranscript, TypeOK, Statuses, Stages
  <2>2. ASSUME NEW c \in Calls, Age(c) PROVE TypeOK'
    BY <2>2 DEF Age, TypeOK
  <2>3. ASSUME NEW C \in SUBSET Calls, Scrub(C) PROVE TypeOK'
    BY <2>3 DEF Scrub, TypeOK, Unscrubbed
  <2>4. ASSUME NEW w \in Workers, NEW m \in Messages, Receive(w, m) PROVE TypeOK'
    BY <2>4 DEF Receive, TypeOK, Steps
  <2>5. ASSUME NEW w \in Workers, Work(w) PROVE TypeOK'
    <3>1. CASE Claim(w)
      <4>1. Call(w) \in Calls /\ Stage(w) \in Stages
        BY <3>1, BusyWorker DEF Claim
      <4>2. Stage(w) \in Claiming
        BY <3>1, <4>1 DEF Claim, TypeOK, Stages, Claiming
      <4>3. Running[Stage(w)] \in Statuses
        BY <4>2, StageTables
      <4> QED
        BY <3>1, <4>1, <4>2, <4>3 DEF Claim, TypeOK, Steps, Stage
    <3>2. CASE Skip(w)
      BY <3>2 DEF Skip, TypeOK, Steps
    <3>3. CASE Extract(w)
      <4>1. Call(w) \in Calls
        BY <3>3, BusyWorker DEF Extract
      <4> QED
        BY <3>3, <4>1 DEF Extract, TypeOK, Steps
    <3>4. CASE ReadContext(w)
      <4>1. Call(w) \in Calls
        BY <3>4, BusyWorker DEF ReadContext
      <4> QED
        BY <3>4, <4>1 DEF ReadContext, TypeOK, Steps
    <3>5. CASE ReadMemoryContext(w)
      BY <3>5 DEF ReadMemoryContext, TypeOK, Steps
    <3>6. CASE Persist(w)
      <4>1. Call(w) \in Calls /\ Stage(w) \in Stages /\ Stage(w) \in Claiming
        BY <3>6, BusyWorker DEF Persist, Stages, Claiming
      <4>2. Completed[Stage(w)] \in Statuses
        BY <4>1, StageTables
      <4>3. PICK n \in Nat : Produce(w, n) /\ Goto(w, IF Follows(n) THEN "send" ELSE "ack")
        BY <3>6 DEF Persist
      <4>4. rows' \in [Calls -> [Stages -> Nat]] /\ raw' \in [Calls -> SUBSET Stages]
        BY <4>1, <4>3, ProducedTypes
      <4> QED
        BY <3>6, <4>1, <4>2, <4>3, <4>4 DEF Persist, TypeOK, Steps
    <3>7. CASE PersistMemory(w)
      <4>1. Call(w) \in Calls /\ Stage(w) \in Stages
        BY <3>7, BusyWorker DEF PersistMemory
      <4>2. rows' \in [Calls -> [Stages -> Nat]] /\ raw' \in [Calls -> SUBSET Stages]
        BY <3>7, <4>1, ProducedTypes DEF PersistMemory, TypeOK
      <4> QED
        BY <3>7, <4>1, <4>2 DEF PersistMemory, TypeOK, Steps
    <3>8. CASE Send(w)
      BY <3>8 DEF Send, TypeOK, Steps
    <3>9. CASE Fail(w)
      <4>1. Call(w) \in Calls
        BY <3>9, BusyWorker DEF Fail
      <4> QED
        BY <3>9, <4>1 DEF Fail, TypeOK, Steps, Statuses
    <3>10. CASE Terminate(w)
      BY <3>10 DEF Terminate, TypeOK, Steps, Statuses
    <3>11. CASE Raise(w)
      <4>1. msg[w] \in Messages
        BY <3>11, BusyWorker DEF Raise
      <4>2. queue' \in [Messages -> Nat] /\ dead' \subseteq Messages
        <5>1. CASE msg[w].tries < MaxRetries[msg[w].stage] /\ UNCHANGED dead
                   /\ Deliver([msg[w] EXCEPT !.tries = @ + 1])
          BY <4>1, <5>1, NextTry DEF TypeOK
        <5>2. CASE dead' = dead \cup {msg[w]} /\ UNCHANGED queue
          BY <4>1, <5>2 DEF TypeOK
        <5> QED
          BY <3>11, <5>1, <5>2 DEF Raise
      <4> QED
        BY <3>11, <4>2, ReleasedTypes DEF Raise, TypeOK, WorkersTyped
    <3>12. CASE Ack(w)
      BY <3>12, ReleasedTypes DEF Ack, TypeOK, WorkersTyped
    <3> QED
      BY <2>5, <3>1, <3>2, <3>3, <3>4, <3>5, <3>6, <3>7, <3>8, <3>9, <3>10, <3>11, <3>12
      DEF Work
  <2>6. ASSUME NEW w \in Workers, StatementFails(w) \/ Abort(w) PROVE TypeOK'
    BY <2>6 DEF StatementFails, Abort, Caught, TypeOK, Steps
  <2>7. ASSUME NEW w \in Workers, Crash(w) \/ Partition(w) PROVE TypeOK'
    <3>1. msg[w] \in Messages
      BY <2>7, BusyWorker DEF Crash, Partition
    <3>2. queue' \in [Messages -> Nat] /\ redelivered' \in Nat
      <4>1. Deliver(msg[w]) /\ redelivered' = redelivered + 1
        BY <2>7 DEF Crash, Partition
      <4> QED
        BY <3>1, <4>1 DEF TypeOK
    <3>3. CASE Crash(w)
      BY <3>2, <3>3, ReleasedTypes DEF Crash, TypeOK, WorkersTyped
    <3>4. CASE Partition(w)
      BY <3>2, <3>4 DEF Partition, TypeOK
    <3> QED
      BY <2>7, <3>3, <3>4
  <2>8. CASE UNCHANGED vars
    BY <2>8 DEF vars, TypeOK
  <2> QED
    BY <2>1, <2>2, <2>3, <2>4, <2>5, <2>6, <2>7, <2>8 DEF Next, Redact, RetentionSweep
<1> QED
  BY <1>1, <1>2, PTL DEF Spec

-----------------------------------------------------------------------------
(* What a redacted call loses stays lost: RedactionHolds is inductive, as  *)
(* a worker that still holds the text makes the call exposed.              *)
THEOREM RedactionPreserved == Spec => []RedactionHolds
<1>1. Init => RedactionHolds
  BY DEF Init, RedactionHolds
<1>2. TypeOK /\ RedactionHolds /\ [Next]_vars => RedactionHolds'
  <2> SUFFICES ASSUME TypeOK, RedactionHolds, [Next]_vars PROVE RedactionHolds'
    OBVIOUS
  <2> USE DEF dbVars, brokerVars, workerVars, history, Stage, Call, Goto, RedactionHolds, HoldsText
  <2>1. ASSUME NEW c \in Calls, StoreTranscript(c) PROVE RedactionHolds'
    <3>1. UNCHANGED <<raw, redacted, pc, msg, text>>
      BY <2>1 DEF StoreTranscript
    <3>2. \A d \in Calls \ {c} : turns'[d] = turns[d]
      BY <2>1 DEF StoreTranscript, TypeOK
    <3>3. exposed \subseteq exposed' /\ (c \in redacted => c \in exposed')
      BY <2>1 DEF StoreTranscript
    <3> QED
      BY <3>1, <3>2, <3>3 DEF TypeOK
  <2>2. ASSUME NEW c \in Calls, Age(c) PROVE RedactionHolds'
    BY <2>2 DEF Age
  <2>3. ASSUME NEW C \in SUBSET Calls, Scrub(C) PROVE RedactionHolds'
    BY <2>3 DEF Scrub, TypeOK, Unscrubbed
  <2>4. ASSUME NEW w \in Workers, NEW m \in Messages, Receive(w, m) PROVE RedactionHolds'
    BY <2>4 DEF Receive, TypeOK
  <2>5. ASSUME NEW w \in Workers, Work(w) PROVE RedactionHolds'
    <3>1. CASE Extract(w) \/ ReadContext(w) \/ ReadMemoryContext(w)
      <4>1. text'[w] =>
              \/ turns[Call(w)] # 0 \/ "extract" \in raw[Call(w)]
              \/ Call(w) \in redacted => Call(w) \in exposed'
        BY <3>1 DEF Extract, ReadContext, ReadMemoryContext, DealTells, TypeOK
      <4>2. \A v \in Workers \ {w} : pc'[v] = pc[v] /\ text'[v] = text[v]
        BY <3>1 DEF Extract, ReadContext, ReadMemoryContext, TypeOK
      <4>3. UNCHANGED <<turns, raw, redacted, msg>> /\ exposed \subseteq exposed'
        BY <3>1 DEF Extract, ReadContext, ReadMemoryContext
      <4> QED
        BY <4>1, <4>2, <4>3 DEF TypeOK
    <3>2. CASE Persist(w) \/ PersistMemory(w)
      <4>1. pc[w] = "persist" /\ pc'[w] # "persist" /\ \A v \in Workers \ {w} : pc'[v] = pc[v]
        BY <3>2 DEF Persist, PersistMemory, TypeOK
      <4>2. \A c \in Calls : turns'[c] = turns[c] /\ (c \in redacted \ exposed => raw'[c] = raw[c])
        BY <3>2, <4>1 DEF Persist, PersistMemory, Produce, TypeOK
      <4>3. UNCHANGED <<redacted, exposed, msg, text>>
        BY <3>2 DEF Persist, PersistMemory
      <4> QED
        BY <4>1, <4>2, <4>3 DEF TypeOK
    <3>3. CASE Claim(w) \/ Skip(w) \/ Send(w) \/ Fail(w) \/ Terminate(w)
      BY <3>3 DEF Claim, Skip, Send, Fail, Terminate, TypeOK
    <3>4. CASE Raise(w) \/ Ack(w)
      BY <3>4 DEF Raise, Ack, Release, TypeOK
    <3> QED
      BY <2>5, <3>1, <3>2, <3>3, <3>4 DEF Work
  <2>6. ASSUME NEW w \in Workers, StatementFails(w) \/ Abort(w) PROVE RedactionHolds'
    BY <2>6 DEF StatementFails, Abort, Caught, TypeOK
  <2>7. ASSUME NEW w \in Workers, Crash(w) \/ Partition(w) PROVE RedactionHolds'
    BY <2>7 DEF Crash, Partition, Release, TypeOK
  <2>8. CASE UNCHANGED vars
    BY <2>8 DEF vars
  <2> QED
    BY <2>1, <2>2, <2>3, <2>4, <2>5, <2>6, <2>7, <2>8 DEF Next, Redact, RetentionSweep
<1> QED
  BY <1>1, <1>2, TypeCorrect, PTL DEF Spec

-----------------------------------------------------------------------------
(* The order of the artifacts rests on what a message means: whoever sends *)
(* or holds one knows that what its stage builds on has been committed.    *)
Due(c, s) ==
    /\ received[c] > 0
    /\ s = "risk" => rows[c]["extract"] > 0
    /\ s = "recommend" => rows[c]["extract"] > 0 /\ rows[c]["risk"] > 0
    /\ s = "memory" => rows[c]["recommend"] > 0

OrderInv ==
    /\ ArtifactsInOrder
    /\ \A m \in Messages : queue[m] > 0 => Due(m.call, m.stage)
    /\ \A w \in Workers : pc[w] # "idle" => Due(Call(w), Stage(w))
    /\ \A w \in Workers : pc[w] = "send" => rows[Call(w)][Stage(w)] > 0

\* Transcripts and artifacts are only ever added.
Grows ==
    \A c \in Calls : /\ received'[c] >= received[c]
                     /\ \A s \in Stages : rows'[c][s] >= rows[c][s]

\* w goes on with its message, and does not start to send.
Continues(w) == pc[w] # "idle" /\ msg'[w] = msg[w] /\ (pc'[w] = "send" => pc[w] = "send")

\* A message that has become due stays so: artifacts are not taken away.
LEMMA DueStays ==
    ASSUME TypeOK, TypeOK', Grows, NEW c \in Calls, NEW s \in Stages, Due(c, s)
    PROVE  Due(c, s)'
<1>1. received[c] \in Nat /\ received'[c] \in Nat /\ received'[c] >= received[c]
  BY DEF TypeOK, Grows
<1>2. \A t \in Stages : rows[c][t] \in Nat /\ rows'[c][t] \in Nat /\ rows'[c][t] >= rows[c][t]
  BY DEF TypeOK, Grows
<1> QED
  BY <1>1, <1>2 DEF Due, Stages

\* What a step has to show for OrderInv.
LEMMA OrderKept ==
    ASSUME TypeOK, TypeOK', OrderInv, Grows, ArtifactsInOrder',
           \A m \in Messages : queue'[m] > 0 => queue[m] > 0 \/ Due(m.call, m.stage)',
           \A w \in Workers : pc'[w] # "idle" =>
               \/ Continues(w)
               \/ /\ Due(Call(w), Stage(w))'
                  /\ pc'[w] = "send" => rows'[msg'[w].call][msg'[w].stage] > 0
    PROVE  OrderInv'
<1>1. \A m \in Messages : queue'[m] > 0 => Due(m.call, m.stage)'
  <2> SUFFICES ASSUME NEW m \in Messages, queue[m] > 0 PROVE Due(m.call, m.stage)'
    OBVIOUS
  <2> QED
    BY MessageFields, DueStays DEF OrderInv
<1>2. ASSUME NEW w \in Workers, Continues(w)
      PROVE  /\ Due(Call(w), Stage(w))'
             /\ pc'[w] = "send" => rows'[msg'[w].call][msg'[w].stage] > 0
  <2>1. Call(w) \in Calls /\ Stage(w) \in Stages
    BY <1>2, BusyWorker DEF Continues
  <2>2. Due(Call(w), Stage(w)) /\ msg'[w].call = Call(w) /\ msg'[w].stage = Stage(w)
    BY <1>2 DEF OrderInv, Continues, Call, Stage
  <2> DEFINE c == Call(w)  s == Stage(w)
  <2>3. Due(c, s)'
    <3> HIDE DEF c, s
    <3>1. ASSUME NEW d \in Calls, NEW t \in Stages, Due(d, t) PROVE Due(d, t)'
      BY <3>1, DueStays
    <3> QED
      BY <2>1, <2>2, <3>1 DEF c, s, Due, Call, Stage
  <2>4. pc'[w] = "send" => rows'[c][s] > 0
    <3>1. rows[c][s] \in Nat /\ rows'[c][s] \in Nat /\ rows'[c][s] >= rows[c][s]
      BY <2>1 DEF TypeOK, Grows
    <3> QED
      BY <1>2, <3>1 DEF OrderInv, Continues
  <2> QED
    BY <2>2, <2>3, <2>4 DEF Due, Call, Stage
<1> QED
  BY <1>1, <1>2 DEF OrderInv, Call, Stage

\* Most steps store nothing, and workers go on or end.
LEMMA OrderKeptQuietly ==
    ASSUME TypeOK, TypeOK', OrderInv, UNCHANGED <<rows, received>>,
           \A m \in Messages : queue'[m] > 0 => queue[m] > 0 \/ Due(m.call, m.stage),
           \A w \in Workers : pc'[w] # "idle" => Continues(w)
    PROVE  OrderInv'
<1>1. Grows /\ ArtifactsInOrder'
  BY DEF Grows, TypeOK, OrderInv, ArtifactsInOrder
<1>2. \A m \in Messages : Due(m.call, m.stage) => Due(m.call, m.stage)'
  BY DEF Due
<1> QED
  BY <1>1, <1>2, OrderKept

\* The commit of n artifacts by w, which then sends only if there are any.
LEMMA OrderKeptByProduce ==
    ASSUME TypeOK, TypeOK', OrderInv, NEW w \in Workers, NEW n \in Nat, NEW step,
           pc[w] = "persist", Produce(w, n), Goto(w, step), step = "send" => n > 0,
           UNCHANGED <<msg, queue, received>>
    PROVE  OrderInv'
<1> DEFINE c == Call(w)  s == Stage(w)
<1>1. c \in Calls /\ s \in Stages
  BY BusyWorker
<1>2. rows' = [rows EXCEPT ![c][s] = @ + n]
  BY DEF Produce
<1>3. rows'[c][s] = rows[c][s] + n /\ rows[c][s] \in Nat
  BY <1>1, <1>2 DEF TypeOK
<1>4. \A d \in Calls, t \in Stages : d # c \/ t # s => rows'[d][t] = rows[d][t]
  BY <1>1, <1>2 DEF TypeOK
<1>5. \A d \in Calls, t \in Stages : rows[d][t] \in Nat /\ rows'[d][t] >= rows[d][t]
  <2> SUFFICES ASSUME NEW d \in Calls, NEW t \in Stages
               PROVE  rows[d][t] \in Nat /\ rows'[d][t] >= rows[d][t]
    OBVIOUS
  <2>1. rows[d][t] \in Nat
    BY DEF TypeOK
  <2>2. CASE d = c /\ t = s
    BY <1>3, <2>2
  <2>3. CASE d # c \/ t # s
    BY <1>4, <2>1, <2>3
  <2> QED
    BY <2>1, <2>2, <2>3
<1>6. Grows
  BY <1>5 DEF Grows, TypeOK
<1>7. Due(c, s)
  BY DEF OrderInv
<1>8. Due(c, s)'
  <2>1. ASSUME NEW d \in Calls, NEW t \in Stages, Due(d, t) PROVE Due(d, t)'
    BY <2>1, <1>6, DueStays
  <2> HIDE DEF c, s
  <2> QED
    BY <1>1, <1>7, <2>1 DEF c, s, Due, Call, Stage
<1>9. ArtifactsInOrder'
  <2>1. s = "extract" => received[c] > 0
    BY <1>7 DEF Due
  <2>2. s = "risk" => rows[c]["extract"] > 0
    BY <1>7 DEF Due
  <2>3. s = "memory" => rows[c]["recommend"] > 0
    BY <1>7 DEF Due
  <2>4. s = "recommend" => rows[c]["extract"] > 0 /\ rows[c]["risk"] > 0
    BY <1>7 DEF Due
  <2>5. \A d \in Calls, t \in Stages :
            rows'[d][t] > 0 /\ ~(d = c /\ t = s) => rows[d][t] > 0
    BY <1>4
  <2>6. \A d \in Calls, t \in Stages : rows[d][t] > 0 => rows'[d][t] > 0
    BY <1>5, <1>4, <1>3
  <2> HIDE DEF c, s
  <2> QED
    BY <1>1, <2>1, <2>2, <2>4, <2>5, <2>6, <2>3
    DEF OrderInv, ArtifactsInOrder, Stages
<1>10. \A v \in Workers : v # w => pc'[v] = pc[v]
  BY DEF Goto, TypeOK
<1>11. pc'[w] = "send" => rows'[c][s] > 0
  BY <1>3 DEF Goto, TypeOK
<1>12. \A v \in Workers : pc'[v] # "idle" =>
          \/ Continues(v)
          \/ /\ Due(Call(v), Stage(v))'
             /\ pc'[v] = "send" => rows'[msg'[v].call][msg'[v].stage] > 0
  <2>1. ASSUME NEW v \in Workers, v # w, pc'[v] # "idle" PROVE Continues(v)
    BY <2>1, <1>10 DEF Continues
  <2>2. /\ Due(Call(w), Stage(w))'
        /\ pc'[w] = "send" => rows'[msg'[w].call][msg'[w].stage] > 0
    BY <1>8, <1>11 DEF Call, Stage, Due
  <2> QED
    BY <2>1, <2>2
<1> QED
  BY <1>6, <1>9, <1>12, OrderKept

(* Nothing is derived from what was never stored: ArtifactsInOrder, by     *)
(* OrderInv.                                                               *)
THEOREM OrderIsKept == Spec => []OrderInv
<1>1. Init => OrderInv
  BY DEF Init, OrderInv, ArtifactsInOrder, Stages
<1>2. TypeOK /\ TypeOK' /\ OrderInv /\ [Next]_vars => OrderInv'
  <2> SUFFICES ASSUME TypeOK, TypeOK', OrderInv, [Next]_vars PROVE OrderInv'
    OBVIOUS
  <2> USE DEF dbVars, brokerVars, workerVars, history, Goto
  <2>1. ASSUME NEW c \in Calls, StoreTranscript(c) PROVE OrderInv'
    <3>1. UNCHANGED <<rows, pc, msg>> /\ received' = [received EXCEPT ![c] = @ + 1]
      BY <2>1 DEF StoreTranscript
    <3>2. received'[c] > 0 /\ \A d \in Calls : received'[d] >= received[d]
      BY <3>1 DEF TypeOK
    <3>3. Grows /\ ArtifactsInOrder'
      BY <3>1, <3>2 DEF Grows, TypeOK, OrderInv, ArtifactsInOrder
    <3>4. ASSUME NEW m \in Messages, queue'[m] > 0
          PROVE  queue[m] > 0 \/ Due(m.call, m.stage)'
      <4>1. CASE m = First("extract", c)
        BY <3>2, <4>1 DEF Due, First
      <4>2. CASE m # First("extract", c)
        BY <2>1, <3>4, <4>2 DEF StoreTranscript, Deliver, TypeOK
      <4> QED
        BY <4>1, <4>2
    <3> QED
      BY <3>1, <3>3, <3>4, OrderKept DEF Continues
  <2>2. ASSUME NEW c \in Calls, Age(c) PROVE OrderInv'
    BY <2>2, OrderKeptQuietly DEF Age, Continues
  <2>3. ASSUME NEW C \in SUBSET Calls, Scrub(C) PROVE OrderInv'
    BY <2>3, OrderKeptQuietly DEF Scrub, Continues
  <2>4. ASSUME NEW w \in Workers, NEW m \in Messages, Receive(w, m) PROVE OrderInv'
    <3>1. Grows /\ ArtifactsInOrder'
      BY <2>4 DEF Receive, Grows, TypeOK, OrderInv, ArtifactsInOrder
    <3>2. \A n \in Messages : queue'[n] > 0 => queue[n] > 0
      BY <2>4 DEF Receive, TypeOK
    <3>3. Due(Call(w), Stage(w))' /\ pc'[w] # "send"
      BY <2>4 DEF Receive, TypeOK, OrderInv, Due, Call, Stage
    <3>4. \A v \in Workers \ {w} : pc'[v] # "idle" => Continues(v)
      BY <2>4 DEF Receive, TypeOK, Continues
    <3> QED
      BY <3>1, <3>2, <3>3, <3>4, OrderKept
  <2>5. ASSUME NEW w \in Workers, Work(w) PROVE OrderInv'
    <3>1. CASE Claim(w) \/ Skip(w) \/ Fail(w) \/ Terminate(w)
      BY <3>1, OrderKeptQuietly DEF Claim, Skip, Fail, Terminate, Continues, TypeOK
    <3>2. CASE Extract(w) \/ ReadContext(w) \/ ReadMemoryContext(w)
      <4>1. pc[w] # "idle" /\ pc'[w] # "send" /\ \A v \in Workers \ {w} : pc'[v] = pc[v]
        BY <3>2 DEF Extract, ReadContext, ReadMemoryContext, TypeOK
      <4> QED
        BY <3>2, <4>1, OrderKeptQuietly
        DEF Extract, ReadContext, ReadMemoryContext, Continues
    <3>3. CASE Persist(w)
      BY <3>3, OrderKeptByProduce DEF Persist, Follows
    <3>4. CASE PersistMemory(w)
      <4>1. CASE Produce(w, 1)
        BY <3>4, <4>1, OrderKeptByProduce DEF PersistMemory
      <4>2. CASE UNCHANGED <<rows, raw>>
        BY <3>4, <4>2, OrderKeptQuietly DEF PersistMemory, Continues, TypeOK
      <4> QED
        BY <3>4, <4>1, <4>2 DEF PersistMemory
    <3>5. CASE Send(w)
      <4> DEFINE m == First(Follower[Stage(w)], Call(w))
      <4>1. Call(w) \in Calls /\ Stage(w) \in Claiming
        BY <3>5, BusyWorker DEF Send, TypeOK, Stages, Claiming
      <4>2. Due(Call(w), Stage(w)) /\ rows[Call(w)][Stage(w)] > 0
        BY <3>5 DEF Send, OrderInv
      <4>3. Due(m.call, m.stage)
        BY <4>1, <4>2 DEF First, Follower, Claiming, Due, OrderInv, ArtifactsInOrder
      <4>4. \A n \in Messages : queue'[n] > 0 => queue[n] > 0 \/ n = m
        BY <3>5 DEF Send, Deliver, TypeOK
      <4> QED
        BY <3>5, <4>3, <4>4, OrderKeptQuietly DEF Send, Continues, TypeOK
    <3>6. CASE Raise(w) \/ Ack(w)
      <4>1. msg[w] \in Messages /\ Due(msg[w].call, msg[w].stage)
        BY <3>6, BusyWorker DEF Raise, Ack, OrderInv, Call, Stage
      <4>2. \A n \in Messages : queue'[n] > 0 => queue[n] > 0 \/ Due(n.call, n.stage)
        <5>1. CASE UNCHANGED queue
          BY <5>1
        <5>2. CASE msg[w].tries < MaxRetries[msg[w].stage]
                   /\ Deliver([msg[w] EXCEPT !.tries = @ + 1])
          BY <4>1, <5>2, NextTry DEF Deliver, TypeOK
        <5> QED
          BY <3>6, <5>1, <5>2 DEF Raise, Ack
      <4> QED
        BY <3>6, <4>2, OrderKeptQuietly DEF Raise, Ack, Release, Continues, TypeOK
    <3> QED
      BY <2>5, <3>1, <3>2, <3>3, <3>4, <3>5, <3>6 DEF Work
  <2>6. ASSUME NEW w \in Workers, StatementFails(w) \/ Abort(w) PROVE OrderInv'
    BY <2>6, OrderKeptQuietly DEF StatementFails, Abort, Caught, Continues, TypeOK
  <2>7. ASSUME NEW w \in Workers, Crash(w) \/ Partition(w) PROVE OrderInv'
    <3>1. msg[w] \in Messages /\ Due(msg[w].call, msg[w].stage)
      BY <2>7, BusyWorker DEF Crash, Partition, OrderInv, Call, Stage
    <3>2. \A n \in Messages : queue'[n] > 0 => queue[n] > 0 \/ Due(n.call, n.stage)
      BY <2>7, <3>1 DEF Crash, Partition, Deliver, TypeOK
    <3> QED
      BY <2>7, <3>2, OrderKeptQuietly DEF Crash, Partition, Release, Continues, TypeOK
  <2>8. CASE UNCHANGED vars
    BY <2>8, OrderKeptQuietly DEF vars, Continues
  <2> QED
    BY <2>1, <2>2, <2>3, <2>4, <2>5, <2>6, <2>7, <2>8 DEF Next, Redact, RetentionSweep
<1> QED
  BY <1>1, <1>2, TypeCorrect, PTL DEF Spec

\* Artifacts come in the order of the stages, whatever is retried or
\* redelivered (workers/tasks.py:132, :163, :198): a message is sent when
\* what its stage needs is there.
THEOREM ArtifactsFollow == Spec => []ArtifactsInOrder
<1>1. OrderInv => ArtifactsInOrder
  BY DEF OrderInv
<1> QED
  BY <1>1, OrderIsKept, PTL

-----------------------------------------------------------------------------
(* The status is a lock.  OneWorkerPerCall is not inductive: a second      *)
(* claim is refused only because the status still is the one the first     *)
(* worker claimed with.                                                    *)
Owns(w, c) == Working(w) /\ Stage(w) # "memory" /\ Call(w) = c

OwnerInv ==
    \A c \in Calls \ resumed :
        /\ \A v, w \in Workers : Owns(v, c) /\ Owns(w, c) => v = w
        /\ \A w \in Workers : Owns(w, c) => processing[c] = Running[Stage(w)]

\* A step keeps it that changes the status of no call a worker owns, and
\* that lets no worker begin to own one.
LEMMA OwnerKept ==
    ASSUME TypeOK, TypeOK', OwnerInv, resumed \subseteq resumed',
           \A c \in Calls \ resumed', w \in Workers :
               Owns(w, c)' => /\ Owns(w, c)
                              /\ msg'[w] = msg[w]
                              /\ processing'[c] = processing[c]
    PROVE  OwnerInv'
BY DEF OwnerInv, Stage

\* A claim makes the worker the call's only one.
LEMMA OwnedByClaim ==
    ASSUME TypeOK, TypeOK', OwnerInv, NEW w \in Workers, Claim(w)
    PROVE  OwnerInv'
<1> DEFINE c == Call(w)
<1>1. c \in Calls /\ Stage(w) \in Claiming
  BY BusyWorker DEF Claim, TypeOK, Stages, Claiming
<1>2. \A v \in Workers \ {w} : \A d \in Calls : Owns(v, d)' => Owns(v, d)
  BY DEF Claim, Goto, Owns, Working, Stage, Call, TypeOK
<1>3. \A d \in Calls : Owns(w, d)' => d = c
  BY DEF Claim, Owns, Call
<1>4. c \notin resumed' => \A v \in Workers : ~Owns(v, c)
  <2> SUFFICES ASSUME c \notin resumed', NEW v \in Workers, Owns(v, c) PROVE FALSE
    OBVIOUS
  <2>1. c \notin resumed /\ processing[c] \in {Ready[Stage(w)], "failed_retryable"}
    BY DEF Claim, Claimable
  <2>2. processing[c] = Running[Stage(v)]
    BY <1>1, <2>1 DEF OwnerInv
  <2>3. Stage(v) \in Claiming
    BY BusyWorker DEF Owns, Working, Stages, Claiming
  <2> QED
    BY <1>1, <2>1, <2>2, <2>3 DEF Claiming, Running, Ready
<1>5. /\ processing'[c] = Running[Stage(w)]
      /\ \A d \in Calls : d # c => processing'[d] = processing[d]
  BY <1>1 DEF Claim, SetStatus, TypeOK
<1>6. UNCHANGED msg /\ resumed \subseteq resumed'
  BY DEF Claim
<1> SUFFICES ASSUME NEW d \in Calls, d \notin resumed'
             PROVE  /\ \A u, v \in Workers : Owns(u, d)' /\ Owns(v, d)' => u = v
                    /\ \A v \in Workers : Owns(v, d)' => processing'[d] = Running[Stage(v)]
  BY <1>6 DEF OwnerInv, Stage
<1>7. CASE d = c
  BY <1>2, <1>4, <1>5, <1>7
<1>8. CASE d # c
  BY <1>2, <1>3, <1>5, <1>6, <1>8 DEF OwnerInv
<1> QED
  BY <1>7, <1>8

\* The owner of a call writes its status as it lets the call go, or gives it up.
LEMMA OwnedByOwner ==
    ASSUME TypeOK, TypeOK', OwnerInv, NEW w \in Workers, NEW st,
           Working(w), Stage(w) # "memory", SetStatus(Call(w), st),
           ~Working(w)', \A v \in Workers \ {w} : pc'[v] = pc[v],
           UNCHANGED <<msg, resumed>>
    PROVE  OwnerInv'
<1>1. PICK c \in Calls : c = Call(w) /\ Owns(w, c)
  BY BusyWorker DEF Owns, Working
<1>2. \A d \in Calls, v \in Workers : Owns(v, d)' => v # w /\ Owns(v, d)
  BY DEF Owns, Working, Stage, Call
<1>3. \A d \in Calls : d # c => processing'[d] = processing[d]
  BY <1>1 DEF SetStatus, TypeOK
<1>4. \A v \in Workers : c \notin resumed' => ~Owns(v, c)'
  BY <1>1, <1>2 DEF OwnerInv
<1> QED
  BY <1>2, <1>3, <1>4, OwnerKept

\* The status of a call names the stage of the one worker that has it, until a
\* claim is taken over or restarted: claims are under the row lock
\* (services/risk/service.py:78).
THEOREM OwnersAreKept == Spec => []OwnerInv
<1>1. Init => OwnerInv
  BY DEF Init, OwnerInv, Owns, Working
<1>2. TypeOK /\ TypeOK' /\ OrderInv /\ OwnerInv /\ [Next]_vars => OwnerInv'
  <2> SUFFICES ASSUME TypeOK, TypeOK', OrderInv, OwnerInv, [Next]_vars PROVE OwnerInv'
    OBVIOUS
  <2> USE DEF dbVars, brokerVars, workerVars, history, Goto
  <2>1. ASSUME NEW c \in Calls, StoreTranscript(c) PROVE OwnerInv'
    <3>1. UNCHANGED <<pc, msg>> /\ resumed \subseteq resumed'
      BY <2>1 DEF StoreTranscript
    <3>2. \A d \in Calls : d # c => processing'[d] = processing[d]
      BY <2>1 DEF StoreTranscript, SetStatus, TypeOK
    <3>3. c \in resumed' \/ \A w \in Workers : ~Owns(w, c)
      BY <2>1 DEF StoreTranscript, Owns, Working, OrderInv, Due, TypeOK
    <3>4. \A w \in Workers, d \in Calls : Owns(w, d)' => Owns(w, d)
      BY <3>1 DEF Owns, Working, Stage, Call
    <3> QED
      BY <3>1, <3>2, <3>3, <3>4, OwnerKept
  <2>2. ASSUME NEW c \in Calls, Age(c) PROVE OwnerInv'
    BY <2>2, OwnerKept DEF Age, Owns, Working, Stage, Call
  <2>3. ASSUME NEW C \in SUBSET Calls, Scrub(C) PROVE OwnerInv'
    BY <2>3, OwnerKept DEF Scrub, Owns, Working, Stage, Call
  <2>4. ASSUME NEW w \in Workers, NEW m \in Messages, Receive(w, m) PROVE OwnerInv'
    <3>1. /\ UNCHANGED <<processing, resumed>>
          /\ \A v \in Workers \ {w} : pc'[v] = pc[v] /\ msg'[v] = msg[v]
      BY <2>4 DEF Receive, TypeOK
    <3>2. \A d \in Calls : ~Owns(w, d)'
      <4>1. pc'[w] = IF m.stage = "memory" THEN "read" ELSE "claim"
        BY <2>4 DEF Receive, TypeOK
      <4>2. msg'[w] = m
        BY <2>4 DEF Receive, TypeOK
      <4> QED
        BY <4>1, <4>2 DEF Owns, Working, Stage
    <3> QED
      BY <3>1, <3>2, OwnerKept DEF Owns, Working, Stage, Call
  <2>5. ASSUME NEW w \in Workers, Work(w) PROVE OwnerInv'
    <3>1. CASE Claim(w)
      BY <3>1, OwnedByClaim
    <3>2. CASE Extract(w) \/ ReadContext(w) \/ ReadMemoryContext(w)
      <4>1. /\ pc[w] = "read" /\ UNCHANGED <<processing, resumed, msg>>
            /\ \A v \in Workers \ {w} : pc'[v] = pc[v]
        BY <3>2 DEF Extract, ReadContext, ReadMemoryContext, TypeOK
      <4> QED
        BY <4>1, OwnerKept DEF Owns, Working, Stage, Call
    <3>3. CASE Persist(w)
      <4>1. ~Working(w)' /\ \A v \in Workers \ {w} : pc'[v] = pc[v]
        BY <3>3 DEF Persist, Working, TypeOK
      <4> QED
        BY <3>3, <4>1, OwnedByOwner DEF Persist, Working
    <3>4. CASE Fail(w) \/ Terminate(w)
      <4>1. ~Working(w)' /\ \A v \in Workers \ {w} : pc'[v] = pc[v]
        BY <3>4 DEF Fail, Terminate, Working, TypeOK
      <4>2. Working(w) /\ Stage(w) # "memory"
        BY <3>4 DEF Fail, Terminate, Working, TypeOK
      <4> QED
        BY <3>4, <4>1, <4>2, OwnedByOwner DEF Fail, Terminate
    <3>5. CASE PersistMemory(w) \/ Skip(w) \/ Send(w)
      <4>1. /\ UNCHANGED <<processing, resumed, msg>> /\ ~Working(w)'
            /\ \A v \in Workers \ {w} : pc'[v] = pc[v]
        BY <3>5 DEF PersistMemory, Skip, Send, Working, TypeOK
      <4> QED
        BY <4>1, OwnerKept DEF Owns, Working, Stage, Call
    <3>6. CASE Raise(w) \/ Ack(w)
      <4>1. /\ UNCHANGED <<processing, resumed>> /\ ~Working(w)'
            /\ \A v \in Workers \ {w} : pc'[v] = pc[v] /\ msg'[v] = msg[v]
        BY <3>6 DEF Raise, Ack, Release, Working, TypeOK
      <4> QED
        BY <4>1, OwnerKept DEF Owns, Working, Stage, Call
    <3> QED
      BY <2>5, <3>1, <3>2, <3>3, <3>4, <3>5, <3>6 DEF Work
  <2>6. ASSUME NEW w \in Workers, StatementFails(w) \/ Abort(w) PROVE OwnerInv'
    <3>1. /\ UNCHANGED <<processing, resumed, msg>>
          /\ \A v \in Workers \ {w} : pc'[v] = pc[v]
      BY <2>6 DEF StatementFails, Abort, TypeOK
    <3>2. Owns(w, Call(w))' => Owns(w, Call(w))
      <4>1. pc[w] \in {"claim", "read", "persist"} /\ pc'[w] \in {"raise", Caught(w)}
        BY <2>6 DEF StatementFails, Abort, TypeOK
      <4> QED
        BY <3>1, <4>1 DEF Owns, Working, Stage, Call, Caught
    <3> QED
      BY <3>1, <3>2, OwnerKept DEF Owns, Working, Stage, Call
  <2>7. ASSUME NEW w \in Workers, Crash(w) \/ Partition(w) PROVE OwnerInv'
    <3>1. CASE Crash(w)
      <4>1. /\ UNCHANGED <<processing, resumed>> /\ ~Working(w)'
            /\ \A v \in Workers \ {w} : pc'[v] = pc[v] /\ msg'[v] = msg[v]
        BY <3>1 DEF Crash, Release, Working, TypeOK
      <4> QED
        BY <4>1, OwnerKept DEF Owns, Working, Stage, Call
    <3>2. CASE Partition(w)
      BY <3>2, OwnerKept DEF Partition, Owns, Working, Stage, Call
    <3> QED
      BY <2>7, <3>1, <3>2
  <2>8. CASE UNCHANGED vars
    BY <2>8, OwnerKept DEF vars, Owns, Working, Stage, Call
  <2> QED
    BY <2>1, <2>2, <2>3, <2>4, <2>5, <2>6, <2>7, <2>8 DEF Next, Redact, RetentionSweep
<1> QED
  BY <1>1, <1>2, TypeCorrect, OrderIsKept, PTL DEF Spec

(* At most one worker processes a call, until a claim is taken over or a   *)
(* late transcript restarts it.                                            *)
THEOREM CallsHaveOneWorker == Spec => []OneWorkerPerCall
<1>1. OwnerInv => OneWorkerPerCall
  BY DEF OwnerInv, OneWorkerPerCall, Owns
<1> QED
  BY <1>1, OwnersAreKept, PTL

-----------------------------------------------------------------------------
(* As long as a call never failed, its status tells which artifacts there  *)
(* are; the unique constraint does the same for memory documents.          *)
After == [s \in Claiming |->
    CASE s = "extract"   -> {"extraction_completed", "snapshots_updating", "risk_running",
                             "recommendation_running", "recommendation_completed",
                             "failed_terminal"}
      [] s = "risk"      -> {"risk_running", "recommendation_running",
                             "recommendation_completed", "failed_terminal"}
      [] s = "recommend" -> {"recommendation_completed", "failed_terminal"}]

Straight(c) ==
    /\ processing[c] # "failed_retryable"
    /\ \A s \in Claiming : /\ rows[c][s] <= 1
                           /\ processing[c] \notin After[s] => rows[c][s] = 0

OnceInv ==
    \A c \in Calls : /\ rows[c]["memory"] <= 1
                     /\ c \notin failed \cup resumed => Straight(c)

\* Steps that leave statuses and artifacts alone.
LEMMA OnceKept ==
    ASSUME OnceInv, UNCHANGED <<processing, rows>>, failed \subseteq failed',
           resumed \subseteq resumed'
    PROVE  OnceInv'
BY DEF OnceInv, Straight

\* A claim repeats no stage of a call that never failed.
LEMMA OnceKeptByClaim ==
    ASSUME TypeOK, OnceInv, NEW w \in Workers, Claim(w)
    PROVE  OnceInv'
<1>1. PICK c \in Calls : c = Call(w)
  BY BusyWorker DEF Claim
<1>2. PICK s \in Claiming : s = Stage(w)
  BY BusyWorker DEF Claim, TypeOK, Stages, Claiming
<1>3. UNCHANGED <<rows, failed>> /\ resumed \subseteq resumed'
  BY DEF Claim
<1>4. /\ processing'[c] = Running[s]
      /\ \A d \in Calls : d # c => processing'[d] = processing[d]
  BY <1>1, <1>2 DEF Claim, SetStatus, TypeOK
<1>5. c \in resumed' \/ processing[c] \in {Ready[s], "failed_retryable"}
  BY <1>1, <1>2 DEF Claim, Claimable
<1>6. Running[s] # "failed_retryable"
  BY DEF Running, Claiming
<1>7. \A t \in Claiming : Ready[s] \notin After[t] <=> Running[s] \notin After[t]
  BY DEF Running, Ready, After, Claiming
<1>8. c \notin failed' \cup resumed' => Straight(c)'
  BY <1>3, <1>4, <1>5, <1>6, <1>7 DEF OnceInv, Straight
<1> QED
  BY <1>3, <1>4, <1>8 DEF OnceInv, Straight

\* A commit produces what the status says is missing.
LEMMA OnceKeptByPersist ==
    ASSUME TypeOK, OwnerInv, OnceInv, NEW w \in Workers, Persist(w)
    PROVE  OnceInv'
<1>1. PICK c \in Calls : c = Call(w)
  BY BusyWorker DEF Persist
<1>2. PICK s \in Claiming : s = Stage(w)
  BY BusyWorker DEF Persist, Stages, Claiming
<1>3. s \in Stages /\ s # "memory"
  BY <1>2 DEF Stages, Claiming
<1>4. PICK n \in {0, 1} : rows' = [rows EXCEPT ![c][s] = @ + n]
  BY <1>1, <1>2 DEF Persist, Produce
<1>5. rows'[c][s] = rows[c][s] + n /\ rows[c][s] \in Nat
  BY <1>3, <1>4 DEF TypeOK
<1>6. \A d \in Calls, t \in Stages : d # c \/ t # s => rows'[d][t] = rows[d][t]
  BY <1>3, <1>4 DEF TypeOK
<1>7. /\ processing'[c] = Completed[s]
      /\ \A d \in Calls : d # c => processing'[d] = processing[d]
  BY <1>1, <1>2 DEF Persist, SetStatus, TypeOK
<1>8. UNCHANGED <<failed, resumed>>
  BY DEF Persist, history
<1>9. c \notin resumed => processing[c] = Running[s]
  BY <1>1, <1>2, <1>3 DEF OwnerInv, Owns, Working, Persist
<1>10. /\ Running[s] \notin After[s] /\ Completed[s] # "failed_retryable"
       /\ Completed[s] \in After[s]
       /\ \A t \in Claiming \ {s} : Running[s] \notin After[t] <=> Completed[s] \notin After[t]
  BY DEF Running, Completed, After, Claiming
<1>11. c \notin failed' \cup resumed' => Straight(c)'
  <2> SUFFICES ASSUME c \notin failed \cup resumed PROVE Straight(c)'
    BY <1>8
  <2>1. Straight(c) /\ processing[c] = Running[s]
    BY <1>9 DEF OnceInv
  <2>2. rows[c][s] = 0
    BY <2>1, <1>10 DEF Straight
  <2>3. rows'[c][s] <= 1
    BY <2>2, <1>5
  <2>4. \A t \in Claiming \ {s} : rows'[c][t] = rows[c][t]
    BY <1>6 DEF Stages, Claiming
  <2> QED
    BY <2>1, <2>3, <2>4, <1>7, <1>10 DEF Straight
<1>12. \A d \in Calls : d # c => (Straight(d) <=> Straight(d)')
  BY <1>6, <1>7 DEF Straight, Stages, Claiming
<1>13. \A d \in Calls : rows'[d]["memory"] = rows[d]["memory"]
  BY <1>3, <1>6 DEF Stages
<1> QED
  BY <1>8, <1>11, <1>12, <1>13 DEF OnceInv

\* The unique constraint admits one set of memory documents.
LEMMA OnceKeptByMemory ==
    ASSUME TypeOK, OnceInv, NEW w \in Workers, PersistMemory(w)
    PROVE  OnceInv'
<1>1. PICK c \in Calls : c = Call(w)
  BY BusyWorker DEF PersistMemory
<1>2. UNCHANGED <<processing, failed, resumed>>
  BY DEF PersistMemory, history
<1>3. CASE UNCHANGED rows
  BY <1>2, <1>3, OnceKept
<1>4. CASE rows[c]["memory"] = 0 /\ rows' = [rows EXCEPT ![c]["memory"] = @ + 1]
  <2>1. rows'[c]["memory"] = 1
    BY <1>4 DEF TypeOK, Stages
  <2>2. \A d \in Calls, t \in Stages : d # c \/ t # "memory" => rows'[d][t] = rows[d][t]
    BY <1>4 DEF TypeOK, Stages
  <2>3. \A d \in Calls : Straight(d) <=> Straight(d)'
    BY <1>2, <2>2 DEF Straight, Stages, Claiming
  <2>4. \A d \in Calls : rows'[d]["memory"] <= 1
    BY <2>1, <2>2 DEF OnceInv, Stages
  <2> QED
    BY <1>2, <2>3, <2>4 DEF OnceInv
<1> QED
  BY <1>1, <1>3, <1>4 DEF PersistMemory, Produce, Unembedded

(* Each artifact is produced once, unless the call failed or was taken     *)
(* over, and memory documents in any case.                                 *)
THEOREM ArtifactsAreProducedOnce == Spec => []ArtifactsOnce
<1>1. Init => OnceInv
  BY DEF Init, OnceInv, Straight, Claiming, Stages
<1>2. TypeOK /\ TypeOK' /\ OrderInv /\ OwnerInv /\ OnceInv /\ [Next]_vars => OnceInv'
  <2> SUFFICES ASSUME TypeOK, TypeOK', OrderInv, OwnerInv, OnceInv, [Next]_vars
               PROVE  OnceInv'
    OBVIOUS
  <2> USE DEF dbVars, brokerVars, workerVars, history
  <2>1. ASSUME NEW c \in Calls, StoreTranscript(c) PROVE OnceInv'
    <3>1. UNCHANGED <<rows, failed>> /\ resumed \subseteq resumed'
      BY <2>1 DEF StoreTranscript
    <3>2. /\ processing'[c] = "transcript_finalized"
          /\ \A d \in Calls : d # c => processing'[d] = processing[d]
      BY <2>1 DEF StoreTranscript, SetStatus, TypeOK
    <3>3. c \in resumed' \/ \A s \in Stages : rows[c][s] = 0
      <4> SUFFICES ASSUME received[c] = 0 PROVE \A s \in Stages : rows[c][s] = 0
        BY <2>1 DEF StoreTranscript, TypeOK
      <4>1. rows[c] \in [Stages -> Nat]
        BY DEF TypeOK
      <4> QED
        BY <4>1 DEF OrderInv, ArtifactsInOrder, Stages
    <3>4. c \notin failed' \cup resumed' => Straight(c)'
      BY <3>1, <3>2, <3>3 DEF Straight, Stages, Claiming
    <3> QED
      BY <3>1, <3>2, <3>4 DEF OnceInv, Straight
  <2>2. ASSUME NEW c \in Calls, Age(c) PROVE OnceInv'
    BY <2>2, OnceKept DEF Age
  <2>3. ASSUME NEW C \in SUBSET Calls, Scrub(C) PROVE OnceInv'
    BY <2>3, OnceKept DEF Scrub
  <2>4. ASSUME NEW w \in Workers, NEW m \in Messages, Receive(w, m) PROVE OnceInv'
    BY <2>4, OnceKept DEF Receive
  <2>5. ASSUME NEW w \in Workers, Work(w) PROVE OnceInv'
    <3>1. CASE Claim(w)
      BY <3>1, OnceKeptByClaim
    <3>2. CASE Persist(w)
      BY <3>2, OnceKeptByPersist
    <3>3. CASE PersistMemory(w)
      BY <3>3, OnceKeptByMemory
    <3>4. CASE Fail(w)
      <4>1. \A d \in Calls : d # Call(w) => processing'[d] = processing[d]
        BY <3>4 DEF Fail, SetStatus, TypeOK
      <4>2. failed' = failed \cup {Call(w)} /\ UNCHANGED <<rows, resumed>>
        BY <3>4 DEF Fail
      <4> QED
        BY <4>1, <4>2 DEF OnceInv, Straight
    <3>5. CASE Terminate(w)
      <4>1. /\ \A d \in Calls : d # Call(w) => processing'[d] = processing[d]
            /\ Call(w) \in Calls => processing'[Call(w)] = "failed_terminal"
        BY <3>5 DEF Terminate, SetStatus, TypeOK
      <4>2. UNCHANGED <<rows, failed, resumed>>
        BY <3>5 DEF Terminate
      <4>3. \A s \in Claiming : "failed_terminal" \in After[s]
        BY DEF After, Claiming
      <4> QED
        BY <4>1, <4>2, <4>3 DEF OnceInv, Straight
    <3>6. CASE Skip(w) \/ Extract(w) \/ ReadContext(w) \/ ReadMemoryContext(w) \/ Send(w)
               \/ Raise(w) \/ Ack(w)
      BY <3>6, OnceKept
      DEF Skip, Extract, ReadContext, ReadMemoryContext, Send, Raise, Ack
    <3> QED
      BY <2>5, <3>1, <3>2, <3>3, <3>4, <3>5, <3>6 DEF Work
  <2>6. ASSUME NEW w \in Workers, StatementFails(w) \/ Abort(w) PROVE OnceInv'
    BY <2>6, OnceKept DEF StatementFails, Abort
  <2>7. ASSUME NEW w \in Workers, Crash(w) \/ Partition(w) PROVE OnceInv'
    BY <2>7, OnceKept DEF Crash, Partition
  <2>8. CASE UNCHANGED vars
    BY <2>8, OnceKept DEF vars
  <2> QED
    BY <2>1, <2>2, <2>3, <2>4, <2>5, <2>6, <2>7, <2>8 DEF Next, Redact, RetentionSweep
<1>3. OnceInv => ArtifactsOnce
  BY DEF OnceInv, ArtifactsOnce, Straight, Stages, Claiming
<1> QED
  BY <1>1, <1>2, <1>3, TypeCorrect, OrderIsKept, OwnersAreKept, PTL DEF Spec

-----------------------------------------------------------------------------
(* The pipeline implements CallProgress.  The status a worker overwrites   *)
(* is known from OwnerInv; besides, a call without a transcript is pending *)
(* and only an extraction gives up.                                        *)
ProgressInv ==
    /\ \A c \in Calls : received[c] = 0 => processing[c] = "pending"
    /\ \A w \in Workers : pc[w] = "terminate" => Stage(w) = "extract"

Progressed == [c \in Calls |-> IF c \in resumed THEN "unsupervised" ELSE processing[c]]

\* A step that changes the status of at most one call, along an edge unless
\* the call is from now on unsupervised, is a step of CallProgress.
LEMMA ProgressStep ==
    ASSUME TypeOK, TypeOK', NEW c \in Calls, resumed \subseteq resumed',
           resumed' \subseteq resumed \cup {c},
           \A d \in Calls : d # c => processing'[d] = processing[d],
           \/ c \in resumed'
           \/ processing'[c] = processing[c]
           \/ processing'[c] \in Progress!Successors(processing[c])
    PROVE  [Progress!Next]_Progressed
<1>1. CASE c \in resumed
  <2>1. Progressed' = Progressed
    BY <1>1 DEF Progressed
  <2> QED
    BY <2>1
<1>2. CASE c \notin resumed /\ c \in resumed'
  <2>1. Progressed' = [Progressed EXCEPT ![c] = "unsupervised"]
    BY <1>2 DEF Progressed
  <2> QED
    BY <2>1 DEF Progressed, Progress!Next, Progress!Abandon
<1>3. CASE c \notin resumed'
  <2>1. Progressed' = [Progressed EXCEPT ![c] = processing'[c]]
    BY <1>3 DEF Progressed
  <2>2. Progressed[c] = processing[c]
    BY <1>3 DEF Progressed
  <2>3. CASE processing'[c] = processing[c]
    <3>1. Progressed' = Progressed
      BY <1>3, <2>3 DEF Progressed
    <3> QED
      BY <3>1
  <2>4. CASE processing'[c] \in Progress!Successors(processing[c])
    BY <2>1, <2>2, <2>4 DEF Progressed, Progress!Next, Progress!Advance
  <2> QED
    BY <1>3, <2>3, <2>4
<1> QED
  BY <1>1, <1>2, <1>3

\* When no status changes, the promise of CallProgress is kept.
LEMMA ProgressStutter ==
    ASSUME UNCHANGED <<processing, resumed>>
    PROVE  [Progress!Next]_Progressed
<1>1. Progressed' = Progressed
  BY DEF Progressed
<1> QED
  BY <1>1

\* A call with a status has a transcript, and only an extraction is given up
\* (services/extraction/service.py:305).
THEOREM ProgressKept == Spec => []ProgressInv
<1>1. Init => ProgressInv
  BY DEF Init, ProgressInv
<1>2. TypeOK /\ TypeOK' /\ OrderInv /\ ProgressInv /\ [Next]_vars => ProgressInv'
  <2> SUFFICES ASSUME TypeOK, TypeOK', OrderInv, ProgressInv, [Next]_vars PROVE ProgressInv'
    OBVIOUS
  <2> USE DEF dbVars, brokerVars, workerVars, history, Goto
  <2>1. ASSUME NEW c \in Calls, StoreTranscript(c) PROVE ProgressInv'
    <3>1. received'[c] > 0 /\ \A d \in Calls : d # c => received'[d] = received[d]
      BY <2>1 DEF StoreTranscript, TypeOK
    <3>2. \A d \in Calls : d # c => processing'[d] = processing[d]
      BY <2>1 DEF StoreTranscript, SetStatus, TypeOK
    <3>3. UNCHANGED <<pc, msg>>
      BY <2>1 DEF StoreTranscript
    <3> QED
      BY <3>1, <3>2, <3>3 DEF ProgressInv, Stage
  <2>2. ASSUME NEW c \in Calls, Age(c) PROVE ProgressInv'
    BY <2>2 DEF Age, ProgressInv, Stage
  <2>3. ASSUME NEW C \in SUBSET Calls, Scrub(C) PROVE ProgressInv'
    BY <2>3 DEF Scrub, ProgressInv, Stage
  <2>4. ASSUME NEW w \in Workers, NEW m \in Messages, Receive(w, m) PROVE ProgressInv'
    <3>1. pc'[w] # "terminate" /\ \A v \in Workers \ {w} : pc'[v] = pc[v] /\ msg'[v] = msg[v]
      BY <2>4 DEF Receive, TypeOK
    <3> QED
      BY <2>4, <3>1 DEF Receive, ProgressInv, Stage
  <2>5. ASSUME NEW w \in Workers, Work(w) PROVE ProgressInv'
    <3>1. pc[w] # "idle"
      BY <2>5 DEF Work, Claim, Skip, Extract, ReadContext, ReadMemoryContext, Persist,
                  PersistMemory, Send, Fail, Terminate, Raise, Ack
    <3>2. Call(w) \in Calls /\ received[Call(w)] > 0
      BY <3>1, BusyWorker DEF OrderInv, Due
    <3>3. \A c \in Calls : c # Call(w) => processing'[c] = processing[c]
      BY <2>5, <3>2 DEF Work, Claim, Skip, Extract, ReadContext, ReadMemoryContext, Persist,
                  PersistMemory, Send, Fail, Terminate, Raise, Ack, SetStatus, TypeOK
    <3>4. UNCHANGED received
      BY <2>5 DEF Work, Claim, Skip, Extract, ReadContext, ReadMemoryContext, Persist,
                  PersistMemory, Send, Fail, Terminate, Raise, Ack
    <3>5. pc'[w] = "terminate" => Stage(w) = "extract" /\ msg'[w] = msg[w]
      BY <2>5 DEF Work, Claim, Skip, Extract, ReadContext, ReadMemoryContext, Persist,
                  PersistMemory, Send, Fail, Terminate, Raise, Ack, Release, TypeOK
    <3>6. \A v \in Workers \ {w} : pc'[v] = pc[v] /\ msg'[v] = msg[v]
      BY <2>5 DEF Work, Claim, Skip, Extract, ReadContext, ReadMemoryContext, Persist,
                  PersistMemory, Send, Fail, Terminate, Raise, Ack, Release, TypeOK
    <3> QED
      BY <3>2, <3>3, <3>4, <3>5, <3>6 DEF ProgressInv, Stage, TypeOK
  <2>6. ASSUME NEW w \in Workers, StatementFails(w) \/ Abort(w) PROVE ProgressInv'
    BY <2>6 DEF StatementFails, Abort, Caught, ProgressInv, Stage, TypeOK
  <2>7. ASSUME NEW w \in Workers, Crash(w) \/ Partition(w) PROVE ProgressInv'
    BY <2>7 DEF Crash, Partition, Release, ProgressInv, Stage, TypeOK
  <2>8. CASE UNCHANGED vars
    BY <2>8 DEF vars, ProgressInv, Stage
  <2> QED
    BY <2>1, <2>2, <2>3, <2>4, <2>5, <2>6, <2>7, <2>8 DEF Next, Redact, RetentionSweep
<1> QED
  BY <1>1, <1>2, TypeCorrect, OrderIsKept, PTL DEF Spec

\* The steps of a worker that write the status.
LEMMA WriterProgresses ==
    ASSUME TypeOK, TypeOK', OwnerInv, ProgressInv, NEW w \in Workers,
           Claim(w) \/ Persist(w) \/ Fail(w) \/ Terminate(w)
    PROVE  [Progress!Next]_Progressed
<1> DEFINE c == Call(w)
<1>1. c \in Calls /\ Stage(w) \in Claiming
  BY BusyWorker DEF Claim, Persist, Fail, Terminate, TypeOK, Stages, Claiming
<1>2. resumed \subseteq resumed' /\ resumed' \subseteq resumed \cup {c}
  BY DEF Claim, Persist, Fail, Terminate, history
<1>3. \A d \in Calls : d # c => processing'[d] = processing[d]
  BY DEF Claim, Persist, Fail, Terminate, SetStatus, TypeOK
<1>4. \/ c \in resumed'
      \/ processing'[c] = processing[c]
      \/ processing'[c] \in Progress!Successors(processing[c])
  <2> SUFFICES ASSUME c \notin resumed'
               PROVE  processing'[c] \in Progress!Successors(processing[c])
    OBVIOUS
  <2>1. CASE Claim(w)
    <3>1. processing[c] \in {Ready[Stage(w)], "failed_retryable"}
      BY <2>1 DEF Claim, Claimable
    <3>2. processing'[c] = Running[Stage(w)]
      BY <1>1, <2>1 DEF Claim, SetStatus, TypeOK
    <3> QED
      BY <1>1, <3>1, <3>2 DEF Claiming, Running, Ready, Progress!Successors
  <2>2. ASSUME Persist(w) \/ Fail(w) \/ Terminate(w) PROVE processing[c] = Running[Stage(w)]
    BY <1>1, <1>2, <2>2 DEF OwnerInv, Owns, Working, Persist, Fail, Terminate, Claiming
  <2>3. CASE Persist(w)
    <3>1. processing'[c] = Completed[Stage(w)]
      BY <1>1, <2>3 DEF Persist, SetStatus, TypeOK
    <3> QED
      BY <1>1, <2>2, <2>3, <3>1 DEF Claiming, Running, Completed, Progress!Successors
  <2>4. CASE Fail(w)
    <3>1. processing'[c] = "failed_retryable"
      BY <1>1, <2>4 DEF Fail, SetStatus, TypeOK
    <3> QED
      BY <1>1, <2>2, <2>4, <3>1 DEF Claiming, Running, Progress!Successors
  <2>5. CASE Terminate(w)
    <3>1. processing'[c] = "failed_terminal"
      BY <1>1, <2>5 DEF Terminate, SetStatus, TypeOK
    <3>2. Stage(w) = "extract"
      BY <2>5 DEF Terminate, ProgressInv
    <3> QED
      BY <1>1, <2>2, <2>5, <3>1, <3>2 DEF Running, Progress!Successors
  <2> QED
    BY <2>1, <2>3, <2>4, <2>5
<1> QED
  BY <1>1, <1>2, <1>3, <1>4, ProgressStep

(* The status of a call moves along the stages, for any number of workers, *)
(* whatever is redelivered, fails or dies.                                 *)
THEOREM StagesAreFollowed == Spec => FollowsStages
<1>1. Init => Progress!Init
  BY DEF Init, Progress!Init
<1>2. TypeOK /\ TypeOK' /\ OwnerInv /\ ProgressInv /\ [Next]_vars => [Progress!Next]_Progressed
  <2> SUFFICES ASSUME TypeOK, TypeOK', OwnerInv, ProgressInv, [Next]_vars
               PROVE  [Progress!Next]_Progressed
    OBVIOUS
  <2> USE DEF dbVars, brokerVars, workerVars, history
  <2>1. ASSUME NEW c \in Calls, StoreTranscript(c) PROVE [Progress!Next]_Progressed
    <3>1. resumed \subseteq resumed' /\ resumed' \subseteq resumed \cup {c}
      BY <2>1 DEF StoreTranscript
    <3>2. /\ processing'[c] = "transcript_finalized"
          /\ \A d \in Calls : d # c => processing'[d] = processing[d]
      BY <2>1 DEF StoreTranscript, SetStatus, TypeOK
    <3>3. c \in resumed' \/ processing[c] = "pending"
      BY <2>1 DEF StoreTranscript, ProgressInv, TypeOK
    <3> QED
      BY <3>1, <3>2, <3>3, ProgressStep DEF Progress!Successors
  <2>2. ASSUME NEW c \in Calls, Age(c) PROVE [Progress!Next]_Progressed
    BY <2>2, ProgressStutter DEF Age
  <2>3. ASSUME NEW C \in SUBSET Calls, Scrub(C) PROVE [Progress!Next]_Progressed
    BY <2>3, ProgressStutter DEF Scrub
  <2>4. ASSUME NEW w \in Workers, NEW m \in Messages, Receive(w, m)
        PROVE  [Progress!Next]_Progressed
    BY <2>4, ProgressStutter DEF Receive
  <2>5. ASSUME NEW w \in Workers, Work(w) PROVE [Progress!Next]_Progressed
    <3>1. CASE Claim(w) \/ Persist(w) \/ Fail(w) \/ Terminate(w)
      BY <3>1, WriterProgresses
    <3>2. CASE ~(Claim(w) \/ Persist(w) \/ Fail(w) \/ Terminate(w))
      BY <2>5, <3>2, ProgressStutter
      DEF Work, Skip, Extract, ReadContext, ReadMemoryContext, PersistMemory, Send, Raise, Ack
    <3> QED
      BY <3>1, <3>2
  <2>6. ASSUME NEW w \in Workers, StatementFails(w) \/ Abort(w) PROVE [Progress!Next]_Progressed
    BY <2>6, ProgressStutter DEF StatementFails, Abort
  <2>7. ASSUME NEW w \in Workers, Crash(w) \/ Partition(w) PROVE [Progress!Next]_Progressed
    BY <2>7, ProgressStutter DEF Crash, Partition
  <2>8. CASE UNCHANGED vars
    BY <2>8, ProgressStutter DEF vars
  <2> QED
    BY <2>1, <2>2, <2>3, <2>4, <2>5, <2>6, <2>7, <2>8 DEF Next, Redact, RetentionSweep
<1> QED
  BY <1>1, <1>2, TypeCorrect, OwnersAreKept, ProgressKept, PTL
  DEF Spec, FollowsStages, Progress!Spec, Progressed

-----------------------------------------------------------------------------
(* No call is left behind.  Of a step of w it is enough to know what it    *)
(* does to the message and the claim of w itself.                          *)
Waits(w, c, s) == pc[w] \in {"claim", "raise"} /\ Call(w) = c /\ Stage(w) = s
Tells(w, c, s) == pc[w] = "send" /\ Call(w) = c /\ Follower[Stage(w)] = s
Has(w, c, s)   == Working(w) /\ Call(w) = c /\ Stage(w) = s
Queued(c, s)   == \E m \in Messages : queue[m] > 0 /\ m.call = c /\ m.stage = s

Moves(c) ==
    received[c] > 0 /\ ~Settled(c) => \E s \in Claiming :
        \/ processing[c] \in {Ready[s], "failed_retryable"} /\ Awaited(c, s)
        \/ processing[c] = Running[s] /\ InHand(c, s)

MemoryDead(c) == \E m \in dead : m.call = c /\ m.stage = "memory"

Remembers(c) ==
    rows[c]["recommend"] > 0 =>
        \/ rows[c]["memory"] > 0
        \/ Awaited(c, "memory") \/ InHand(c, "memory")
        \/ MemoryDead(c)

\* WorkRemains, call by call.
LEMMA WorkRemainsFor == WorkRemains <=> \A c \in Calls : Moves(c) /\ Remembers(c)
<1>1. DOMAIN Ready = Claiming
  BY DEF Ready, Claiming
<1> QED
  BY <1>1 DEF WorkRemains, Moves, Remembers, MemoryDead

\* The same in the state after a step.
LEMMA WorkRemainsNext ==
    (\A c \in Calls : Moves(c) /\ Remembers(c))' => WorkRemains'
BY WorkRemainsFor, PTL

\* Awaited and InHand, worker by worker.
LEMMA AwaitedBy ==
    ASSUME NEW c, NEW s
    PROVE  /\ Awaited(c, s) <=> \/ Queued(c, s)
                                \/ \E w \in Workers : Waits(w, c, s) \/ Tells(w, c, s)
           /\ InHand(c, s) <=> \E w \in Workers : Has(w, c, s)
BY DEF Awaited, InHand, Queued, Waits, Tells, Has

\* The other workers stay as they are, and no message is taken.
Alone(w) ==
    /\ \A v \in Workers \ {w} : pc'[v] = pc[v] /\ msg'[v] = msg[v]
    /\ \A m \in Messages : queue[m] > 0 => queue'[m] > 0

\* A step of one worker leaves the messages and calls of the others.
LEMMA AloneStays ==
    ASSUME NEW w \in Workers, NEW c, NEW s, Alone(w)
    PROVE  /\ Awaited(c, s) => Awaited(c, s)' \/ Waits(w, c, s) \/ Tells(w, c, s)
           /\ InHand(c, s) => InHand(c, s)' \/ Has(w, c, s)
<1>1. Queued(c, s) => Queued(c, s)'
  BY DEF Queued, Alone
<1>2. \A v \in Workers \ {w} : /\ Waits(v, c, s) => Waits(v, c, s)'
                               /\ Tells(v, c, s) => Tells(v, c, s)'
                               /\ Has(v, c, s) => Has(v, c, s)'
  BY DEF Alone, Waits, Tells, Has, Working, Call, Stage
<1>3. /\ (Queued(c, s) \/ \E v \in Workers : Waits(v, c, s) \/ Tells(v, c, s))' => Awaited(c, s)'
      /\ (\E v \in Workers : Has(v, c, s))' => InHand(c, s)'
  BY DEF Awaited, InHand, Queued, Waits, Tells, Has, Working, Call, Stage
<1> QED
  BY <1>1, <1>2, <1>3, AwaitedBy

\* A call whose status stays needs whatever has waited for it.
LEMMA MovesStays ==
    ASSUME NEW c \in Calls, Moves(c), dead \subseteq dead',
           processing'[c] = processing[c], received'[c] = received[c],
           \A s \in Claiming :
               /\ Awaited(c, s) /\ processing[c] \in {Ready[s], "failed_retryable"} =>
                    Awaited(c, s)' \/ Settled(c)'
               /\ InHand(c, s) /\ processing[c] = Running[s] => InHand(c, s)'
    PROVE  Moves(c)'
<1>1. Settled(c) => Settled(c)'
  BY DEF Settled
<1> QED
  BY <1>1 DEF Moves

\* When a call's documents stay written, awaited or dead, it is remembered.
LEMMA RemembersStays ==
    ASSUME NEW c \in Calls, Remembers(c), dead \subseteq dead',
           rows'[c]["recommend"] = rows[c]["recommend"],
           rows[c]["memory"] > 0 => rows'[c]["memory"] > 0,
           rows[c]["recommend"] > 0 /\ (Awaited(c, "memory") \/ InHand(c, "memory")) =>
               \/ rows'[c]["memory"] > 0
               \/ Awaited(c, "memory")' \/ InHand(c, "memory")' \/ MemoryDead(c)'
    PROVE  Remembers(c)'
<1>1. MemoryDead(c) => MemoryDead(c)'
  BY DEF MemoryDead
<1> QED
  BY <1>1 DEF Remembers

\* What holds of a worker holds of its call.
LEMMA ByWorker ==
    ASSUME NEW w \in Workers, NEW c, NEW s
    PROVE  /\ Waits(w, c, s)' \/ Tells(w, c, s)' => Awaited(c, s)'
           /\ Has(w, c, s)' => InHand(c, s)'
BY DEF Awaited, InHand, Waits, Tells, Has, Working, Call, Stage

\* A step of w that stores nothing and goes on with what it had in hand.
LEMMA WorkGoesOn ==
    ASSUME TypeOK, WorkRemains, NEW w \in Workers, Alone(w),
           UNCHANGED <<processing, received, rows>>, dead \subseteq dead',
           \A c \in Calls, s \in Stages :
               /\ Waits(w, c, s) \/ Tells(w, c, s) => Awaited(c, s)'
               /\ Has(w, c, s) => InHand(c, s)' \/ (s = "memory" /\ Awaited(c, s)')
    PROVE  WorkRemains'
<1> SUFFICES ASSUME NEW c \in Calls PROVE Moves(c)' /\ Remembers(c)'
  <2>1. (\A c \in Calls : Moves(c) /\ Remembers(c))' => WorkRemains'
    BY WorkRemainsNext
  <2> QED
    BY <2>1
<1>1. Moves(c) /\ Remembers(c)
  BY WorkRemainsFor
<1>2. /\ \A s \in Stages : Awaited(c, s) => Awaited(c, s)'
      /\ \A s \in Claiming : InHand(c, s) => InHand(c, s)'
      /\ InHand(c, "memory") => InHand(c, "memory")' \/ Awaited(c, "memory")'
  BY AloneStays DEF Stages, Claiming
<1>3. Claiming \subseteq Stages /\ "memory" \in Stages
  BY DEF Claiming, Stages
<1>4. Moves(c)'
  BY <1>1, <1>2, <1>3, MovesStays
<1>5. Remembers(c)'
  BY <1>1, <1>2, <1>3, RemembersStays
<1> QED
  BY <1>4, <1>5

\* A call that is not the one w works on, when w does not touch its rows.
LEMMA BystandersMove ==
    ASSUME TypeOK, WorkRemains, NEW w \in Workers, Alone(w), NEW c \in Calls, c # Call(w),
           processing'[c] = processing[c], received'[c] = received[c],
           rows'[c] = rows[c], dead \subseteq dead'
    PROVE  Moves(c)' /\ Remembers(c)'
<1>1. Moves(c) /\ Remembers(c)
  BY WorkRemainsFor
<1>2. \A s \in Stages : /\ Awaited(c, s) => Awaited(c, s)'
                        /\ InHand(c, s) => InHand(c, s)'
  BY AloneStays DEF Waits, Tells, Has
<1>3. Claiming \subseteq Stages /\ "memory" \in Stages
  BY DEF Claiming, Stages
<1>4. Moves(c)'
  BY <1>1, <1>2, <1>3, MovesStays
<1>5. Remembers(c)'
  BY <1>1, <1>2, <1>3, RemembersStays
<1> QED
  BY <1>4, <1>5

\* A step of w on its own call is enough, if it leaves the others alone.
LEMMA ByOwnCall ==
    ASSUME TypeOK, WorkRemains, NEW w \in Workers, Alone(w), dead \subseteq dead',
           \A c \in Calls : c # Call(w) => /\ processing'[c] = processing[c]
                                           /\ received'[c] = received[c]
                                           /\ rows'[c] = rows[c],
           NEW d \in Calls, d = Call(w), Moves(d)', Remembers(d)'
    PROVE  WorkRemains'
<1>1. ASSUME NEW c \in Calls PROVE Moves(c)' /\ Remembers(c)'
  <2>1. CASE c = d
    BY <2>1
  <2>2. CASE c # d
    BY <2>2, BystandersMove
  <2> QED
    BY <2>1, <2>2
<1>2. (\A c \in Calls : Moves(c) /\ Remembers(c))' => WorkRemains'
  BY WorkRemainsNext
<1> QED
  BY <1>1, <1>2

\* A worker that goes on to another step concerns no other.
LEMMA GoesTo ==
    ASSUME TypeOK, NEW w \in Workers, NEW step, Goto(w, step), UNCHANGED <<msg, queue>>
    PROVE  Alone(w) /\ pc'[w] = step /\ msg'[w] = msg[w]
BY DEF TypeOK, Goto, Alone

\* Nor does one that is done with its message.
LEMMA Releases ==
    ASSUME TypeOK, NEW w \in Workers, Release(w), \A m \in Messages : queue[m] > 0 => queue'[m] > 0
    PROVE  Alone(w)
BY DEF TypeOK, Release, Goto, Alone

\* A message that is delivered is queued, and no other is lost.
LEMMA Delivers ==
    ASSUME TypeOK, NEW m \in Messages, Deliver(m)
    PROVE  /\ \A n \in Messages : queue[n] > 0 => queue'[n] > 0
           /\ queue'[m] > 0
BY DEF TypeOK, Deliver

\* A queued message awaits its call.
LEMMA QueuedAwaits ==
    ASSUME NEW m \in Messages, queue'[m] > 0
    PROVE  Awaited(m.call, m.stage)'
BY DEF Awaited

\* The steps that write a call's status: the one that writes it is at work on
\* the call, tells the next stage, gives its message back, or has settled it.
LEMMA WriterLeavesWork ==
    ASSUME TypeOK, WorkRemains, OrderInv, NEW w \in Workers,
           Claim(w) \/ Persist(w) \/ Fail(w) \/ Terminate(w)
    PROVE  WorkRemains'
<1>0. PICK c, s : c = Call(w) /\ s = Stage(w)
  OBVIOUS
<1>1. c \in Calls /\ s \in Claiming /\ s \in Stages
  BY <1>0, BusyWorker DEF Claim, Persist, Fail, Terminate, TypeOK, Stages, Claiming
<1>2. /\ UNCHANGED <<msg, queue, dead, received>>
      /\ \E step \in Steps : Goto(w, step)
      /\ \A d \in Calls : d # c => processing'[d] = processing[d] /\ rows'[d] = rows[d]
  <2>1. /\ UNCHANGED <<msg, queue, dead, received>>
        /\ \E step \in Steps : Goto(w, step)
    BY DEF Claim, Persist, Fail, Terminate, Steps, brokerVars, history
  <2>2. \A d \in Calls : d # c => processing'[d] = processing[d]
    <3>1. \E st : SetStatus(c, st)
      BY <1>0 DEF Claim, Persist, Fail, Terminate
    <3> QED
      BY <3>1 DEF SetStatus, TypeOK
  <2>3. \A d \in Calls : d # c => rows'[d] = rows[d]
    <3>1. UNCHANGED rows \/ \E n : rows' = [rows EXCEPT ![c][s] = @ + n]
      BY <1>0 DEF Claim, Persist, Fail, Terminate, Produce
    <3> QED
      BY <3>1 DEF TypeOK
  <2> QED
    BY <2>1, <2>2, <2>3
<1>3. Alone(w) /\ msg'[w] = msg[w]
  BY <1>2, GoesTo
<1>4. Moves(c) /\ Remembers(c)
  BY <1>1, WorkRemainsFor
<1>5. /\ \A t \in Stages : Waits(w, c, t)' <=> pc'[w] \in {"claim", "raise"} /\ t = s
      /\ \A t \in Stages : Tells(w, c, t)' <=> pc'[w] = "send" /\ t = Follower[s]
      /\ \A t \in Stages : Has(w, c, t)' <=>
            pc'[w] \in {"read", "persist", "fail", "terminate"} /\ t = s
  BY <1>0, <1>3 DEF Waits, Tells, Has, Working, Call, Stage
<1>6. /\ ~Waits(w, c, "memory") /\ ~Has(w, c, "memory")
      /\ pc[w] # "send"
  BY <1>0, <1>1 DEF Waits, Has, Claiming, Claim, Persist, Fail, Terminate
<1>7. (Awaited(c, "memory") => Awaited(c, "memory")') /\ (InHand(c, "memory") => InHand(c, "memory")')
  BY <1>3, <1>6, AloneStays DEF Tells
<1>8. ASSUME rows'[c] = rows[c] PROVE Remembers(c)'
  BY <1>1, <1>2, <1>4, <1>7, <1>8, RemembersStays
<1>9. CASE Claim(w)
  <2>1. processing'[c] = Running[s] /\ pc'[w] = "read"
    BY <1>0, <1>1, <1>9 DEF Claim, SetStatus, TypeOK, Goto
  <2>2. InHand(c, s)'
    BY <1>1, <1>5, <2>1, ByWorker
  <2>3. Moves(c)'
    BY <1>1, <2>1, <2>2 DEF Moves
  <2>4. Remembers(c)'
    BY <1>8, <1>9 DEF Claim
  <2> QED
    BY <1>1, <1>2, <1>3, <2>3, <2>4, <1>0, ByOwnCall
<1>10. CASE Fail(w)
  <2>1. processing'[c] = "failed_retryable" /\ pc'[w] = "raise"
    BY <1>0, <1>1, <1>10 DEF Fail, SetStatus, TypeOK, Goto
  <2>2. Awaited(c, s)'
    BY <1>1, <1>5, <2>1, ByWorker
  <2>3. Moves(c)'
    BY <1>1, <2>1, <2>2 DEF Moves
  <2>4. Remembers(c)'
    BY <1>8, <1>10 DEF Fail
  <2> QED
    BY <1>1, <1>2, <1>3, <2>3, <2>4, <1>0, ByOwnCall
<1>11. CASE Terminate(w)
  <2>1. processing'[c] = "failed_terminal"
    BY <1>0, <1>1, <1>11 DEF Terminate, SetStatus, TypeOK
  <2>2. Moves(c)'
    BY <2>1 DEF Moves, Settled
  <2>3. Remembers(c)'
    BY <1>8, <1>11 DEF Terminate
  <2> QED
    BY <1>1, <1>2, <1>3, <2>2, <2>3, <1>0, ByOwnCall
<1>12. CASE Persist(w)
  <2>1. processing'[c] = Completed[s]
    BY <1>0, <1>1, <1>12 DEF Persist, SetStatus, TypeOK
  <2>2. PICK n \in IF s = "recommend" THEN {0, 1} ELSE {1} :
            /\ rows' = [rows EXCEPT ![c][s] = @ + n]
            /\ pc'[w] = IF n > 0 THEN "send" ELSE "ack"
    BY <1>0, <1>1, <1>12 DEF Persist, Produce, Goto, Follows, TypeOK
  <2>3. Follower[s] \in Stages /\ (n > 0 => Awaited(c, Follower[s])')
    <3>1. Follower[s] \in Stages
      BY <1>1, StageTables
    <3>2. ASSUME n > 0 PROVE Awaited(c, Follower[s])'
      BY <1>5, <2>2, <3>1, <3>2, ByWorker
    <3> QED
      BY <3>1, <3>2
  <2>4. Moves(c)'
    <3>1. CASE s = "recommend"
      BY <2>1, <3>1 DEF Moves, Settled, Completed
    <3>2. CASE s = "extract"
      <4>1. processing'[c] = Ready["risk"] /\ Awaited(c, "risk")'
        BY <2>1, <2>2, <2>3, <3>2 DEF Completed, Ready, Follower
      <4> QED
        BY <4>1 DEF Moves, Claiming
    <3>3. CASE s = "risk"
      <4>1. processing'[c] = Ready["recommend"] /\ Awaited(c, "recommend")'
        BY <2>1, <2>2, <2>3, <3>3 DEF Completed, Ready, Follower
      <4> QED
        BY <4>1 DEF Moves, Claiming
    <3> QED
      BY <1>1, <3>1, <3>2, <3>3 DEF Claiming
  <2>5. Remembers(c)'
    <3>1. CASE s = "recommend" /\ n > 0
      BY <2>3, <3>1 DEF Remembers, Follower
    <3>2. CASE ~(s = "recommend" /\ n > 0)
      <4>1. /\ rows'[c]["recommend"] = rows[c]["recommend"]
            /\ rows'[c]["memory"] = rows[c]["memory"]
        <5>1. s \in Claiming /\ rows[c] \in [Stages -> Nat] /\ rows \in [Calls -> [Stages -> Nat]]
          BY <1>1 DEF TypeOK
        <5>2. s = "recommend" => n = 0
          BY <2>2, <3>2
        <5> QED
          BY <1>1, <2>2, <5>1, <5>2 DEF Claiming, Stages
      <4> QED
        BY <1>1, <1>2, <1>4, <1>7, <4>1, RemembersStays
    <3> QED
      BY <3>1, <3>2
  <2> QED
    BY <1>1, <1>2, <1>3, <2>4, <2>5, <1>0, ByOwnCall
<1> QED
  BY <1>9, <1>10, <1>11, <1>12

\* A stage whose message the call does not want lets it go.
LEMMA SkipLeavesWork ==
    ASSUME TypeOK, WorkRemains, NEW w \in Workers, Skip(w)
    PROVE  WorkRemains'
<1>0. PICK c, s : c = Call(w) /\ s = Stage(w)
  OBVIOUS
<1>1. c \in Calls /\ s \in Claiming
  BY <1>0, BusyWorker DEF Skip, TypeOK, Stages, Claiming
<1>2. /\ pc[w] = "claim" /\ processing[c] \notin {Ready[s], "failed_retryable"}
      /\ UNCHANGED <<processing, received, rows, dead>>
  BY <1>0 DEF Skip, Claimable, dbVars, brokerVars, history
<1>3. Alone(w)
  BY GoesTo DEF Skip, brokerVars
<1>4. Moves(c) /\ Remembers(c)
  BY <1>1, WorkRemainsFor
<1>5. \A t \in Stages : /\ Awaited(c, t) => Awaited(c, t)' \/ t = s
                        /\ InHand(c, t) => InHand(c, t)'
  BY <1>0, <1>2, <1>3, AloneStays DEF Waits, Tells, Has, Working
<1>6. Claiming \subseteq Stages /\ "memory" \in Stages \ Claiming
  BY DEF Claiming, Stages
<1>7. Moves(c)'
  BY <1>1, <1>2, <1>4, <1>5, <1>6, MovesStays
<1>8. Remembers(c)'
  BY <1>1, <1>2, <1>4, <1>5, <1>6, RemembersStays
<1> QED
  BY <1>1, <1>2, <1>3, <1>7, <1>8, <1>0, ByOwnCall

\* What a worker holds of its message it still holds, or has handed on.
LEMMA HolderLeavesWork ==
    ASSUME TypeOK, WorkRemains, OrderInv, NEW w \in Workers,
           Extract(w) \/ ReadContext(w) \/ Ack(w) \/ StatementFails(w) \/ Partition(w)
    PROVE  WorkRemains'
<1>1. pc[w] # "idle" /\ msg[w] \in Messages /\ Stage(w) \in Stages
  BY BusyWorker DEF Extract, ReadContext, Ack, StatementFails, Partition
<1>2. UNCHANGED <<processing, received, rows, dead>>
  BY DEF Extract, ReadContext, Ack, StatementFails, Partition, dbVars, brokerVars, history
<1>3. CASE Extract(w) \/ ReadContext(w)
  <2>1. \E step \in {"persist", "fail", "terminate"} : Goto(w, step)
    BY <1>3 DEF Extract, ReadContext
  <2>2. /\ Alone(w) /\ msg'[w] = msg[w] /\ pc'[w] \in {"persist", "fail", "terminate"}
        /\ pc[w] = "read"
    BY <1>3, <2>1, GoesTo DEF Extract, ReadContext, brokerVars
  <2>3. \A c \in Calls, s \in Stages : /\ ~Waits(w, c, s) /\ ~Tells(w, c, s)
                                       /\ Has(w, c, s) => Has(w, c, s)'
    BY <2>2 DEF Waits, Tells, Has, Working, Call, Stage
  <2> QED
    BY <1>2, <2>2, <2>3, ByWorker, WorkGoesOn
<1>4. CASE Ack(w)
  <2>1. Alone(w)
    BY <1>4, Releases DEF Ack, brokerVars
  <2>2. \A c \in Calls, s \in Stages : ~Waits(w, c, s) /\ ~Tells(w, c, s) /\ ~Has(w, c, s)
    BY <1>4 DEF Ack, Waits, Tells, Has, Working
  <2> QED
    BY <1>2, <2>1, <2>2, WorkGoesOn
<1>5. CASE StatementFails(w)
  <2>1. Goto(w, Caught(w)) /\ pc[w] \in {"claim", "read", "persist"} /\ UNCHANGED <<msg, queue>>
    BY <1>5 DEF StatementFails, brokerVars
  <2>2. Alone(w) /\ msg'[w] = msg[w] /\ pc'[w] = Caught(w)
    BY <2>1, GoesTo
  <2>3. /\ pc[w] = "claim" => pc'[w] = "raise"
        /\ pc[w] # "claim" /\ Stage(w) = "memory" => pc'[w] = "raise"
        /\ pc[w] # "claim" /\ Stage(w) # "memory" => pc'[w] = "fail"
    BY <2>2 DEF Caught
  <2>4. \A c \in Calls, s \in Stages :
            /\ ~Tells(w, c, s)
            /\ Waits(w, c, s) => Waits(w, c, s)'
            /\ Has(w, c, s) => Has(w, c, s)' \/ (s = "memory" /\ Waits(w, c, s)')
    BY <2>1, <2>2, <2>3 DEF Waits, Tells, Has, Working, Call, Stage
  <2> QED
    BY <1>2, <2>2, <2>4, ByWorker, WorkGoesOn
<1>6. CASE Partition(w)
  <2>1. Deliver(msg[w]) /\ UNCHANGED <<pc, msg>>
    BY <1>6 DEF Partition, workerVars
  <2>2. Alone(w)
    BY <1>1, <2>1, Delivers DEF Alone
  <2>3. \A c \in Calls, s \in Stages : /\ Waits(w, c, s) => Waits(w, c, s)'
                                       /\ Tells(w, c, s) => Tells(w, c, s)'
                                       /\ Has(w, c, s) => Has(w, c, s)'
    BY <2>1 DEF Waits, Tells, Has, Working, Call, Stage
  <2> QED
    BY <1>2, <2>2, <2>3, ByWorker, WorkGoesOn
<1> QED
  BY <1>3, <1>4, <1>5, <1>6

\* The message of the next stage, and of the next try; at the end of its tries
\* a message is dead, and its call settled.
LEMMA SenderLeavesWork ==
    ASSUME TypeOK, WorkRemains, NEW w \in Workers,
           Raise(w) \/ (Send(w) /\ "broker" \notin Faults)
    PROVE  WorkRemains'
<1>0. PICK c, s : c = Call(w) /\ s = Stage(w)
  OBVIOUS
<1>1. c \in Calls /\ s \in Stages /\ msg[w] \in Messages
  BY <1>0, BusyWorker DEF Raise, Send
<1>2. UNCHANGED <<processing, received, rows>> /\ dead \subseteq dead'
  BY DEF Raise, Send, dbVars, history
<1>3. CASE Send(w) /\ "broker" \notin Faults
  <2>1. s \in Claiming
    BY <1>0, <1>1, <1>3 DEF Send, TypeOK, Stages, Claiming
  <2>2. PICK m \in Messages : m = First(Follower[s], c) /\ m.stage = Follower[s] /\ m.call = c
    BY <1>1, <2>1, StageTables, FirstMessage
  <2>3. Deliver(m) /\ Goto(w, "ack") /\ UNCHANGED msg /\ pc[w] = "send"
    BY <1>0, <1>3, <2>2 DEF Send
  <2>4. /\ \A n \in Messages : queue[n] > 0 => queue'[n] > 0
        /\ queue'[m] > 0
    BY <2>3, Delivers
  <2>5. Alone(w)
    BY <2>3, <2>4 DEF Alone, Goto, TypeOK
  <2>6. Awaited(c, Follower[s])'
    BY <2>2, <2>4, QueuedAwaits
  <2>7. \A d \in Calls, t \in Stages :
            /\ ~Waits(w, d, t) /\ ~Has(w, d, t)
            /\ Tells(w, d, t) => d = c /\ t = Follower[s]
    BY <1>0, <2>3 DEF Waits, Tells, Has, Working
  <2> QED
    BY <1>2, <2>5, <2>6, <2>7, WorkGoesOn
<1>4. CASE Raise(w)
  <2>1. pc[w] = "raise" /\ Release(w)
    BY <1>4 DEF Raise
  <2>2. \A d \in Calls, t \in Stages :
            /\ ~Tells(w, d, t) /\ ~Has(w, d, t)
            /\ Waits(w, d, t) => d = c /\ t = s
    BY <1>0, <2>1 DEF Waits, Tells, Has, Working
  <2>3. CASE msg[w].tries < MaxRetries[msg[w].stage] /\ Deliver([msg[w] EXCEPT !.tries = @ + 1])
    <3>1. PICK n \in Messages : /\ n = [msg[w] EXCEPT !.tries = @ + 1]
                                /\ n.stage = s /\ n.call = c
      BY <1>0, <1>1, <2>3, NextTry DEF Call, Stage
    <3>2. /\ \A m \in Messages : queue[m] > 0 => queue'[m] > 0
          /\ queue'[n] > 0
      BY <2>3, <3>1, Delivers
    <3>3. Alone(w)
      BY <2>1, <3>2, Releases
    <3>4. Awaited(c, s)'
      BY <3>1, <3>2, QueuedAwaits
    <3> QED
      BY <1>2, <2>2, <3>3, <3>4, WorkGoesOn
  <2>4. CASE dead' = dead \cup {msg[w]} /\ UNCHANGED queue
    <3>1. Alone(w)
      BY <2>1, <2>4, Releases
    <3>2. Settled(c)' /\ (s = "memory" => MemoryDead(c)')
      <4>1. msg[w] \in dead' /\ msg[w].call = c /\ msg[w].stage = s
        BY <1>0, <2>4 DEF Call, Stage
      <4>2. \E m \in dead' : m.call = c /\ m.stage = s
        BY <4>1
      <4> QED
        BY <4>2 DEF Settled, MemoryDead
    <3>3. \A t \in Stages : /\ Awaited(c, t) => Awaited(c, t)' \/ t = s
                            /\ InHand(c, t) => InHand(c, t)'
      BY <1>1, <2>2, <3>1, AloneStays
    <3>4. Moves(c) /\ Remembers(c)
      BY <1>1, WorkRemainsFor
    <3>5. Claiming \subseteq Stages /\ "memory" \in Stages
      BY DEF Claiming, Stages
    <3>6. Moves(c)'
      BY <3>2 DEF Moves
    <3>7. Remembers(c)'
      BY <1>1, <1>2, <3>2, <3>3, <3>4, <3>5, RemembersStays
    <3> QED
      BY <1>0, <1>1, <1>2, <3>1, <3>6, <3>7, ByOwnCall
  <2> QED
    BY <1>4, <2>3, <2>4 DEF Raise
<1> QED
  BY <1>3, <1>4

\* The memory stage: who finds documents, or no extraction, has nothing to do.
LEMMA MemoryLeavesWork ==
    ASSUME TypeOK, WorkRemains, OrderInv, NEW w \in Workers,
           ReadMemoryContext(w) \/ PersistMemory(w)
    PROVE  WorkRemains'
<1>0. PICK c, s : c = Call(w) /\ s = Stage(w)
  OBVIOUS
<1>1. c \in Calls /\ s = "memory" /\ rows[c] \in [Stages -> Nat] /\ s \in Stages
  BY <1>0, BusyWorker DEF ReadMemoryContext, PersistMemory, TypeOK, Stages
<1>2. /\ UNCHANGED <<processing, received, dead, queue, msg>>
      /\ \E step \in Steps : Goto(w, step)
      /\ pc[w] \in {"read", "persist"}
  BY DEF ReadMemoryContext, PersistMemory, dbVars, brokerVars, history, Steps
<1>3. Alone(w) /\ msg'[w] = msg[w]
  BY <1>2, GoesTo
<1>4. \A t \in Stages : /\ Awaited(c, t) => Awaited(c, t)'
                        /\ t # "memory" /\ InHand(c, t) => InHand(c, t)'
  BY <1>0, <1>1, <1>2, <1>3, AloneStays DEF Waits, Tells, Has
<1>5. Moves(c) /\ Remembers(c)
  BY <1>1, WorkRemainsFor
<1>6. Claiming \subseteq Stages \ {"memory"} /\ "memory" \in Stages
  BY DEF Claiming, Stages
<1>7. Moves(c)'
  BY <1>1, <1>2, <1>4, <1>5, <1>6, MovesStays
<1>8. CASE ReadMemoryContext(w)
  <2>1. UNCHANGED rows
    BY <1>8 DEF ReadMemoryContext, dbVars
  <2>2. CASE pc'[w] = "persist"
    <3>1. Has(w, c, "memory")'
      BY <1>0, <1>1, <1>3, <2>2 DEF Has, Working, Call, Stage
    <3>2. InHand(c, "memory")'
      BY <3>1, ByWorker
    <3>3. Remembers(c)'
      BY <3>2 DEF Remembers
    <3> QED
      BY <1>0, <1>1, <1>2, <1>3, <1>7, <2>1, <3>3, ByOwnCall
  <2>3. CASE pc'[w] # "persist"
    <3>1. ~(rows[c]["memory"] = 0 /\ rows[c]["extract"] > 0)
      BY <1>0, <1>8, <2>3 DEF ReadMemoryContext, Goto, TypeOK
    <3>2. rows[c]["memory"] \in Nat
      BY <1>1 DEF Stages
    <3>3. rows[c]["recommend"] > 0 => rows[c]["extract"] > 0
      BY <1>1 DEF OrderInv, ArtifactsInOrder
    <3>4. Remembers(c)'
      BY <2>1, <3>1, <3>2, <3>3 DEF Remembers
    <3> QED
      BY <1>0, <1>1, <1>2, <1>3, <1>7, <2>1, <3>4, ByOwnCall
  <2> QED
    BY <2>2, <2>3
<1>9. CASE PersistMemory(w)
  <2>1. /\ rows'[c]["memory"] > 0
        /\ \A d \in Calls : d # c => rows'[d] = rows[d]
    <3>1. CASE rows[c]["memory"] = 0
      <4>1. rows' = [rows EXCEPT ![c]["memory"] = @ + 1]
        BY <1>0, <1>1, <1>9, <3>1 DEF PersistMemory, Unembedded, Produce
      <4> QED
        BY <1>1, <3>1, <4>1 DEF TypeOK
    <3>2. CASE rows[c]["memory"] # 0
      <4>1. UNCHANGED rows
        BY <1>0, <1>9, <3>2 DEF PersistMemory, Unembedded
      <4>2. rows[c]["memory"] \in Nat
        BY <1>1 DEF Stages
      <4> QED
        BY <3>2, <4>1, <4>2
    <3> QED
      BY <3>1, <3>2
  <2>2. Remembers(c)'
    BY <2>1 DEF Remembers
  <2> QED
    BY <1>0, <1>1, <1>2, <1>3, <1>7, <2>1, <2>2, ByOwnCall
<1> QED
  BY <1>8, <1>9

\* A message that is taken is held.
LEMMA ReceiverLeavesWork ==
    ASSUME TypeOK, WorkRemains, NEW w \in Workers, NEW m \in Messages, Receive(w, m)
    PROVE  WorkRemains'
<1>1. m.call \in Calls /\ m.stage \in Stages
  BY MessageFields
<1>2. /\ UNCHANGED <<processing, received, rows, dead>>
      /\ pc[w] = "idle" /\ msg'[w] = m
      /\ pc'[w] = IF m.stage = "memory" THEN "read" ELSE "claim"
      /\ \A v \in Workers \ {w} : pc'[v] = pc[v] /\ msg'[v] = msg[v]
      /\ \A n \in Messages : n # m /\ queue[n] > 0 => queue'[n] > 0
  BY DEF Receive, Goto, TypeOK, dbVars, history
<1>3. /\ m.stage # "memory" => Awaited(m.call, m.stage)'
      /\ m.stage = "memory" => InHand(m.call, m.stage)'
  <2>1. /\ m.stage # "memory" => Waits(w, m.call, m.stage)'
        /\ m.stage = "memory" => Has(w, m.call, m.stage)'
    BY <1>2 DEF Waits, Has, Working, Call, Stage
  <2> QED
    BY <2>1, ByWorker
<1>4. ASSUME NEW c \in Calls, NEW s \in Stages
      PROVE  /\ Awaited(c, s) => \/ Awaited(c, s)'
                                 \/ s = "memory" /\ InHand(c, s)'
             /\ InHand(c, s) => InHand(c, s)'
  <2>1. \A v \in Workers : v # w \/ ~(Waits(v, c, s) \/ Tells(v, c, s) \/ Has(v, c, s))
    BY <1>2 DEF Waits, Tells, Has, Working
  <2>2. \A v \in Workers : /\ Waits(v, c, s) => Waits(v, c, s)'
                           /\ Tells(v, c, s) => Tells(v, c, s)'
                           /\ Has(v, c, s) => Has(v, c, s)'
    BY <1>2, <2>1 DEF Waits, Tells, Has, Working, Call, Stage
  <2>3. Queued(c, s) => Queued(c, s)' \/ (m.call = c /\ m.stage = s)
    BY <1>2 DEF Queued
  <2>4. Queued(c, s)' => Awaited(c, s)'
    BY DEF Queued, Awaited
  <2> QED
    BY <1>3, <2>2, <2>3, <2>4, AwaitedBy, ByWorker
<1>5. Claiming \subseteq Stages \ {"memory"} /\ "memory" \in Stages
  BY DEF Claiming, Stages
<1>6. ASSUME NEW c \in Calls PROVE Moves(c)' /\ Remembers(c)'
  <2>1. Moves(c) /\ Remembers(c)
    BY WorkRemainsFor
  <2>2. Moves(c)'
    BY <1>2, <1>4, <1>5, <2>1, MovesStays
  <2>3. Remembers(c)'
    BY <1>2, <1>4, <1>5, <2>1, RemembersStays
  <2> QED
    BY <2>2, <2>3
<1>7. (\A c \in Calls : Moves(c) /\ Remembers(c))' => WorkRemains'
  BY WorkRemainsNext
<1> QED
  BY <1>6, <1>7

\* A transcript comes with the message that starts its call.
LEMMA StoringLeavesWork ==
    ASSUME TypeOK, WorkRemains, NEW d \in Calls, StoreTranscript(d), "broker" \notin Faults
    PROVE  WorkRemains'
<1>1. PICK m \in Messages : m = First("extract", d) /\ m.stage = "extract" /\ m.call = d
  BY FirstMessage DEF Stages
<1>2. /\ Deliver(m) /\ UNCHANGED <<pc, msg, rows, dead>>
      /\ processing'[d] = "transcript_finalized"
      /\ \A c \in Calls : c # d => processing'[c] = processing[c] /\ received'[c] = received[c]
  BY <1>1 DEF StoreTranscript, SetStatus, TypeOK, workerVars
<1>3. /\ \A n \in Messages : queue[n] > 0 => queue'[n] > 0
      /\ queue'[m] > 0
  BY <1>2, Delivers
<1>4. ASSUME NEW c \in Calls, NEW s \in Stages
      PROVE  /\ Awaited(c, s) => Awaited(c, s)'
             /\ InHand(c, s) => InHand(c, s)'
  BY <1>2, <1>3 DEF Awaited, InHand, Working, Call, Stage
<1>5. Claiming \subseteq Stages /\ "memory" \in Stages
  BY DEF Claiming, Stages
<1>6. ASSUME NEW c \in Calls PROVE Moves(c)' /\ Remembers(c)'
  <2>1. Moves(c) /\ Remembers(c)
    BY WorkRemainsFor
  <2>2. Remembers(c)'
    BY <1>2, <1>4, <1>5, <2>1, RemembersStays
  <2>3. CASE c # d
    BY <1>2, <1>4, <1>5, <2>1, <2>2, <2>3, MovesStays
  <2>4. CASE c = d
    <3>1. Awaited(d, "extract")'
      BY <1>1, <1>3, QueuedAwaits
    <3>2. processing'[d] = Ready["extract"] /\ "extract" \in Claiming
      BY <1>2 DEF Ready, Claiming
    <3> QED
      BY <2>2, <2>4, <3>1, <3>2 DEF Moves
  <2> QED
    BY <2>3, <2>4
<1>7. (\A c \in Calls : Moves(c) /\ Remembers(c))' => WorkRemains'
  BY WorkRemainsNext
<1> QED
  BY <1>6, <1>7

\* Steps that touch neither messages nor claims.
LEMMA WorkUntouched ==
    ASSUME WorkRemains, UNCHANGED <<processing, received, rows, dead, queue, pc, msg>>
    PROVE  WorkRemains'
BY DEF WorkRemains, Settled, Awaited, InHand, Working, Call, Stage

(* No call is left behind by the faults the actors handle: a model or a    *)
(* database that fails, a message that comes twice, a claim that is taken  *)
(* over, a redaction or a second transcript in the middle of a stage.  It  *)
(* takes a worker that dies or is cut off with a claim, or a .send that is *)
(* swallowed.  The safety in Settles, for any number of calls, workers and *)
(* tries.                                                                  *)
THEOREM NoCallIsLeftBehind ==
    ASSUME Faults \cap {"abort", "crash", "broker"} = {}
    PROVE  Spec => []WorkRemains
<1>1. Init => WorkRemains
  BY DEF Init, WorkRemains, Stages
<1>2. TypeOK /\ OrderInv /\ WorkRemains /\ [Next]_vars => WorkRemains'
  <2> SUFFICES ASSUME TypeOK, OrderInv, WorkRemains, [Next]_vars PROVE WorkRemains'
    OBVIOUS
  <2> USE DEF dbVars, brokerVars, workerVars, history
  <2>1. ASSUME NEW c \in Calls, StoreTranscript(c) PROVE WorkRemains'
    BY <2>1, StoringLeavesWork
  <2>2. ASSUME NEW c \in Calls, Age(c) PROVE WorkRemains'
    BY <2>2, WorkUntouched DEF Age
  <2>3. ASSUME NEW C \in SUBSET Calls, Scrub(C) PROVE WorkRemains'
    BY <2>3, WorkUntouched DEF Scrub
  <2>4. ASSUME NEW w \in Workers, NEW m \in Messages, Receive(w, m) PROVE WorkRemains'
    BY <2>4, ReceiverLeavesWork
  <2>5. ASSUME NEW w \in Workers, Work(w) PROVE WorkRemains'
    BY <2>5, WriterLeavesWork, SkipLeavesWork, HolderLeavesWork, MemoryLeavesWork,
       SenderLeavesWork DEF Work
  <2>6. ASSUME NEW w \in Workers, StatementFails(w) \/ Partition(w) PROVE WorkRemains'
    BY <2>6, HolderLeavesWork
  <2>7. ASSUME NEW w \in Workers, Abort(w) \/ Crash(w) PROVE WorkRemains'
    BY <2>7 DEF Abort, Crash
  <2>8. CASE UNCHANGED vars
    BY <2>8, WorkUntouched DEF vars
  <2> QED
    BY <2>1, <2>2, <2>3, <2>4, <2>5, <2>6, <2>7, <2>8 DEF Next, Redact, RetentionSweep
<1> QED
  BY <1>1, <1>2, TypeCorrect, OrderIsKept, PTL DEF Spec
=============================================================================
