---------------------------- MODULE PollingProofs ----------------------------
(***************************************************************************)
(* Theorems about Polling, for every set of calls, payloads, lives of the  *)
(* executions, bounds and faults.                                          *)
(***************************************************************************)
EXTENDS Polling, TLAPS

\* The keys of those that are about to record an event.
Working == {c \in Calls : pc[c] = "work"}

\* Besides excluding each other across the two paths, no two webhooks and no
\* two jobs hold one key: without it the commit of one would leave the other
\* with an event that is recorded.
HoldersDiffer ==
    /\ \A p, q \in handling : IdempotencyKey(p) = IdempotencyKey(q) => p = q
    /\ \A c, d \in Working : IdempotencyKey(answer[c]) = IdempotencyKey(answer[d]) => c = d

\* A job that works has an answer with identifiers.
WorkHasAnswer == \A c \in Working : answer[c] \in Payloads

\* A webhook is handled for a call it was found to be about.
EventsHaveCalls == \A p \in handling : ExecutionId(p) \in Calls

IInv == TypeOK /\ WorkHasAnswer /\ EventsHaveCalls /\ WritersExclude /\ HoldersDiffer

-----------------------------------------------------------------------------
(* Facts about payloads.                                                   *)

\* A payload of a status the application knows gives one of the column's values.
LEMMA PayloadStatus ==
    ASSUME NEW p \in Payloads, Known(p)
    PROVE  SessionStatus(p) \in Statuses
BY PayloadAssumption DEF PayloadType, RawStatuses, SessionStatus, Known, Statuses

\* The key of a payload is one of the keys.
LEMMA PayloadKey ==
    ASSUME NEW p \in Payloads
    PROVE  IdempotencyKey(p) \in Keys
BY DEF Keys

\* None is no payload.
LEMMA NoneIsNoPayload == None \notin Payloads
BY NoneAssumption, PayloadAssumption

\* The payloads of an execution's life.
LEMMA LifePayload ==
    ASSUME NEW c \in Calls, NEW i \in Nat, i \in DOMAIN Answer[c]
    PROVE  Answer[c][i] \in Payloads /\ Webhook[c][i] \in Payloads \cup {None}
<1>1. Answer[c] \in Seq(Payloads) /\ Webhook[c] \in Seq(Payloads \cup {None}) /\ Len(Webhook[c]) = Len(Answer[c])
  BY LifeAssumption
<1> QED BY <1>1

\* The functions of a payload that EventStore has are those of BolnaEvents.
LEMMA SameFunctions ==
    /\ \A p : /\ EventStore!ExecutionId(p) = ExecutionId(p)
             /\ EventStore!IdempotencyKey(p) = IdempotencyKey(p)
             /\ EventStore!SessionStatus(p) = SessionStatus(p)
             /\ EventStore!Known(p) = Known(p)
             /\ EventStore!CarriesTranscript(p) = CarriesTranscript(p)
    /\ EventStore!RecordedKeys(log) = RecordedKeys(log)
<1>1. \A p : EventStore!ExecutionId(p) = ExecutionId(p)
  BY DEF EventStore!ExecutionId, ExecutionId
<1>2. \A p : EventStore!IdempotencyKey(p) = IdempotencyKey(p)
  BY DEF EventStore!IdempotencyKey, IdempotencyKey
<1>3. \A p : EventStore!SessionStatus(p) = SessionStatus(p)
  BY DEF EventStore!SessionStatus, SessionStatus
<1>4. \A p : EventStore!Known(p) = Known(p)
  BY <1>3 DEF EventStore!Known, Known
<1>5. \A p : EventStore!CarriesTranscript(p) = CarriesTranscript(p)
  BY <1>3 DEF EventStore!CarriesTranscript, CarriesTranscript, EventStore!Terminal, Terminal,
              EventStore!TerminalStatuses, TerminalStatuses
<1>6. EventStore!RecordedKeys(log) = RecordedKeys(log)
  BY <1>2 DEF EventStore!RecordedKeys, RecordedKeys
<1> QED BY <1>1, <1>2, <1>3, <1>4, <1>5, <1>6

\* A row that is appended records its key.
LEMMA RecordedAppend ==
    ASSUME NEW table \in [Calls -> Seq(Payloads)], NEW c \in Calls, NEW p \in Payloads
    PROVE  RecordedKeys([table EXCEPT ![c] = Append(@, p)])
               = RecordedKeys(table) \cup {IdempotencyKey(p)}
<1>1. PICK next : next = [table EXCEPT ![c] = Append(@, p)]
  OBVIOUS
<1>2. PICK n \in Nat : n = Len(table[c]) + 1
  OBVIOUS
<1>3. next[c] = Append(table[c], p) /\ table[c] \in Seq(Payloads)
  BY <1>1
<1>4. /\ DOMAIN next = Calls /\ DOMAIN table = Calls
      /\ \A d \in Calls \ {c} : next[d] = table[d]
      /\ DOMAIN next[c] = DOMAIN table[c] \cup {n}
      /\ next[c][n] = p
      /\ \A i \in DOMAIN table[c] : next[c][i] = table[c][i]
  BY <1>1, <1>2, <1>3
<1>5. \A d \in Calls : \A i \in DOMAIN next[d] :
         \/ i \in DOMAIN table[d] /\ next[d][i] = table[d][i]
         \/ next[d][i] = p
  BY <1>4
<1>6. \A d \in Calls : \A i \in DOMAIN table[d] :
         i \in DOMAIN next[d] /\ next[d][i] = table[d][i]
  BY <1>4
<1>7. n \in DOMAIN next[c] /\ next[c][n] = p
  BY <1>4
<1>8. RecordedKeys(next) \subseteq RecordedKeys(table) \cup {IdempotencyKey(p)}
  BY <1>4, <1>5 DEF RecordedKeys
<1>9. RecordedKeys(table) \subseteq RecordedKeys(next)
  BY <1>4, <1>6 DEF RecordedKeys
<1>10. IdempotencyKey(p) \in RecordedKeys(next)
  BY <1>4, <1>7 DEF RecordedKeys
<1> QED BY <1>1, <1>8, <1>9, <1>10

-----------------------------------------------------------------------------
(* Recording an event and leaving the log alone.                           *)

\* Recording an event adds its key to those recorded, and stays well typed.
LEMMA RecordEffect ==
    ASSUME TypeOK, NEW p \in Payloads, EventStore!Record(p)
    PROVE  /\ RecordedKeys(log)' = RecordedKeys(log) \cup {IdempotencyKey(p)}
           /\ log' \in [Calls -> Seq(Payloads)]
           /\ status' \in [Calls -> Statuses]
           /\ utterances' \subseteq Calls
           /\ UNCHANGED <<published, jobs>>
<1>1. PICK c \in Calls : c = ExecutionId(p)
  BY SameFunctions DEF TypeOK, EventStore!Record
<1>2. log' = [log EXCEPT ![c] = Append(@, p)] /\ log \in [Calls -> Seq(Payloads)]
  BY <1>1, SameFunctions DEF TypeOK, EventStore!Record
<1>3. RecordedKeys(log') = RecordedKeys(log) \cup {IdempotencyKey(p)}
  BY <1>2, RecordedAppend
<1>4. RecordedKeys(log)' = RecordedKeys(log')
  BY DEF RecordedKeys
<1>5. log' \in [Calls -> Seq(Payloads)]
  <2>1. Append(log[c], p) \in Seq(Payloads)
    BY <1>2
  <2> QED BY <1>2, <2>1
<1>6. status' \in [Calls -> Statuses]
  BY <1>1, SameFunctions, PayloadStatus DEF TypeOK, EventStore!Record
<1>7. utterances' \subseteq Calls /\ UNCHANGED <<published, jobs>>
  BY <1>1, SameFunctions DEF TypeOK, EventStore!Record
<1> QED BY <1>3, <1>4, <1>5, <1>6, <1>7

\* When no event is recorded, no key is.
LEMMA LogKept == UNCHANGED log => RecordedKeys(log)' = RecordedKeys(log)
BY DEF RecordedKeys

-----------------------------------------------------------------------------
\* The invariant holds before any call.
LEMMA InitInv == Init => IInv
<1> SUFFICES ASSUME Init PROVE IInv
  OBVIOUS
<1> USE DEF Init, EventStore!Init
<1>1. \A c \in Calls : 1 \in DOMAIN Answer[c]
  BY LifeAssumption
<1>2. TypeOK
  BY <1>1, BoundAssumption DEF TypeOK, Statuses, Steps, Finished
<1>3. RecordedKeys(log) = {}
  BY DEF RecordedKeys
<1> QED BY <1>2, <1>3 DEF IInv, WorkHasAnswer, EventsHaveCalls, WritersExclude, HoldersDiffer, Working

\* An updated function is a function of the same type.
LEMMA Updated ==
    ASSUME NEW S, NEW f \in [Calls -> S], NEW c \in Calls, NEW v \in S
    PROVE  [f EXCEPT ![c] = v] \in [Calls -> S]
OBVIOUS

\* Every step keeps the types.
LEMMA TypeStep == TypeOK /\ WorkHasAnswer /\ EventsHaveCalls /\ [Next]_vars => TypeOK'
<1> SUFFICES ASSUME TypeOK, WorkHasAnswer, EventsHaveCalls, [Next]_vars PROVE TypeOK'
  OBVIOUS
<1> USE BoundAssumption DEF TypeOK, ledgerVars, webhookVars, jobVars, Goto, Steps, Finished
<1>1. ASSUME NEW c \in Calls, Publish(c) PROVE TypeOK'
  BY <1>1 DEF Publish, EventStore!Publish, Statuses
<1>2. ASSUME NEW c \in Calls, Enter(c) PROVE TypeOK'
  <2>1. at[c] + 1 \in DOMAIN Answer[c] /\ at[c] + 1 \in Nat
    BY <1>2, LifeAssumption DEF Enter
  <2>2. at' = [at EXCEPT ![c] = at[c] + 1] /\ UNCHANGED <<ledgerVars, idem, handling, spoiled, jobVars>>
    BY <1>2 DEF Enter
  <2>3. at' \in [Calls -> Nat] /\ \A d \in Calls : at'[d] \in DOMAIN Answer[d]
    BY <2>1, <2>2
  <2> QED BY <2>2, <2>3
<1>3. ASSUME NEW c \in Calls, ReceiveWebhook(c) PROVE TypeOK'
  <2>1. PICK i \in 1 .. at[c] : /\ Webhook[c][i] # None
                                /\ idem' = idem \cup {IdempotencyKey(Webhook[c][i])}
                                /\ handling' = handling \cup {Webhook[c][i]}
    BY <1>3 DEF ReceiveWebhook
  <2>2. i \in Nat /\ i \in DOMAIN Answer[c]
    BY <2>1, LifeAssumption
  <2>3. Webhook[c][i] \in Payloads
    BY <2>1, <2>2, LifePayload
  <2> QED BY <1>3, <2>1, <2>3, PayloadKey DEF ReceiveWebhook
<1>4. ASSUME NEW p \in Payloads, RecordWebhook(p) PROVE TypeOK'
  BY <1>4, RecordEffect DEF RecordWebhook
<1>5. ASSUME NEW p \in Payloads, FailWebhook(p) PROVE TypeOK'
  <2>1. ExecutionId(p) \in Calls
    BY <1>5 DEF FailWebhook, EventsHaveCalls
  <2>2. idem' \subseteq Keys
    BY <1>5 DEF FailWebhook, Released
  <2> QED BY <1>5, <2>1, <2>2 DEF FailWebhook
<1>6. ASSUME NEW c \in Calls, Dispatch(c) PROVE TypeOK'
  BY <1>6 DEF Dispatch, EventStore!Dispatch
<1>7. ASSUME NEW c \in Calls, Start(c) \/ Sleep(c) PROVE TypeOK'
  <2>1. 1 \in 0 .. MaxAttempts
    OBVIOUS
  <2>2. CASE Start(c)
    <3>1. attempt' = [attempt EXCEPT ![c] = 1]
      BY <2>2 DEF Start
    <3>2. attempt' \in [Calls -> 0 .. MaxAttempts]
      BY <2>1, <3>1, Updated
    <3> QED BY <2>2, <3>2 DEF Start
  <2>3. CASE Sleep(c)
    BY <2>3 DEF Sleep
  <2> QED BY <1>7, <2>2, <2>3
<1>8. ASSUME NEW c \in Calls, GetExecution(c) PROVE TypeOK'
  <2>1. Answer[c][at[c]] \in Payloads
    BY LifePayload
  <2>2. backoff[c] < 3 => backoff[c] + 1 \in 0 .. 3
    <3>1. backoff[c] \in 0 .. 3
      OBVIOUS
    <3> QED BY <3>1
  <2>3. backoff' \in [Calls -> 0 .. 3]
    <3>1. \E n \in 0 .. 3 : backoff' = [backoff EXCEPT ![c] = n]
      BY <1>8, <2>2 DEF GetExecution, Receive
    <3> QED BY <3>1, Updated
  <2>4. pc' \in [Calls -> Steps] /\ answer' \in [Calls -> Payloads \cup {None}]
    BY <1>8, <2>1 DEF GetExecution, Receive
  <2> QED BY <1>8, <2>3, <2>4 DEF GetExecution
<1>9. ASSUME NEW c \in Calls, LookAtSession(c) PROVE TypeOK'
  BY <1>9 DEF LookAtSession, AfterLook
<1>10. ASSUME NEW c \in Calls, TakeKey(c) PROVE TypeOK'
  <2>1. answer[c] # None => IdempotencyKey(answer[c]) \in Keys
    BY PayloadKey
  <2> QED BY <1>10, <2>1 DEF TakeKey
<1>11. ASSUME NEW c \in Calls, RecordAnswer(c) PROVE TypeOK'
  <2>1. answer[c] \in Payloads
    BY <1>11 DEF RecordAnswer, WorkHasAnswer, Working
  <2> QED BY <1>11, <2>1, RecordEffect DEF RecordAnswer
<1>12. ASSUME NEW c \in Calls, EndAttempt(c) PROVE TypeOK'
  <2>1. \E step \in {"sleep", "stopped", "exhausted"} : pc' = [pc EXCEPT ![c] = step]
    BY <1>12 DEF EndAttempt
  <2>2. attempt' \in [Calls -> 0 .. MaxAttempts]
    <3>1. attempt[c] < MaxAttempts => attempt[c] + 1 \in 0 .. MaxAttempts
      OBVIOUS
    <3>2. \/ attempt' = attempt
          \/ attempt[c] < MaxAttempts /\ attempt' = [attempt EXCEPT ![c] = attempt[c] + 1]
      BY <1>12 DEF EndAttempt
    <3>3. CASE attempt[c] < MaxAttempts /\ attempt' = [attempt EXCEPT ![c] = attempt[c] + 1]
      BY <3>1, <3>3, Updated
    <3> QED BY <3>2, <3>3
  <2>3. pc' \in [Calls -> Steps] /\ answer' \in [Calls -> Payloads \cup {None}]
    BY <1>12, <2>1 DEF EndAttempt
  <2> QED BY <1>12, <2>2, <2>3 DEF EndAttempt
<1>13. ASSUME NEW c \in Calls, FailPoll(c) PROVE TypeOK'
  BY <1>13 DEF FailPoll, Released, Retry, Retried
<1>14. ASSUME NEW c \in Calls, OrphanKey(c) PROVE TypeOK'
  BY <1>14 DEF OrphanKey, Retry, Retried
<1>15. CASE UNCHANGED vars
  BY <1>15 DEF vars
<1> QED
  BY <1>1, <1>2, <1>3, <1>4, <1>5, <1>6, <1>7, <1>8, <1>9, <1>10, <1>11, <1>12, <1>13,
     <1>14, <1>15 DEF Next, Poll

\* Those that hold a key stay who they are, but for the one that steps.
LEMMA HoldersStep == IInv /\ [Next]_vars => WorkHasAnswer' /\ EventsHaveCalls'
<1> SUFFICES ASSUME IInv, [Next]_vars PROVE WorkHasAnswer' /\ EventsHaveCalls'
  OBVIOUS
<1> USE DEF IInv, TypeOK, WorkHasAnswer, EventsHaveCalls, Working, webhookVars, jobVars, Goto
<1>1. ASSUME NEW c \in Calls, Publish(c) PROVE WorkHasAnswer' /\ EventsHaveCalls'
  BY <1>1 DEF Publish
<1>2. ASSUME NEW c \in Calls, ReceiveWebhook(c) PROVE WorkHasAnswer' /\ EventsHaveCalls'
  <2>1. PICK i \in 1 .. at[c] : Webhook[c][i] # None /\ handling' = handling \cup {Webhook[c][i]}
    BY <1>2 DEF ReceiveWebhook
  <2>2. i \in DOMAIN Answer[c] /\ ExecutionId(Webhook[c][i]) = c
    BY <2>1, LifeAssumption
  <2> QED BY <1>2, <2>1, <2>2 DEF ReceiveWebhook
<1>3. ASSUME NEW p \in Payloads, RecordWebhook(p) \/ FailWebhook(p)
      PROVE  WorkHasAnswer' /\ EventsHaveCalls'
  BY <1>3 DEF RecordWebhook, FailWebhook
<1>4. ASSUME NEW c \in Calls, Enter(c) \/ Dispatch(c) PROVE WorkHasAnswer' /\ EventsHaveCalls'
  BY <1>4 DEF Enter, Dispatch
<1>5. ASSUME NEW c \in Calls, TakeKey(c) PROVE WorkHasAnswer' /\ EventsHaveCalls'
  BY <1>5 DEF TakeKey
<1>6. ASSUME NEW c \in Calls, Start(c) \/ Sleep(c) \/ GetExecution(c) \/ LookAtSession(c)
      PROVE  WorkHasAnswer' /\ EventsHaveCalls'
  BY <1>6 DEF Start, Sleep, GetExecution, Receive, LookAtSession, AfterLook
<1>7. ASSUME NEW c \in Calls, RecordAnswer(c) \/ EndAttempt(c) \/ FailPoll(c) \/ OrphanKey(c)
      PROVE  WorkHasAnswer' /\ EventsHaveCalls'
  BY <1>7 DEF RecordAnswer, EndAttempt, FailPoll, OrphanKey, Retry, Retried
<1>8. CASE UNCHANGED vars
  BY <1>8 DEF vars
<1> QED BY <1>1, <1>2, <1>3, <1>4, <1>5, <1>6, <1>7, <1>8 DEF Next, Poll

\* A step that neither takes nor gives back a key, nor records an event.
LEMMA KeysKept ==
    ASSUME IInv, UNCHANGED <<log, idem, handling>>,
           \A c \in Working' : c \in Working /\ answer'[c] = answer[c]
    PROVE  WritersExclude' /\ HoldersDiffer'
BY LogKept DEF IInv, WritersExclude, HoldersDiffer, Working

\* Every step keeps the writers apart.
LEMMA ExclusionStep == IInv /\ [Next]_vars => WritersExclude' /\ HoldersDiffer'
<1> SUFFICES ASSUME IInv, [Next]_vars PROVE WritersExclude' /\ HoldersDiffer'
  OBVIOUS
<1>a. RecordedKeys(log) \subseteq idem /\ TypeOK
  BY DEF IInv, WritersExclude
<1> USE DEF ledgerVars, webhookVars, jobVars, Goto
<1>1. ASSUME NEW c \in Calls, Publish(c) PROVE WritersExclude' /\ HoldersDiffer'
  BY <1>1, <1>a, KeysKept DEF Publish, EventStore!Publish, Working, TypeOK
<1>2. ASSUME NEW c \in Calls, ReceiveWebhook(c) PROVE WritersExclude' /\ HoldersDiffer'
  <2>1. PICK p : /\ IdempotencyKey(p) \notin idem
                 /\ idem' = idem \cup {IdempotencyKey(p)}
                 /\ handling' = handling \cup {p}
    BY <1>2 DEF ReceiveWebhook, Free
  <2>2. UNCHANGED <<log, pc, answer>> /\ RecordedKeys(log)' = RecordedKeys(log)
    BY <1>2, LogKept DEF ReceiveWebhook
  <2> QED BY <1>a, <2>1, <2>2 DEF IInv, WritersExclude, HoldersDiffer, Working
<1>3. ASSUME NEW p \in Payloads, RecordWebhook(p) PROVE WritersExclude' /\ HoldersDiffer'
  <2>1. RecordedKeys(log)' = RecordedKeys(log) \cup {IdempotencyKey(p)}
    BY <1>3, <1>a, RecordEffect DEF RecordWebhook
  <2>2. p \in handling /\ handling' = handling \ {p} /\ UNCHANGED <<idem, pc, answer>>
    BY <1>3 DEF RecordWebhook
  <2> QED BY <2>1, <2>2 DEF IInv, WritersExclude, HoldersDiffer, Working
<1>4. ASSUME NEW p \in Payloads, FailWebhook(p) PROVE WritersExclude' /\ HoldersDiffer'
  <2>1. RecordedKeys(log)' = RecordedKeys(log)
    BY <1>4, LogKept DEF FailWebhook
  <2>2. /\ p \in handling /\ handling' = handling \ {p} /\ UNCHANGED <<pc, answer>>
        /\ idem' = idem \/ idem' = idem \ {IdempotencyKey(p)}
    BY <1>4 DEF FailWebhook, Released
  <2> QED BY <2>1, <2>2 DEF IInv, WritersExclude, HoldersDiffer, Working
<1>5. ASSUME NEW c \in Calls, Enter(c) \/ Dispatch(c) PROVE WritersExclude' /\ HoldersDiffer'
  BY <1>5, KeysKept DEF Enter, Dispatch, EventStore!Dispatch, Working
<1>6. ASSUME NEW c \in Calls, Start(c) \/ Sleep(c) \/ GetExecution(c) \/ LookAtSession(c)
      PROVE  WritersExclude' /\ HoldersDiffer'
  BY <1>6, <1>a, KeysKept
     DEF Start, Sleep, GetExecution, Receive, LookAtSession, AfterLook, Working, TypeOK
<1>7. ASSUME NEW c \in Calls, EndAttempt(c) PROVE WritersExclude' /\ HoldersDiffer'
  BY <1>7, <1>a, KeysKept DEF EndAttempt, Working, TypeOK
<1>8. ASSUME NEW c \in Calls, TakeKey(c) PROVE WritersExclude' /\ HoldersDiffer'
  <2>1. CASE answer[c] # None /\ Free(answer[c])
    <3>1. /\ IdempotencyKey(answer[c]) \notin idem
          /\ idem' = idem \cup {IdempotencyKey(answer[c])}
          /\ pc' = [pc EXCEPT ![c] = "work"]
          /\ UNCHANGED <<log, handling, answer>>
      BY <1>8, <2>1 DEF TakeKey, Free
    <3>2. Working' = Working \cup {c} /\ RecordedKeys(log)' = RecordedKeys(log)
      BY <1>a, <3>1, LogKept DEF Working, TypeOK
    <3>3. \A d \in Working : /\ IdempotencyKey(answer[d]) \in idem \ RecordedKeys(log)
                             /\ \A p \in handling : IdempotencyKey(p) # IdempotencyKey(answer[d])
      BY DEF IInv, WritersExclude, Working
    <3>4. \A d \in Working' : IdempotencyKey(answer[d]) \in idem' \ RecordedKeys(log)
      BY <1>a, <3>1, <3>2, <3>3
    <3>5. \A p \in handling : IdempotencyKey(p) \in idem \ RecordedKeys(log)
      BY DEF IInv, WritersExclude
    <3>6. WritersExclude'
      BY <1>a, <3>1, <3>2, <3>3, <3>4, <3>5 DEF WritersExclude, Working
    <3>7. HoldersDiffer'
      BY <3>1, <3>2, <3>3 DEF IInv, HoldersDiffer
    <3> QED BY <3>6, <3>7
  <2>2. CASE ~(answer[c] # None /\ Free(answer[c]))
    BY <1>8, <1>a, <2>2, KeysKept DEF TakeKey, Working, TypeOK
  <2> QED BY <2>1, <2>2
<1>9. ASSUME NEW c \in Calls, RecordAnswer(c) PROVE WritersExclude' /\ HoldersDiffer'
  <2>1. c \in Working /\ answer[c] \in Payloads
    BY <1>9 DEF RecordAnswer, Working, IInv, WorkHasAnswer
  <2>2. RecordedKeys(log)' = RecordedKeys(log) \cup {IdempotencyKey(answer[c])}
    BY <1>9, <1>a, <2>1, RecordEffect DEF RecordAnswer
  <2>3. Working' = Working \ {c} /\ UNCHANGED <<idem, handling, answer>>
    BY <1>9, <1>a DEF RecordAnswer, Working, TypeOK
  <2> QED BY <2>1, <2>2, <2>3 DEF IInv, WritersExclude, HoldersDiffer, Working
<1>10. ASSUME NEW c \in Calls, FailPoll(c) PROVE WritersExclude' /\ HoldersDiffer'
  <2>1. RecordedKeys(log)' = RecordedKeys(log) /\ UNCHANGED handling
    BY <1>10, LogKept DEF FailPoll
  <2>2. /\ Working' = Working \ {c}
        /\ \A d \in Calls \ {c} : answer'[d] = answer[d]
    BY <1>10, <1>a DEF FailPoll, Retry, Retried, Working, TypeOK
  <2>3. CASE pc[c] = "look" /\ UNCHANGED idem
    BY <2>1, <2>2, <2>3 DEF IInv, WritersExclude, HoldersDiffer, Working
  <2>4. CASE pc[c] = "work" /\ idem' = idem \ {IdempotencyKey(answer[c])}
    BY <2>1, <2>2, <2>4 DEF IInv, WritersExclude, HoldersDiffer, Working
  <2> QED BY <1>10, <2>3, <2>4 DEF FailPoll, Released
<1>11. ASSUME NEW c \in Calls, OrphanKey(c) PROVE WritersExclude' /\ HoldersDiffer'
  BY <1>11, <1>a, KeysKept DEF OrphanKey, Retry, Retried, Working, TypeOK
<1>12. CASE UNCHANGED vars
  BY <1>12, KeysKept DEF vars, Working
<1> QED
  BY <1>1, <1>2, <1>3, <1>4, <1>5, <1>6, <1>7, <1>8, <1>9, <1>10, <1>11, <1>12 DEF Next, Poll

\* The invariant holds in every reachable state.
LEMMA IInvHolds == Spec => []IInv
<1>1. IInv /\ [Next]_vars => IInv'
  BY TypeStep, HoldersStep, ExclusionStep DEF IInv
<1> QED BY <1>1, InitInv, PTL DEF Spec

-----------------------------------------------------------------------------
\* Every reachable state of the webhook and the polling jobs is well typed: no
\* job makes more attempts or retries than its bounds allow.
THEOREM TypeCorrect == Spec => []TypeOK
<1>1. IInv => TypeOK
  BY DEF IInv
<1> QED BY <1>1, IInvHolds, PTL

\* Of the webhooks and the jobs that work on one event at a time one records
\* it, and what it holds is not recorded yet (ingestion.py:122), whatever
\* fails, dies or is retried.
THEOREM WritersAreExclusive == Spec => []WritersExclude
<1>1. IInv => WritersExclude
  BY DEF IInv
<1> QED BY <1>1, IInvHolds, PTL

-----------------------------------------------------------------------------
(* The job stops on an end that is known here.                             *)

\* Events that share a key are of one call, and both end it or neither does.
\* So it is with keys that are digests of the payload, and with identifiers
\* the provider gives to its events; not if payloads had the execution's own
\* identifier for theirs (ingestion.py:77).
KeysTellEnds ==
    \A p, q \in Payloads : IdempotencyKey(p) = IdempotencyKey(q) =>
        ExecutionId(p) = ExecutionId(q) /\ (Terminal(p) <=> Terminal(q))

EndKnown(c) ==
    \/ Ended(c) \/ c \in spoiled
    \/ \E p \in handling : Terminal(p) /\ ExecutionId(p) = c

\* A job is enqueued after the provider's id is committed.
Launched == \A c \in Calls : pc[c] # "absent" => c \in published

\* A terminal status comes from an event, and events are of their call.
EndsAreLogged == \A c \in Calls : status[c] \in TerminalStatuses => Ended(c)
RowsOwn == \A c \in Calls : \A i \in DOMAIN log[c] : ExecutionId(log[c][i]) = c
AnswersOwn == \A c \in Calls : answer[c] # None => ExecutionId(answer[c]) = c

\* A key that is taken stands for an event that is recorded, that somebody is
\* about to record, or whose run has failed.
Accounted(k) ==
    \/ k \in RecordedKeys(log)
    \/ \E p \in handling : IdempotencyKey(p) = k
    \/ \E c \in Working : IdempotencyKey(answer[c]) = k
    \/ \E p \in Payloads : IdempotencyKey(p) = k /\ ExecutionId(p) \in spoiled
KeysAccounted == \A k \in idem : Accounted(k)

\* The end that makes the job stop was known before it looks at the answer.
StopsKnowing == \A c \in Calls : pc[c] = "next" /\ StopsPolling(answer[c]) => EndKnown(c)

CallsInv == Launched /\ EndsAreLogged /\ RowsOwn /\ AnswersOwn /\ KeysAccounted
EndInv == CallsInv /\ StopsKnowing /\ StopsOnAnEnd

\* The job stops on statuses that end the call.
LEMMA StopIsTerminal ==
    ASSUME NEW p \in Payloads, StopsPolling(p)
    PROVE  Terminal(p)
BY PayloadAssumption DEF StopsPolling, Terminal, TerminalStatuses, SessionStatus, PayloadType

\* What is appended, and what stays.
LEMMA RecordRows ==
    ASSUME TypeOK, NEW p \in Payloads, EventStore!Record(p)
    PROVE  /\ ExecutionId(p) \in published
           /\ DOMAIN log' = Calls
           /\ \A c \in Calls : \A i \in DOMAIN log[c] :
                i \in DOMAIN log'[c] /\ log'[c][i] = log[c][i]
           /\ \A c \in Calls : \A i \in DOMAIN log'[c] :
                \/ i \in DOMAIN log[c] /\ log'[c][i] = log[c][i]
                \/ log'[c][i] = p /\ c = ExecutionId(p)
           /\ \E i \in DOMAIN log'[ExecutionId(p)] : log'[ExecutionId(p)][i] = p
           /\ \A c \in Calls : status'[c] # status[c] =>
                c = ExecutionId(p) /\ status'[c] = SessionStatus(p)
<1>1. PICK c \in Calls : c = ExecutionId(p) /\ c \in published
  BY SameFunctions DEF TypeOK, EventStore!Record
<1>2. log' = [log EXCEPT ![c] = Append(log[c], p)] /\ log \in [Calls -> Seq(Payloads)]
  BY <1>1, SameFunctions DEF TypeOK, EventStore!Record
<1>3. PICK n \in Nat : n = Len(log[c]) + 1
  BY <1>2
<1>4. log'[c] = Append(log[c], p) /\ log[c] \in Seq(Payloads)
  BY <1>2
<1>5. /\ DOMAIN log'[c] = DOMAIN log[c] \cup {n}
      /\ log'[c][n] = p /\ n \notin DOMAIN log[c]
      /\ \A i \in DOMAIN log[c] : log'[c][i] = log[c][i]
  BY <1>3, <1>4
<1>6. DOMAIN log' = Calls /\ \A d \in Calls \ {c} : log'[d] = log[d]
  BY <1>2
<1>7. \A d \in Calls : status'[d] # status[d] => d = c /\ status'[d] = SessionStatus(p)
  BY <1>1, SameFunctions DEF TypeOK, EventStore!Record
<1>8. \A d \in Calls : \A i \in DOMAIN log[d] : i \in DOMAIN log'[d] /\ log'[d][i] = log[d][i]
  BY <1>5, <1>6
<1>9. \A d \in Calls : \A i \in DOMAIN log'[d] :
         \/ i \in DOMAIN log[d] /\ log'[d][i] = log[d][i]
         \/ log'[d][i] = p /\ d = c
  BY <1>5, <1>6
<1>10. c = ExecutionId(p) /\ n \in DOMAIN log'[c] /\ log'[c][n] = p
  BY <1>1, <1>5
<1>11. \E i \in DOMAIN log'[ExecutionId(p)] : log'[ExecutionId(p)][i] = p
  BY <1>10
<1> QED BY <1>1, <1>6, <1>7, <1>8, <1>9, <1>11

\* What recording an event does to the end of a call.
LEMMA RecordEnds ==
    ASSUME TypeOK, NEW p \in Payloads, EventStore!Record(p)
    PROVE  /\ \A c \in Calls : Ended(c) => Ended(c)'
           /\ Terminal(p) => Ended(ExecutionId(p))'
           /\ EndsAreLogged => EndsAreLogged'
           /\ RowsOwn => RowsOwn'
<1>1. \A c \in Calls : Ended(c) => Ended(c)'
  BY RecordRows DEF Ended
<1>2. Terminal(p) => Ended(ExecutionId(p))'
  BY RecordRows DEF Ended
<1>3. EndsAreLogged => EndsAreLogged'
  <2> SUFFICES ASSUME EndsAreLogged, NEW c \in Calls, status'[c] \in TerminalStatuses
               PROVE  Ended(c)'
    BY DEF EndsAreLogged, TerminalStatuses
  <2>1. CASE status'[c] = status[c]
    BY <1>1, <2>1 DEF EndsAreLogged
  <2>2. CASE status'[c] # status[c]
    <3>1. c = ExecutionId(p) /\ Terminal(p)
      BY <2>2, RecordRows DEF Terminal
    <3>2. \E i \in DOMAIN log'[c] : log'[c][i] = p
      BY <3>1, RecordRows
    <3> QED BY <3>1, <3>2 DEF Ended
  <2> QED BY <2>1, <2>2
<1>4. RowsOwn => RowsOwn'
  BY RecordRows DEF RowsOwn
<1> QED BY <1>1, <1>2, <1>3, <1>4

\* A step that takes no key, gives none back and lets everybody keep his.
LEMMA AccountsKept ==
    ASSUME KeysAccounted, UNCHANGED <<log, idem, handling, spoiled>>,
           \A c \in Working : c \in Working' /\ answer'[c] = answer[c]
    PROVE  KeysAccounted'
BY LogKept DEF KeysAccounted, Accounted

\* Every step keeps each key of Redis accounted for.
LEMMA AccountsStep ==
    IInv /\ KeysAccounted /\ AnswersOwn /\ Launched /\ [Next]_vars => KeysAccounted'
<1> SUFFICES ASSUME IInv, KeysAccounted, AnswersOwn, Launched, [Next]_vars PROVE KeysAccounted'
  OBVIOUS
<1>a. TypeOK /\ WorkHasAnswer
  BY DEF IInv
<1> USE DEF ledgerVars, webhookVars, jobVars, Goto
<1>1. ASSUME NEW c \in Calls, Publish(c) PROVE KeysAccounted'
  <2>1. pc[c] = "absent"
    BY <1>1 DEF Publish, EventStore!Publish, Launched
  <2> QED
    BY <1>1, <1>a, <2>1, AccountsKept DEF Publish, EventStore!Publish, Working, TypeOK
<1>2. ASSUME NEW c \in Calls, ReceiveWebhook(c) PROVE KeysAccounted'
  <2>1. PICK p : /\ idem' = idem \cup {IdempotencyKey(p)}
                 /\ handling' = handling \cup {p}
    BY <1>2 DEF ReceiveWebhook
  <2>2. UNCHANGED <<log, pc, answer, spoiled>> /\ RecordedKeys(log)' = RecordedKeys(log)
    BY <1>2, LogKept DEF ReceiveWebhook
  <2> QED BY <2>1, <2>2 DEF KeysAccounted, Accounted, Working
<1>3. ASSUME NEW p \in Payloads, RecordWebhook(p) PROVE KeysAccounted'
  <2>1. RecordedKeys(log)' = RecordedKeys(log) \cup {IdempotencyKey(p)}
    BY <1>3, <1>a, RecordEffect DEF RecordWebhook
  <2>2. handling' = handling \ {p} /\ UNCHANGED <<idem, pc, answer, spoiled>>
    BY <1>3 DEF RecordWebhook
  <2> QED BY <2>1, <2>2 DEF KeysAccounted, Accounted, Working
<1>4. ASSUME NEW p \in Payloads, FailWebhook(p) PROVE KeysAccounted'
  <2>1. RecordedKeys(log)' = RecordedKeys(log)
    BY <1>4, LogKept DEF FailWebhook
  <2>2. /\ handling' = handling \ {p} /\ spoiled' = spoiled \cup {ExecutionId(p)}
        /\ UNCHANGED <<pc, answer>> /\ idem' \subseteq idem
    BY <1>4 DEF FailWebhook, Released
  <2> QED BY <2>1, <2>2 DEF KeysAccounted, Accounted, Working
<1>5. ASSUME NEW c \in Calls, Enter(c) \/ Dispatch(c) PROVE KeysAccounted'
  BY <1>5, AccountsKept DEF Enter, Dispatch, EventStore!Dispatch, Working
<1>6. ASSUME NEW c \in Calls, Start(c) \/ Sleep(c) \/ GetExecution(c) \/ LookAtSession(c)
      PROVE  KeysAccounted'
  BY <1>6, <1>a, AccountsKept
     DEF Start, Sleep, GetExecution, Receive, LookAtSession, AfterLook, Working, TypeOK
<1>7. ASSUME NEW c \in Calls, EndAttempt(c) PROVE KeysAccounted'
  BY <1>7, <1>a, AccountsKept DEF EndAttempt, Working, TypeOK
<1>8. ASSUME NEW c \in Calls, TakeKey(c) PROVE KeysAccounted'
  <2>1. CASE answer[c] # None /\ Free(answer[c])
    <3>1. /\ idem' = idem \cup {IdempotencyKey(answer[c])}
          /\ pc' = [pc EXCEPT ![c] = "work"]
          /\ UNCHANGED <<log, handling, answer, spoiled>>
      BY <1>8, <2>1 DEF TakeKey
    <3>2. Working' = Working \cup {c} /\ RecordedKeys(log)' = RecordedKeys(log)
      BY <1>a, <3>1, LogKept DEF Working, TypeOK
    <3> QED BY <3>1, <3>2 DEF KeysAccounted, Accounted
  <2>2. CASE ~(answer[c] # None /\ Free(answer[c]))
    BY <1>8, <1>a, <2>2, AccountsKept DEF TakeKey, Working, TypeOK
  <2> QED BY <2>1, <2>2
<1>9. ASSUME NEW c \in Calls, RecordAnswer(c) PROVE KeysAccounted'
  <2>1. c \in Working /\ answer[c] \in Payloads
    BY <1>9, <1>a DEF RecordAnswer, Working, WorkHasAnswer
  <2>2. RecordedKeys(log)' = RecordedKeys(log) \cup {IdempotencyKey(answer[c])}
    BY <1>9, <1>a, <2>1, RecordEffect DEF RecordAnswer
  <2>3. Working' = Working \ {c} /\ UNCHANGED <<idem, handling, answer, spoiled>>
    BY <1>9, <1>a DEF RecordAnswer, Working, TypeOK
  <2> QED BY <2>1, <2>2, <2>3 DEF KeysAccounted, Accounted
<1>10. ASSUME NEW c \in Calls, FailPoll(c) PROVE KeysAccounted'
  <2>1. RecordedKeys(log)' = RecordedKeys(log) /\ UNCHANGED <<handling, spoiled>>
    BY <1>10, LogKept DEF FailPoll
  <2>2. /\ Working' = Working \ {c}
        /\ \A d \in Calls \ {c} : answer'[d] = answer[d]
    BY <1>10, <1>a DEF FailPoll, Retry, Retried, Working, TypeOK
  <2>3. CASE pc[c] = "look" /\ UNCHANGED idem
    BY <2>1, <2>2, <2>3 DEF KeysAccounted, Accounted, Working
  <2>4. CASE idem' = idem \ {IdempotencyKey(answer[c])}
    BY <2>1, <2>2, <2>4 DEF KeysAccounted, Accounted, Working
  <2> QED BY <1>10, <2>3, <2>4 DEF FailPoll, Released
<1>11. ASSUME NEW c \in Calls, OrphanKey(c) PROVE KeysAccounted'
  <2>1. answer[c] \in Payloads /\ ExecutionId(answer[c]) = c
    BY <1>11, <1>a, NoneIsNoPayload DEF OrphanKey, AnswersOwn, WorkHasAnswer, Working
  <2>2. /\ RecordedKeys(log)' = RecordedKeys(log) /\ UNCHANGED <<handling, idem>>
        /\ spoiled' = spoiled \cup {c}
    BY <1>11, LogKept DEF OrphanKey
  <2>3. /\ Working' = Working \ {c}
        /\ \A d \in Calls \ {c} : answer'[d] = answer[d]
    BY <1>11, <1>a DEF OrphanKey, Retry, Retried, Working, TypeOK
  <2>4. ASSUME NEW d \in Working, d # c PROVE d \in Working' /\ answer'[d] = answer[d]
    BY <2>3, <2>4 DEF Working
  <2> QED BY <2>1, <2>2, <2>4 DEF KeysAccounted, Accounted
<1>12. CASE UNCHANGED vars
  BY <1>12, AccountsKept DEF vars, Working
<1> QED
  BY <1>1, <1>2, <1>3, <1>4, <1>5, <1>6, <1>7, <1>8, <1>9, <1>10, <1>11, <1>12 DEF Next, Poll

\* What is known of calls and answers stays true.
LEMMA CallsStep == IInv /\ CallsInv /\ [Next]_vars => CallsInv'
<1> SUFFICES ASSUME IInv, CallsInv, [Next]_vars PROVE CallsInv'
  OBVIOUS
<1>a. TypeOK /\ WorkHasAnswer /\ Launched /\ EndsAreLogged /\ RowsOwn /\ AnswersOwn
  BY DEF IInv, CallsInv
<1>b. KeysAccounted'
  BY AccountsStep DEF CallsInv
<1> DEFINE Known4 == Launched /\ EndsAreLogged /\ RowsOwn /\ AnswersOwn
<1> USE DEF ledgerVars, webhookVars, jobVars, Goto
<1>1. ASSUME NEW c \in Calls, Publish(c) PROVE Known4'
  BY <1>1, <1>a DEF Publish, EventStore!Publish, TypeOK, Launched, EndsAreLogged, RowsOwn,
                    AnswersOwn, Ended, TerminalStatuses
<1>2. ASSUME NEW p \in Payloads, RecordWebhook(p) PROVE Known4'
  BY <1>2, <1>a, RecordEnds, RecordEffect DEF RecordWebhook, Launched, AnswersOwn
<1>3. ASSUME NEW c \in Calls, RecordAnswer(c) PROVE Known4'
  <2>1. answer[c] \in Payloads /\ EventStore!Record(answer[c]) /\ UNCHANGED answer
    BY <1>3, <1>a DEF RecordAnswer, Working, WorkHasAnswer
  <2> QED BY <1>3, <1>a, <2>1, RecordEnds, RecordEffect DEF RecordAnswer, Launched, AnswersOwn, TypeOK
<1>4. ASSUME NEW c \in Calls, GetExecution(c) PROVE Known4'
  <2>1. ExecutionId(Answer[c][at[c]]) = c
    BY <1>a, LifeAssumption DEF TypeOK
  <2>2. Launched' /\ AnswersOwn'
    BY <1>4, <1>a, <2>1 DEF GetExecution, Receive, TypeOK, Launched, AnswersOwn
  <2> QED BY <1>4, <1>a, <2>2 DEF GetExecution, EndsAreLogged, RowsOwn, Ended
<1>5. ASSUME NEW c \in Calls, \/ Start(c) \/ Sleep(c) \/ LookAtSession(c) \/ TakeKey(c)
                              \/ EndAttempt(c) \/ FailPoll(c) \/ OrphanKey(c)
      PROVE  Known4'
  <2>1. UNCHANGED <<published, status, log>>
    BY <1>5 DEF Start, Sleep, LookAtSession, TakeKey, EndAttempt, FailPoll, OrphanKey
  <2>2. /\ \A d \in Calls : pc'[d] # "absent" => pc[d] # "absent"
        /\ \A d \in Calls : answer'[d] = answer[d] \/ answer'[d] = None
    BY <1>5, <1>a DEF Start, Sleep, LookAtSession, TakeKey, EndAttempt, FailPoll, OrphanKey,
                      Retry, TypeOK
  <2> QED BY <1>a, <2>1, <2>2 DEF Launched, EndsAreLogged, RowsOwn, AnswersOwn, Ended
<1>6. ASSUME UNCHANGED <<published, status, log, pc, answer>> PROVE Known4'
  BY <1>6, <1>a DEF Launched, EndsAreLogged, RowsOwn, AnswersOwn, Ended
<1>7. ASSUME NEW c \in Calls, Enter(c) \/ ReceiveWebhook(c) \/ Dispatch(c) PROVE Known4'
  BY <1>6, <1>7 DEF Enter, ReceiveWebhook, Dispatch, EventStore!Dispatch
<1>8. ASSUME NEW p \in Payloads, FailWebhook(p) PROVE Known4'
  BY <1>6, <1>8 DEF FailWebhook
<1>9. ASSUME UNCHANGED vars PROVE Known4'
  BY <1>6, <1>9 DEF vars
<1>10. Known4'
  BY <1>1, <1>2, <1>3, <1>4, <1>5, <1>7, <1>8, <1>9 DEF Next, Poll
<1> QED BY <1>b, <1>10 DEF CallsInv

\* What is said of calls and their jobs holds in every reachable state.
LEMMA CallsInvHold == Spec => []CallsInv
<1>1. Init => CallsInv
  BY DEF Init, EventStore!Init, CallsInv, Launched, EndsAreLogged, RowsOwn, AnswersOwn,
         KeysAccounted, TerminalStatuses
<1> QED BY <1>1, CallsStep, IInvHolds, PTL DEF Spec

\* An end that is known stays known: the webhook that holds it records it or fails.
LEMMA EndStaysKnown ==
    ASSUME IInv, [Next]_vars, NEW c \in Calls, EndKnown(c)
    PROVE  EndKnown(c)'
<1>a. TypeOK /\ WorkHasAnswer
  BY DEF IInv
<1> USE DEF ledgerVars, webhookVars, jobVars
<1>1. ASSUME NEW p \in Payloads, RecordWebhook(p) PROVE EndKnown(c)'
  <2>1. handling' = handling \ {p} /\ UNCHANGED spoiled /\ EventStore!Record(p)
    BY <1>1 DEF RecordWebhook
  <2>2. Ended(c) => Ended(c)'
    BY <1>a, <2>1, RecordEnds
  <2>3. Terminal(p) /\ ExecutionId(p) = c => Ended(c)'
    <3> SUFFICES ASSUME Terminal(p), ExecutionId(p) = c PROVE Ended(c)'
      OBVIOUS
    <3>1. \E i \in DOMAIN log'[c] : log'[c][i] = p
      BY <1>a, <2>1, RecordRows
    <3> QED BY <3>1 DEF Ended
  <2> QED BY <2>1, <2>2, <2>3 DEF EndKnown
<1>2. ASSUME NEW p \in Payloads, FailWebhook(p) PROVE EndKnown(c)'
  <2>1. /\ handling' = handling \ {p} /\ spoiled' = spoiled \cup {ExecutionId(p)}
        /\ UNCHANGED log
    BY <1>2 DEF FailWebhook
  <2>2. Ended(c) => Ended(c)'
    BY <2>1 DEF Ended
  <2> QED BY <2>1, <2>2 DEF EndKnown
<1>3. ASSUME NEW d \in Calls, RecordAnswer(d) PROVE EndKnown(c)'
  <2>1. answer[d] \in Payloads /\ EventStore!Record(answer[d])
    BY <1>3, <1>a DEF RecordAnswer, Working, WorkHasAnswer
  <2>2. Ended(c) => Ended(c)'
    BY <1>a, <2>1, RecordEnds
  <2> QED BY <1>3, <2>2 DEF RecordAnswer, EndKnown
<1>4. ASSUME UNCHANGED log, spoiled \subseteq spoiled', handling \subseteq handling' PROVE EndKnown(c)'
  BY <1>4 DEF EndKnown, Ended
<1>5. ASSUME NEW d \in Calls, \/ Publish(d) \/ Enter(d) \/ ReceiveWebhook(d) \/ Dispatch(d)
      PROVE  EndKnown(c)'
  BY <1>4, <1>5 DEF Publish, EventStore!Publish, Enter, ReceiveWebhook, Dispatch, EventStore!Dispatch
<1>6. ASSUME NEW d \in Calls, \/ Start(d) \/ Sleep(d) \/ GetExecution(d) \/ LookAtSession(d)
                              \/ TakeKey(d) \/ EndAttempt(d) \/ FailPoll(d) \/ OrphanKey(d)
      PROVE  EndKnown(c)'
  BY <1>4, <1>6 DEF Start, Sleep, GetExecution, LookAtSession, TakeKey, EndAttempt, FailPoll,
                    OrphanKey
<1>7. ASSUME UNCHANGED vars PROVE EndKnown(c)'
  BY <1>4, <1>7 DEF vars
<1> QED BY <1>1, <1>2, <1>3, <1>5, <1>6, <1>7 DEF Next, Poll

\* The key of an end is taken by an event that ends the same call.
LEMMA TakenEndIsKnown ==
    ASSUME IInv, CallsInv, KeysTellEnds, NEW c \in Calls, pc[c] = "check",
           answer[c] \in Payloads, Terminal(answer[c]), ~Free(answer[c])
    PROVE  EndKnown(c)
<1>1. PICK k : k = IdempotencyKey(answer[c]) /\ Accounted(k)
  BY DEF CallsInv, KeysAccounted, Free
<1>2. ExecutionId(answer[c]) = c
  BY NoneIsNoPayload DEF CallsInv, AnswersOwn
<1>3. ASSUME NEW p \in Payloads, IdempotencyKey(p) = k PROVE ExecutionId(p) = c /\ Terminal(p)
  BY <1>1, <1>2, <1>3 DEF KeysTellEnds
<1>4. CASE k \in RecordedKeys(log)
  <2>1. PICK d \in Calls : \E i \in DOMAIN log[d] : IdempotencyKey(log[d][i]) = k
    BY <1>4 DEF RecordedKeys, IInv, TypeOK
  <2>2. PICK i \in DOMAIN log[d] : IdempotencyKey(log[d][i]) = k
    BY <2>1
  <2>3. log[d][i] \in Payloads /\ ExecutionId(log[d][i]) = d
    <3>1. log[d] \in Seq(Payloads)
      BY DEF IInv, TypeOK
    <3> QED BY <3>1 DEF CallsInv, RowsOwn
  <2> QED BY <1>3, <2>2, <2>3 DEF EndKnown, Ended
<1>5. CASE \E p \in handling : IdempotencyKey(p) = k
  BY <1>3, <1>5 DEF EndKnown, IInv, TypeOK
<1>6. CASE \E d \in Working : IdempotencyKey(answer[d]) = k
  <2>1. PICK d \in Working : IdempotencyKey(answer[d]) = k
    BY <1>6
  <2>2. answer[d] \in Payloads /\ d \in Calls /\ pc[d] = "work"
    BY <2>1 DEF IInv, WorkHasAnswer, Working
  <2>3. ExecutionId(answer[d]) = d
    BY <2>2, NoneIsNoPayload DEF CallsInv, AnswersOwn
  <2> QED BY <1>3, <2>1, <2>2, <2>3
<1>7. CASE \E p \in Payloads : IdempotencyKey(p) = k /\ ExecutionId(p) \in spoiled
  BY <1>3, <1>7 DEF EndKnown
<1> QED BY <1>1, <1>4, <1>5, <1>6, <1>7 DEF Accounted

\* Every step that stops a job leaves the end known.
LEMMA StopsStep ==
    ASSUME KeysTellEnds
    PROVE  IInv /\ EndInv /\ [Next]_vars => StopsKnowing' /\ StopsOnAnEnd'
<1> SUFFICES ASSUME IInv, EndInv, [Next]_vars, NEW c \in Calls
             PROVE  /\ (pc[c] = "next" /\ StopsPolling(answer[c]) => EndKnown(c))'
                    /\ (pc[c] = "stopped" => EndKnown(c))'
  BY DEF StopsKnowing, StopsOnAnEnd, EndKnown
<1> DEFINE Knowing == /\ pc[c] = "next" /\ StopsPolling(answer[c]) => EndKnown(c)
                      /\ pc[c] = "stopped" => EndKnown(c)
<1>a. TypeOK /\ WorkHasAnswer /\ CallsInv /\ Knowing
  BY DEF IInv, EndInv, StopsKnowing, StopsOnAnEnd, EndKnown
<1>b. EndKnown(c) => EndKnown(c)'
  BY EndStaysKnown
<1> USE DEF Goto, webhookVars, jobVars
<1>1. ASSUME UNCHANGED <<pc[c], answer[c]>> PROVE Knowing'
  BY <1>1, <1>a, <1>b
<1>2. ASSUME Start(c) PROVE Knowing'
  BY <1>2, <1>a DEF Start, TypeOK, CallsInv, Launched
<1>3. ASSUME Sleep(c) \/ GetExecution(c) PROVE Knowing'
  BY <1>3, <1>a, <1>b DEF Sleep, GetExecution, Receive, TypeOK
<1>4. ASSUME LookAtSession(c) PROVE Knowing'
  <2>1. CASE status[c] \in TerminalStatuses
    <3>1. EndKnown(c)
      BY <1>a, <2>1 DEF CallsInv, EndsAreLogged, EndKnown
    <3> QED BY <1>b, <3>1
  <2>2. CASE status[c] \notin TerminalStatuses
    BY <1>4, <1>a, <2>2 DEF LookAtSession, AfterLook, TypeOK
  <2> QED BY <2>1, <2>2
<1>5. ASSUME TakeKey(c) PROVE Knowing'
  <2>1. pc[c] = "check" /\ pc'[c] \in {"work", "next"} /\ answer' = answer
    BY <1>5, <1>a DEF TakeKey, TypeOK
  <2>2. CASE StopsPolling(answer[c]) /\ ~Free(answer[c])
    <3>1. answer[c] \in Payloads
      BY <1>a, <2>2 DEF StopsPolling, TypeOK
    <3>2. EndKnown(c)
      BY <1>a, <2>1, <2>2, <3>1, StopIsTerminal, TakenEndIsKnown
    <3> QED BY <1>b, <3>2
  <2>3. CASE StopsPolling(answer[c]) /\ Free(answer[c])
    <3>1. pc'[c] = "work"
      BY <1>5, <1>a, <2>3 DEF TakeKey, TypeOK, StopsPolling
    <3> QED BY <3>1
  <2>4. CASE ~StopsPolling(answer[c])
    BY <2>1, <2>4
  <2> QED BY <2>2, <2>3, <2>4
<1>6. ASSUME RecordAnswer(c) PROVE Knowing'
  <2>1. answer[c] \in Payloads /\ EventStore!Record(answer[c]) /\ answer' = answer /\ pc'[c] = "next"
    BY <1>6, <1>a DEF RecordAnswer, Working, WorkHasAnswer, TypeOK
  <2>2. ExecutionId(answer[c]) = c
    BY <1>a, <2>1, NoneIsNoPayload DEF CallsInv, AnswersOwn
  <2>3. ASSUME StopsPolling(answer[c]) PROVE EndKnown(c)'
    <3>1. Terminal(answer[c])
      BY <2>1, <2>3, StopIsTerminal
    <3>2. \E i \in DOMAIN log'[c] : log'[c][i] = answer[c]
      BY <1>a, <2>1, <2>2, RecordRows
    <3> QED BY <3>1, <3>2 DEF EndKnown, Ended
  <2> QED BY <2>1, <2>3
<1>7. ASSUME EndAttempt(c) PROVE Knowing'
  <2>1. CASE StopsPolling(answer[c])
    BY <1>7, <1>a, <1>b, <2>1 DEF EndAttempt
  <2>2. CASE ~StopsPolling(answer[c])
    BY <1>7, <1>a, <2>2 DEF EndAttempt, TypeOK
  <2> QED BY <2>1, <2>2
<1>8. ASSUME FailPoll(c) \/ OrphanKey(c) PROVE Knowing'
  <2>1. pc'[c] \in {"queued", "dead"}
    BY <1>8, <1>a DEF FailPoll, OrphanKey, Retry, Retried, TypeOK
  <2> QED BY <2>1
<1>9. ASSUME NEW d \in Calls, d # c, Publish(d) \/ Poll(d) PROVE Knowing'
  <2>1. UNCHANGED <<pc[c], answer[c]>>
    BY <1>9, <1>a DEF Publish, Poll, Start, Sleep, GetExecution, Receive, LookAtSession, TakeKey,
         RecordAnswer, EndAttempt, FailPoll, OrphanKey, Retry, TypeOK
  <2> QED BY <1>1, <2>1
<1>10. ASSUME Publish(c) PROVE Knowing'
  <2>1. pc[c] = "absent"
    BY <1>10, <1>a DEF Publish, EventStore!Publish, CallsInv, Launched
  <2> QED BY <1>10, <1>a, <2>1 DEF Publish, TypeOK
<1>11. ASSUME NEW d \in Calls, Enter(d) \/ ReceiveWebhook(d) \/ Dispatch(d) PROVE Knowing'
  BY <1>1, <1>11 DEF Enter, ReceiveWebhook, Dispatch
<1>12. ASSUME NEW p \in Payloads, RecordWebhook(p) \/ FailWebhook(p) PROVE Knowing'
  BY <1>1, <1>12 DEF RecordWebhook, FailWebhook
<1>13. ASSUME UNCHANGED vars PROVE Knowing'
  BY <1>1, <1>13 DEF vars
<1>14. Knowing'
  BY <1>2, <1>3, <1>4, <1>5, <1>6, <1>7, <1>8, <1>9, <1>10, <1>11, <1>12, <1>13 DEF Next, Poll
<1> QED BY <1>14

(* A job that stops leaves a call that has ended, or will by a webhook, or *)
(* one whose webhook has failed: whatever is early, late, lost or repeated *)
(* and whatever the actor's retries do (tasks.py:59-105).  The safety in   *)
(* ReportedEndIsRecorded.                                                  *)
THEOREM JobsStopOnAnEnd ==
    ASSUME KeysTellEnds
    PROVE  Spec => []StopsOnAnEnd
<1>1. Init => EndInv
  BY DEF Init, EventStore!Init, EndInv, CallsInv, Launched, EndsAreLogged, RowsOwn, AnswersOwn,
         KeysAccounted, StopsKnowing, StopsOnAnEnd, TerminalStatuses
<1>2. IInv /\ EndInv /\ [Next]_vars => EndInv'
  BY CallsStep, StopsStep DEF EndInv
<1>3. EndInv => StopsOnAnEnd
  BY DEF EndInv
<1> QED BY <1>1, <1>2, <1>3, IInvHolds, PTL DEF Spec

-----------------------------------------------------------------------------
(* No job goes on for ever.                                                *)

\* How far an attempt of the job has come.
Place(step) ==
    CASE step = "sleep" -> 1 [] step = "ask"  -> 2 [] step = "look" -> 3
      [] step = "check" -> 4 [] step = "work" -> 5 [] step = "next" -> 6
      [] OTHER -> 0

\* The job of a call goes on: within an attempt, to the next attempt, to the
\* next delivery of its message, or to its end, which it does not leave.  All
\* of these are bounded.
GoesOn(c) ==
    \/ pc[c] = "absent" /\ pc'[c] = "queued"
    \/ pc[c] \notin Finished /\ pc'[c] \in Finished
    \/ pc[c] \notin Finished /\ tries'[c] > tries[c]
    \/ /\ pc[c] \notin Finished /\ tries'[c] = tries[c]
       /\ \/ pc[c] = "queued" /\ pc'[c] = "sleep"
          \/ pc'[c] # "queued" /\ attempt'[c] > attempt[c]
          \/ pc'[c] # "queued" /\ attempt'[c] = attempt[c] /\ Place(pc'[c]) > Place(pc[c])
          \/ UNCHANGED <<pc[c], attempt[c]>> /\ backoff'[c] > backoff[c]

JobsGoOn == [][\A c \in Calls : GoesOn(c) \/ UNCHANGED <<pc[c], attempt[c], tries[c], backoff[c]>>]_vars

\* A step of one call's job leaves the jobs of the others.
LEMMA OthersStay ==
    ASSUME TypeOK, NEW c \in Calls, NEW d \in Calls, d # c, Publish(d) \/ Poll(d)
    PROVE  UNCHANGED <<pc[c], attempt[c], tries[c], backoff[c]>>
BY DEF Publish, Poll, Start, Sleep, GetExecution, Receive, LookAtSession, TakeKey, RecordAnswer,
       EndAttempt, FailPoll, OrphanKey, Retry, TypeOK, Goto, jobVars

(* Every step of a job takes it on, and none takes it back: to the end of  *)
(* the attempt, to the next of MaxAttempts, to the next of MaxTries        *)
(* deliveries (tasks.py:45-113), or through the answers 429.  The safety   *)
(* in PollingEnds; what is left to fairness is that its steps are taken.   *)
THEOREM JobsAlwaysGoOn == Spec => JobsGoOn
<1>1. ASSUME TypeOK, Launched, [Next]_vars, NEW c \in Calls
      PROVE  GoesOn(c) \/ UNCHANGED <<pc[c], attempt[c], tries[c], backoff[c]>>
  <2>a. /\ attempt[c] \in Nat /\ tries[c] \in Nat /\ backoff[c] \in Nat
        /\ MaxTries \in Nat
    <3>1. attempt[c] \in 0 .. MaxAttempts /\ tries[c] \in 0 .. MaxTries /\ backoff[c] \in 0 .. 3
      BY <1>1 DEF TypeOK
    <3> QED BY <3>1, BoundAssumption
  <2> DEFINE On == GoesOn(c) \/ UNCHANGED <<pc[c], attempt[c], tries[c], backoff[c]>>
  <2> USE DEF Goto, jobVars
  <2>1. ASSUME Publish(c) PROVE On
    <3>1. pc[c] = "absent"
      BY <1>1, <2>1 DEF Publish, EventStore!Publish, Launched
    <3> QED BY <1>1, <2>1, <3>1 DEF Publish, TypeOK, GoesOn
  <2>2. ASSUME Start(c) PROVE On
    BY <1>1, <2>2 DEF Start, TypeOK, GoesOn, Finished
  <2>3. ASSUME Sleep(c) \/ LookAtSession(c) \/ TakeKey(c) \/ RecordAnswer(c) PROVE On
    <3>1. /\ UNCHANGED <<attempt, tries, backoff>>
          /\ \/ pc[c] = "sleep" /\ pc'[c] = "ask"
             \/ pc[c] = "look" /\ pc'[c] \in {"check", "stopped"}
             \/ pc[c] = "check" /\ pc'[c] \in {"work", "next"}
             \/ pc[c] = "work" /\ pc'[c] = "next"
      BY <1>1, <2>3 DEF Sleep, LookAtSession, AfterLook, TakeKey, RecordAnswer, TypeOK
    <3> QED BY <3>1 DEF GoesOn, Finished, Place
  <2>4. ASSUME GetExecution(c) PROVE On
    <3>1. /\ UNCHANGED <<attempt, tries>> /\ pc[c] = "ask"
          /\ \/ pc'[c] = "look"
             \/ pc'[c] = "ask" /\ backoff'[c] = backoff[c] + 1
      BY <1>1, <2>4 DEF GetExecution, Receive, TypeOK
    <3> QED BY <2>a, <3>1 DEF GoesOn, Finished, Place
  <2>5. ASSUME EndAttempt(c) PROVE On
    <3>1. /\ UNCHANGED tries /\ pc[c] = "next"
          /\ \/ pc'[c] = "sleep" /\ attempt'[c] = attempt[c] + 1
             \/ pc'[c] \in Finished
      BY <1>1, <2>5 DEF EndAttempt, TypeOK, Finished
    <3> QED BY <2>a, <3>1 DEF GoesOn, Finished
  <2>6. ASSUME FailPoll(c) \/ OrphanKey(c) PROVE On
    <3>1. /\ pc[c] \in {"look", "work"}
          /\ IF tries[c] < MaxTries THEN tries'[c] = tries[c] + 1 ELSE pc'[c] = "dead"
      BY <1>1, <2>6 DEF FailPoll, OrphanKey, Retry, Retried, TypeOK
    <3> QED BY <2>a, <3>1 DEF GoesOn, Finished
  <2>7. ASSUME NEW d \in Calls, d # c, Publish(d) \/ Poll(d) PROVE On
    BY <1>1, <2>7, OthersStay
  <2>8. ASSUME UNCHANGED jobVars PROVE On
    BY <2>8
  <2>9. ASSUME NEW d \in Calls, Enter(d) \/ ReceiveWebhook(d) \/ Dispatch(d) PROVE On
    BY <2>8, <2>9 DEF Enter, ReceiveWebhook, Dispatch
  <2>10. ASSUME NEW p \in Payloads, RecordWebhook(p) \/ FailWebhook(p) PROVE On
    BY <2>8, <2>10 DEF RecordWebhook, FailWebhook
  <2>11. ASSUME UNCHANGED vars PROVE On
    BY <2>8, <2>11 DEF vars
  <2>12. On
    BY <1>1, <2>1, <2>2, <2>3, <2>4, <2>5, <2>6, <2>7, <2>9, <2>10, <2>11 DEF Next, Poll
  <2> QED BY <2>12
<1>2. TypeOK /\ Launched /\ [Next]_vars =>
        [\A c \in Calls : GoesOn(c) \/ UNCHANGED <<pc[c], attempt[c], tries[c], backoff[c]>>]_vars
  BY <1>1
<1>3. CallsInv => Launched
  BY DEF CallsInv
<1> QED BY <1>2, <1>3, TypeCorrect, CallsInvHold, PTL DEF Spec, JobsGoOn

-----------------------------------------------------------------------------
(* The webhook and the job together implement the ledger of events.        *)

(* Through two paths into process_bolna_event, with an execution that is   *)
(* reported twice and a job that is retried, each provider event is        *)
(* recorded at most once, with its status and transcript, and the pipeline *)
(* is started once: what EventLedger says and Ingestion implements for     *)
(* handlers of one path.                                                   *)
THEOREM ImplementsLedger == Spec => EventStore!Spec
<1>1. Init => EventStore!Init
  BY DEF Init
<1>2. IInv /\ [Next]_vars => [EventStore!Next]_(EventStore!vars)
  <2> SUFFICES ASSUME IInv, [Next]_vars PROVE EventStore!Next \/ UNCHANGED EventStore!vars
    OBVIOUS
  <2> USE DEF EventStore!Next, EventStore!vars, ledgerVars
  <2>1. ASSUME NEW c \in Calls, Publish(c) \/ Dispatch(c) PROVE EventStore!Next
    BY <2>1 DEF Publish, Dispatch
  <2>2. ASSUME NEW p \in Payloads, RecordWebhook(p) PROVE EventStore!Next
    BY <2>2 DEF RecordWebhook
  <2>3. ASSUME NEW c \in Calls, RecordAnswer(c) PROVE EventStore!Next
    <3>1. answer[c] \in Payloads
      BY <2>3 DEF IInv, WorkHasAnswer, Working, RecordAnswer
    <3> QED BY <2>3, <3>1 DEF RecordAnswer
  <2>4. ASSUME NEW c \in Calls, \/ Enter(c) \/ ReceiveWebhook(c) \/ Start(c) \/ Sleep(c)
                                \/ GetExecution(c) \/ LookAtSession(c) \/ TakeKey(c)
                                \/ EndAttempt(c) \/ FailPoll(c) \/ OrphanKey(c)
        PROVE  UNCHANGED EventStore!vars
    BY <2>4 DEF Enter, ReceiveWebhook, Start, Sleep, GetExecution, LookAtSession, TakeKey,
                EndAttempt, FailPoll, OrphanKey
  <2>5. ASSUME NEW p \in Payloads, FailWebhook(p) PROVE UNCHANGED EventStore!vars
    BY <2>5 DEF FailWebhook
  <2>6. ASSUME UNCHANGED vars PROVE UNCHANGED EventStore!vars
    BY <2>6 DEF vars
  <2> QED BY <2>1, <2>2, <2>3, <2>4, <2>5, <2>6 DEF Next, Poll
<1> QED BY <1>1, <1>2, IInvHolds, PTL DEF Spec, EventStore!Spec

-----------------------------------------------------------------------------
(* What the ledger promises, whoever implements it: an argument about its  *)
(* steps alone.                                                            *)

EventsOnce ==
    \A c, d \in Calls : \A i \in DOMAIN log[c], j \in DOMAIN log[d] :
        IdempotencyKey(log[c][i]) = IdempotencyKey(log[d][j]) => c = d /\ i = j

TurnsFromEvents ==
    \A c \in Calls : c \in utterances <=> \E i \in DOMAIN log[c] : CarriesTranscript(log[c][i])

StartedFromTurns == \A c \in Calls : jobs[c] = 1 => c \in utterances

\* The status is the last known event's; before there is one, the call's own.
StatusIsLast ==
    \A c \in Calls :
        \/ \E i \in DOMAIN log[c] :
             /\ Known(log[c][i]) /\ status[c] = SessionStatus(log[c][i])
             /\ \A j \in DOMAIN log[c] : Known(log[c][j]) => j <= i
        \/ /\ \A i \in DOMAIN log[c] : ~Known(log[c][i])
           /\ status[c] = IF c \in published THEN "queued" ELSE "initiating"

QuietUntilPublished == \A c \in Calls : c \notin published => DOMAIN log[c] = {}

Promises == EventsOnce /\ TurnsFromEvents /\ StartedFromTurns /\ StatusIsLast

LedgerInv == Promises /\ QuietUntilPublished

\* Recording an event keeps what the ledger promises.
LEMMA RecordPromises ==
    ASSUME TypeOK, LedgerInv, NEW p \in Payloads, EventStore!Record(p)
    PROVE  LedgerInv'
<1>1. PICK c \in Calls : c = ExecutionId(p) /\ c \in published
  BY SameFunctions DEF TypeOK, EventStore!Record
<1>2. /\ IdempotencyKey(p) \notin RecordedKeys(log)
      /\ log' = [log EXCEPT ![c] = Append(log[c], p)] /\ log \in [Calls -> Seq(Payloads)]
      /\ status' = IF Known(p) THEN [status EXCEPT ![c] = SessionStatus(p)] ELSE status
      /\ utterances' = IF CarriesTranscript(p) THEN utterances \cup {c} ELSE utterances
      /\ UNCHANGED <<published, jobs>>
  BY <1>1, SameFunctions DEF TypeOK, EventStore!Record
<1>3. PICK n \in Nat : n = Len(log[c]) + 1
  BY <1>2
<1>4. log'[c] = Append(log[c], p) /\ log[c] \in Seq(Payloads)
  BY <1>2
<1>5. /\ DOMAIN log'[c] = DOMAIN log[c] \cup {n}
      /\ log'[c][n] = p /\ n \notin DOMAIN log[c]
      /\ \A i \in DOMAIN log[c] : log'[c][i] = log[c][i] /\ i <= n
      /\ n <= n
  BY <1>3, <1>4
<1>6. \A d \in Calls \ {c} : log'[d] = log[d] /\ status'[d] = status[d]
  BY <1>2 DEF TypeOK
<1>7. status'[c] = IF Known(p) THEN SessionStatus(p) ELSE status[c]
  BY <1>2 DEF TypeOK
<1>8. \A d \in Calls : \A i \in DOMAIN log[d] : IdempotencyKey(log[d][i]) # IdempotencyKey(p)
  BY <1>2 DEF RecordedKeys
<1>9. EventsOnce'
  <2> SUFFICES ASSUME NEW d \in Calls, NEW e \in Calls,
                      NEW i \in DOMAIN log'[d], NEW j \in DOMAIN log'[e],
                      IdempotencyKey(log'[d][i]) = IdempotencyKey(log'[e][j])
               PROVE  d = e /\ i = j
    BY DEF EventsOnce
  <2>1. \/ i \in DOMAIN log[d] /\ log'[d][i] = log[d][i]
        \/ d = c /\ i = n /\ log'[d][i] = p
    BY <1>5, <1>6
  <2>2. \/ j \in DOMAIN log[e] /\ log'[e][j] = log[e][j]
        \/ e = c /\ j = n /\ log'[e][j] = p
    BY <1>5, <1>6
  <2> QED BY <1>8, <2>1, <2>2 DEF LedgerInv, Promises, EventsOnce
<1>10. TurnsFromEvents'
  BY <1>2, <1>5, <1>6 DEF LedgerInv, Promises, TurnsFromEvents
<1>11. StartedFromTurns'
  BY <1>2 DEF LedgerInv, Promises, StartedFromTurns
<1>12. StatusIsLast'
  <2> SUFFICES ASSUME NEW d \in Calls
               PROVE  \/ \E i \in DOMAIN log'[d] :
                           /\ Known(log'[d][i]) /\ status'[d] = SessionStatus(log'[d][i])
                           /\ \A j \in DOMAIN log'[d] : Known(log'[d][j]) => j <= i
                      \/ /\ \A i \in DOMAIN log'[d] : ~Known(log'[d][i])
                         /\ status'[d] = IF d \in published THEN "queued" ELSE "initiating"
    BY <1>2 DEF StatusIsLast
  <2>1. CASE d # c
    BY <1>6, <2>1 DEF LedgerInv, Promises, StatusIsLast
  <2>2. CASE d = c /\ Known(p)
    BY <1>5, <1>7, <2>2
  <2>3. CASE d = c /\ ~Known(p)
    BY <1>5, <1>7, <2>3 DEF LedgerInv, Promises, StatusIsLast
  <2> QED BY <2>1, <2>2, <2>3
<1>13. QuietUntilPublished'
  BY <1>1, <1>2, <1>6 DEF LedgerInv, QuietUntilPublished
<1> QED BY <1>9, <1>10, <1>11, <1>12, <1>13 DEF LedgerInv, Promises

\* A step of the ledger keeps what it promises.
LEMMA PromisesKept == TypeOK /\ LedgerInv /\ [EventStore!Next]_(EventStore!vars) => LedgerInv'
<1> SUFFICES ASSUME TypeOK, LedgerInv, [EventStore!Next]_(EventStore!vars) PROVE LedgerInv'
  OBVIOUS
<1> USE DEF LedgerInv, Promises, EventsOnce, TurnsFromEvents, StartedFromTurns, StatusIsLast,
            QuietUntilPublished
<1>1. ASSUME NEW p \in Payloads, EventStore!Record(p) PROVE LedgerInv'
  BY <1>1, RecordPromises
<1>2. ASSUME NEW c \in Calls, EventStore!Publish(c) PROVE LedgerInv'
  <2>1. /\ c \notin published /\ published' = published \cup {c}
        /\ status'[c] = "queued" /\ \A d \in Calls \ {c} : status'[d] = status[d]
        /\ UNCHANGED <<log, utterances, jobs>>
    BY <1>2 DEF EventStore!Publish, TypeOK
  <2>2. StatusIsLast'
    BY <2>1
  <2> QED BY <2>1, <2>2
<1>3. ASSUME NEW c \in Calls, EventStore!Dispatch(c) PROVE LedgerInv'
  BY <1>3 DEF EventStore!Dispatch, TypeOK
<1>4. CASE UNCHANGED EventStore!vars
  BY <1>4 DEF EventStore!vars
<1> QED BY <1>1, <1>2, <1>3, <1>4 DEF EventStore!Next

(* Between the polling job and the webhooks each event of a call takes     *)
(* effect once, the row has the status of the last of them, the transcript *)
(* is there when an end brought one, and the pipeline starts from it alone *)
(* (ingestion.py:112-313, tasks.py:76): consequences of the refinement.    *)
THEOREM CallsAreTold == Spec => []Promises
<1>1. Init => LedgerInv
  BY DEF Init, EventStore!Init, LedgerInv, Promises, EventsOnce, TurnsFromEvents,
         StartedFromTurns, StatusIsLast, QuietUntilPublished
<1>2. LedgerInv => Promises
  BY DEF LedgerInv
<1> QED BY <1>1, <1>2, PromisesKept, TypeCorrect, ImplementsLedger, PTL DEF Spec, EventStore!Spec
-----------------------------------------------------------------------------
(* The webhook and the job keep the protocol of the keys.                  *)

\* The functions of a payload that Guard has are those of BolnaEvents.
LEMMA GuardFunctions ==
    /\ \A p : /\ Guard!ExecutionId(p) = ExecutionId(p)
              /\ Guard!IdempotencyKey(p) = IdempotencyKey(p)
              /\ Guard!SessionStatus(p) = SessionStatus(p)
              /\ Guard!Known(p) = Known(p)
              /\ Guard!CarriesTranscript(p) = CarriesTranscript(p)
    /\ Guard!Keys = Keys
<1>1. \A p : Guard!ExecutionId(p) = ExecutionId(p)
  BY DEF Guard!ExecutionId, ExecutionId
<1>2. \A p : Guard!IdempotencyKey(p) = IdempotencyKey(p)
  BY DEF Guard!IdempotencyKey, IdempotencyKey
<1>3. \A p : Guard!SessionStatus(p) = SessionStatus(p)
  BY DEF Guard!SessionStatus, SessionStatus
<1>4. \A p : Guard!Known(p) = Known(p)
  BY <1>3 DEF Guard!Known, Known
<1>5. \A p : Guard!CarriesTranscript(p) = CarriesTranscript(p)
  BY <1>3 DEF Guard!CarriesTranscript, CarriesTranscript, Guard!Terminal, Terminal,
              Guard!TerminalStatuses, TerminalStatuses
<1>6. Guard!Keys = Keys
  BY <1>2 DEF Guard!Keys, Keys
<1> QED BY <1>1, <1>2, <1>3, <1>4, <1>5, <1>6

\* The payloads whose keys are held, and the keys.
InHand == handling \cup {answer[c] : c \in Working}
Held == {IdempotencyKey(p) : p \in InHand}

\* One payload is let go, and its key with it: no other in hand has the key.
LEMMA LetGo ==
    ASSUME IInv, NEW c \in Calls, NEW p \in Payloads,
           \/ p \in handling /\ handling' = handling \ {p} /\ UNCHANGED <<pc, answer>>
           \/ /\ c \in Working /\ p = answer[c] /\ Working' = Working \ {c}
              /\ \A d \in Calls \ {c} : answer'[d] = answer[d]
              /\ handling' = handling
    PROVE  IdempotencyKey(p) \in Held /\ Held' = Held \ {IdempotencyKey(p)}
<1>1. IdempotencyKey(p) \in Held
  BY DEF Held, InHand
<1>2. CASE p \in handling /\ handling' = handling \ {p} /\ UNCHANGED <<pc, answer>>
  <2>1. Working' = Working
    BY <1>2 DEF Working
  <2>2. /\ \A q \in handling \ {p} : IdempotencyKey(q) # IdempotencyKey(p)
        /\ \A d \in Working : IdempotencyKey(answer[d]) # IdempotencyKey(p)
    BY <1>2 DEF IInv, HoldersDiffer, WritersExclude, Working
  <2> QED BY <1>1, <1>2, <2>1, <2>2 DEF Held, InHand
<1>3. CASE /\ c \in Working /\ p = answer[c] /\ Working' = Working \ {c}
           /\ \A d \in Calls \ {c} : answer'[d] = answer[d]
           /\ handling' = handling
  <2>1. /\ \A q \in handling : IdempotencyKey(q) # IdempotencyKey(p)
        /\ \A d \in Working \ {c} : IdempotencyKey(answer[d]) # IdempotencyKey(p)
    BY <1>3 DEF IInv, HoldersDiffer, WritersExclude, Working
  <2>2. \A d \in Working \ {c} : answer'[d] = answer[d]
    BY <1>3 DEF Working
  <2> QED BY <1>1, <1>3, <2>1, <2>2 DEF Held, InHand
<1> QED BY <1>2, <1>3

\* What is in hand stays in hand.
LEMMA HandKept ==
    ASSUME UNCHANGED handling, Working' = Working, \A c \in Working : answer'[c] = answer[c]
    PROVE  Held' = Held
BY DEF Held, InHand

\* Guard's held keys are those in hand.
LEMMA HeldIsInHand ==
    LET held == {IdempotencyKey(p) : p \in
                   handling \cup {answer[c] : c \in {d \in Calls : pc[d] = "work"}}}
    IN  held = Held /\ held' = Held'
BY DEF Held, InHand, Working

\* Recording an event whose key is in hand is the protocol's Record.
LEMMA RecordIsGuarded ==
    ASSUME NEW p \in Payloads, EventStore!Record(p), UNCHANGED idem,
           IdempotencyKey(p) \in Held, Held' = Held \ {IdempotencyKey(p)}
    PROVE  Guard!Record(p)
BY SameFunctions, GuardFunctions, HeldIsInHand DEF Guard!Record, EventStore!Record

\* Every step of the webhook's handlers and of the jobs keeps to the protocol.
LEMMA StepIsGuarded ==
    IInv /\ Launched /\ [Next]_vars => [Guard!Next]_(Guard!vars)
<1> SUFFICES ASSUME IInv, Launched, [Next]_vars PROVE [Guard!Next]_(Guard!vars)
  OBVIOUS
<1>a. TypeOK /\ WorkHasAnswer /\ EventsHaveCalls
  BY DEF IInv
<1> USE DEF ledgerVars, webhookVars, jobVars, Goto
<1>b. ASSUME UNCHANGED <<published, status, log, utterances, jobs, idem>>, Held' = Held
      PROVE  UNCHANGED Guard!vars
  BY <1>b, HeldIsInHand DEF Guard!vars, Guard!ledgerVars
<1>1. ASSUME NEW c \in Calls, Publish(c) PROVE Guard!Next
  <2>1. pc[c] = "absent" /\ EventStore!Publish(c) /\ UNCHANGED idem
    BY <1>1 DEF Publish, EventStore!Publish, Launched
  <2>2. Held' = Held
    BY <1>1, <1>a, <2>1, HandKept DEF Publish, Working, TypeOK
  <2>3. Guard!Ledger!Publish(c)
    BY <2>1 DEF EventStore!Publish, Guard!Ledger!Publish
  <2> QED BY <2>1, <2>2, <2>3, HeldIsInHand DEF Guard!Next
<1>2. ASSUME NEW c \in Calls, Dispatch(c) PROVE Guard!Next
  <2>1. Held' = Held
    BY <1>2, HandKept DEF Dispatch, Working
  <2>2. Guard!Ledger!Dispatch(c) /\ UNCHANGED idem
    BY <1>2 DEF Dispatch, EventStore!Dispatch, Guard!Ledger!Dispatch
  <2> QED BY <2>1, <2>2, HeldIsInHand DEF Guard!Next
<1>3. ASSUME NEW c \in Calls, ReceiveWebhook(c) PROVE Guard!Next
  <2>1. PICK i \in 1 .. at[c] : /\ Webhook[c][i] # None
                                /\ Free(Webhook[c][i])
                                /\ idem' = idem \cup {IdempotencyKey(Webhook[c][i])}
                                /\ handling' = handling \cup {Webhook[c][i]}
    BY <1>3 DEF ReceiveWebhook
  <2>2. i \in Nat /\ i \in DOMAIN Answer[c]
    BY <1>a, <2>1, LifeAssumption DEF TypeOK
  <2>3. PICK p \in Payloads : p = Webhook[c][i]
    BY <2>1, <2>2, LifePayload
  <2>4. Held' = Held \cup {IdempotencyKey(p)}
    BY <1>3, <2>1, <2>3 DEF ReceiveWebhook, Held, InHand, Working
  <2>5. Guard!Take(p)
    BY <1>3, <2>1, <2>3, <2>4, HeldIsInHand, GuardFunctions
       DEF Guard!Take, Guard!ledgerVars, Free, ReceiveWebhook
  <2> QED BY <2>5 DEF Guard!Next
<1>4. ASSUME NEW p \in Payloads, RecordWebhook(p) PROVE Guard!Next
  <2>1. ExecutionId(p) \in Calls
    BY <1>4, <1>a DEF RecordWebhook, EventsHaveCalls
  <2>2. IdempotencyKey(p) \in Held /\ Held' = Held \ {IdempotencyKey(p)}
    BY <1>4, <2>1, LetGo DEF RecordWebhook
  <2>3. Guard!Record(p)
    BY <1>4, <2>2, RecordIsGuarded DEF RecordWebhook
  <2> QED BY <2>3 DEF Guard!Next
<1>5. ASSUME NEW p \in Payloads, FailWebhook(p) PROVE Guard!Next
  <2>1. ExecutionId(p) \in Calls
    BY <1>5, <1>a DEF FailWebhook, EventsHaveCalls
  <2>2. IdempotencyKey(p) \in Held /\ Held' = Held \ {IdempotencyKey(p)}
    BY <1>5, <2>1, LetGo DEF FailWebhook
  <2>3. Guard!GiveBack(IdempotencyKey(p)) \/ Guard!Lose(IdempotencyKey(p))
    BY <1>5, <2>2, HeldIsInHand DEF FailWebhook, Released, Guard!GiveBack, Guard!Lose, Guard!ledgerVars
  <2> QED BY <2>3, PayloadKey, GuardFunctions DEF Guard!Next
<1>6. ASSUME NEW c \in Calls, TakeKey(c) PROVE [Guard!Next]_(Guard!vars)
  <2>1. CASE answer[c] # None /\ Free(answer[c])
    <3>1. PICK p \in Payloads : p = answer[c]
      BY <1>a, <2>1 DEF TypeOK
    <3>2. /\ idem' = idem \cup {IdempotencyKey(p)} /\ IdempotencyKey(p) \notin idem
          /\ pc' = [pc EXCEPT ![c] = "work"]
          /\ UNCHANGED <<published, status, log, utterances, jobs, handling, answer>>
      BY <1>6, <2>1, <3>1 DEF TakeKey, Free
    <3>3. Working' = Working \cup {c}
      BY <1>a, <3>2 DEF Working, TypeOK
    <3>4. Held' = Held \cup {IdempotencyKey(p)}
      BY <3>1, <3>2, <3>3 DEF Held, InHand
    <3>5. Guard!Take(p)
      BY <3>2, <3>4, HeldIsInHand, GuardFunctions DEF Guard!Take, Guard!ledgerVars
    <3> QED BY <3>5 DEF Guard!Next
  <2>2. CASE ~(answer[c] # None /\ Free(answer[c]))
    <3>1. Held' = Held
      BY <1>6, <1>a, <2>2, HandKept DEF TakeKey, Working, TypeOK
    <3> QED BY <1>6, <1>b, <2>2, <3>1 DEF TakeKey
  <2> QED BY <2>1, <2>2
<1>7. ASSUME NEW c \in Calls, RecordAnswer(c) PROVE Guard!Next
  <2>1. PICK p \in Payloads : p = answer[c] /\ c \in Working
    BY <1>7, <1>a DEF RecordAnswer, Working, WorkHasAnswer
  <2>2. Working' = Working \ {c} /\ UNCHANGED <<idem, handling, answer>>
    BY <1>7, <1>a DEF RecordAnswer, Working, TypeOK
  <2>3. IdempotencyKey(p) \in Held /\ Held' = Held \ {IdempotencyKey(p)}
    BY <2>1, <2>2, LetGo
  <2>4. EventStore!Record(p)
    BY <1>7, <2>1 DEF RecordAnswer
  <2>5. Guard!Record(p)
    BY <2>2, <2>3, <2>4, RecordIsGuarded
  <2> QED BY <2>5 DEF Guard!Next
<1>8. ASSUME NEW c \in Calls, FailPoll(c) \/ OrphanKey(c), pc[c] = "work" PROVE Guard!Next
  <2>1. PICK p \in Payloads : p = answer[c] /\ c \in Working
    BY <1>8, <1>a DEF Working, WorkHasAnswer
  <2>2. /\ Working' = Working \ {c} /\ UNCHANGED <<published, status, log, utterances, jobs, handling>>
        /\ \A d \in Calls \ {c} : answer'[d] = answer[d]
        /\ idem' = idem \/ idem' = idem \ {IdempotencyKey(p)}
    BY <1>8, <1>a, <2>1 DEF FailPoll, OrphanKey, Retry, Retried, Released, Working, TypeOK
  <2>3. IdempotencyKey(p) \in Held /\ Held' = Held \ {IdempotencyKey(p)}
    BY <2>1, <2>2, LetGo
  <2>4. Guard!GiveBack(IdempotencyKey(p)) \/ Guard!Lose(IdempotencyKey(p))
    BY <2>2, <2>3, HeldIsInHand DEF Guard!GiveBack, Guard!Lose, Guard!ledgerVars
  <2> QED BY <2>4, PayloadKey, GuardFunctions DEF Guard!Next
<1>9. ASSUME NEW c \in Calls, FailPoll(c) \/ EndAttempt(c), pc[c] # "work"
      PROVE  UNCHANGED Guard!vars
  <2>1. Working' = Working /\ UNCHANGED handling /\ \A d \in Working : answer'[d] = answer[d]
    BY <1>9, <1>a DEF FailPoll, EndAttempt, Retry, Retried, Working, TypeOK
  <2> QED BY <1>9, <1>b, <2>1, HandKept DEF FailPoll, EndAttempt
<1>10. ASSUME NEW c \in Calls,
              Enter(c) \/ Start(c) \/ Sleep(c) \/ GetExecution(c) \/ LookAtSession(c)
       PROVE  UNCHANGED Guard!vars
  <2>1. Working' = Working /\ UNCHANGED handling /\ \A d \in Working : answer'[d] = answer[d]
    BY <1>10, <1>a
       DEF Enter, Start, Sleep, GetExecution, Receive, LookAtSession, AfterLook, Working, TypeOK
  <2> QED
    BY <1>10, <1>b, <2>1, HandKept DEF Enter, Start, Sleep, GetExecution, LookAtSession
<1>11. ASSUME UNCHANGED vars PROVE UNCHANGED Guard!vars
  BY <1>11, <1>b, HandKept DEF vars, Working
<1>12. ASSUME NEW c \in Calls, EndAttempt(c) \/ OrphanKey(c)
       PROVE  \/ EndAttempt(c) /\ pc[c] # "work"
              \/ OrphanKey(c) /\ pc[c] = "work"
  BY <1>12 DEF EndAttempt, OrphanKey
<1> QED
  BY <1>1, <1>2, <1>3, <1>4, <1>5, <1>6, <1>7, <1>8, <1>9, <1>10, <1>11, <1>12 DEF Next, Poll

(* A run of process_bolna_event that takes its key in one step and records *)
(* in another (tasks.py:76, ingestion.py:122-313) keeps the protocol that  *)
(* Ingestion's step by step handlers keep: what is here said of a run with *)
(* two steps is said of theirs.                                            *)
THEOREM ImplementsKeys == Spec => Guard!Spec
<1>1. Init => Guard!Init
  <2> SUFFICES ASSUME Init PROVE Guard!Init
    OBVIOUS
  <2>1. Held = {}
    BY DEF Init, Held, InHand, Working
  <2> QED BY <2>1, HeldIsInHand DEF Init, EventStore!Init, Guard!Init, Guard!Ledger!Init
<1>2. CallsInv => Launched
  BY DEF CallsInv
<1> QED BY <1>1, <1>2, StepIsGuarded, IInvHolds, CallsInvHold, PTL DEF Spec, Guard!Spec
=============================================================================
