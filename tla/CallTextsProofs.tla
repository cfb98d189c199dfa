--------------------------- MODULE CallTextsProofs ---------------------------
(* Proofs about CallTexts, for any transcripts, findings and requests.     *)
EXTENDS CallTexts, FiniteSetTheorems, FunctionTheorems, TLAPS

\* A redacted snapshot holds no words of the call.
Wordless(snap) ==
    snap # None /\ snap.scrubbed =>
        snap.summary # "said" /\ ~snap.objections /\ ~snap.profile /\ ~snap.quotes

SnapshotsHonest == Wordless(snapshot) /\ \A s \in Stages : Wordless(held[s])

\* What a redaction that met nobody has left.
NothingHeld ==
    redacted /\ ~exposed =>
        /\ snapshot # None => snapshot.scrubbed
        /\ \A s \in Stages : held[s] # None => held[s].scrubbed
        /\ held["recommend"] # None => dealSummary # "said"

\* Only a redaction scrubs; and the deal has its summary once the risk update
\* is over and before the recommendation begins.
InTheirTurn ==
    /\ snapshot # None /\ snapshot.scrubbed => redacted
    /\ \A s \in Stages : held[s] # None /\ held[s].scrubbed => redacted
    /\ held["risk"] # None => dealSummary = None
    /\ held["recommend"] # None => dealSummary # None

\* A request that runs has found the recommendation, which stays.
RowStays == \A r \in Requests : request[r].pc # "new" => rec # None

\* A commit is never ahead of the row, and there is none before the update of
\* a row that has been read.
CommitsCounted ==
    \A r \in Requests :
        /\ request[r].at <= version
        /\ request[r].pc \in {"new", "loaded"} => request[r].at = 0
        /\ request[r].pc = "loaded" => request[r].read \in [rec : Recs, version : Nat]

\* There is a snapshot only of what extraction has found.
SomethingFound ==
    snapshot # None \/ (\E s \in Stages : held[s] # None) => input.findings \in Findings

\* The turns stored are those of the call's transcript.
TurnsParsed == utterances # <<>> => utterances = ParseTurns(input.lines)

IInv == /\ TypeOK /\ TurnsParsed /\ SomethingFound /\ SnapshotsHonest /\ NothingHeld /\ InTheirTurn /\ RowStays
        /\ RedactedCallIsSilent /\ ReplyIsCurrent /\ CommitsCounted

-----------------------------------------------------------------------------
\* The invariant holds of a call that has just ended.
LEMMA InitInv == Init => IInv
<1> SUFFICES ASSUME Init PROVE IInv
  OBVIOUS
<1>1. TypeOK
  <2>1. \A i \in DOMAIN utterances : FALSE
    BY DEF Init
  <2>2. \A r \in Requests :
            [pc |-> "new", read |-> None, at |-> 0] \in
                [pc : {"new", "loaded", "committed", "answered", "failed"},
                 read : [rec : Recs, version : Nat] \cup {None}, at : Nat]
    OBVIOUS
  <2> HIDE DEF Recs
  <2> QED BY <2>1, <2>2 DEF Init, TypeOK
<1>2. SnapshotsHonest /\ SomethingFound /\ NothingHeld /\ InTheirTurn /\ RedactedCallIsSilent
  BY DEF Init, SnapshotsHonest, SomethingFound, NothingHeld, InTheirTurn, RedactedCallIsSilent,
         Wordless, Stages, Readers
<1>3. RowStays /\ ReplyIsCurrent /\ CommitsCounted /\ TurnsParsed
  BY DEF Init, TurnsParsed, RowStays, ReplyIsCurrent, CommitsCounted
<1> QED BY <1>1, <1>2, <1>3 DEF IInv

\* A finite set of numbers has its members listed from the least to the
\* greatest: there is such a list, and it leaves none out.
LEMMA Enumeration ==
    ASSUME NEW S \in SUBSET Nat, IsFiniteSet(S)
    PROVE  /\ InOrder(S) \in [1 .. Cardinality(S) -> S]
           /\ \A j, k \in 1 .. Cardinality(S) : j < k => InOrder(S)[j] < InOrder(S)[k]
           /\ \A i \in S : \E k \in 1 .. Cardinality(S) : InOrder(S)[k] = i
<1> DEFINE n == Cardinality(S)
           UpTo(i) == {j \in S : j <= i}
           rank == [i \in S |-> Cardinality(UpTo(i))]
           Sorted(s) == \A j, k \in 1 .. n : j < k => s[j] < s[k]
<1>0. \A i \in S : i \in Nat
  OBVIOUS
<1>1. n \in Nat /\ IsFiniteSet(1 .. n) /\ Cardinality(1 .. n) = n
  BY FS_CardinalityType, FS_Interval
<1>2. \A i \in S : IsFiniteSet(UpTo(i)) /\ Cardinality(UpTo(i)) \in 1 .. n
  <2> SUFFICES ASSUME NEW i \in S
               PROVE  IsFiniteSet(UpTo(i)) /\ Cardinality(UpTo(i)) \in 1 .. n
    OBVIOUS
  <2>1. UpTo(i) \in SUBSET S /\ i \in UpTo(i)
    BY <1>0
  <2>2. IsFiniteSet(UpTo(i)) /\ Cardinality(UpTo(i)) <= n
    BY <2>1, FS_Subset
  <2>3. Cardinality(UpTo(i)) \in Nat /\ Cardinality(UpTo(i)) # 0
    BY <2>1, <2>2, FS_CardinalityType, FS_EmptySet
  <2> QED BY <1>1, <2>2, <2>3
<1>3. \A i, j \in S : i < j => rank[i] < rank[j]
  <2> SUFFICES ASSUME NEW i \in S, NEW j \in S, i < j
               PROVE  Cardinality(UpTo(i)) < Cardinality(UpTo(j))
    OBVIOUS
  <2>1. UpTo(i) \in SUBSET UpTo(j) /\ j \in UpTo(j) /\ j \notin UpTo(i)
    <3>1. i \in Nat /\ j \in Nat
      BY <1>0
    <3>2. \A k \in S : k <= i => k <= j
      BY <1>0, <3>1
    <3>3. j <= j /\ ~(j <= i)
      BY <3>1
    <3> QED BY <3>2, <3>3
  <2>2. IsFiniteSet(UpTo(j)) /\ Cardinality(UpTo(j)) \in Nat /\ Cardinality(UpTo(i)) \in Nat
    <3>1. /\ IsFiniteSet(UpTo(j)) /\ Cardinality(UpTo(j)) \in 1 .. n
          /\ Cardinality(UpTo(i)) \in 1 .. n
      BY <1>2
    <3> HIDE DEF UpTo, n
    <3> QED BY <1>1, <3>1
  <2> HIDE DEF UpTo
  <2>3. /\ Cardinality(UpTo(i)) <= Cardinality(UpTo(j))
        /\ Cardinality(UpTo(i)) = Cardinality(UpTo(j)) => UpTo(i) = UpTo(j)
    BY <2>1, <2>2, FS_Subset
  <2> QED BY <2>1, <2>2, <2>3
<1>4. rank \in [S -> 1 .. n]
  BY <1>2
<1> HIDE DEF rank, n
<1>5. \A i, j \in S : rank[i] = rank[j] => i = j
  BY <1>1, <1>3, <1>4
<1>6. rank \in Injection(S, 1 .. n)
  BY <1>4, <1>5, Fun_IsInj
<1>7. \A k \in 1 .. n : \E i \in S : rank[i] = k
  <2>1. rank \in Surjection(S, 1 .. n)
    BY <1>1, <1>6, FS_Injection DEF n
  <2> QED BY <2>1 DEF Surjection
<1> DEFINE list == [k \in 1 .. n |-> CHOOSE i \in S : rank[i] = k]
<1>8. list \in [1 .. n -> S] /\ Sorted(list)
  <2>1. \A k \in 1 .. n : list[k] \in S /\ rank[list[k]] = k
    BY <1>7
  <2>2. list \in [1 .. n -> S]
    BY <1>7
  <2> HIDE DEF list
  <2>3. ASSUME NEW j \in 1 .. n, NEW k \in 1 .. n, j < k PROVE list[j] < list[k]
    <3>1. list[j] \in S /\ list[k] \in S /\ rank[list[j]] = j /\ rank[list[k]] = k
      BY <2>1
    <3>2. list[j] \in Nat /\ list[k] \in Nat /\ j \in Nat /\ k \in Nat
      <4>1. list[j] \in Nat /\ list[k] \in Nat
        BY <3>1, <1>0
      <4>2. j \in Nat /\ k \in Nat
        BY <1>1
      <4> QED BY <4>1, <4>2
    <3>3. CASE list[k] < list[j]
      BY <1>3, <2>3, <3>1, <3>2, <3>3
    <3>4. CASE list[k] = list[j]
      BY <2>3, <3>1, <3>2, <3>4
    <3> QED BY <3>2, <3>3, <3>4
  <2> QED BY <2>2, <2>3
<1> HIDE DEF list
<1>9. InOrder(S) \in [1 .. n -> S] /\ Sorted(InOrder(S))
  <2>1. InOrder(S) = CHOOSE s \in [1 .. n -> S] : \A j, k \in DOMAIN s : j < k => s[j] < s[k]
    BY DEF InOrder, n
  <2>2. \A j, k \in DOMAIN list : j < k => list[j] < list[k]
    BY <1>8
  <2>3. /\ InOrder(S) \in [1 .. n -> S]
        /\ \A j, k \in DOMAIN InOrder(S) : j < k => InOrder(S)[j] < InOrder(S)[k]
    BY <1>8, <2>1, <2>2
  <2> QED BY <2>3
<1>10. \A i \in S : \E k \in 1 .. n : InOrder(S)[k] = i
  <2>1. \A j, k \in 1 .. n : InOrder(S)[j] = InOrder(S)[k] => j = k
    <3>1. \A k \in 1 .. n : InOrder(S)[k] \in Nat
      BY <1>0, <1>9
    <3>2. \A j, k \in 1 .. n : j = k \/ j < k \/ k < j
      BY <1>1
    <3> QED BY <1>9, <3>1, <3>2
  <2>2. InOrder(S) \in Injection(1 .. n, S)
    BY <1>9, <2>1, Fun_IsInj
  <2>3. InOrder(S) \in Surjection(1 .. n, S)
    BY <1>1, <2>2, FS_Injection DEF n
  <2> QED BY <2>3 DEF Surjection
<1> QED BY <1>9, <1>10 DEF n

\* The labels of a transcript are numbered lines, finitely many.
LEMMA SpeakingIsFinite ==
    ASSUME NEW lines \in Seq(Lines)
    PROVE  /\ Speaking(lines) \in SUBSET Nat /\ IsFiniteSet(Speaking(lines))
           /\ Words(lines) \in SUBSET Nat /\ Heads(lines) \in SUBSET Nat
<1>1. DOMAIN lines = 1 .. Len(lines) /\ Len(lines) \in Nat
  OBVIOUS
<1>2. /\ Speaking(lines) \in SUBSET DOMAIN lines /\ Words(lines) \in SUBSET DOMAIN lines
      /\ Heads(lines) \in SUBSET DOMAIN lines
  BY DEF Speaking, Words, Heads
<1>3. IsFiniteSet(DOMAIN lines)
  BY <1>1, FS_Interval
<1>4. IsFiniteSet(Speaking(lines))
  BY <1>2, <1>3, FS_Subset
<1> QED BY <1>1, <1>2, <1>4

\* What ParseTurns makes of a transcript with a label that says something: the
\* turns of these labels, in their order; and of any other.
LEMMA Parsed ==
    ASSUME NEW lines \in Seq(Lines)
    PROVE  LET heads == InOrder(Speaking(lines))
               turns == ParseTurns(lines)
           IN  \/ /\ Speaking(lines) # {}
                  /\ DOMAIN turns \in SUBSET Nat
                  /\ \A k \in DOMAIN turns :
                       /\ heads[k] \in Speaking(lines)
                       /\ turns[k] = [speaker |-> NormalizeSpeaker(lines[heads[k]].label),
                                      words |-> TextAfter(lines, heads[k])]
                       /\ \A m \in DOMAIN turns : k < m => heads[k] < heads[m]
                  /\ \A i \in Speaking(lines) : \E k \in DOMAIN turns : heads[k] = i
               \/ /\ Speaking(lines) = {}
                  /\ turns = IF Words(lines) \cup Heads(lines) = {} THEN <<>>
                             ELSE <<[speaker |-> "unknown", words |-> Words(lines)]>>
<1> DEFINE heads == InOrder(Speaking(lines))
           turns == ParseTurns(lines)
           n == Cardinality(Speaking(lines))
<1>1. CASE Speaking(lines) # {}
  <2>1. /\ heads \in [1 .. n -> Speaking(lines)]
        /\ \A j, k \in 1 .. n : j < k => heads[j] < heads[k]
        /\ \A i \in Speaking(lines) : \E k \in 1 .. n : heads[k] = i
    BY SpeakingIsFinite, Enumeration
  <2>2. turns = [k \in DOMAIN heads |->
                    [speaker |-> NormalizeSpeaker(lines[heads[k]].label),
                     words |-> TextAfter(lines, heads[k])]]
    BY <1>1 DEF ParseTurns, SpokenTurns
  <2>3. n \in Nat
    BY SpeakingIsFinite, FS_CardinalityType
  <2> HIDE DEF heads, turns, n
  <2>4. DOMAIN turns = 1 .. n
    BY <2>1, <2>2
  <2>5. \A k \in DOMAIN turns :
            /\ heads[k] \in Speaking(lines)
            /\ turns[k] = [speaker |-> NormalizeSpeaker(lines[heads[k]].label),
                           words |-> TextAfter(lines, heads[k])]
            /\ \A m \in DOMAIN turns : k < m => heads[k] < heads[m]
    BY <2>1, <2>2, <2>4
  <2>6. DOMAIN turns \in SUBSET Nat
    BY <2>3, <2>4
  <2> QED BY <1>1, <2>1, <2>4, <2>5, <2>6 DEF heads, turns
<1>2. CASE Speaking(lines) = {}
  BY <1>2 DEF ParseTurns
<1> QED BY <1>1, <1>2

\* The speakers of parsed turns.
LEMMA Speakers ==
    ASSUME NEW lines \in Seq(Lines)
    PROVE  \A i \in DOMAIN ParseTurns(lines) :
               ParseTurns(lines)[i].speaker \in {"agent", "prospect", "unknown"}
<1>1. \A label : NormalizeSpeaker(label) \in {"agent", "prospect"}
  BY DEF NormalizeSpeaker
<1> QED BY <1>1, Parsed

\* The documents built for a call.
LEMMA Built ==
    ASSUME NEW snap \in Snapshots, NEW found \in Findings
    PROVE  /\ \A d \in BuildDocuments(snap, found) :
                 /\ d \in [type : DocTypes, text : Texts]
                 /\ snap # None /\ Wordless(snap) /\ snap.scrubbed => d.text # "said"
           /\ \A d, e \in BuildDocuments(snap, found) : d.type = e.type => d = e
<1>1. \A d \in BuildDocuments(snap, found) :
          \/ d = [type |-> "call_summary", text |-> snap.summary] /\ snap.summary # None
          \/ d = [type |-> "objection_summary", text |-> "said"] /\ snap.objections
          \/ d = [type |-> "stakeholder_profile_summary", text |-> "said"] /\ snap.profile
          \/ d = [type |-> "deal_state_summary", text |-> MadeOf(snap)]
          \/ d = [type |-> "action_rationale_summary", text |-> "canned"]
  BY DEF BuildDocuments
<1>2. /\ MadeOf(snap) \in Texts /\ (snap.scrubbed => MadeOf(snap) # "said")
      /\ (snap.summary # None => snap.summary \in Texts)
      /\ snap # None => (Wordless(snap) /\ snap.scrubbed =>
                            snap.summary # "said" /\ ~snap.objections /\ ~snap.profile)
  BY DEF MadeOf, Texts, Snapshots, Wordless
<1>3. \A d, e \in BuildDocuments(snap, found) : d.type = e.type => d = e
  BY <1>1
<1>4. \A d \in BuildDocuments(snap, found) : d \in [type : DocTypes, text : Texts]
  BY <1>1, <1>2 DEF DocTypes, Texts
<1>5. ASSUME snap # None, Wordless(snap), snap.scrubbed, NEW d \in BuildDocuments(snap, found)
      PROVE  d.text # "said"
  BY <1>1, <1>2, <1>5
<1> QED BY <1>3, <1>4, <1>5

-----------------------------------------------------------------------------
RequestType == [pc : {"new", "loaded", "committed", "answered", "failed"},
                read : [rec : Recs, version : Nat] \cup {None}, at : Nat]

\* Every step keeps the types.
LEMMA TypeStep == IInv /\ [Next]_vars => TypeOK'
<1> SUFFICES ASSUME IInv, [Next]_vars PROVE TypeOK'
  OBVIOUS
<1>0. TypeOK
  BY DEF IInv
<1>00. /\ request \in [Requests -> RequestType] /\ version \in Nat
       /\ \A r \in Requests : request[r] \in RequestType
  BY <1>0 DEF TypeOK, RequestType
<1> USE DEF TypeOK
<1>1. CASE PersistTranscript
  <2>1. input.lines \in Seq(Lines)
    BY <1>0, InputAssumption
  <2>2. \A i \in DOMAIN utterances' :
            utterances'[i].speaker \in {"agent", "prospect", "unknown"}
    BY <2>1, <1>1, Speakers DEF PersistTranscript
  <2> QED BY <1>0, <1>1, <2>2 DEF PersistTranscript, editVars
<1>2. CASE Extract
  <2>1. snapshot' \in Snapshots
    BY <1>0, <1>2 DEF Extract, Stages
  <2> QED BY <1>0, <1>2, <2>1 DEF Extract, editVars
<1>13. CASE ReadTranscript
  <2>1. input.findings \in Findings
    BY <1>0, <1>13, InputAssumption DEF ReadTranscript
  <2>2. PICK snap \in Snapshots : held' = [held EXCEPT !["extract"] = snap]
    BY <2>1, <1>13 DEF ReadTranscript, Findings, Snapshots, Texts
  <2> QED BY <1>0, <1>13, <2>2 DEF ReadTranscript, editVars
<1>3. ASSUME NEW s \in Readers, ReadSnapshot(s) PROVE TypeOK'
  BY <1>0, <1>3 DEF ReadSnapshot, editVars, Stages
<1>4. CASE Recommend
  <2>1. held["recommend"] \in Snapshots
    BY <1>0, <1>4 DEF Recommend, Stages, Readers
  <2> DEFINE snap == held["recommend"]
  <2>3. /\ Advice(snap) \in Texts /\ FallbackNote(snap) \in Texts /\ "canned" \in Texts
        /\ FallbackAction(input.findings.factors) \in {"send_followup", "request_intro"}
    BY <2>1 DEF Advice, MadeOf, FallbackNote, FallbackAction, Texts, Snapshots
  <2>4. "proposed" \in RecStatuses
    BY DEF RecStatuses
  <2>2. rec' \in Recs /\ note' \in Texts
    <3>1. CASE rec' = [action |-> "advised", reason |-> Advice(snap), status |-> "proposed"]
      BY <1>4, <2>3, <2>4, <3>1 DEF Recommend, Recs
    <3>2. CASE rec' = [action |-> FallbackAction(input.findings.factors),
                       reason |-> "canned", status |-> "proposed"]
      BY <1>4, <2>3, <2>4, <3>2 DEF Recommend, Recs
    <3> QED BY <1>4, <3>1, <3>2 DEF Recommend
  <2> QED BY <1>0, <1>4, <2>2 DEF Recommend, editVars
<1>5. CASE WriteMemory
  <2>1. held["memory"] \in Snapshots /\ input.findings \in Findings
    BY <1>0, <1>5 DEF WriteMemory, Embedded, Stages, Readers, IInv, SomethingFound
  <2> DEFINE built == BuildDocuments(held["memory"], input.findings)
  <2>2. PICK embedded \in SUBSET built :
            docs' = {[type |-> d.type, text |-> d.text,
                      vector |-> IF d \in embedded THEN d.text ELSE None] : d \in built}
    BY <1>5 DEF WriteMemory, Embedded
  <2>3. /\ \A d \in built : d.type \in DocTypes /\ d.text \in Texts
        /\ \A d, e \in built : d.type = e.type => d = e
    BY <2>1, Built
  <2> HIDE DEF built
  <2>4. /\ docs' \subseteq Docs
        /\ \A d \in docs' : d.vector \in {d.text, None}
        /\ \A d, e \in docs' : d.type = e.type => d = e
    BY <2>2, <2>3 DEF Docs
  <2> QED BY <1>0, <1>5, <2>4 DEF WriteMemory, Embedded, editVars
<1>6. CASE Redact
  <2>1. snapshot' \in Snapshots \cup {None} /\ note' \in Texts \cup {None} /\ rec' \in Recs \cup {None}
    BY <1>0, <1>6 DEF Redact, Snapshots, Texts, Recs
  <2>2. /\ docs' \subseteq Docs
        /\ \A d \in docs' : d.vector \in {d.text, None}
    <3>1. \A d \in docs : /\ Scrubbed(d) \in Docs /\ Scrubbed(d).vector = None
      BY <1>0 DEF Scrubbed, Docs, Texts
    <3>2. docs' = {Scrubbed(d) : d \in docs}
      BY <1>6 DEF Redact
    <3> QED BY <3>1, <3>2
  <2>3. \A d, e \in docs : Scrubbed(d).type = Scrubbed(e).type => d = e
    BY <1>0 DEF Scrubbed, Docs
  <2>4. \A d, e \in docs' : d.type = e.type => d = e
    BY <2>3, <1>6 DEF Redact
  <2>5. \A i \in DOMAIN utterances' : FALSE
    BY <1>6 DEF Redact
  <2> QED BY <1>0, <1>6, <2>1, <2>2, <2>4, <2>5 DEF Redact, editVars
<1>7. ASSUME NEW r \in Requests, LoadRecommendation(r) PROVE TypeOK'
  <2>1. Reading \in [rec : Recs, version : Nat]
    BY <1>0, <1>7 DEF LoadRecommendation, Reading
  <2>2. request' \in [Requests -> RequestType]
    <3>1. [request[r] EXCEPT !.pc = "loaded", !.read = Reading] \in RequestType
      BY <2>1, <1>00 DEF RequestType
    <3> QED BY <3>1, <1>00, <1>7 DEF LoadRecommendation
  <2> QED BY <1>0, <1>7, <2>2 DEF LoadRecommendation, RequestType, stageVars
<1>8. ASSUME NEW r \in Requests, UpdateRecommendation(r) PROVE TypeOK'
  <2>1. rec \in Recs
    BY <1>0, <1>8 DEF UpdateRecommendation, IInv, RowStays
  <2>2. request' \in [Requests -> RequestType] /\ version' \in Nat
    <3>0. request[r] \in RequestType /\ version + 1 \in Nat
      BY <1>00
    <3>1. /\ [request[r] EXCEPT !.pc = "committed", !.at = version + 1] \in RequestType
          /\ [request[r] EXCEPT !.pc = "failed"] \in RequestType
      BY <3>0 DEF RequestType
    <3>2. /\ version' \in {version, version + 1}
          /\ \/ request' = [request EXCEPT ![r].pc = "committed", ![r].at = version + 1]
             \/ request' = [request EXCEPT ![r].pc = "failed"]
      BY <1>8 DEF UpdateRecommendation
    <3> QED BY <3>0, <3>1, <3>2, <1>00
  <2>3. \A edit \in Edits : Edited(r, edit).status \in RecStatuses => Edited(r, edit) \in Recs
    BY <2>1 DEF Edits, Edited, Merged, Recs, Texts
  <2>4. rec' \in Recs
    BY <2>1, <2>3, <1>8 DEF UpdateRecommendation
  <2> QED BY <1>0, <1>8, <2>2, <2>4 DEF UpdateRecommendation, RequestType, stageVars
<1>9. ASSUME NEW r \in Requests, Reply(r) PROVE TypeOK'
  <2>1. Reading \in [rec : Recs, version : Nat]
    BY <1>0, <1>9 DEF Reply, Reading, IInv, RowStays
  <2>2. request' \in [Requests -> RequestType]
    <3>1. [request[r] EXCEPT !.pc = "answered", !.read = Reading] \in RequestType
      BY <2>1, <1>00 DEF RequestType
    <3> QED BY <3>1, <1>00, <1>9 DEF Reply, Refreshed
  <2> QED BY <1>0, <1>9, <2>2 DEF Reply, RequestType, stageVars
<1>10. ASSUME NEW r \in Requests, AnswerUnchanged(r) PROVE TypeOK'
  <2>1. request' \in [Requests -> RequestType]
    <3>1. [request[r] EXCEPT !.pc = "answered"] \in RequestType
      BY <1>00 DEF RequestType
    <3> QED BY <3>1, <1>00, <1>10 DEF AnswerUnchanged
  <2> QED BY <1>0, <1>10, <2>1 DEF AnswerUnchanged, RequestType, stageVars
<1>11. CASE UpdateDeal
  <2>1. held["risk"] \in Snapshots
    BY <1>0, <1>11 DEF UpdateDeal, Stages, Readers
  <2>2. dealSummary' \in Texts
    BY <2>1, <1>11 DEF UpdateDeal, Snapshots, Texts
  <2> QED BY <1>0, <1>11, <2>2 DEF UpdateDeal, editVars
<1>12. CASE UNCHANGED vars
  BY <1>0, <1>12 DEF vars, stageVars, editVars
<1> QED BY <1>1, <1>2, <1>3, <1>4, <1>5, <1>6, <1>7, <1>8, <1>9, <1>10, <1>11, <1>12, <1>13 DEF Next

\* The snapshots in the table and in the stages' hands.
LEMMA SnapshotStep ==
    IInv /\ [Next]_vars => SomethingFound' /\ SnapshotsHonest' /\ NothingHeld' /\ InTheirTurn'
<1> SUFFICES ASSUME IInv, [Next]_vars
             PROVE  SomethingFound' /\ SnapshotsHonest' /\ NothingHeld' /\ InTheirTurn'
  OBVIOUS
<1>0. /\ TypeOK /\ SomethingFound /\ SnapshotsHonest /\ NothingHeld /\ InTheirTurn
      /\ RedactedCallIsSilent
  BY DEF IInv
<1> USE DEF SomethingFound, SnapshotsHonest, NothingHeld, InTheirTurn, Stages, Readers
<1>1. CASE PersistTranscript
  BY <1>0, <1>1 DEF PersistTranscript, Wordless
<1>2. CASE Extract
  BY <1>0, <1>2 DEF Extract, Wordless, TypeOK
<1>10. CASE ReadTranscript
  <2>1. input.findings \in Findings
    BY <1>0, <1>10, InputAssumption DEF ReadTranscript, TypeOK
  <2>2. PICK quoted \in BOOLEAN :
            held' = [held EXCEPT !["extract"] =
                        [summary |-> IF input.findings.summary THEN "said" ELSE None,
                         objections |-> input.findings.objections,
                         profile |-> input.findings.profile,
                         quotes |-> quoted, scrubbed |-> FALSE]]
    BY <1>10 DEF ReadTranscript
  <2>3. held'["extract"].scrubbed = FALSE /\ \A s \in Readers : held'[s] = held[s]
    BY <1>0, <2>2 DEF TypeOK
  <2>4. ~(redacted /\ ~exposed)
    BY <1>0, <1>10 DEF ReadTranscript, RedactedCallIsSilent
  <2> QED BY <1>0, <1>10, <2>1, <2>3, <2>4 DEF ReadTranscript, Wordless
<1>3. ASSUME NEW s \in Readers, ReadSnapshot(s)
      PROVE  SomethingFound' /\ SnapshotsHonest' /\ NothingHeld' /\ InTheirTurn'
  BY <1>0, <1>3 DEF ReadSnapshot, Ran, Wordless, TypeOK
<1>9. CASE UpdateDeal
  BY <1>0, <1>9 DEF UpdateDeal, Wordless, TypeOK
<1>4. CASE Recommend
  BY <1>0, <1>4 DEF Recommend, Wordless, TypeOK
<1>5. CASE WriteMemory
  BY <1>0, <1>5 DEF WriteMemory, Embedded, Wordless, TypeOK
<1>6. CASE Redact
  <2>1. snapshot' # None => snapshot # None /\ snapshot' =
            [summary |-> "scrubbed", objections |-> FALSE, profile |-> FALSE,
             quotes |-> FALSE, scrubbed |-> TRUE]
    BY <1>6 DEF Redact
  <2> QED BY <1>0, <1>6, <2>1 DEF Redact, Wordless
<1>7. ASSUME NEW r \in Requests,
             LoadRecommendation(r) \/ UpdateRecommendation(r) \/ AnswerUnchanged(r) \/ Reply(r)
      PROVE  SomethingFound' /\ SnapshotsHonest' /\ NothingHeld' /\ InTheirTurn'
  BY <1>0, <1>7 DEF LoadRecommendation, UpdateRecommendation, AnswerUnchanged, Reply, stageVars,
                   Wordless
<1>8. CASE UNCHANGED vars
  BY <1>0, <1>8 DEF vars, stageVars, Wordless
<1> QED BY <1>1, <1>2, <1>3, <1>4, <1>5, <1>6, <1>7, <1>8, <1>9, <1>10 DEF Next

\* The requests and the row they are about.
LEMMA RequestStep == IInv /\ [Next]_vars => RowStays' /\ CommitsCounted' /\ ReplyIsCurrent'
<1> SUFFICES ASSUME IInv, [Next]_vars PROVE RowStays' /\ CommitsCounted' /\ ReplyIsCurrent'
  OBVIOUS
<1>0. /\ version \in Nat /\ request \in [Requests -> RequestType] /\ rec \in Recs \cup {None}
      /\ RowStays /\ CommitsCounted /\ ReplyIsCurrent
  BY DEF IInv, TypeOK, RequestType
<1>t. rec' \in Recs \cup {None} /\ version' \in Nat
  BY TypeStep DEF TypeOK
<1> USE DEF RowStays, CommitsCounted, ReplyIsCurrent
<1>1. CASE UNCHANGED <<request, version>> /\ (rec # None => rec' # None)
  BY <1>0, <1>1
<1>2. CASE \/ PersistTranscript \/ ReadTranscript \/ Extract \/ UpdateDeal \/ WriteMemory
           \/ \E s \in Readers : ReadSnapshot(s)
  BY <1>1, <1>2 DEF PersistTranscript, ReadTranscript, Extract, UpdateDeal, WriteMemory, Embedded, ReadSnapshot,
                    editVars
<1>3. CASE Recommend
  <2>1. rec' \in Recs
    <3>1. held["recommend"] \in Snapshots /\ "proposed" \in RecStatuses
      BY <1>3 DEF Recommend, Stages, Readers, IInv, TypeOK, RecStatuses
    <3>2. Advice(held["recommend"]) \in Texts /\ "canned" \in Texts
          /\ FallbackAction(input.findings.factors) \in {"send_followup", "request_intro"}
      BY DEF Advice, MadeOf, Texts, FallbackAction
    <3>3. CASE rec' = [action |-> "advised", reason |-> Advice(held["recommend"]),
                       status |-> "proposed"]
      BY <3>1, <3>2, <3>3 DEF Recs
    <3>4. CASE rec' = [action |-> FallbackAction(input.findings.factors),
                       reason |-> "canned", status |-> "proposed"]
      BY <3>1, <3>2, <3>4 DEF Recs
    <3> QED BY <1>3, <3>3, <3>4 DEF Recommend
  <2> QED BY <1>1, <1>3, <2>1, NoneAssumption DEF Recommend, editVars
<1>4. CASE Redact
  <2>1. rec # None => rec' # None
    <3>1. rec # None => [rec EXCEPT !.reason = "scrubbed"] \in Recs
      BY <1>0 DEF Recs, Texts
    <3> QED BY <1>4, <3>1, NoneAssumption DEF Redact
  <2> QED BY <1>1, <1>4, <2>1 DEF Redact, editVars
<1>5. ASSUME NEW r \in Requests, LoadRecommendation(r)
      PROVE  RowStays' /\ CommitsCounted' /\ ReplyIsCurrent'
  <2>1. Reading \in [rec : Recs, version : Nat]
    BY <1>0, <1>5 DEF LoadRecommendation, Reading
  <2> QED BY <1>0, <1>5, <2>1 DEF LoadRecommendation, RequestType
<1>9. ASSUME NEW r \in Requests, AnswerUnchanged(r)
      PROVE  RowStays' /\ CommitsCounted' /\ ReplyIsCurrent'
  BY <1>0, <1>9 DEF AnswerUnchanged, RequestType
<1>6. ASSUME NEW r \in Requests, UpdateRecommendation(r)
      PROVE  RowStays' /\ CommitsCounted' /\ ReplyIsCurrent'
  <2>1. rec \in Recs
    BY <1>0, <1>6 DEF UpdateRecommendation
  <2>2. \A edit \in Edits : Edited(r, edit).status \in RecStatuses => Edited(r, edit) \in Recs
    BY <2>1 DEF Edits, Edited, Merged, Recs, Texts
  <2>3. rec' \in Recs
    BY <2>1, <2>2, <1>6 DEF UpdateRecommendation
  <2>4. PICK step \in {"committed", "failed"} :
            \/ /\ version' = version + 1
               /\ request' = [request EXCEPT ![r].pc = "committed", ![r].at = version + 1]
            \/ /\ version' = version
               /\ request' = [request EXCEPT ![r].pc = "failed"]
    BY <1>6 DEF UpdateRecommendation
  <2> QED BY <1>0, <2>3, <2>4, NoneAssumption DEF RequestType
<1>7. ASSUME NEW r \in Requests, Reply(r)
      PROVE  RowStays' /\ CommitsCounted' /\ ReplyIsCurrent'
  BY <1>0, <1>7 DEF Reply, Refreshed, Reading, RequestType
<1>8. CASE UNCHANGED vars
  BY <1>1, <1>8 DEF vars, stageVars, editVars
<1> QED BY <1>2, <1>3, <1>4, <1>5, <1>6, <1>7, <1>8, <1>9 DEF Next

\* After a redaction nothing brings the words back.
LEMMA SilentStep == IInv /\ [Next]_vars => RedactedCallIsSilent'
<1> SUFFICES ASSUME IInv, [Next]_vars, redacted' /\ ~exposed'
             PROVE  RedactedCallIsSilent'
  BY DEF RedactedCallIsSilent
<1>0. TypeOK /\ SnapshotsHonest /\ NothingHeld /\ RedactedCallIsSilent
  BY DEF IInv
<1> USE DEF RedactedCallIsSilent, Hits
<1>1. CASE PersistTranscript
  BY <1>0, <1>1 DEF PersistTranscript
<1>2. CASE Extract
  <2>1. redacted /\ ~exposed /\ held["extract"] # None
    BY <1>2 DEF Extract
  <2>2. snapshot'.summary # "said" /\ ~snapshot'.objections /\ ~snapshot'.quotes
    BY <2>1, <1>0, <1>2 DEF Extract, NothingHeld, SnapshotsHonest, Wordless, Stages
  <2> QED BY <1>0, <1>2, <2>1, <2>2 DEF Extract
<1>11. CASE ReadTranscript
  BY <1>0, <1>11 DEF ReadTranscript
<1>3. ASSUME NEW s \in Readers, ReadSnapshot(s) PROVE RedactedCallIsSilent'
  BY <1>0, <1>3 DEF ReadSnapshot
<1>4. CASE Recommend
  <2> DEFINE snap == held["recommend"]
  <2>1. redacted /\ ~exposed /\ snap # None
    BY <1>4 DEF Recommend
  <2>2. snap \in Snapshots /\ snap.scrubbed /\ snap.summary # "said" /\ dealSummary # "said"
    BY <2>1, <1>0 DEF TypeOK, NothingHeld, SnapshotsHonest, Wordless, Stages, Readers
  <2>3. Advice(snap) # "said" /\ FallbackNote(snap) # "said"
    BY <2>2 DEF Advice, MadeOf, FallbackNote
  <2>4. rec'.reason # "said" /\ note' # "said"
    BY <2>3, <1>4 DEF Recommend
  <2> QED BY <1>0, <1>4, <2>1, <2>4 DEF Recommend
<1>5. CASE WriteMemory
  <2> DEFINE snap == held["memory"]
             built == BuildDocuments(snap, input.findings)
  <2>1. redacted /\ ~exposed /\ snap # None
    BY <1>5 DEF WriteMemory, Embedded
  <2>2. snap \in Snapshots /\ snap.scrubbed /\ Wordless(snap) /\ input.findings \in Findings
    BY <2>1, <1>0 DEF TypeOK, NothingHeld, SnapshotsHonest, Stages, Readers, IInv, SomethingFound
  <2>3. \A d \in built : d.text # "said"
    BY <2>1, <2>2, Built
  <2>4. PICK embedded \in SUBSET built :
            docs' = {[type |-> d.type, text |-> d.text,
                      vector |-> IF d \in embedded THEN d.text ELSE None] : d \in built}
    BY <1>5 DEF WriteMemory, Embedded
  <2> HIDE DEF built
  <2>5. \A d \in docs' : d.text # "said" /\ (d.vector # None => d.vector # "said")
    BY <2>3, <2>4
  <2> QED BY <1>0, <1>5, <2>1, <2>5 DEF WriteMemory, Embedded
<1>6. CASE Redact
  <2>1. \A d \in docs' : d.text # "said" /\ d.vector = None
    <3>1. \A d \in docs : Scrubbed(d).text = "scrubbed" /\ Scrubbed(d).vector = None
      BY <1>0 DEF Scrubbed, Docs, TypeOK
    <3>2. docs' = {Scrubbed(d) : d \in docs}
      BY <1>6 DEF Redact
    <3> QED BY <3>1, <3>2
  <2>2. rec' # None => rec'.reason # "said"
    BY <1>0, <1>6 DEF Redact, TypeOK, Recs
  <2>3. snapshot' # None =>
            snapshot'.summary # "said" /\ ~snapshot'.objections /\ ~snapshot'.quotes
    BY <1>6 DEF Redact
  <2>4. note' # "said" /\ utterances' = <<>>
    BY <1>6, NoneAssumption DEF Redact, Texts
  <2> QED BY <2>1, <2>2, <2>3, <2>4
<1>7. ASSUME NEW r \in Requests, LoadRecommendation(r) \/ AnswerUnchanged(r) \/ Reply(r)
      PROVE  RedactedCallIsSilent'
  BY <1>0, <1>7 DEF LoadRecommendation, AnswerUnchanged, Reply, stageVars
<1>8. ASSUME NEW r \in Requests, UpdateRecommendation(r) PROVE RedactedCallIsSilent'
  <2>1. redacted /\ ~exposed /\ rec \in Recs /\ rec.reason # "said"
    BY <1>0, <1>8 DEF UpdateRecommendation, IInv, RowStays, TypeOK
  <2>2. \A edit \in Edits : Edited(r, edit).reason # "said"
    BY <2>1 DEF Edited, Merged, Recs
  <2>3. rec'.reason # "said"
    BY <2>1, <2>2, <1>8 DEF UpdateRecommendation
  <2> QED BY <1>0, <1>8, <2>1, <2>3 DEF UpdateRecommendation, stageVars
<1>10. CASE UpdateDeal
  BY <1>0, <1>10 DEF UpdateDeal
<1>9. CASE UNCHANGED vars
  BY <1>0, <1>9 DEF vars, stageVars
<1> QED BY <1>1, <1>2, <1>3, <1>4, <1>5, <1>6, <1>7, <1>8, <1>9, <1>10, <1>11 DEF Next

\* The transcript stays, and only persist_transcript and a redaction touch the
\* turns.
LEMMA TurnsStep == IInv /\ [Next]_vars => TurnsParsed'
<1> SUFFICES ASSUME TurnsParsed, [Next]_vars PROVE TurnsParsed'
  BY DEF IInv
<1> USE DEF TurnsParsed
<1>1. CASE PersistTranscript
  BY <1>1 DEF PersistTranscript
<1>2. CASE Redact
  BY <1>2 DEF Redact
<1>3. CASE UNCHANGED <<input, utterances>>
  BY <1>3
<1>4. ASSUME NEW r \in Requests,
             LoadRecommendation(r) \/ UpdateRecommendation(r) \/ AnswerUnchanged(r) \/ Reply(r)
      PROVE  TurnsParsed'
  BY <1>3, <1>4 DEF LoadRecommendation, UpdateRecommendation, AnswerUnchanged, Reply, stageVars
<1>5. CASE \/ ReadTranscript \/ Extract \/ UpdateDeal \/ Recommend \/ WriteMemory
           \/ \E s \in Readers : ReadSnapshot(s)
  BY <1>3, <1>5 DEF ReadTranscript, Extract, UpdateDeal, Recommend, WriteMemory, Embedded, ReadSnapshot
<1>6. CASE UNCHANGED vars
  BY <1>3, <1>6 DEF vars, stageVars
<1> QED BY <1>1, <1>2, <1>4, <1>5, <1>6 DEF Next

\* The invariant holds in every reachable state.
LEMMA Invariance == Spec => []IInv
<1>1. IInv /\ [Next]_vars => IInv'
  BY TypeStep, TurnsStep, SnapshotStep, RequestStep, SilentStep DEF IInv
<1> QED BY <1>1, InitInv, PTL DEF Spec

-----------------------------------------------------------------------------
\* The rows and what requests read of them have their types, and a document
\* has a vector of its own text and none of its type beside it.
THEOREM TextsAreTyped == Spec => []TypeOK
<1>1. IInv => TypeOK
  BY DEF IInv
<1> QED BY <1>1, Invariance, PTL

\* A redaction that met no stage at work is for good: whatever users edit and
\* whichever stages run afterwards, no reader finds words of the call, unless
\* the recommendation is made from the deal's summary.
THEOREM RedactedCallsAreSilent == Spec => []RedactedCallIsSilent
<1>1. IInv => RedactedCallIsSilent
  BY DEF IInv
<1> QED BY <1>1, Invariance, PTL

\* The answer to an edit is never older than the edit.
THEOREM RepliesAreCurrent == Spec => []ReplyIsCurrent
<1>1. IInv => ReplyIsCurrent
  BY DEF IInv
<1> QED BY <1>1, Invariance, PTL

-----------------------------------------------------------------------------
\* The words of the turns: a line is in a turn when the turn's label is the
\* last one before it, of which there is one at most; so turns of later labels
\* have later lines, and without a label that says something there is but the
\* turn of nobody's.
LEMMA WordsAreKept ==
    ASSUME TurnsParsed, input.lines \in Seq(Lines)
    PROVE  TurnsKeepTheWords
<1> DEFINE lines == input.lines
           LastHead(i) == {h \in Heads(lines) : h <= i /\ \A g \in Heads(lines) : g <= h \/ g > i}
           attributed == {i \in Words(lines) : LastHead(i) # {}}
           SpeakerOf(i) == IF attributed = {} THEN {"unknown"}
                           ELSE {NormalizeSpeaker(lines[h].label) : h \in LastHead(i)}
           stored == IF attributed = {} THEN Words(lines) ELSE attributed
           turns == ParseTurns(lines)
           blank == Words(lines) \cup Heads(lines) = {}
<1> SUFFICES /\ turns = <<>> <=> blank
             /\ UNION {turns[k].words : k \in DOMAIN turns} = stored
             /\ \A k \in DOMAIN turns : \A i \in turns[k].words :
                  /\ SpeakerOf(i) = {turns[k].speaker}
                  /\ \A m \in DOMAIN turns : \A j \in turns[m].words : k < m => i < j
  BY DEF TurnsKeepTheWords, TurnsParsed
<1>2. /\ Words(lines) \in SUBSET Nat /\ Heads(lines) \in SUBSET Nat
      /\ Speaking(lines) \in SUBSET Heads(lines)
  BY SpeakingIsFinite DEF Speaking
<1> HIDE DEF lines, turns, blank
<1>3. \A i, h : i \in TextAfter(lines, h) /\ h \in Heads(lines)
                    <=> i \in Words(lines) /\ h \in LastHead(i)
  BY DEF TextAfter
<1>4. \A i \in Words(lines) : \A h \in LastHead(i) :
          /\ h \in Speaking(lines) /\ i \in TextAfter(lines, h)
          /\ LastHead(i) = {h}
  <2> SUFFICES ASSUME NEW i \in Words(lines), NEW h \in LastHead(i)
               PROVE  h \in Speaking(lines) /\ i \in TextAfter(lines, h) /\ LastHead(i) = {h}
    OBVIOUS
  <2>1. i \in TextAfter(lines, h) /\ h \in Heads(lines)
    BY <1>3
  <2>2. ASSUME NEW g \in LastHead(i) PROVE g = h
    <3>1. g \in Nat /\ h \in Nat /\ i \in Nat /\ g <= i /\ h <= i
      BY <1>2, <2>1, <2>2
    <3>2. (g <= h \/ g > i) /\ (h <= g \/ h > i)
      BY <2>1, <2>2
    <3> QED BY <3>1, <3>2
  <2> QED BY <2>1, <2>2 DEF Speaking
<1>5. CASE Speaking(lines) # {}
  <2> DEFINE heads == InOrder(Speaking(lines))
  <2>1. /\ \A k \in DOMAIN turns :
             /\ heads[k] \in Speaking(lines)
             /\ turns[k] = [speaker |-> NormalizeSpeaker(lines[heads[k]].label),
                            words |-> TextAfter(lines, heads[k])]
             /\ \A m \in DOMAIN turns : k < m => heads[k] < heads[m]
        /\ \A i \in Speaking(lines) : \E k \in DOMAIN turns : heads[k] = i
    BY <1>5, Parsed DEF lines, turns
  <2> HIDE DEF heads
  <2>2. attributed # {}
    <3>1. PICK h \in Speaking(lines) : TextAfter(lines, h) # {}
      BY <1>5 DEF Speaking
    <3> QED BY <3>1, <1>2, <1>3
  <2>3. UNION {turns[k].words : k \in DOMAIN turns} = attributed
    <3>1. ASSUME NEW k \in DOMAIN turns, NEW i \in turns[k].words PROVE i \in attributed
      BY <2>1, <3>1, <1>2, <1>3
    <3>2. ASSUME NEW i \in attributed PROVE \E k \in DOMAIN turns : i \in turns[k].words
      <4>1. PICK h \in LastHead(i) : h \in Speaking(lines) /\ i \in TextAfter(lines, h)
        BY <1>4
      <4> QED BY <4>1, <2>1
    <3> QED BY <3>1, <3>2
  <2>4. ASSUME NEW k \in DOMAIN turns, NEW i \in turns[k].words
        PROVE  SpeakerOf(i) = {turns[k].speaker}
    <3>1. i \in Words(lines) /\ heads[k] \in LastHead(i)
      BY <2>1, <2>4, <1>2, <1>3
    <3>2. LastHead(i) = {heads[k]}
      BY <1>4, <3>1
    <3> QED BY <2>1, <2>2, <3>2
  <2>5. ASSUME NEW k \in DOMAIN turns, NEW i \in turns[k].words,
               NEW m \in DOMAIN turns, NEW j \in turns[m].words, k < m
        PROVE  i < j
    <3>1. heads[k] < heads[m] /\ heads[k] \in Nat /\ heads[m] \in Nat
      BY <2>1, <2>5, <1>2
    <3>2. heads[k] \in LastHead(i) /\ heads[m] \in LastHead(j) /\ i \in Nat /\ j \in Nat
      BY <2>1, <2>5, <1>2, <1>3
    <3>3. (heads[m] <= heads[k] \/ heads[m] > i) /\ heads[m] <= j
      BY <3>2
    <3> QED BY <3>1, <3>2, <3>3
  <2>6. turns # <<>> /\ ~blank
    <3>1. PICK h \in Speaking(lines) : h \in Heads(lines)
      BY <1>2, <1>5
    <3>2. DOMAIN turns # {}
      BY <2>1, <3>1
    <3> QED BY <3>1, <3>2 DEF blank
  <2> QED BY <2>2, <2>3, <2>4, <2>5, <2>6
<1>6. CASE Speaking(lines) = {}
  <2>1. attributed = {}
    BY <1>4, <1>6
  <2>2. turns = IF blank THEN <<>> ELSE <<[speaker |-> "unknown", words |-> Words(lines)]>>
    BY <1>6, Parsed DEF lines, turns, blank
  <2> HIDE DEF attributed
  <2>3. CASE blank
    <3>1. turns = <<>> /\ Words(lines) = {}
      BY <2>2, <2>3 DEF blank
    <3>2. DOMAIN turns = {}
      BY <3>1
    <3> QED BY <2>1, <2>3, <3>1, <3>2
  <2>4. CASE ~blank
    <3>1. turns = <<[speaker |-> "unknown", words |-> Words(lines)]>>
      BY <2>2, <2>4
    <3>2. DOMAIN turns = {1} /\ turns[1].speaker = "unknown" /\ turns[1].words = Words(lines)
          /\ turns # <<>>
      BY <3>1
    <3> QED BY <2>1, <2>4, <3>2
  <2> QED BY <2>3, <2>4
<1> QED BY <1>5, <1>6

\* Nothing said after the first label is lost, moved to another's turn or put
\* out of its order when the provider's text is split, whatever its lines and
\* labels; a text whose labels say nothing keeps all its words, and one that is
\* not blank has a turn: what _parse_turns makes of any transcript.
THEOREM TurnsKeepWhatWasSaid == Spec => []TurnsKeepTheWords
<1>1. IInv => TurnsKeepTheWords
  <2> SUFFICES ASSUME IInv PROVE TurnsKeepTheWords
    OBVIOUS
  <2>1. TurnsParsed /\ input.lines \in Seq(Lines)
    BY InputAssumption DEF IInv, TypeOK
  <2> QED BY <2>1, WordsAreKept
<1> QED BY <1>1, Invariance, PTL
=============================================================================
