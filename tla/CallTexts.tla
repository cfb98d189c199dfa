------------------------------ MODULE CallTexts ------------------------------
(***************************************************************************)
(* The texts of one call: the turns of its transcript, what the stages     *)
(* make of them (a summary, a recommendation, a note, memory documents     *)
(* with their embeddings), what users write into the recommendation        *)
(* through api/intelligence.py, and the redaction of it all.  A text is    *)
(* "said" when it was made from the words of the call.                     *)
(***************************************************************************)
EXTENDS Transcript

CONSTANTS
    Inputs,    \* the transcript of the call and what extraction finds in it
    Requests,  \* requests of users that edit the recommendation, one each
    None       \* an absent row, field or text

Texts == {"said", "scrubbed", "typed", "canned"}

RecStatuses == {"proposed", "accepted", "dismissed", "edited", "expired"}

Recs == [action : {"advised", "send_followup", "request_intro"}, reason : Texts,
         status : RecStatuses]

ASSUME NoneAssumption == None \notin Texts \cup Recs

Factors == {"No committed next step", "No economic buyer identified"}

Findings == [summary : BOOLEAN, objections : BOOLEAN, profile : BOOLEAN,
             contact : BOOLEAN, factors : SUBSET Factors]

ASSUME InputAssumption ==
    Inputs \subseteq [lines : Seq(Lines), findings : Findings \cup {None}]

VARIABLES
    input,
    utterances,  \* the turns stored
    snapshot,    \* the ExtractionSnapshot and its EvidenceAnchors
    held,        \* the snapshot in the hands of each stage that is running: as
                 \* it has read it, or is going to write it
    dealSummary, \* what the risk update has put on the deal; None before it
    rec,         \* the ActionRecommendation
    note,        \* the text of the FollowupDraft
    docs,        \* the MemoryDocuments, each with the text it was embedded from
    redacted,    \* CallSession.transcript_redacted
    request,     \* where each request stands, what it has read, and the
                 \* version it has committed
    version,     \* history: edits of the recommendation so far
    exposed      \* history: a redaction met a stage that holds words of the
                 \* call, or the transcript came again, or the advisor was
                 \* told the deal's summary, which redaction leaves

stageVars == <<utterances, snapshot, held, dealSummary, note, docs>>
editVars  == <<request, version>>
vars == <<input, stageVars, rec, redacted, editVars, exposed>>

Readers == {"risk", "recommend", "memory"}
Stages == {"extract"} \cup Readers

DocTypes == {"call_summary", "objection_summary", "stakeholder_profile_summary",
             "deal_state_summary", "action_rationale_summary"}

Init ==
    /\ input \in Inputs
    /\ utterances = <<>>
    /\ snapshot = None
    /\ held = [s \in Stages |-> None] /\ dealSummary = None
    /\ rec = None /\ note = None /\ docs = {}
    /\ redacted = FALSE /\ exposed = FALSE
    /\ request = [r \in Requests |-> [pc |-> "new", read |-> None, at |-> 0]]
    /\ version = 0

\* The row and its age.
Reading == [rec |-> rec, version |-> version]

-----------------------------------------------------------------------------
(* The decisions of the code; a mutant of each is a bug a run must find.   *)

\* An UPDATE of the fields the request sets.  Mutant: of the row as it was
\* read, with these fields.
Merged(row, edit) ==
    [row EXCEPT !.status = IF edit.status # None THEN edit.status ELSE @,
                !.reason = IF edit.reason THEN "typed" ELSE @]
Edited_AsRead(r, edit) == Merged(request[r].read.rec, edit)
Edited(r, edit) == Merged(rec, edit)

\* The reply is the row as it is after the commit (db.refresh); the session
\* does not expire what it has loaded.  Mutant: the row as it was loaded.
Refreshed_Not(r) == request[r].read
Refreshed(r) == Reading

\* What redaction leaves of a document.  Mutant: the embedding too.
Scrubbed_Findable(d) == [d EXCEPT !.text = "scrubbed"]
Scrubbed(d) == [d EXCEPT !.text = "scrubbed", !.vector = None]

-----------------------------------------------------------------------------
(* The stages.                                                             *)

(* The transcript of a terminal event.  Rows that are there refuse it; a   *)
(* redaction has deleted them.                                             *)
PersistTranscript ==
    /\ utterances = <<>>
    /\ utterances' = ParseTurns(input.lines)
    /\ exposed' = (exposed \/ redacted)
    /\ UNCHANGED <<input, snapshot, held, dealSummary, rec, note, docs, redacted, editVars>>

(* The extraction loads the turns and asks the model about them; nothing   *)
(* comes of it when the model fails.                                       *)
ReadTranscript ==
    LET found == input.findings IN
    /\ utterances # <<>> /\ snapshot = None /\ held["extract"] = None /\ found # None
    /\ \E quoted \in BOOLEAN :
         held' = [held EXCEPT !["extract"] =
                     [summary |-> IF found.summary THEN "said" ELSE None,
                      objections |-> found.objections, profile |-> found.profile,
                      quotes |-> quoted, scrubbed |-> FALSE]]
    /\ UNCHANGED <<input, utterances, snapshot, dealSummary, rec, note, docs, redacted, editVars,
                   exposed>>

(* What it found is committed.                                             *)
Extract ==
    /\ held["extract"] # None
    /\ snapshot' = held["extract"]
    /\ held' = [held EXCEPT !["extract"] = None]
    /\ UNCHANGED <<input, utterances, dealSummary, rec, note, docs, redacted, editVars, exposed>>

\* A stage that has run does not run again.
Ran(s) == CASE s = "risk"      -> dealSummary # None
            [] s = "recommend" -> rec # None
            [] s = "memory"    -> docs # {}

(* The recommendation reads the deal too, once it has a risk snapshot.     *)
ReadSnapshot(s) ==
    /\ snapshot # None /\ held[s] = None /\ ~Ran(s)
    /\ s = "recommend" => Ran("risk")
    /\ s = "memory" => Ran("recommend")
    /\ held' = [held EXCEPT ![s] = snapshot]
    /\ exposed' = (exposed \/ (s = "recommend" /\ redacted /\ dealSummary = "said"))
    /\ UNCHANGED <<input, utterances, snapshot, dealSummary, rec, note, docs, redacted, editVars>>

(* run_risk_update writes the summary into the deal.                       *)
UpdateDeal ==
    /\ held["risk"] # None
    /\ dealSummary' = IF held["risk"].summary # None THEN held["risk"].summary ELSE "canned"
    /\ held' = [held EXCEPT !["risk"] = None]
    /\ UNCHANGED <<input, utterances, snapshot, rec, note, docs, redacted, editVars, exposed>>

\* _fallback_recommendation: its action and the text of its note.
FallbackAction(factors) ==
    IF "No economic buyer identified" \in factors /\ "No committed next step" \notin factors
    THEN "request_intro" ELSE "send_followup"
FallbackNote(snap) == IF snap.summary # None THEN snap.summary ELSE "canned"

\* What is made of the extracted data, and of a prompt that has the deal's
\* summary beside them.
MadeOf(snap) == IF snap.scrubbed THEN "canned" ELSE "said"
Advice(snap) == IF dealSummary = "said" THEN "said" ELSE MadeOf(snap)

(* The model's recommendation and note, or the fallback's.                 *)
Recommend ==
    /\ held["recommend"] # None
    /\ \/ /\ rec' = [action |-> "advised", reason |-> Advice(held["recommend"]),
                     status |-> "proposed"]
          /\ note' = Advice(held["recommend"])
       \/ /\ rec' = [action |-> FallbackAction(input.findings.factors),
                     reason |-> "canned", status |-> "proposed"]
          /\ note' = FallbackNote(held["recommend"])
    /\ held' = [held EXCEPT !["recommend"] = None]
    /\ UNCHANGED <<input, utterances, snapshot, dealSummary, docs, redacted, editVars, exposed>>

\* _build_documents: one document of a type; those made of the extracted data
\* say nothing of a call whose data has been redacted.
BuildDocuments(snap, found) ==
    LET Doc(type, due, text) == IF due THEN {[type |-> type, text |-> text]} ELSE {}
    IN  Doc("call_summary", snap.summary # None, snap.summary)
        \cup Doc("objection_summary", snap.objections, "said")
        \cup Doc("stakeholder_profile_summary", found.contact /\ snap.profile, "said")
        \cup Doc("deal_state_summary", TRUE, MadeOf(snap))
        \cup Doc("action_rationale_summary", found.factors # {}, "canned")

\* The rows of the built documents: a vector of the text for those embedded,
\* none for those whose embedding failed.
Embedded(built, done) ==
    {[type |-> d.type, text |-> d.text,
      vector |-> IF d \in done THEN d.text ELSE None] : d \in built}

(* Every document is embedded, and stored without a vector if that fails.  *)
WriteMemory ==
    LET built == IF held["memory"] = None THEN {} ELSE BuildDocuments(held["memory"], input.findings)
    IN  /\ held["memory"] # None
        /\ \E done \in SUBSET built : docs' = Embedded(built, done)
        /\ held' = [held EXCEPT !["memory"] = None]
        /\ UNCHANGED <<input, utterances, snapshot, dealSummary, rec, note, redacted, editVars,
                       exposed>>

-----------------------------------------------------------------------------
(* The users.                                                              *)

\* Bodies of requests: accept, dismiss, and PATCH with a status, with one the
\* table's CHECK refuses, and with a reason.
Edits == {[status |-> "accepted", reason |-> FALSE], [status |-> "dismissed", reason |-> FALSE],
          [status |-> "edited", reason |-> TRUE], [status |-> "done", reason |-> TRUE],
          [status |-> None, reason |-> TRUE]}

(* The recommendation is loaded; one of another organization is not found. *)
LoadRecommendation(r) ==
    /\ request[r].pc = "new" /\ rec # None
    /\ request' = [request EXCEPT ![r].pc = "loaded", ![r].read = Reading]
    /\ UNCHANGED <<input, stageVars, rec, redacted, version, exposed>>

(* UPDATE and COMMIT; a status that is none is an error.                   *)
UpdateRecommendation(r) ==
    /\ request[r].pc = "loaded"
    /\ \E edit \in Edits :
         IF Edited(r, edit).status \in RecStatuses
         THEN /\ rec' = Edited(r, edit)
              /\ version' = version + 1
              /\ request' = [request EXCEPT ![r].pc = "committed", ![r].at = version + 1]
         ELSE /\ request' = [request EXCEPT ![r].pc = "failed"]
              /\ UNCHANGED <<rec, version>>
    /\ UNCHANGED <<input, stageVars, redacted, exposed>>

(* A PATCH that sets nothing writes nothing.                               *)
AnswerUnchanged(r) ==
    /\ request[r].pc = "loaded"
    /\ request' = [request EXCEPT ![r].pc = "answered"]
    /\ UNCHANGED <<input, stageVars, rec, redacted, version, exposed>>

Reply(r) ==
    /\ request[r].pc = "committed"
    /\ request' = [request EXCEPT ![r].pc = "answered", ![r].read = Refreshed(r)]
    /\ UNCHANGED <<input, stageVars, rec, redacted, version, exposed>>

(* DELETE /api/calls/{id}/transcript, or the retention: one transaction.   *)
Redact ==
    /\ utterances' = <<>>
    /\ snapshot' = IF snapshot = None THEN None
                   ELSE [summary |-> "scrubbed", objections |-> FALSE, profile |-> FALSE,
                         quotes |-> FALSE, scrubbed |-> TRUE]
    /\ docs' = {Scrubbed(d) : d \in docs}
    /\ note' = IF note = None THEN None ELSE "scrubbed"
    /\ rec' = IF rec = None THEN None ELSE [rec EXCEPT !.reason = "scrubbed"]
    /\ redacted' = TRUE
    /\ exposed' = (exposed \/ \E s \in Stages : held[s] # None /\ ~held[s].scrubbed)
    /\ UNCHANGED <<input, held, dealSummary, editVars>>

Next ==
    \/ PersistTranscript \/ ReadTranscript \/ Extract \/ UpdateDeal \/ Recommend \/ WriteMemory
    \/ Redact
    \/ \E s \in Readers : ReadSnapshot(s)
    \/ \E r \in Requests :
         LoadRecommendation(r) \/ UpdateRecommendation(r) \/ AnswerUnchanged(r) \/ Reply(r)

Spec == Init /\ [][Next]_vars

-----------------------------------------------------------------------------
(* What the readers find.                                                  *)

\* search_memory: among the documents with a vector, of one type or of all.
Hits(type) == {d \in docs : d.vector # None /\ (type = None \/ d.type = type)}

-----------------------------------------------------------------------------
(* Properties.                                                             *)

Snapshots == [summary : Texts \cup {None}, objections : BOOLEAN, profile : BOOLEAN,
              quotes : BOOLEAN, scrubbed : BOOLEAN]

Docs == [type : DocTypes, text : Texts, vector : Texts \cup {None}]

\* A document has one vector, of its text, and no second one of its type.
TypeOK ==
    /\ input \in Inputs
    /\ \A i \in DOMAIN utterances :
         utterances[i].speaker \in {"agent", "prospect", "unknown"}
    /\ snapshot \in Snapshots \cup {None}
    /\ held \in [Stages -> Snapshots \cup {None}]
    /\ dealSummary \in Texts \cup {None}
    /\ rec \in Recs \cup {None}
    /\ note \in Texts \cup {None}
    /\ docs \subseteq Docs
    /\ \A d \in docs : d.vector \in {d.text, None}
    /\ \A d, e \in docs : d.type = e.type => d = e
    /\ redacted \in BOOLEAN /\ exposed \in BOOLEAN
    /\ version \in Nat
    /\ request \in [Requests -> [pc : {"new", "loaded", "committed", "answered", "failed"},
                                 read : [rec : Recs, version : Nat] \cup {None}, at : Nat]]

\* Splitting a transcript (_parse_turns) loses nothing but what precedes the
\* first label, which it drops: if anything is said after a label, the turns
\* hold each word from the first label on, in its order, as the words of the
\* speaker the last label before it names; otherwise all the words are one turn
\* of nobody's.  Only a blank transcript has no turn; and what is stored is
\* nothing or all of these turns.
TurnsKeepTheWords ==
    LET lines == input.lines
        turns == ParseTurns(lines)
        LastHead(i) == {h \in Heads(lines) : h <= i /\ \A g \in Heads(lines) : g <= h \/ g > i}
        attributed == {i \in Words(lines) : LastHead(i) # {}}
        SpeakerOf(i) == IF attributed = {} THEN {"unknown"}
                        ELSE {NormalizeSpeaker(lines[h].label) : h \in LastHead(i)}
    IN  /\ turns = <<>> <=> Words(lines) \cup Heads(lines) = {}
        /\ UNION {turns[k].words : k \in DOMAIN turns} =
             IF attributed = {} THEN Words(lines) ELSE attributed
        /\ \A k \in DOMAIN turns : \A i \in turns[k].words :
             /\ SpeakerOf(i) = {turns[k].speaker}
             /\ \A m \in DOMAIN turns : \A j \in turns[m].words : k < m => i < j
        /\ utterances \in {<<>>, turns}

\* After a redaction nobody finds words of the call in what was made of it, nor
\* a document by their embedding: stages that run later make nothing of them,
\* and users who edit the recommendation do not write back what they have read.
\* The deal keeps the summary (call/service.py:389): the property says nothing
\* of a call whose recommendation is made from it after the redaction.
RedactedCallIsSilent ==
    redacted /\ ~exposed =>
        /\ utterances = <<>>
        /\ snapshot # None =>
             snapshot.summary # "said" /\ ~snapshot.objections /\ ~snapshot.quotes
        /\ rec # None => rec.reason # "said"
        /\ note # "said"
        /\ \A d \in docs : d.text # "said"
        /\ \A d \in Hits(None) : d.vector # "said"

\* A request's answer shows the recommendation with its own edit, or as a
\* later one has made it, never as it was before.
ReplyIsCurrent ==
    \A r \in Requests :
        request[r].pc = "answered" => request[r].read.version >= request[r].at
=============================================================================
