---------------------------- MODULE CallPageProofs ----------------------------
(***************************************************************************)
(* Theorems about CallPage, for every set of calls, pages, payloads and    *)
(* faults.                                                                 *)
(***************************************************************************)
EXTENDS CallPage, TLAPS

Ends(c) == {i \in DOMAIN log[c] : Terminal(log[c][i])}

\* The last end of a call is there, so that EndedAt is it.
LastEndExists ==
    \A c \in Calls : Ends(c) # {} => \E i \in Ends(c) : \A j \in Ends(c) : j <= i

\* A page has one request at a time, and the server has read the row for it
\* after it has for what the page shows.
RepliesAreNewer ==
    \A g \in Pages :
        /\ \A x, y \in requests[g] : x = y
        /\ shown[g] # None => shown[g].seen <= Len(log[Watched[g]])
        /\ \A row \in requests[g] \ {Asked} :
             /\ row.seen <= Len(log[Watched[g]])
             /\ shown[g] # None => shown[g].seen <= row.seen

IInv == TypeOK /\ LastEndExists /\ RepliesAreNewer

-----------------------------------------------------------------------------
(* Facts about payloads, rows and the pipeline's statuses.                 *)

\* A payload of a status the application knows gives one of the column's values.
LEMMA PayloadStatus ==
    ASSUME NEW p \in Payloads, Known(p)
    PROVE  SessionStatus(p) \in Statuses
BY PayloadAssumption DEF PayloadType, RawStatuses, SessionStatus, Known, Statuses

\* The functions of a payload that EventStore has are those of BolnaEvents.
LEMMA SameFunctions ==
    \A p : /\ EventStore!ExecutionId(p) = ExecutionId(p)
           /\ EventStore!SessionStatus(p) = SessionStatus(p)
           /\ EventStore!Known(p) = Known(p)
<1>1. \A p : EventStore!ExecutionId(p) = ExecutionId(p)
  BY DEF EventStore!ExecutionId, ExecutionId
<1>2. \A p : EventStore!SessionStatus(p) = SessionStatus(p)
  BY DEF EventStore!SessionStatus, SessionStatus
<1>3. \A p : EventStore!Known(p) = Known(p)
  BY <1>2 DEF EventStore!Known, Known
<1> QED BY <1>1, <1>2, <1>3

\* Processing goes from a status of the pipeline to one.
LEMMA ProcessingClosed ==
    /\ "transcript_finalized" \in Processings
    /\ \A st \in Processings : Pipeline!Successors(st) \subseteq Processings
<1>1. Processings = {"pending", "transcript_finalized", "extraction_running",
         "extraction_completed", "failed_terminal", "failed_retryable", "snapshots_updating",
         "risk_running", "recommendation_running", "recommendation_completed"}
  <2>1. \A st \in ActiveProcessing \cup {"recommendation_running", "failed_retryable"} :
           Pipeline!Successors(st) \subseteq
             {"transcript_finalized", "extraction_running", "extraction_completed",
              "failed_terminal", "failed_retryable", "snapshots_updating", "risk_running",
              "recommendation_running", "recommendation_completed"}
    BY DEF ActiveProcessing, Pipeline!Successors
  <2>2. \A t \in {"transcript_finalized", "extraction_running", "extraction_completed",
              "failed_terminal", "failed_retryable", "snapshots_updating", "risk_running",
              "recommendation_running", "recommendation_completed"} :
           \E st \in ActiveProcessing \cup {"recommendation_running", "failed_retryable"} :
              t \in Pipeline!Successors(st)
    BY DEF ActiveProcessing, Pipeline!Successors
  <2> QED BY <2>1, <2>2 DEF Processings
<1> QED BY <1>1 DEF Pipeline!Successors

\* What the server answers is a row.
LEMMA RowIsRow ==
    ASSUME NEW c \in Calls, status[c] \in Statuses, processing[c] \in Processings,
           log[c] \in Seq(Payloads), EndedAt(c) \in Nat
    PROVE  Row(c) \in Rows
<1>1. Len(log[c]) \in Nat
  OBVIOUS
<1> QED BY <1>1 DEF Row, Rows

\* The counters of a row are numbers.
LEMMA RowSeen == \A row \in Rows : row.seen \in Nat /\ row.ended \in Nat
BY DEF Rows

\* What EndedAt is.
LEMMA EndedAtIsLast ==
    ASSUME NEW c \in Calls, LastEndExists
    PROVE  /\ Ends(c) = {} => EndedAt(c) = 0
           /\ Ends(c) # {} => EndedAt(c) \in Ends(c) /\ \A j \in Ends(c) : j <= EndedAt(c)
<1>1. EndedAt(c) = IF Ends(c) = {} THEN 0
                   ELSE CHOOSE i \in Ends(c) : \A j \in Ends(c) : j <= i
  BY DEF EndedAt, Ends
<1> QED BY <1>1 DEF LastEndExists

\* When a call ended is a place in its log, or 0.
LEMMA EndedAtNat ==
    ASSUME NEW c \in Calls, LastEndExists, log[c] \in Seq(Payloads)
    PROVE  EndedAt(c) \in Nat /\ EndedAt(c) <= Len(log[c])
BY EndedAtIsLast DEF Ends

\* An event is appended, and a last end exists again, no earlier than before.
LEMMA Recorded ==
    ASSUME IInv, NEW p \in Payloads, EventStore!Record(p)
    PROVE  /\ log' \in [Calls -> Seq(Payloads)]
           /\ LastEndExists'
           /\ \A c \in Calls : Len(log'[c]) >= Len(log[c])
           /\ \A c \in Calls : EndedAt(c)' \in Nat /\ EndedAt(c)' >= EndedAt(c)
<1>1. PICK c \in Calls : c = ExecutionId(p) /\ log' = [log EXCEPT ![c] = Append(@, p)]
  BY SameFunctions DEF IInv, TypeOK, EventStore!Record
<1>2. PICK n \in Nat : n = Len(log[c]) + 1
  BY DEF IInv, TypeOK
<1>3. log'[c] = Append(log[c], p) /\ log[c] \in Seq(Payloads)
  BY <1>1 DEF IInv, TypeOK
<1>4. /\ log'[c] \in Seq(Payloads)
      /\ DOMAIN log'[c] = DOMAIN log[c] \cup {n}
      /\ log'[c][n] = p
      /\ \A i \in DOMAIN log[c] : log'[c][i] = log[c][i] /\ i <= n
      /\ Len(log'[c]) = n
  BY <1>2, <1>3
<1>5. \A d \in Calls \ {c} : log'[d] = log[d]
  BY <1>1 DEF IInv, TypeOK
<1>6. log' \in [Calls -> Seq(Payloads)]
  BY <1>1, <1>3, <1>4 DEF IInv, TypeOK
<1>7. \A d \in Calls \ {c} : Ends(d)' = Ends(d)
  BY <1>5 DEF Ends
<1>8. Ends(c)' = IF Terminal(p) THEN Ends(c) \cup {n} ELSE Ends(c)
  BY <1>4 DEF Ends
<1>9. Ends(c) \subseteq DOMAIN log[c]
  BY DEF Ends
<1>10. LastEndExists'
  <2>1. ASSUME NEW d \in Calls, Ends(d)' # {}
        PROVE  \E i \in Ends(d)' : \A j \in Ends(d)' : j <= i
    <3>1. CASE d = c /\ Terminal(p)
      BY <1>2, <1>4, <1>8, <1>9, <3>1
    <3>2. CASE Ends(d)' = Ends(d)
      BY <2>1, <3>2 DEF IInv, LastEndExists
    <3> QED BY <1>7, <1>8, <3>1, <3>2
  <2> QED BY <2>1 DEF LastEndExists
<1>11. \A d \in Calls : EndedAt(d)' \in Nat /\ EndedAt(d)' >= EndedAt(d)
  <2> SUFFICES ASSUME NEW d \in Calls PROVE EndedAt(d)' \in Nat /\ EndedAt(d)' >= EndedAt(d)
    OBVIOUS
  <2>1. EndedAt(d) \in Nat /\ log[d] \in Seq(Payloads)
    BY EndedAtNat DEF IInv, TypeOK
  <2>2. Ends(d)' # {} => EndedAt(d)' \in Ends(d)' /\ \A j \in Ends(d)' : j <= EndedAt(d)'
    <3>1. EndedAt(d)' = IF Ends(d)' = {} THEN 0
                        ELSE CHOOSE i \in Ends(d)' : \A j \in Ends(d)' : j <= i
      BY DEF EndedAt, Ends
    <3> QED BY <1>10, <3>1 DEF LastEndExists
  <2>3. Ends(d)' = {} => EndedAt(d)' = 0
    BY DEF EndedAt, Ends
  <2>4. Ends(d) \subseteq Ends(d)'
    BY <1>7, <1>8
  <2>5. Ends(d)' \subseteq Nat
    BY <1>6 DEF Ends
  <2>6. /\ Ends(d) = {} => EndedAt(d) = 0
        /\ Ends(d) # {} => EndedAt(d) \in Ends(d)
    BY EndedAtIsLast DEF IInv
  <2> QED BY <2>1, <2>2, <2>3, <2>4, <2>5, <2>6
<1>12. \A d \in Calls : Len(log'[d]) >= Len(log[d])
  <2> SUFFICES ASSUME NEW d \in Calls PROVE Len(log'[d]) >= Len(log[d])
    OBVIOUS
  <2>1. Len(log[d]) \in Nat
    BY DEF IInv, TypeOK
  <2> QED BY <1>2, <1>4, <1>5, <2>1
<1> QED BY <1>6, <1>10, <1>11, <1>12

\* When no event is recorded, no end of a call changes.
LEMMA EndsKept == UNCHANGED log => /\ \A c : EndedAt(c)' = EndedAt(c) /\ Ends(c)' = Ends(c)
                                   /\ LastEndExists' = LastEndExists
BY DEF EndedAt, Ends, LastEndExists

-----------------------------------------------------------------------------
\* The invariant holds of pages that have just been opened.
LEMMA InitInv == Init => IInv
<1> SUFFICES ASSUME Init PROVE IInv
  OBVIOUS
<1> USE DEF Init, EventStore!Init
<1>1. \A c \in Calls : log[c] = <<>> /\ Ends(c) = {}
  BY DEF Ends
<1>2. LastEndExists
  BY <1>1 DEF LastEndExists
<1>3. \A c \in Calls : EndedAt(c) = 0
  BY <1>1, <1>2, EndedAtIsLast
<1>5. TypeOK
  BY <1>3 DEF TypeOK, Statuses, Processings
<1>6. RepliesAreNewer
  BY DEF RepliesAreNewer
<1> QED BY <1>2, <1>5, <1>6 DEF IInv

\* A step of the server that asks no page to refetch: rows stay rows and no
\* log gets shorter.
LEMMA ServerStep ==
    ASSUME IInv,
           published' \subseteq Calls, utterances' \subseteq Calls, due' \subseteq Calls,
           log' \in [Calls -> Seq(Payloads)],
           LastEndExists',
           \A c \in Calls : Len(log'[c]) >= Len(log[c]),
           \A c \in Calls : EndedAt(c)' \in Nat /\ EndedAt(c)' >= EndedAt(c),
           status' \in [Calls -> Statuses], processing' \in [Calls -> Processings],
           UNCHANGED <<elapsed, socket, requests, shown>>,
           inbox' \subseteq {g \in Pages : socket[g] = "subscribed"}
    PROVE  IInv'
<1>2. \A c \in Calls : elapsed'[c] <= EndedAt(c)'
  <2> SUFFICES ASSUME NEW c \in Calls PROVE elapsed'[c] <= EndedAt(c)'
    OBVIOUS
  <2>1. EndedAt(c) \in Nat
    BY EndedAtNat DEF IInv, TypeOK
  <2>2. elapsed[c] \in Nat /\ elapsed[c] <= EndedAt(c)
    BY DEF IInv, TypeOK
  <2> QED BY <2>1, <2>2
<1>3. TypeOK'
  BY <1>2 DEF IInv, TypeOK
<1>4. RepliesAreNewer'
  <2> SUFFICES ASSUME NEW g \in Pages
               PROVE  /\ \A x, y \in requests[g] : x = y
                      /\ shown[g] # None => shown[g].seen <= Len(log'[Watched[g]])
                      /\ \A row \in requests[g] \ {Asked} :
                           /\ row.seen <= Len(log'[Watched[g]])
                           /\ shown[g] # None => shown[g].seen <= row.seen
    BY DEF RepliesAreNewer
  <2>1. PICK c \in Calls : c = Watched[g]
    BY PageAssumption
  <2>2. Len(log[c]) \in Nat /\ Len(log'[c]) \in Nat /\ Len(log'[c]) >= Len(log[c])
    BY DEF IInv, TypeOK
  <2>3. (shown[g] # None => shown[g].seen \in Nat) /\ \A row \in requests[g] \ {Asked} : row.seen \in Nat
    BY RowSeen DEF IInv, TypeOK
  <2> QED BY <2>1, <2>2, <2>3 DEF IInv, RepliesAreNewer
<1> QED BY <1>3, <1>4 DEF IInv

\* A step of pages: the requests of a page stay, are replaced by a new one, or
\* go away; what it shows stays.
LEMMA PagesStep ==
    ASSUME IInv,
           UNCHANGED <<rowVars, processing, due, shown>>,
           elapsed' \in [Calls -> Nat], \A c \in Calls : elapsed'[c] <= EndedAt(c),
           socket' \in [Pages -> {"closed", "connecting", "open", "subscribed"}],
           inbox' \subseteq {g \in Pages : socket'[g] = "subscribed"},
           DOMAIN requests' = Pages, requests' = [g \in DOMAIN requests' |-> requests'[g]],
           \A g \in Pages : requests'[g] \in {requests[g], {Asked}, {}}
    PROVE  IInv'
<1>1. LastEndExists' /\ \A c : EndedAt(c)' = EndedAt(c)
  BY EndsKept DEF IInv, rowVars
<1>2. requests' \in [Pages -> SUBSET (Rows \cup {Asked})]
  <2>1. \A g \in Pages : requests'[g] \in SUBSET (Rows \cup {Asked})
    BY DEF IInv, TypeOK
  <2> QED BY <2>1
<1>3. TypeOK'
  BY <1>1, <1>2 DEF IInv, TypeOK, rowVars
<1>4. RepliesAreNewer'
  BY DEF IInv, RepliesAreNewer, rowVars
<1> QED BY <1>1, <1>3, <1>4 DEF IInv

\* An invalidation starts a request in place of the old one, or joins it.
LEMMA InvalidatedIs == \A g \in Pages : Invalidated(g) \in {requests[g], {Asked}}
BY DEF Invalidated

\* Every step keeps the invariant.
LEMMA NextInv == IInv /\ [Next]_vars => IInv'
<1> SUFFICES ASSUME IInv, [Next]_vars PROVE IInv'
  OBVIOUS
<1>a. /\ status \in [Calls -> Statuses] /\ processing \in [Calls -> Processings]
      /\ \A c \in Calls : EndedAt(c) \in Nat
  BY EndedAtNat DEF IInv, TypeOK
<1>b. TypeOK /\ log \in [Calls -> Seq(Payloads)] /\ \A c \in Calls : Len(log[c]) \in Nat
  BY DEF IInv, TypeOK
<1>c. ASSUME UNCHANGED log
      PROVE  /\ LastEndExists'
             /\ \A c \in Calls : EndedAt(c)' \in Nat /\ EndedAt(c)' >= EndedAt(c)
             /\ \A c \in Calls : Len(log'[c]) >= Len(log[c])
  BY <1>a, <1>b, <1>c, EndsKept DEF IInv
<1>1. ASSUME NEW p \in Payloads, Record(p) PROVE IInv'
  <2>1. EventStore!Record(p)
    BY <1>1 DEF Record
  <2>2. PICK c \in Calls : c = ExecutionId(p)
    BY <2>1, <1>b, SameFunctions DEF TypeOK, EventStore!Record
  <2>3. status' \in [Calls -> Statuses]
    BY <1>a, <2>1, <2>2, SameFunctions, PayloadStatus DEF EventStore!Record
  <2>4. processing' \in [Calls -> Processings]
    BY <1>1, <1>a, ProcessingClosed DEF Record
  <2>5. published' \subseteq Calls /\ utterances' \subseteq Calls /\ due' \subseteq Calls
    BY <1>1, <1>b, <2>1, <2>2, SameFunctions DEF Record, TypeOK, EventStore!Record
  <2>6. UNCHANGED <<elapsed, socket, requests, shown, inbox>>
    BY <1>1 DEF Record, pageVars
  <2>7. inbox' \subseteq {g \in Pages : socket[g] = "subscribed"}
    BY <1>b, <2>6 DEF TypeOK
  <2> QED BY <2>1, <2>3, <2>4, <2>5, <2>6, <2>7, Recorded, ServerStep
<1>2. ASSUME NEW c \in Calls, Publish(c) PROVE IInv'
  <2>1. /\ published' \subseteq Calls /\ utterances' \subseteq Calls /\ due' \subseteq Calls
        /\ UNCHANGED <<log, processing, elapsed, socket, requests, shown, inbox>>
    BY <1>2, <1>b DEF Publish, EventStore!Publish, TypeOK, pageVars
  <2>2. status' \in [Calls -> Statuses]
    BY <1>2, <1>a DEF Publish, EventStore!Publish, Statuses
  <2>3. inbox' \subseteq {g \in Pages : socket[g] = "subscribed"}
    BY <1>b, <2>1 DEF TypeOK
  <2> QED BY <1>a, <1>b, <1>c, <2>1, <2>2, <2>3, ServerStep
<1>3. ASSUME NEW c \in Calls, Process(c) PROVE IInv'
  <2>1. UNCHANGED <<published, status, log, utterances, elapsed, due, socket, inbox, requests, shown>>
    BY <1>3 DEF Process, rowVars, pageVars
  <2>2. PICK st \in Pipeline!Successors(processing[c]) : processing' = [processing EXCEPT ![c] = st]
    BY <1>3 DEF Process, Pipeline!Advance
  <2>3. processing' \in [Calls -> Processings]
    BY <1>a, <2>2, ProcessingClosed
  <2>4. /\ published' \subseteq Calls /\ utterances' \subseteq Calls /\ due' \subseteq Calls
        /\ inbox' \subseteq {g \in Pages : socket[g] = "subscribed"}
    BY <1>b, <2>1 DEF TypeOK
  <2> QED BY <1>a, <1>b, <1>c, <2>1, <2>3, <2>4, ServerStep
<1>4. ASSUME NEW c \in Calls, PublishHint(c) PROVE IInv'
  <2>1. /\ UNCHANGED <<published, status, log, utterances, processing, elapsed, socket, requests, shown>>
        /\ due' \subseteq due
    BY <1>4 DEF PublishHint, rowVars
  <2>2. inbox' \subseteq {g \in Pages : socket[g] = "subscribed"}
    BY <1>4, <1>b DEF PublishHint, TypeOK
  <2>3. published' \subseteq Calls /\ utterances' \subseteq Calls /\ due' \subseteq Calls
    BY <1>b, <2>1 DEF TypeOK
  <2> QED BY <1>a, <1>b, <1>c, <2>1, <2>2, <2>3, ServerStep
<1>5. ASSUME NEW c \in Calls, GraceEnds(c) PROVE IInv'
  <2>1. elapsed' \in [Calls -> Nat] /\ \A d \in Calls : elapsed'[d] <= EndedAt(d)
    BY <1>5, <1>a, <1>b DEF GraceEnds, TypeOK
  <2>2. /\ DOMAIN requests' = Pages /\ requests' = [h \in DOMAIN requests' |-> requests'[h]]
        /\ \A g \in Pages : requests'[g] \in {requests[g], {Asked}, {}}
    BY <1>5, InvalidatedIs DEF GraceEnds
  <2>3. PICK over \in SUBSET Pages :
           /\ socket' = [g \in Pages |-> IF g \in over THEN "closed" ELSE socket[g]]
           /\ inbox' = inbox \ over
    BY <1>5 DEF GraceEnds
  <2>4. /\ socket' \in [Pages -> {"closed", "connecting", "open", "subscribed"}]
        /\ inbox' \subseteq {g \in Pages : socket'[g] = "subscribed"}
    BY <1>b, <2>3 DEF TypeOK
  <2>5. UNCHANGED <<rowVars, processing, due, shown>>
    BY <1>5 DEF GraceEnds
  <2> QED BY <2>1, <2>2, <2>4, <2>5, PagesStep
<1>6. ASSUME NEW g \in Pages, Connect(g) \/ Accept(g) \/ Subscribe(g) \/ Drop(g)
                              \/ ReceiveHint(g) \/ Tick(g) \/ FetchFails(g)
      PROVE  IInv'
  <2>1. UNCHANGED <<rowVars, processing, elapsed, due, shown>>
    BY <1>6 DEF Connect, Accept, Subscribe, Drop, ReceiveHint, Tick, FetchFails
  <2>2. \E new \in {requests[g], {Asked}, {}} : requests' = [requests EXCEPT ![g] = new]
    <3>1. requests' = requests => requests' = [requests EXCEPT ![g] = requests[g]]
      BY <1>b DEF TypeOK
    <3>2. CASE Connect(g) \/ Subscribe(g) \/ Drop(g)
      BY <3>1, <3>2 DEF Connect, Subscribe, Drop
    <3>3. CASE Accept(g) \/ ReceiveHint(g)
      BY <3>3, InvalidatedIs DEF Accept, ReceiveHint
    <3>4. CASE Tick(g) \/ FetchFails(g)
      BY <3>4 DEF Tick, FetchFails
    <3> QED BY <1>6, <3>2, <3>3, <3>4
  <2>6. /\ DOMAIN requests' = Pages /\ requests' = [h \in DOMAIN requests' |-> requests'[h]]
        /\ \A h \in Pages : requests'[h] \in {requests[h], {Asked}, {}}
    BY <1>b, <2>2 DEF TypeOK
  <2>3. socket' \in [Pages -> {"closed", "connecting", "open", "subscribed"}]
    BY <1>6, <1>b DEF TypeOK, Connect, Accept, Subscribe, Drop, ReceiveHint, Tick, FetchFails
  <2>4. inbox' \subseteq {h \in Pages : socket'[h] = "subscribed"}
    BY <1>6, <1>b DEF TypeOK, Connect, Accept, Subscribe, Drop, ReceiveHint, Tick, FetchFails
  <2>5. elapsed' \in [Calls -> Nat] /\ \A d \in Calls : elapsed'[d] <= EndedAt(d)
    BY <1>b, <2>1 DEF TypeOK
  <2> QED BY <2>1, <2>6, <2>3, <2>4, <2>5, PagesStep
<1>7. ASSUME NEW g \in Pages, ReadRow(g) PROVE IInv'
  <2>1. PICK c \in Calls : c = Watched[g]
    BY PageAssumption
  <2>2. /\ Asked \in requests[g] /\ UNCHANGED <<rowVars, processing, elapsed, due, socket, inbox, shown>>
        /\ requests' = [requests EXCEPT ![g] = (@ \ {Asked}) \cup {Row(c)}]
    BY <1>7, <2>1 DEF ReadRow
  <2>3. requests[g] = {Asked} /\ requests'[g] \subseteq {Row(c)}
        /\ \A h \in Pages \ {g} : requests'[h] = requests[h]
    BY <1>b, <2>2 DEF IInv, TypeOK, RepliesAreNewer
  <2>4. LastEndExists' /\ \A d : EndedAt(d)' = EndedAt(d)
    BY <2>2, EndsKept DEF IInv, rowVars
  <2>5. Row(c) \in Rows
    BY <1>a, <1>b, <2>1, RowIsRow
  <2>6. TypeOK'
    BY <1>b, <2>2, <2>3, <2>4, <2>5 DEF TypeOK, rowVars
  <2>7. Row(c).seen = Len(log[c])
    BY DEF Row
  <2>8. RepliesAreNewer'
    BY <1>b, <2>1, <2>2, <2>3, <2>7 DEF IInv, RepliesAreNewer, rowVars
  <2> QED BY <2>4, <2>6, <2>8 DEF IInv
<1>8. ASSUME NEW g \in Pages, Reply(g) PROVE IInv'
  <2>1. PICK row \in requests[g] \ {Asked} :
          /\ shown' = [shown EXCEPT ![g] = row]
          /\ requests' = [requests EXCEPT ![g] = @ \ {row}]
          /\ UNCHANGED <<rowVars, processing, elapsed, due>>
          /\ \E done \in BOOLEAN :
               /\ socket' = [socket EXCEPT ![g] = IF done THEN "closed" ELSE @]
               /\ inbox' = IF done THEN inbox \ {g} ELSE inbox
    BY <1>8 DEF Reply
  <2>2. row \in Rows /\ requests'[g] = {}
    BY <1>b, <2>1 DEF IInv, TypeOK, RepliesAreNewer
  <2>3. LastEndExists' /\ \A d : EndedAt(d)' = EndedAt(d)
    BY <2>1, EndsKept DEF IInv, rowVars
  <2>5. /\ socket' \in [Pages -> {"closed", "connecting", "open", "subscribed"}]
        /\ inbox' \subseteq {h \in Pages : socket'[h] = "subscribed"}
    BY <1>b, <2>1 DEF TypeOK
  <2>6. \A h \in Pages \ {g} : requests'[h] = requests[h] /\ shown'[h] = shown[h]
    BY <2>1
  <2>7. requests' \in [Pages -> SUBSET (Rows \cup {Asked})] /\ shown' \in [Pages -> Rows \cup {None}]
    BY <1>b, <2>1, <2>2 DEF TypeOK
  <2>8. TypeOK'
    BY <1>b, <2>1, <2>3, <2>5, <2>7 DEF TypeOK, rowVars
  <2>9. RepliesAreNewer'
    BY <2>1, <2>2, <2>6 DEF IInv, RepliesAreNewer, rowVars
  <2> QED BY <2>3, <2>8, <2>9 DEF IInv
<1>9. CASE UNCHANGED vars
  BY <1>9, <1>b, PagesStep DEF vars, pageVars, TypeOK
<1> QED BY <1>1, <1>2, <1>3, <1>4, <1>5, <1>6, <1>7, <1>8, <1>9 DEF Next, PageStep

\* The invariant holds in every reachable state.
LEMMA IInvHolds == Spec => []IInv
BY InitInv, NextInv, PTL DEF Spec

-----------------------------------------------------------------------------
\* Every reachable state of the call pages is well typed: a hint is on its way
\* to subscribed pages only, and the time a call has been over is never ahead
\* of its end.
THEOREM TypeCorrect == Spec => []TypeOK
<1>1. IInv => TypeOK
  BY DEF IInv
<1> QED BY <1>1, IInvHolds, PTL

\* No page replaces what it shows by something older, for any number of pages,
\* hints, reconnections and failing requests: of overlapping requests the
\* older is cancelled or the newer joined.
THEOREM PagesNeverGoBack == Spec => PageNeverGoesBack
<1>1. ASSUME IInv, [Next]_vars
      PROVE  [\A g \in Pages : shown[g] # None => shown'[g].seen >= shown[g].seen]_vars
  <2>a. TypeOK /\ \A g \in Pages : shown[g] # None => shown[g].seen \in Nat
    BY <1>1, RowSeen DEF IInv, TypeOK
  <2>1. CASE UNCHANGED shown
    BY <2>a, <2>1
  <2>2. ASSUME NEW g \in Pages, Reply(g)
        PROVE  \A h \in Pages : shown[h] # None => shown'[h].seen >= shown[h].seen
    <3>1. PICK row \in requests[g] \ {Asked} : shown' = [shown EXCEPT ![g] = row]
      BY <2>2 DEF Reply
    <3>2. shown[g] # None => shown[g].seen <= row.seen
      BY <1>1 DEF IInv, RepliesAreNewer
    <3>3. row.seen \in Nat
      BY <2>a, RowSeen DEF TypeOK
    <3>4. shown'[g] = row /\ \A h \in Pages \ {g} : shown'[h] = shown[h]
      BY <2>a, <3>1 DEF TypeOK
    <3> QED BY <2>a, <3>2, <3>3, <3>4
  <2>3. UNCHANGED shown \/ \E g \in Pages : Reply(g)
    BY <1>1 DEF Next, PageStep, Record, Publish, Process, PublishHint, GraceEnds, Connect, Accept,
                Subscribe, Drop, ReceiveHint, Tick, ReadRow, FetchFails, pageVars, vars
  <2> QED BY <2>1, <2>2, <2>3
<1> QED BY <1>1, IInvHolds, PTL DEF Spec, PageNeverGoesBack

-----------------------------------------------------------------------------
(* The rows the pages look at move as ingestion and the pipeline promise.  *)

\* A call whose transcript is not stored is pending.
StartsWithTranscript == \A c \in Calls : c \notin utterances => processing[c] = "pending"

\* What a step does to the row of each call: an event and its transcript, or
\* one step of the pipeline.
LEMMA RowStep ==
    ASSUME IInv, StartsWithTranscript, [Next]_vars
    PROVE  /\ [EventStore!Next]_(EventStore!vars)
           /\ [Pipeline!Next]_processing
           /\ StartsWithTranscript'
<1> USE DEF EventStore!Next, EventStore!vars
<1>a. TypeOK
  BY DEF IInv
<1>1. ASSUME NEW p \in Payloads, Record(p)
      PROVE  EventStore!Next /\ [Pipeline!Next]_processing /\ StartsWithTranscript'
  <2>1. PICK c \in Calls : c = ExecutionId(p)
    BY <1>1, <1>a, SameFunctions DEF Record, EventStore!Record, TypeOK
  <2>2. /\ EventStore!Record(p)
        /\ utterances' \in {utterances, utterances \cup {c}}
        /\ processing' = IF c \in utterances' \ utterances
                         THEN [processing EXCEPT ![c] = "transcript_finalized"] ELSE processing
    BY <1>1, <2>1, SameFunctions DEF Record, EventStore!Record
  <2>3. CASE c \in utterances' \ utterances
    <3>1. processing[c] = "pending"
      BY <2>3 DEF StartsWithTranscript
    <3>2. Pipeline!Advance(c)
      BY <2>2, <2>3, <3>1 DEF Pipeline!Advance, Pipeline!Successors
    <3> QED BY <1>a, <2>2, <2>3, <3>2 DEF Pipeline!Next, StartsWithTranscript, TypeOK
  <2>4. CASE c \notin utterances' \ utterances
    BY <2>2, <2>4 DEF StartsWithTranscript
  <2> QED BY <2>2, <2>3, <2>4
<1>2. ASSUME NEW c \in Calls, Publish(c)
      PROVE  EventStore!Next /\ UNCHANGED processing /\ StartsWithTranscript'
  BY <1>2 DEF Publish, EventStore!Publish, StartsWithTranscript
<1>3. ASSUME NEW c \in Calls, Process(c)
      PROVE  UNCHANGED rowVars /\ Pipeline!Next /\ StartsWithTranscript'
  <2>1. c \in utterances /\ Pipeline!Advance(c) /\ UNCHANGED rowVars
    BY <1>3 DEF Process
  <2>2. \A d \in Calls \ {c} : processing'[d] = processing[d]
    BY <1>a, <2>1 DEF Pipeline!Advance, TypeOK
  <2> QED BY <2>1, <2>2 DEF Pipeline!Next, StartsWithTranscript, rowVars
<1>4. ASSUME NEW c \in Calls, PublishHint(c) \/ GraceEnds(c)
      PROVE  UNCHANGED <<rowVars, processing>>
  BY <1>4 DEF PublishHint, GraceEnds
<1>5. ASSUME NEW g \in Pages, PageStep(g) PROVE UNCHANGED <<rowVars, processing>>
  BY <1>5 DEF PageStep, Connect, Accept, Subscribe, Drop, ReceiveHint, Tick, ReadRow, Reply,
              FetchFails
<1>6. UNCHANGED <<rowVars, processing>> =>
        UNCHANGED EventStore!vars /\ StartsWithTranscript'
  BY DEF rowVars, StartsWithTranscript
<1>7. CASE UNCHANGED vars
  BY <1>7, <1>6 DEF vars
<1> QED BY <1>1, <1>2, <1>3, <1>4, <1>5, <1>6, <1>7 DEF Next, rowVars

\* No call is processed before its transcript is stored.
LEMMA StartsHold == Spec => []StartsWithTranscript
<1>1. Init => StartsWithTranscript
  BY DEF Init, EventStore!Init, StartsWithTranscript
<1>2. IInv /\ StartsWithTranscript /\ [Next]_vars => StartsWithTranscript'
  BY RowStep
<1> QED BY <1>1, <1>2, IInvHolds, PTL DEF Spec

(* The rows the pages read change as EventLedger says, which Ingestion and *)
(* Polling implement: what the pages are checked against is no more than   *)
(* what those two do to a call.                                            *)
THEOREM RowsImplementLedger == Spec => EventStore!Spec
<1>1. Init => EventStore!Init
  BY DEF Init
<1>2. IInv /\ StartsWithTranscript /\ [Next]_vars => [EventStore!Next]_(EventStore!vars)
  BY RowStep
<1> QED BY <1>1, <1>2, IInvHolds, StartsHold, PTL DEF Spec, EventStore!Spec

(* Their processing_status moves along the stages as CallProgress says,    *)
(* which the pipeline implements: a call starts with its transcript.       *)
THEOREM RowsImplementProgress == Spec => Pipeline!Spec
<1>1. Init => Pipeline!Init
  BY DEF Init, Pipeline!Init
<1>2. IInv /\ StartsWithTranscript /\ [Next]_vars => [Pipeline!Next]_processing
  BY RowStep
<1> QED BY <1>1, <1>2, IInvHolds, StartsHold, PTL DEF Spec, Pipeline!Spec
-----------------------------------------------------------------------------
(* Pages follow the processing to its end.                                 *)

\* A row that was read when the processing was over tells how it ended.
RowOver(c, row) == row.processing \in Over => row.processing = processing[c]

OversTrue ==
    \A g \in Pages :
        /\ shown[g] # None => RowOver(Watched[g], shown[g])
        /\ \A row \in requests[g] \ {Asked} : RowOver(Watched[g], row)

\* A call whose processing is over stays so.
LEMMA OverStays ==
    ASSUME TypeOK, StartsWithTranscript, [Next]_vars, NEW c \in Calls, processing[c] \in Over
    PROVE  processing'[c] = processing[c]
<1>1. ASSUME NEW p \in Payloads, Record(p) PROVE processing'[c] = processing[c]
  <2>1. PICK d : /\ d = ExecutionId(p)
                 /\ processing' = IF d \in utterances' \ utterances
                                  THEN [processing EXCEPT ![d] = "transcript_finalized"]
                                  ELSE processing
    BY <1>1 DEF Record
  <2>2. c \in utterances
    BY DEF StartsWithTranscript, Over
  <2> QED BY <2>1, <2>2 DEF TypeOK
<1>2. ASSUME NEW d \in Calls, Process(d) PROVE processing'[c] = processing[c]
  <2>1. PICK st \in Pipeline!Successors(processing[d]) : processing' = [processing EXCEPT ![d] = st]
    BY <1>2 DEF Process, Pipeline!Advance
  <2>2. d # c
    BY <2>1 DEF Pipeline!Successors, Over
  <2> QED BY <2>1, <2>2 DEF TypeOK
<1>3. ASSUME NEW d \in Calls, Publish(d) \/ PublishHint(d) \/ GraceEnds(d) PROVE UNCHANGED processing
  BY <1>3 DEF Publish, PublishHint, GraceEnds
<1>4. ASSUME NEW g \in Pages, PageStep(g) PROVE UNCHANGED processing
  BY <1>4 DEF PageStep, Connect, Accept, Subscribe, Drop, ReceiveHint, Tick, ReadRow, Reply,
              FetchFails
<1>5. CASE UNCHANGED vars
  BY <1>5 DEF vars
<1> QED BY <1>1, <1>2, <1>3, <1>4, <1>5 DEF Next

\* A page's rows are those it had, or the row as it is.
LEMMA RowsOfPages ==
    ASSUME TypeOK, RepliesAreNewer, [Next]_vars, NEW g \in Pages
    PROVE  /\ shown'[g] \in {shown[g]} \cup (requests[g] \ {Asked})
           /\ requests'[g] \subseteq requests[g] \cup {Asked, Row(Watched[g])}
<1> DEFINE Kept == /\ shown'[g] \in {shown[g]} \cup (requests[g] \ {Asked})
                   /\ requests'[g] \subseteq requests[g] \cup {Asked, Row(Watched[g])}
<1>1. ASSUME UNCHANGED <<requests, shown>> PROVE Kept
  BY <1>1
<1>2. ASSUME NEW p \in Payloads, Record(p) PROVE Kept
  BY <1>1, <1>2 DEF Record, pageVars
<1>3. ASSUME NEW c \in Calls, Publish(c) \/ Process(c) \/ PublishHint(c) PROVE Kept
  BY <1>1, <1>3 DEF Publish, Process, PublishHint, pageVars
<1>4. ASSUME NEW c \in Calls, GraceEnds(c) PROVE Kept
  <2>1. requests'[g] \in {requests[g], Invalidated(g)} /\ UNCHANGED shown
    BY <1>4 DEF GraceEnds
  <2> QED BY <2>1 DEF Invalidated
<1>5. ASSUME NEW h \in Pages, Connect(h) \/ Subscribe(h) \/ Drop(h) PROVE Kept
  BY <1>1, <1>5 DEF Connect, Subscribe, Drop
<1>6. ASSUME NEW h \in Pages, Accept(h) \/ ReceiveHint(h) \/ Tick(h) \/ FetchFails(h) PROVE Kept
  <2>1. requests'[g] \in {requests[g], Invalidated(g), {Asked}, {}} /\ UNCHANGED shown
    BY <1>6 DEF Accept, ReceiveHint, Tick, FetchFails, TypeOK
  <2> QED BY <2>1 DEF Invalidated
<1>7. ASSUME NEW h \in Pages, ReadRow(h) PROVE Kept
  BY <1>7 DEF ReadRow, TypeOK
<1>8. ASSUME NEW h \in Pages, Reply(h) PROVE Kept
  BY <1>8 DEF Reply, TypeOK
<1>9. ASSUME UNCHANGED vars PROVE Kept
  BY <1>1, <1>9 DEF vars, pageVars
<1>10. Kept
  BY <1>2, <1>3, <1>4, <1>5, <1>6, <1>7, <1>8, <1>9 DEF Next, PageStep
<1> QED BY <1>10

\* Every step keeps what pages know of the end of the processing.
LEMMA OversStep == IInv /\ StartsWithTranscript /\ OversTrue /\ [Next]_vars => OversTrue'
<1> SUFFICES ASSUME IInv, StartsWithTranscript, OversTrue, [Next]_vars PROVE OversTrue'
  OBVIOUS
<1>a. TypeOK /\ RepliesAreNewer
  BY DEF IInv
<1>1. ASSUME NEW g \in Pages, NEW row, RowOver(Watched[g], row) PROVE RowOver(Watched[g], row)'
  <2>1. Watched[g] \in Calls
    BY PageAssumption
  <2>2. CASE row.processing \in Over
    <3>1. processing[Watched[g]] = row.processing
      BY <1>1, <2>2 DEF RowOver
    <3>2. processing'[Watched[g]] = processing[Watched[g]]
      BY <1>a, <2>1, <2>2, <3>1, OverStays
    <3> QED BY <3>1, <3>2 DEF RowOver
  <2>3. CASE row.processing \notin Over
    BY <2>3 DEF RowOver, Over
  <2> QED BY <2>2, <2>3
<1>2. ASSUME NEW g \in Pages PROVE RowOver(Watched[g], Row(Watched[g]))
  BY DEF RowOver, Row
<1>3. ASSUME NEW g \in Pages
      PROVE  /\ shown'[g] # None => RowOver(Watched[g], shown'[g])
             /\ \A row \in requests'[g] \ {Asked} : RowOver(Watched[g], row)
  <2>1. /\ shown'[g] \in {shown[g]} \cup (requests[g] \ {Asked})
        /\ requests'[g] \subseteq requests[g] \cup {Asked, Row(Watched[g])}
    BY <1>a, RowsOfPages
  <2> QED BY <1>2, <2>1 DEF OversTrue
<1>4. ASSUME NEW g \in Pages
      PROVE  /\ shown'[g] # None => RowOver(Watched[g], shown[g])'
             /\ \A row \in requests'[g] \ {Asked} : RowOver(Watched[g], row)'
  <2>1. \A row \in requests'[g] \ {Asked} : RowOver(Watched[g], row)'
    BY <1>1, <1>3
  <2>2. PICK row : row = shown'[g]
    OBVIOUS
  <2>3. shown'[g] # None => RowOver(Watched[g], row)'
    BY <1>1, <1>3, <2>2
  <2> QED BY <2>1, <2>2, <2>3 DEF RowOver
<1> QED BY <1>4 DEF OversTrue

(* A page that stops within 120 s of the end of the call has followed its  *)
(* processing to the end, for good, unless it met a status that            *)
(* lib/calls.ts:61 takes for an end and that is none.  The safety in       *)
(* PageFollowsProcessing.                                                  *)
THEOREM PagesFollowToTheEnd == Spec => []StoppedPagesHaveFollowed
<1>1. Init => OversTrue
  BY DEF Init, OversTrue, EventStore!Init
<1>2. IInv /\ OversTrue => StoppedPagesHaveFollowed
  <2> SUFFICES ASSUME IInv, OversTrue, NEW g \in Pages, ~Monitors(g), elapsed[Watched[g]] = 0
               PROVE  \/ /\ shown[g].processing \in Over
                         /\ shown[g].processing = processing[Watched[g]]
                      \/ shown[g].processing \in {"recommendation_running", "failed_retryable"}
    BY DEF StoppedPagesHaveFollowed
  <2>1. shown[g] # None /\ shown[g] \in Rows
    BY DEF Monitors, Monitored, IInv, TypeOK
  <2>2. shown[g].processing \notin ActiveProcessing
    <3>1. shown[g].ended \in Nat
      BY <2>1 DEF Rows
    <3>2. shown[g].ended = 0 \/ shown[g].ended > 0
      BY <3>1
    <3> QED BY <3>2 DEF Monitors, Monitored
  <2>3. shown[g].processing \in Processings
    BY <2>1 DEF Rows
  <2>4. shown[g].processing \in Over \cup {"recommendation_running", "failed_retryable"}
    BY <2>2, <2>3 DEF Processings, ActiveProcessing, Pipeline!Successors, Over
  <2> QED BY <2>1, <2>4 DEF OversTrue, RowOver
<1> QED BY <1>1, <1>2, OversStep, StartsHold, IInvHolds, PTL DEF Spec
=============================================================================
