------------------------------- MODULE CallPage -------------------------------
(***************************************************************************)
(* The call page (frontend/src/hooks/use-call-realtime.ts) over the row    *)
(* that ingestion and the pipeline write as EventLedger and CallProgress   *)
(* say, which Ingestion and Pipeline implement.  It refetches the row      *)
(* every 5 seconds, on every hint from its WebSocket (api/ws.py,           *)
(* services/realtime/pubsub.py) and whenever the socket opens, and stops   *)
(* when the call has ended and its processing is over or 120 s old.        *)
(* React Query keeps the last reply and at most one request: invalidating  *)
(* the query cancels a request for data it has, and joins the first one.   *)
(***************************************************************************)
EXTENDS BolnaEvents

CONSTANTS
    Pages,       \* open call pages
    Watched,     \* the call each page shows
    Asked,       \* a request the server has not read the row for
    Faults   \* what may go wrong between page and server

AllFaults == {"drop",  \* the connection closes, or is refused
                  "hint",  \* a hint is not published, or its publishing fails
                  "fetch"} \* a request fails

ASSUME PageAssumption == Watched \in [Pages -> Calls]
ASSUME FaultAssumption == Faults \subseteq AllFaults

VARIABLES
    published, status, log, utterances, \* as in EventLedger
    processing,  \* CallSession.processing_status
    elapsed,     \* 120 s have passed since the event at this place of the log
    due,         \* calls with a commit whose hint is to be published
    socket,      \* of each page
    inbox,       \* pages with a hint on its way
    requests,    \* of each page, Asked or the row the server has read
    shown        \* the row each page shows; None before the first reply

rowVars  == <<published, status, log, utterances>>
pageVars == <<socket, inbox, requests, shown>>
vars == <<rowVars, processing, elapsed, due, pageVars>>

\* The pipeline's start is part of CallProgress here.
EventStore == INSTANCE EventLedger WITH
    published <- published, status <- status, log <- log, utterances <- utterances,
    jobs <- [c \in Calls |-> 0]

Pipeline == INSTANCE CallProgress WITH progress <- processing

\* ended_at: the place in the log of the last terminal event (0: NULL).
EndedAt(c) ==
    LET ends == {i \in DOMAIN log[c] : Terminal(log[c][i])}
    IN  IF ends = {} THEN 0 ELSE CHOOSE i \in ends : \A j \in ends : j <= i

Row(c) == [status |-> status[c], processing |-> processing[c],
           ended |-> EndedAt(c), seen |-> Len(log[c])]

\* The statuses from which a page expects the processing to go on.  Mutant: one
\* more of them is forgotten.
ActiveProcessing_NoRisk == {"pending", "transcript_finalized", "extraction_running",
                            "extraction_completed", "snapshots_updating"}
ActiveProcessing == {"pending", "transcript_finalized", "extraction_running",
                     "extraction_completed", "snapshots_updating", "risk_running"}

\* shouldMonitorCall(row) once 120 s have passed since event n of the call.
\* Mutant: a call that has ended is not monitored.
Monitored_WhileLive(row, n) == row # None => row.status \notin TerminalStatuses
Monitored(row, n) ==
    row # None /\ row.status \in TerminalStatuses =>
        row.processing \in ActiveProcessing /\ (row.ended = 0 \/ row.ended > n)

Monitors(g) == Monitored(shown[g], elapsed[Watched[g]])

Init ==
    /\ EventStore!Init
    /\ processing = [c \in Calls |-> "pending"]
    /\ elapsed = [c \in Calls |-> 0]
    /\ due = {}
    /\ socket = [g \in Pages |-> "closed"]
    /\ inbox = {}
    /\ requests = [g \in Pages |-> {Asked}]
    /\ shown = [g \in Pages |-> None]

-----------------------------------------------------------------------------
(* The decisions of the code; a mutant of each is a bug a run must find.   *)

\* The interval runs whenever the page monitors.  Mutant: only while there
\* is no socket.
Polls_Offline(g) == Monitors(g) /\ socket[g] # "subscribed"
Polls(g) == Monitors(g)

\* What an invalidation leaves of the requests of a page: a new request in
\* place of the old.  Mutant: beside the old.
Invalidated_Beside(g) == requests[g] \cup {Asked}
Invalidated(g) == IF shown[g] = None /\ requests[g] # {} THEN requests[g] ELSE {Asked}

-----------------------------------------------------------------------------
(* The server.                                                             *)

(* The provider's id is committed.                                         *)
Publish(c) ==
    /\ EventStore!Publish(c)
    /\ UNCHANGED <<processing, elapsed, due, pageVars>>

(* An event is committed, with its transcript; its hint is due.            *)
Record(p) ==
    LET c == ExecutionId(p) IN
    /\ EventStore!Record(p)
    /\ processing' = IF c \in utterances' \ utterances
                     THEN [processing EXCEPT ![c] = "transcript_finalized"] ELSE processing
    /\ due' = IF Known(p) THEN due \cup {c} ELSE due
    /\ UNCHANGED <<elapsed, pageVars>>

(* The pipeline moves the call on; it publishes no hints.                  *)
Process(c) ==
    /\ c \in utterances
    /\ Pipeline!Advance(c)
    /\ UNCHANGED <<rowVars, elapsed, due, pageVars>>

(* The hint reaches the pages that are subscribed, or none.                *)
PublishHint(c) ==
    /\ c \in due
    /\ due' = due \ {c}
    /\ \/ inbox' = inbox \cup {g \in Pages : Watched[g] = c /\ socket[g] = "subscribed"}
       \/ "hint" \in Faults /\ UNCHANGED inbox
    /\ UNCHANGED <<rowVars, processing, elapsed, socket, requests, shown>>

(* 120 s since the call has ended: the page's timer refetches once more,   *)
(* and the page monitors no longer.                                        *)
GraceEnds(c) ==
    LET over == {g \in Pages : Watched[g] = c /\ Monitors(g)
                               /\ ~Monitored(shown[g], EndedAt(c))}
    IN  /\ elapsed[c] < EndedAt(c)
        /\ elapsed' = [elapsed EXCEPT ![c] = EndedAt(c)]
        /\ requests' = [g \in Pages |-> IF g \in over THEN Invalidated(g) ELSE requests[g]]
        /\ socket' = [g \in Pages |-> IF g \in over THEN "closed" ELSE socket[g]]
        /\ inbox' = inbox \ over
        /\ UNCHANGED <<rowVars, processing, due, shown>>

-----------------------------------------------------------------------------
(* The socket: opened, accepted, subscribed, closed and opened again.      *)
Connect(g) ==
    /\ socket[g] = "closed" /\ Monitors(g)
    /\ socket' = [socket EXCEPT ![g] = "connecting"]
    /\ UNCHANGED <<rowVars, processing, elapsed, due, inbox, requests, shown>>

(* The server accepts, before it subscribes; the page refetches on open.   *)
Accept(g) ==
    /\ socket[g] = "connecting"
    /\ socket' = [socket EXCEPT ![g] = "open"]
    /\ requests' = [requests EXCEPT ![g] = Invalidated(g)]
    /\ UNCHANGED <<rowVars, processing, elapsed, due, inbox, shown>>

Subscribe(g) ==
    /\ socket[g] = "open"
    /\ socket' = [socket EXCEPT ![g] = "subscribed"]
    /\ UNCHANGED <<rowVars, processing, elapsed, due, inbox, requests, shown>>

(* The handshake is refused or the connection lost.                        *)
Drop(g) ==
    /\ "drop" \in Faults
    /\ socket[g] # "closed"
    /\ socket' = [socket EXCEPT ![g] = "closed"]
    /\ inbox' = inbox \ {g}
    /\ UNCHANGED <<rowVars, processing, elapsed, due, requests, shown>>

ReceiveHint(g) ==
    /\ g \in inbox
    /\ inbox' = inbox \ {g}
    /\ requests' = [requests EXCEPT ![g] = Invalidated(g)]
    /\ UNCHANGED <<rowVars, processing, elapsed, due, socket, shown>>

-----------------------------------------------------------------------------
(* The query.                                                              *)

(* The interval elapses; a request that is under way is left alone.        *)
Tick(g) ==
    /\ Polls(g) /\ requests[g] = {}
    /\ requests' = [requests EXCEPT ![g] = {Asked}]
    /\ UNCHANGED <<rowVars, processing, elapsed, due, socket, inbox, shown>>

(* GET /api/calls/{id} reads the row.                                      *)
ReadRow(g) ==
    /\ Asked \in requests[g]
    /\ requests' = [requests EXCEPT ![g] = (@ \ {Asked}) \cup {Row(Watched[g])}]
    /\ UNCHANGED <<rowVars, processing, elapsed, due, socket, inbox, shown>>

(* A reply arrives; a page that has seen enough closes its socket.         *)
Reply(g) ==
    \E row \in requests[g] \ {Asked} :
        /\ shown' = [shown EXCEPT ![g] = row]
        /\ requests' = [requests EXCEPT ![g] = @ \ {row}]
        /\ LET done == ~Monitored(row, elapsed[Watched[g]]) IN
             /\ socket' = [socket EXCEPT ![g] = IF done THEN "closed" ELSE @]
             /\ inbox' = IF done THEN inbox \ {g} ELSE inbox
        /\ UNCHANGED <<rowVars, processing, elapsed, due>>

FetchFails(g) ==
    /\ "fetch" \in Faults
    /\ requests[g] # {}
    /\ requests' = [requests EXCEPT ![g] = {}]
    /\ UNCHANGED <<rowVars, processing, elapsed, due, socket, inbox, shown>>

PageStep(g) ==
    \/ Connect(g) \/ Accept(g) \/ Subscribe(g) \/ Drop(g) \/ ReceiveHint(g)
    \/ Tick(g) \/ ReadRow(g) \/ Reply(g) \/ FetchFails(g)

Next ==
    \/ \E p \in Payloads : Record(p)
    \/ \E c \in Calls : Publish(c) \/ Process(c) \/ PublishHint(c) \/ GraceEnds(c)
    \/ \E g \in Pages : PageStep(g)

Spec == Init /\ [][Next]_vars

(* An interval that runs elapses, and of the requests and replies that are *)
(* sent again and again one arrives.  Nothing makes an event, a hint or a  *)
(* connection come through.                                                *)
FairSpec ==
    /\ Spec
    /\ \A g \in Pages : WF_vars(Tick(g)) /\ SF_vars(ReadRow(g)) /\ SF_vars(Reply(g))

-----------------------------------------------------------------------------
(* Properties.                                                             *)

Processings == {"pending"} \cup UNION {Pipeline!Successors(st) :
                   st \in ActiveProcessing \cup {"recommendation_running", "failed_retryable"}}

Rows == [status : Statuses, processing : Processings, ended : Nat, seen : Nat]

TypeOK ==
    /\ published \subseteq Calls /\ utterances \subseteq Calls
    /\ status \in [Calls -> Statuses] /\ log \in [Calls -> Seq(Payloads)]
    /\ processing \in [Calls -> Processings]
    /\ elapsed \in [Calls -> Nat] /\ \A c \in Calls : elapsed[c] <= EndedAt(c)
    /\ due \subseteq Calls
    /\ socket \in [Pages -> {"closed", "connecting", "open", "subscribed"}]
    /\ inbox \subseteq {g \in Pages : socket[g] = "subscribed"}
    /\ requests \in [Pages -> SUBSET (Rows \cup {Asked})]
    /\ shown \in [Pages -> Rows \cup {None}]

\* What a page shows is never older than what it has shown before, although
\* requests are started by the interval, by hints and by reconnections, and
\* overtake each other.
PageNeverGoesBack ==
    [][\A g \in Pages : shown[g] # None => shown'[g].seen >= shown[g].seen]_vars

\* The statuses of a call whose processing is over.
Over == {"recommendation_completed", "failed_terminal"}

\* A page that has stopped looking within 120 s of the end of the call shows how
\* the processing ended, and so it stays: whichever request it stopped on and
\* however late the reply, no stage begins, or begins again, behind its back.
\* But lib/calls.ts:61 takes recommendation_running and failed_retryable for
\* ends too: of a page that stopped on one of them nothing is said.
StoppedPagesHaveFollowed ==
    \A g \in Pages : LET c == Watched[g] IN
        ~Monitors(g) /\ elapsed[c] = 0 =>
            \/ shown[g].processing \in Over /\ shown[g].processing = processing[c]
            \/ shown[g].processing \in {"recommendation_running", "failed_retryable"}

\* A page that is open shows the status the call keeps in the end, however
\* many hints are lost, published before the socket was subscribed
\* (ws.py:50, :97), or answered with what was read before (PRD.md:1462),
\* unless it has stopped on an end of the call that another event has replaced.
PageShowsFinalStatus ==
    \A g \in Pages, st \in TerminalStatuses :
        <>[](status[Watched[g]] = st) =>
            \/ <>[](shown[g] # None /\ shown[g].status = st)
            \/ <>(/\ ~Monitors(g) /\ shown[g].ended > 0
                  /\ shown[g].seen < Len(log[Watched[g]]))

\* It also follows the processing to its end, until 120 s after the call has
\* ended, unless it has seen the call in a status that lib/calls.ts takes for
\* an end and that is not one: recommendation_running or failed_retryable.
PageFollowsProcessing ==
    \A g \in Pages, st \in Over :
        <>[](processing[Watched[g]] = st /\ status[Watched[g]] \in TerminalStatuses) =>
            \/ <>(shown[g] # None /\ shown[g].processing = st)
            \/ <>(shown[g] # None /\ shown[g].processing \in
                     {"recommendation_running", "failed_retryable"})
            \/ <>(elapsed[Watched[g]] > 0)
=============================================================================
