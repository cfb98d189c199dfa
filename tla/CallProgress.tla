---------------------------- MODULE CallProgress ----------------------------
(***************************************************************************)
(* What the pipeline promises to the readers of processing_status (the     *)
(* call page's lists of statuses, frontend/src/lib/calls.ts): the status   *)
(* of a call moves along the stages, one at a time and in their order,     *)
(* until a claim is taken over or a second transcript restarts the call.   *)
(***************************************************************************)
CONSTANTS Calls

VARIABLES progress   \* the processing_status of each call, or "unsupervised"

\* A stage starts where its predecessor ended, and completes, gives up or
\* leaves the call to a retry, of whichever stage.
Successors(st) ==
    CASE st = "pending"                -> {"transcript_finalized"}
      [] st = "transcript_finalized"   -> {"extraction_running"}
      [] st = "extraction_running"     -> {"extraction_completed", "failed_terminal",
                                           "failed_retryable"}
      [] st = "extraction_completed"   -> {"snapshots_updating"}
      [] st = "snapshots_updating"     -> {"risk_running", "failed_retryable"}
      [] st = "risk_running"           -> {"recommendation_running"}
      [] st = "recommendation_running" -> {"recommendation_completed", "failed_retryable"}
      [] st = "failed_retryable"       -> {"extraction_running", "snapshots_updating",
                                           "recommendation_running"}
      [] OTHER                         -> {}

Init == progress = [c \in Calls |-> "pending"]

Advance(c) ==
    \E st \in Successors(progress[c]) : progress' = [progress EXCEPT ![c] = st]

Abandon(c) == progress' = [progress EXCEPT ![c] = "unsupervised"]

Next == \E c \in Calls : Advance(c) \/ Abandon(c)

Spec == Init /\ [][Next]_progress
=============================================================================
