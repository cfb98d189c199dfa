----------------------------- MODULE MCDealRisk -----------------------------
(***************************************************************************)
(* Three calls of a deal with up to three stakeholders: one call finds the *)
(* economic buyer and a clean deal, one everything that is wrong, one      *)
(* relabels the stakeholder of the first.                                  *)
(***************************************************************************)
EXTENDS DealRisk

CONSTANTS j1, j2, j3, s1, s2, s3

Clean ==
    [role |-> "economic_buyer", nextStep |-> TRUE, sentiment |-> "other",
     engagement |-> "other", security |-> FALSE, procurement |-> FALSE,
     budget |-> "positive", authority |-> "positive", timeline |-> "positive",
     objections |-> 0]

Bleak ==
    [role |-> "unknown", nextStep |-> FALSE, sentiment |-> "negative",
     engagement |-> "low", security |-> TRUE, procurement |-> TRUE,
     budget |-> "negative", authority |-> "negative", timeline |-> "negative",
     objections |-> 4]

TargetOf == [j \in Jobs |-> IF j = j2 THEN s2 ELSE s1]

ExtractionOf == [j \in Jobs |->
    CASE j = j1 -> Clean
      [] j = j2 -> Bleak
      [] j = j3 -> [Clean EXCEPT !.role = "champion", !.budget = "unknown"]]
=============================================================================
