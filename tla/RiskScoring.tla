----------------------------- MODULE RiskScoring -----------------------------
(***************************************************************************)
(* The deterministic risk rules of services/risk/scoring.py.  An           *)
(* extraction is reduced to what the rules look at: a text is given or     *)
(* not, a list is empty or has a length, a label is the one a rule names   *)
(* or another.                                                             *)
(***************************************************************************)
EXTENDS Integers

Signals == {"positive", "negative", "unknown"}

RoleLabels == {"economic_buyer", "champion", "unknown"}

\* What the rules read of CallExtraction (services/extraction/schema.py).
Extractions ==
    [role : RoleLabels, nextStep : BOOLEAN, sentiment : {"negative", "other"},
     engagement : {"low", "other"}, security : BOOLEAN, procurement : BOOLEAN,
     budget : Signals, authority : Signals, timeline : Signals, objections : Nat]

PointsIf(cond, n) == IF cond THEN n ELSE 0

\* Unresolved objections: 5 points each, at most 15.
ObjectionPoints(x) == IF x.objections >= 3 THEN 15 ELSE 5 * x.objections

Points(x, stakeholderCount, hasEconomicBuyer) ==
      PointsIf(~x.nextStep, 15)
    + PointsIf(~hasEconomicBuyer, 15)
    + PointsIf(stakeholderCount <= 1, 10)
    + PointsIf(x.sentiment = "negative", 12)
    + PointsIf(x.engagement = "low", 8)
    + PointsIf(x.security, 10)
    + PointsIf(x.procurement, 8)
    + PointsIf(x.budget = "negative", 10) + PointsIf(x.budget = "unknown", 5)
    + PointsIf(x.authority = "negative", 8)
    + PointsIf(x.timeline = "negative", 10)
    + ObjectionPoints(x)

\* The score is capped.  Mutant: it is not.
Capped_Not(points) == points
Capped(points) == IF points > 100 THEN 100 ELSE points

Score(x, stakeholderCount, hasEconomicBuyer) ==
    Capped(Points(x, stakeholderCount, hasEconomicBuyer))

Level(score) ==
    CASE score <= 25 -> "low"
      [] score > 25 /\ score <= 50 -> "medium"
      [] score > 50 /\ score <= 75 -> "high"
      [] score > 75 -> "critical"

Levels == {"low", "medium", "high", "critical"}
=============================================================================
