----------------------------- MODULE Transcript -----------------------------
(***************************************************************************)
(* The provider's transcript, one text, and the turns it is split into     *)
(* (services/transcripts/service.py).  A line of it is the speaker label   *)
(* it begins with, if any, and whether it says anything; what it says is   *)
(* named by the number of the line.                                        *)
(***************************************************************************)
EXTENDS Naturals, Sequences, FiniteSets

CONSTANTS NoLabel

Labels == {"Agent", "AI", "Assistant", "Bot", "User", "Prospect", "Customer", "Human"}

Lines == [label : Labels \cup {NoLabel}, says : BOOLEAN]

NormalizeSpeaker(label) ==
    IF label \in {"Agent", "AI", "Assistant", "Bot"} THEN "agent" ELSE "prospect"

Heads(lines) == {i \in DOMAIN lines : lines[i].label # NoLabel}

Words(lines) == {i \in DOMAIN lines : lines[i].says}

\* What is said from a label to the next one.
TextAfter(lines, i) ==
    {j \in Words(lines) : j >= i /\ \A h \in Heads(lines) : h <= i \/ h > j}

\* The labels that begin a turn.
Speaking(lines) == {i \in Heads(lines) : TextAfter(lines, i) # {}}

\* Numbers of lines, from the first to the last.
InOrder(S) ==
    CHOOSE s \in [1 .. Cardinality(S) -> S] : \A j, k \in DOMAIN s : j < k => s[j] < s[k]

\* What precedes the first label is dropped.
SpokenTurns(lines) ==
    LET heads == InOrder(Speaking(lines))
    IN  [k \in DOMAIN heads |-> [speaker |-> NormalizeSpeaker(lines[heads[k]].label),
                                 words |-> TextAfter(lines, heads[k])]]

\* A text without labels is a turn of nobody's, and so is one whose labels are
\* followed by nothing.  Mutant: there are no turns but the labels'.
ParseTurns_LabelledOnly(lines) == SpokenTurns(lines)
ParseTurns(lines) ==
    CASE Speaking(lines) # {} -> SpokenTurns(lines)
      [] Speaking(lines) = {} /\ Words(lines) \cup Heads(lines) = {} -> <<>>
      [] OTHER -> <<[speaker |-> "unknown", words |-> Words(lines)]>>
=============================================================================
