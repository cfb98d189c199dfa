----------------------------- MODULE MCCallTexts -----------------------------
(* A small instance of CallTexts for TLC.                                  *)
EXTENDS CallTexts, TLC

CONSTANTS r1, r2

MCLines == [label : {"Bot", "User", NoLabel}, says : BOOLEAN]

\* Every transcript of up to three lines, in which extraction finds nothing,
\* and a plain one in which it finds all or little.
Transcripts == UNION {[1 .. n -> MCLines] : n \in 0 .. 3}
Plain == <<[label |-> "Bot", says |-> TRUE], [label |-> "User", says |-> TRUE]>>
MCFindings == {f \in Findings : f.summary = f.objections /\ f.profile /\ f.contact = f.summary}

MCInputs == [lines : Transcripts, findings : {None}] \cup [lines : {Plain}, findings : MCFindings]

RequestSymmetry == Permutations(Requests)
=============================================================================
