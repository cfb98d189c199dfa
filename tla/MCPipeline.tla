------------------------------ MODULE MCPipeline ------------------------------
(* Small instances of Pipeline for TLC.                                    *)
EXTENDS Pipeline, TLC

CONSTANTS c1, c2, w1, w2

OneRetry == [s \in Stages |-> 1]
FewRetries == [s \in Stages |-> IF s \in {"extract", "risk"} THEN 1 ELSE 0]

WorkerSymmetry == Permutations(Workers)
=============================================================================
