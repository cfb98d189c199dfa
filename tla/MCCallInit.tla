------------------------------ MODULE MCCallInit ------------------------------
(* Small instances of CallInit for TLC.                                    *)
EXTENDS CallInit, TLC

CONSTANTS r1, r2, r3, r4, u1, u2, s1, s2

\* Three requests of one user and one of another; two of the first user's
\* requests and the second user's call the same stakeholder.
MCUserOf == [r \in Requests |-> IF r = r2 THEN u2 ELSE u1]
MCStakeholderOf == [r \in Requests |-> IF r = r3 THEN s2 ELSE s1]
=============================================================================
