--------------------------- MODULE MCLoginThrottle ---------------------------
(* A small instance of LoginThrottle for TLC: one account, spelled in two  *)
(* ways, from one address.                                                 *)
EXTENDS LoginThrottle

CONSTANTS typed, plain, ip, h1, h2, h3

MCNormalize == [e \in Emails |-> plain]
=============================================================================
