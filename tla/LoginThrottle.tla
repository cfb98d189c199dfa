---------------------------- MODULE LoginThrottle ----------------------------
(***************************************************************************)
(* Logins and their throttle (services/auth/service.py, the login endpoint *)
(* of api/auth.py): a Redis counter of failed attempts for every pair of   *)
(* email and client address, read before the password is verified and      *)
(* incremented or deleted afterwards, by requests that run concurrently.   *)
(***************************************************************************)
EXTENDS Naturals, FiniteSets

CONSTANTS
    Handlers,      \* requests the server runs at a time
    Emails,        \* spellings of email addresses
    Normalize,     \* email.strip().lower()
    Addresses,     \* client addresses
    MaxAttempts,   \* AUTH_MAX_FAILED_ATTEMPTS
    Window,        \* AUTH_LOCKOUT_WINDOW_SECONDS, in steps of the clock
    MaxOutages     \* bound: commands of Redis that fail in a window

ASSUME HandlerAssumption == IsFiniteSet(Handlers)
ASSUME EmailAssumption ==
    /\ Normalize \in [Emails -> Emails]
    /\ \A e \in Emails : Normalize[Normalize[e]] = Normalize[e]
ASSUME BoundAssumption ==
    MaxAttempts \in Nat \ {0} /\ Window \in Nat \ {0} /\ MaxOutages \in Nat

Pairs == Emails \X Addresses

VARIABLES
    count,      \* the counters; 0 for a key that is not there
    ttl,        \* what is left of each key's life
    pc,         \* where each request stands
    pair,       \* the email and address of each request
    retry,      \* Retry-After of each handler's last refusal; 1 before the first
    guesses,    \* history: wrong passwords judged since a pair's key was absent
    uncounted   \* history: those of them Redis failed to count

vars == <<count, ttl, pc, pair, retry, guesses, uncounted>>

\* Whose account a pair is about.
Account(k) == <<Normalize[k[1]], k[2]>>

At(k, steps) == {h \in Handlers : pc[h] \in steps /\ Account(pair[h]) = k}

Init ==
    /\ count = [k \in Pairs |-> 0] /\ ttl = [k \in Pairs |-> 0]
    /\ pc = [h \in Handlers |-> "idle"]
    /\ pair \in [Handlers -> Pairs]
    /\ retry = [h \in Handlers |-> 1]
    /\ guesses = [k \in Pairs |-> 0] /\ uncounted = [k \in Pairs |-> 0]

Goto(h, step) == pc' = [pc EXCEPT ![h] = step]

-----------------------------------------------------------------------------
(* The decisions of the code; a mutant of each is a bug a run must find.   *)

\* The key is made of the normalized email.  Mutant: of the email as typed.
RateLimitKey_Raw(e, ip) == <<e, ip>>
RateLimitKey(e, ip) == <<Normalize[e], ip>>

\* Mutant: one attempt more.
LockedOut_Late(k) == count[k] > MaxAttempts
LockedOut(k) == count[k] >= MaxAttempts

\* TTL of a key that has expired since it was read is -2; Retry-After is at
\* least a second.  Mutant: the seconds as Redis tells them, 0 for a negative.
RetryAfter_Bare(k) == ttl[k]
RetryAfter(k) == IF ttl[k] > 0 THEN ttl[k] ELSE 1

\* A refusal leaves the window alone.  Mutant: it renews it.
RefusedTtl_Renewed(k) == IF count[k] > 0 THEN Window ELSE 0
RefusedTtl(k) == ttl[k]

-----------------------------------------------------------------------------
(* A request arrives and reads the counter.                                *)
CheckRateLimit(h) ==
    /\ pc[h] = "idle"
    /\ \E e \in Emails, ip \in Addresses : LET k == RateLimitKey(e, ip) IN
         /\ pair' = [pair EXCEPT ![h] = k]
         /\ Goto(h, IF LockedOut(k) THEN "locked" ELSE "verify")
    /\ UNCHANGED <<count, ttl, retry, guesses, uncounted>>

(* 429, with what is left of the window now.                               *)
Refuse(h) ==
    /\ pc[h] = "locked"
    /\ retry' = [retry EXCEPT ![h] = RetryAfter(pair[h])]
    /\ ttl' = [ttl EXCEPT ![pair[h]] = RefusedTtl(pair[h])]
    /\ Goto(h, "idle")
    /\ UNCHANGED <<count, pair, guesses, uncounted>>

(* The user is looked up and the password verified.                        *)
Verify(h) ==
    /\ pc[h] = "verify"
    /\ \/ Goto(h, "clear") /\ UNCHANGED guesses
       \/ Goto(h, "record")
          /\ guesses' = [guesses EXCEPT ![Account(pair[h])] = @ + 1]
    /\ UNCHANGED <<count, ttl, pair, retry, uncounted>>

(* MULTI INCR EXPIRE, and 401.                                             *)
RecordFailedAttempt(h) ==
    /\ pc[h] = "record"
    /\ count' = [count EXCEPT ![pair[h]] = @ + 1]
    /\ ttl' = [ttl EXCEPT ![pair[h]] = Window]
    /\ Goto(h, "idle")
    /\ UNCHANGED <<pair, retry, guesses, uncounted>>

\* The history of a pair whose key is gone begins anew, with the guesses that
\* are yet to be counted.
Forget(k, pending) ==
    /\ guesses' = [guesses EXCEPT ![Account(k)] = Cardinality(pending)]
    /\ uncounted' = [uncounted EXCEPT ![Account(k)] = 0]

(* DEL, and the token in its cookie.                                       *)
ClearFailedAttempts(h) ==
    LET k == pair[h] IN
    /\ pc[h] = "clear"
    /\ count' = [count EXCEPT ![k] = 0]
    /\ ttl' = [ttl EXCEPT ![k] = 0]
    /\ Forget(k, At(Account(k), {"record"}))
    /\ Goto(h, "idle")
    /\ UNCHANGED <<pair, retry>>

(* Redis raises: 500, with the wrong password uncounted, or the right one  *)
(* refused.  (A read that fails leaves everything as it is.)               *)
RedisFails(h) ==
    LET k == Account(pair[h]) IN
    /\ pc[h] \in {"record", "clear"}
    /\ IF pc[h] = "record"
       THEN uncounted[k] < MaxOutages /\ uncounted' = [uncounted EXCEPT ![k] = @ + 1]
       ELSE UNCHANGED uncounted
    /\ Goto(h, "idle")
    /\ UNCHANGED <<count, ttl, pair, retry, guesses>>

(* Time passes; a key whose life is over is gone.                          *)
Elapse(k) ==
    /\ ttl[k] > 0
    /\ ttl' = [ttl EXCEPT ![k] = @ - 1]
    /\ IF ttl[k] > 1
       THEN UNCHANGED <<count, guesses, uncounted>>
       ELSE count' = [count EXCEPT ![k] = 0] /\ Forget(k, At(Account(k), {"record"}))
    /\ UNCHANGED <<pc, pair, retry>>

Next ==
    \/ \E h \in Handlers : CheckRateLimit(h) \/ Refuse(h) \/ Verify(h)
                          \/ RecordFailedAttempt(h) \/ ClearFailedAttempts(h) \/ RedisFails(h)
    \/ \E k \in Pairs : Elapse(k)

Spec == Init /\ [][Next]_vars

(* Time passes, whatever the requests do.                                  *)
FairSpec == Spec /\ \A k \in Pairs : WF_vars(Elapse(k))

-----------------------------------------------------------------------------
(* Properties.                                                             *)

\* Retry-After is from 1 second to the window, also when the key expires
\* between the GET and the TTL (service.py:33-35).
TypeOK ==
    /\ count \in [Pairs -> Nat] /\ ttl \in [Pairs -> 0 .. Window]
    /\ pc \in [Handlers -> {"idle", "locked", "verify", "record", "clear"}]
    /\ pair \in [Handlers -> Pairs]
    /\ retry \in [Handlers -> 1 .. Window]
    /\ guesses \in [Pairs -> Nat] /\ uncounted \in [Pairs -> 0 .. MaxOutages]

\* Of the passwords tried for one account from one address in one window,
\* however the email is spelled, the attempts it takes to lock it and those
\* under way at the time can be wrong, and no more, but for failures Redis did
\* not count: the check and the increment are two commands (service.py:33,
\* :54), and a login that succeeds starts the count anew.
GuessesBounded ==
    \A k \in Pairs :
        guesses[k] + 1 <= MaxAttempts + Cardinality(Handlers) + uncounted[k]

\* A lockout ends, also for a client that goes on trying: only an attempt that
\* was let through renews the window.
LockoutEnds ==
    \A k \in Pairs : count[k] >= MaxAttempts ~> count[k] < MaxAttempts
=============================================================================
