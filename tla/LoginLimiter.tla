---------------------------- MODULE LoginLimiter ----------------------------
(***************************************************************************)
(* The sliding-window limiter with lockout, and the login handler that     *)
(* uses it: check, then an await on the database, then hit or clear.       *)
(*                                                                         *)
(* Time is relative: a hit is its age, a lockout its remaining time, and   *)
(* Tick moves both, so that the state space is finite without a bound on   *)
(* time.  A lockout that has expired but is not popped yet equals none     *)
(* (both tests of it are "until > now"); the age of a hit stops at          *)
(* Window + 1, past which the code cannot tell ages apart.                 *)
(***************************************************************************)
EXTENDS Naturals, Sequences, FiniteSets

CONSTANTS
    Key,          \* client addresses
    Handler,      \* login requests in flight at once
    MaxAttempts,  \* max_attempts
    Window,       \* window_seconds
    Lockout       \* lockout_seconds

ASSUME LimiterAssumption ==
    /\ IsFiniteSet(Handler)
    /\ MaxAttempts \in Nat \ {0}
    /\ Window \in Nat
    /\ Lockout \in Nat

\* Both limiters of the application lock for longer than their window.
ASSUME LockoutAssumption == Lockout > Window

VARIABLES
    hits,     \* _hits: per key the ages of the recorded failures, oldest first
    locked,   \* _lockouts: per key the time the lockout has still to run
    pc,       \* where the handler is: idle, or verifying the password
    key       \* the key the handler works on

vars == <<hits, locked, pc, key>>

TypeOK ==
    /\ hits \in [Key -> Seq(0..(Window + 1))]
    /\ locked \in [Key -> 0..Lockout]
    /\ pc \in [Handler -> {"idle", "verify"}]
    /\ key \in [Handler -> Key]

Init ==
    /\ hits = [k \in Key |-> <<>>]
    /\ locked = [k \in Key |-> 0]
    /\ pc = [h \in Handler |-> "idle"]
    /\ key \in [Handler -> Key]

-----------------------------------------------------------------------------
\* _prune pops hits from the front of the deque as long as they are older than
\* the window: what follows the n popped ones is left.
InWindow(q) ==
    LET n == CHOOSE n \in 0..Len(q) :
                 /\ \A i \in 1..n : q[i] > Window
                 /\ n < Len(q) => q[n + 1] <= Window
    IN  SubSeq(q, n + 1, Len(q))

Pruned(k) == InWindow(hits[k])

\* Mutant: nothing is checked before the password is verified.
AdmitsAll(k) == TRUE

\* check raises while the lockout runs, and starts one if it finds the window
\* full.
Admits(k) == locked[k] = 0 /\ Len(Pruned(k)) < MaxAttempts

\* Mutant: a refused attempt prolongs the lockout.
RefusalProlongs(k) ==
    /\ hits' = [hits EXCEPT ![k] = Pruned(k)]
    /\ locked' = [locked EXCEPT ![k] = Lockout]

Refusal(k) ==
    /\ hits' = [hits EXCEPT ![k] = Pruned(k)]
    /\ locked' = [locked EXCEPT ![k] = IF @ > 0 THEN @ ELSE Lockout]

Hit(k) ==
    /\ hits' = [hits EXCEPT ![k] = Append(Pruned(k), 0)]
    /\ locked' = [locked EXCEPT ![k] =
                      IF Len(Pruned(k)) + 1 >= MaxAttempts THEN Lockout ELSE @]

Clear(k) ==
    /\ hits' = [hits EXCEPT ![k] = <<>>]
    /\ locked' = [locked EXCEPT ![k] = 0]

-----------------------------------------------------------------------------
\* login up to its first await: an admitted request goes on to the database ...
LoginAdmitted(h, k) ==
    /\ pc[h] = "idle"
    /\ Admits(k)
    /\ hits' = [hits EXCEPT ![k] = Pruned(k)]
    /\ pc' = [pc EXCEPT ![h] = "verify"]
    /\ key' = [key EXCEPT ![h] = k]
    /\ UNCHANGED locked

\* ... a refused one answers 429.
LoginRefused(h, k) ==
    /\ pc[h] = "idle"
    /\ ~Admits(k)
    /\ Refusal(k)
    /\ UNCHANGED <<pc, key>>

\* The password was wrong (or the user unknown or disabled).
LoginFails(h) ==
    /\ pc[h] = "verify"
    /\ Hit(key[h])
    /\ pc' = [pc EXCEPT ![h] = "idle"]
    /\ UNCHANGED key

LoginSucceeds(h) ==
    /\ pc[h] = "verify"
    /\ Clear(key[h])
    /\ pc' = [pc EXCEPT ![h] = "idle"]
    /\ UNCHANGED key

\* The monotonic clock.
Tick ==
    /\ hits' = [k \in Key |->
            [i \in DOMAIN hits[k] |->
                IF hits[k][i] <= Window THEN hits[k][i] + 1 ELSE hits[k][i]]]
    /\ locked' = [k \in Key |-> IF locked[k] > 0 THEN locked[k] - 1 ELSE 0]
    /\ UNCHANGED <<pc, key>>

Next ==
    \/ \E h \in Handler :
        \/ \E k \in Key : LoginAdmitted(h, k) \/ LoginRefused(h, k)
        \/ LoginFails(h)
        \/ LoginSucceeds(h)
    \/ Tick

Spec == Init /\ [][Next]_vars

\* Time passes and the database answers; clients may retry for ever.
FairSpec ==
    /\ Spec
    /\ WF_vars(Tick)
    /\ \A h \in Handler : WF_vars(LoginFails(h) \/ LoginSucceeds(h))

-----------------------------------------------------------------------------
(***************************************************************************)
(* Properties.                                                             *)
(***************************************************************************)

\* check admits MaxAttempts failures per window only if it is alone: requests
\* that passed it before the failures of the others were recorded add to the
\* window, so the true bound is MaxAttempts - 1 plus the requests in flight.
WindowBounded ==
    \A k \in Key : Len(Pruned(k)) <= MaxAttempts - 1 + Cardinality(Handler)

\* A client that keeps retrying while it is locked out does not stay locked out
\* for ever: refused attempts do not prolong the lockout.
LockoutEnds == \A k \in Key : locked[k] > 0 ~> locked[k] = 0
=============================================================================
