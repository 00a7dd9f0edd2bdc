------------------------------- MODULE Backoff -------------------------------
(***************************************************************************)
(* How long a delivery waits for its next attempt (retry.NextDelay), as a  *)
(* function, and the waits of one delivery that fails again and again.     *)
(* The jitter is any point of its interval; a float64 holds every base up  *)
(* to the cap exactly.                                                     *)
(***************************************************************************)
EXTENDS Integers

CONSTANTS
  Initials, Maxima, Jitters,   \* initial_delay_ms, max_delay_ms, jitter_percent
  MaxAttempts                  \* bound: attempts of the delivery

ASSUME BackoffAssumption ==
  /\ Initials \subseteq Nat \ {0} /\ Maxima \subseteq Nat /\ Jitters \subseteq 0..100
  /\ MaxAttempts \in Nat

VARIABLES
  policy,    \* its retry policy
  attempt,   \* attempts so far
  wait,      \* what NextDelay answered last, in ms
  nominal    \* reference: the wait without jitter, doubled step by step

backoff == <<policy, attempt, wait, nominal>>

\* What the table retry_policies can hold, by its CHECKs.
Policy ==
  {p \in [type : {"fixed", "exponential"}, initial : Initials, max : Maxima,
          jitter : Jitters] : p.initial <= p.max}

AtLeastOne(n) == IF n < 1 THEN 1 ELSE n

AtMost(n, bound) == IF n > bound THEN bound ELSE n

\* math.Pow(2, n).
Pow2[n \in Nat] == IF n = 0 THEN 1 ELSE 2 * Pow2[n - 1]

\* The switch on the type knows "linear", which no row holds; what rows hold,
\* "fixed" included, is its default.
Growth(p, n) == IF p.type = "linear" THEN p.initial * n ELSE p.initial * Pow2[n - 1]

Base(p, n) ==
  IF p.max > 0 THEN AtMost(Growth(p, AtLeastOne(n)), p.max) ELSE Growth(p, AtLeastOne(n))

\* Mutant of NextDelay: no cap.
MutNextDelayUncapped(p, n) ==
  LET base == Growth(p, AtLeastOne(n)) IN
  {d \in 0..(2 * base) : /\ 100 * (d + 1) > base * (100 - p.jitter)
                         /\ 100 * d <= base * (100 + p.jitter)}

\* Milliseconds, rounded down; with all of its jitter below, the delay is 0.
NextDelay(p, n) ==
  LET base == Base(p, n) IN
  {d \in 0..(2 * base) : /\ 100 * (d + 1) > base * (100 - p.jitter)
                         /\ 100 * d <= base * (100 + p.jitter)}

-----------------------------------------------------------------------------
BackoffInit ==
  /\ policy \in Policy
  /\ attempt = 0 /\ wait = 0 /\ nominal = 0

\* The attempt fails, and Deliver asks when the next one is due.
Fail ==
  /\ attempt < MaxAttempts
  /\ attempt' = attempt + 1
  /\ wait' \in NextDelay(policy, attempt')
  /\ nominal' = IF attempt = 0 THEN policy.initial
                ELSE AtMost(2 * nominal, policy.max)
  /\ UNCHANGED policy

BackoffSpec == BackoffInit /\ [][Fail]_backoff

-----------------------------------------------------------------------------
(* Properties.                                                              *)

\* The waits of every policy that a row can hold double from one attempt to the
\* next up to max_delay_ms, and are never further from that than their jitter on
\* either side: growing by powers, capping and adding the jitter last is the same
\* as doubling step by step.  That a policy of type 'fixed' doubles too is what
\* NextDelay does, not what the name of the type asks for.
WaitsDouble ==
  attempt > 0 =>
    /\ 100 * wait <= nominal * (100 + policy.jitter)
    /\ 100 * (wait + 1) > nominal * (100 - policy.jitter)
===============================================================================
