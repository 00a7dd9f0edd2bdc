---------------------------- MODULE MCAlgorithms ----------------------------
(***************************************************************************)
(* Pages, Backoff and Scheduling for TLC.  They have nothing in common: a  *)
(* behaviour is one of the three, and the other two stay in one of their   *)
(* initial states.                                                         *)
(***************************************************************************)
EXTENDS Pages, Backoff, Scheduling

VARIABLE part   \* the module that acts

all == <<pages, backoff, schedule, part>>

Init ==
  /\ PagesInit /\ BackoffInit /\ SchedulingInit
  /\ part \in {"pages", "backoff", "scheduling"}
  /\ part # "pages" => query = CHOOSE q \in Query : TRUE
  /\ part # "backoff" => policy = CHOOSE p \in Policy : TRUE

Scheduled(A) == part = "scheduling" /\ A /\ UNCHANGED <<pages, backoff, part>>

Next ==
  \/ part = "pages" /\ PagesNext /\ UNCHANGED <<backoff, schedule, part>>
  \/ part = "backoff" /\ Fail /\ UNCHANGED <<pages, schedule, part>>
  \/ Scheduled(SchedulingNext)

\* SchedulingFairness, where the part that acts is Scheduling.
Fairness ==
  /\ WF_all(Scheduled(Advance))
  /\ \A i \in Delivery : WF_all(Scheduled(BecomeDue(i)))

Spec == Init /\ [][Next]_all /\ Fairness
===============================================================================
