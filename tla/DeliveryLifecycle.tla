-------------------------- MODULE DeliveryLifecycle --------------------------
(***************************************************************************)
(* What a caller of the delivery service may rely on: deliveries are       *)
(* opened once per event and endpoint, collect numbered answers, and are   *)
(* closed by one of them, for good; one that was closed as a failure can   *)
(* be opened again as a new delivery.  No workers, claims or leases.       *)
(***************************************************************************)
EXTENDS Naturals

CONSTANTS
  None,         \* the source of a delivery that is no replay
  LateAnswers   \* TRUE when an answer may arrive too late to count

VARIABLES
  delivery,     \* the deliveries opened so far, by id
  answers       \* the answers on record: [id, number, result]

lifecycle == <<delivery, answers>>

\* Deliveries are only ever added.
Keeps == /\ DOMAIN delivery \subseteq DOMAIN delivery'
         /\ \A i \in DOMAIN delivery : delivery'[i] = delivery[i]

\* New originals, each for an event and endpoint that had none.
Open ==
  /\ Keeps
  /\ \A i \in DOMAIN delivery' \ DOMAIN delivery :
       /\ delivery'[i].verdict = "OPEN"
       /\ delivery'[i].source = None
       /\ \A j \in DOMAIN delivery' \ {i} :
            delivery'[j].source = None => delivery'[j].target # delivery'[i].target
  /\ UNCHANGED answers

\* One new delivery, with the target and budget of a failed one.
Replay ==
  /\ Keeps
  /\ \E i \in DOMAIN delivery' \ DOMAIN delivery, source \in DOMAIN delivery :
       /\ DOMAIN delivery' = DOMAIN delivery \cup {i}
       /\ delivery[source].verdict \in {"FAILED", "DLQ"}
       /\ delivery'[i] = [verdict |-> "OPEN", target |-> delivery[source].target,
                           budget |-> delivery[source].budget, source |-> source]
  /\ UNCHANGED answers

\* What the n-th answer decides.
Verdict(result, n, budget) ==
  CASE result = "SUCCESS" -> "DELIVERED"
    [] result = "PERMANENT_FAILURE" -> "FAILED"
    [] result = "RETRYABLE_FAILURE" -> IF n < budget THEN "OPEN" ELSE "DLQ"

\* A new answer decides an open delivery, or comes too late and is only kept.
Answer ==
  \E a \in answers' \ answers :
    /\ answers' = answers \cup {a}
    /\ a.id \in DOMAIN delivery /\ a.number > 0
    /\ \A b \in answers : ~(b.id = a.id /\ b.number = a.number)
    /\ \/ /\ delivery[a.id].verdict = "OPEN"
          /\ delivery' = [delivery EXCEPT ![a.id].verdict =
                            Verdict(a.result, a.number, delivery[a.id].budget)]
       \/ /\ LateAnswers
          /\ UNCHANGED delivery

Init == DOMAIN delivery = {} /\ answers = {}

Next == Open \/ Replay \/ Answer

Spec == Init /\ [][Next]_lifecycle
==============================================================================
