----------------------------- MODULE MCDeliveries -----------------------------
(***************************************************************************)
(* Instances of Deliveries for TLC.  The cfg files give the sets their     *)
(* model values; what is interchangeable in the module is declared         *)
(* symmetric here.                                                         *)
(***************************************************************************)
EXTENDS Deliveries, TLC

\* Workers, ids, events and endpoints are compared for equality only.
SymWorkers == Permutations(Worker)
SymAll     == Permutations(Worker) \cup Permutations(Id) \cup
              Permutations(Event) \cup Permutations(Endpoint)
===============================================================================
