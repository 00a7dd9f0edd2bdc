------------------------------ MODULE MCPipeline ------------------------------
(***************************************************************************)
(* Instances of Pipeline for TLC: a version and a deletion of each         *)
(* endpoint between two versions, two events.                              *)
(***************************************************************************)
EXTENDS Pipeline, TLC

MCMessage ==
  {m \in [endpoint : Endpoint, version : 1..3, active : BOOLEAN, types : SUBSET EventType] :
     (m.active /\ m.version < 3) \/ (~m.active /\ m.types = {} /\ m.version > 1)}

\* Messages that no handler call can apply: the first version of an endpoint
\* with no event types stands for them.
MCPoison == {m \in MCMessage : m.version = 1 /\ m.types = {}}

MCTypeOf == [e \in Event |-> CHOOSE t \in EventType : TRUE]

\* Both events have one type; endpoints are compared for equality only.
SymAll == Permutations(Endpoint) \cup Permutations(Event)
===============================================================================
