---------------------------- MODULE EndpointsProofs ---------------------------
(***************************************************************************)
(* Theorems about Endpoints, for any endpoints, names and concurrent calls.*)
(***************************************************************************)
EXTENDS Endpoints, TLAPS

\* What a call that is past its read may be.
LEMMA CallTyping == ASSUME TypeOK, NEW c \in Call
                    PROVE  /\ calls[c] \in Opened
                           /\ calls[c].op \in {"patch", "delete"} =>
                                /\ calls[c].endpoint \in DOMAIN endpoints
                                /\ calls[c].version + 1 \in 1..MaxVersion
  <1>1. calls[c] \in Opened
        BY DEF TypeOK
  <1>2. calls[c].version \in 0..MaxVersion
        BY <1>1 DEF Opened
  <1> QED BY <1>1, <1>2, EndpointsAssumption DEF TypeOK

\* Closing a call leaves the others as they were.
LEMMA Closing == ASSUME TypeOK, NEW c \in Call, Close(c)
                 PROVE  /\ calls' \in [Call -> Opened] /\ calls'[c].op = "none"
                        /\ \A d \in Call \ {c} : calls'[d] = calls[d]
  <1>1. Idle \in Opened /\ Idle.op = "none"
        BY EndpointsAssumption DEF Idle, Opened
  <1> QED BY <1>1 DEF Close, TypeOK

\* Opening one does too.
LEMMA Opening == ASSUME TypeOK, NEW c \in Call, NEW new \in Opened,
                        calls' = [calls EXCEPT ![c] = new]
                 PROVE  /\ calls' \in [Call -> Opened] /\ calls'[c] = new
                        /\ \A d \in Call \ {c} : calls'[d] = calls[d]
  BY DEF TypeOK

-----------------------------------------------------------------------------
(* The changes that the two tables can undergo.                             *)

Appears(e, name, types) ==
  /\ e \notin DOMAIN endpoints /\ ~NameTaken(e, name) /\ types # {}
  /\ DOMAIN endpoints' = DOMAIN endpoints \cup {e}
  /\ endpoints'[e] = [name |-> name, status |-> "ACTIVE", version |-> 1]
  /\ subscriptions'[e] = types

Changes(e, name, types) ==
  /\ e \in DOMAIN endpoints
  /\ endpoints[e].status = "DELETED" \/ ~NameTaken(e, name)
  /\ endpoints[e].status = "DELETED" \/ types # {}
  /\ DOMAIN endpoints' = DOMAIN endpoints
  /\ endpoints'[e].name = name /\ endpoints'[e].status = endpoints[e].status
  /\ subscriptions'[e] = types

Disappears(e) ==
  /\ e \in DOMAIN endpoints
  /\ DOMAIN endpoints' = DOMAIN endpoints
  /\ endpoints'[e].name = endpoints[e].name /\ endpoints'[e].status = "DELETED"
  /\ subscriptions'[e] = {}

OnlyAt(e) ==
  /\ endpoints' \in [DOMAIN endpoints' -> Row]
  /\ subscriptions' \in [Endpoint -> SUBSET EventType]
  /\ \A f \in DOMAIN endpoints \ {e} : endpoints'[f] = endpoints[f]
  /\ \A f \in Endpoint \ {e} : subscriptions'[f] = subscriptions[f]

LEMMA Creation ==
  ASSUME TypeOK, NEW c \in Call, NEW e \in Endpoint, NEW name \in Name, NEW types \in EventTypes,
         CreateEndpoint(c, e, name, types)
  PROVE  Appears(e, name, types) /\ OnlyAt(e)
  <1>1. [name |-> name, status |-> "ACTIVE", version |-> 1] \in Row
        BY EndpointsAssumption DEF Row
  <1>2. types \in SUBSET EventType /\ types # {}
        BY DEF EventTypes
  <1>3. /\ DOMAIN endpoints' = DOMAIN endpoints \cup {e}
        /\ endpoints' \in [DOMAIN endpoints' -> Row]
        /\ endpoints'[e] = [name |-> name, status |-> "ACTIVE", version |-> 1]
        /\ \A f \in DOMAIN endpoints \ {e} : endpoints'[f] = endpoints[f]
        BY <1>1 DEF CreateEndpoint, TypeOK
  <1>4. /\ subscriptions'[e] = types
        /\ \A f \in Endpoint \ {e} : subscriptions'[f] = subscriptions[f]
        /\ subscriptions' \in [Endpoint -> SUBSET EventType]
        BY <1>2 DEF CreateEndpoint, TypeOK
  <1> QED BY <1>2, <1>3, <1>4 DEF Appears, OnlyAt, CreateEndpoint

LEMMA Patching ==
  ASSUME TypeOK, NEW c \in Call, NEW name \in Name, NEW types \in SUBSET EventType,
         Patch(c, name, types)
  PROVE  Changes(calls[c].endpoint, name, types) /\ OnlyAt(calls[c].endpoint)
  <1> DEFINE e == calls[c].endpoint
  <1>1. e \in DOMAIN endpoints /\ calls[c].version + 1 \in 1..MaxVersion
        BY CallTyping DEF Patch
  <1>2. e \in Endpoint /\ endpoints[e] \in Row
        BY <1>1 DEF TypeOK
  <1>3. \A row \in Row, v \in 1..MaxVersion :
          /\ Patched(row, name, v) \in Row
          /\ Patched(row, name, v).name = name /\ Patched(row, name, v).status = row.status
        BY DEF Patched, Row
  <1>4. endpoints' = [endpoints EXCEPT ![e] = Patched(endpoints[e], name, calls[c].version + 1)]
        BY DEF Patch
  <1>5. /\ DOMAIN endpoints' = DOMAIN endpoints
        /\ endpoints' \in [DOMAIN endpoints' -> Row]
        /\ endpoints'[e].name = name /\ endpoints'[e].status = endpoints[e].status
        /\ \A f \in DOMAIN endpoints \ {e} : endpoints'[f] = endpoints[f]
    <2>1. endpoints'[e] = Patched(endpoints[e], name, calls[c].version + 1)
          BY <1>1, <1>4 DEF TypeOK
    <2>2. endpoints'[e] \in Row
          BY <1>1, <1>2, <1>3, <2>1
    <2> QED BY <1>1, <1>2, <1>3, <1>4, <2>1, <2>2 DEF TypeOK
  <1>6. /\ subscriptions'[e] = types
        /\ \A f \in Endpoint \ {e} : subscriptions'[f] = subscriptions[f]
        /\ subscriptions' \in [Endpoint -> SUBSET EventType]
        BY <1>2 DEF Patch, TypeOK
  <1>7. endpoints[e].status = "DELETED" \/ types # {}
        BY <1>1, <1>2 DEF Patch, TypeOK, EventTypes, Row
  <1> QED BY <1>1, <1>5, <1>6, <1>7 DEF Changes, OnlyAt, Patch

LEMMA Deletion ==
  ASSUME TypeOK, NEW c \in Call, Delete(c)
  PROVE  Disappears(calls[c].endpoint) /\ OnlyAt(calls[c].endpoint)
  <1> DEFINE e == calls[c].endpoint
             gone(row, v) == [row EXCEPT !.status = "DELETED", !.version = v]
  <1>1. e \in DOMAIN endpoints /\ calls[c].version + 1 \in 1..MaxVersion
        BY CallTyping DEF Delete
  <1>2. e \in Endpoint /\ endpoints[e] \in Row
        BY <1>1 DEF TypeOK
  <1>3. \A row \in Row, v \in 1..MaxVersion :
          /\ gone(row, v) \in Row
          /\ gone(row, v).name = row.name /\ gone(row, v).status = "DELETED"
        BY DEF Row
  <1>4. endpoints' = [endpoints EXCEPT ![e] = gone(endpoints[e], calls[c].version + 1)]
        BY DEF Delete
  <1> HIDE DEF gone
  <1>5. /\ DOMAIN endpoints' = DOMAIN endpoints
        /\ endpoints' \in [DOMAIN endpoints' -> Row]
        /\ endpoints'[e].name = endpoints[e].name /\ endpoints'[e].status = "DELETED"
        /\ \A f \in DOMAIN endpoints \ {e} : endpoints'[f] = endpoints[f]
    <2>1. endpoints'[e] = gone(endpoints[e], calls[c].version + 1)
          BY <1>1, <1>4 DEF TypeOK
    <2>2. endpoints'[e] \in Row
          BY <1>1, <1>2, <1>3, <2>1
    <2> QED BY <1>1, <1>2, <1>3, <1>4, <2>1, <2>2 DEF TypeOK
  <1>6. /\ subscriptions'[e] = {}
        /\ \A f \in Endpoint \ {e} : subscriptions'[f] = subscriptions[f]
        /\ subscriptions' \in [Endpoint -> SUBSET EventType]
        BY <1>2 DEF Delete, TypeOK
  <1> QED BY <1>1, <1>5, <1>6 DEF Disappears, OnlyAt

\* Every action makes one of these changes, or none.
LEMMA Steps ==
  ASSUME TypeOK, Next
  PROVE  \/ UNCHANGED tables
         \/ \E c \in Call : /\ calls[c].op = "create" /\ Close(c) /\ UNCHANGED tenantActive
                            /\ \E e \in Endpoint, name \in Name, types \in EventTypes :
                                 Appears(e, name, types) /\ OnlyAt(e)
         \/ \E c \in Call : /\ Close(c) /\ UNCHANGED tenantActive
                            /\ \E e \in DOMAIN endpoints :
                                 /\ OnlyAt(e)
                                 /\ \/ \E name \in Name, types \in SUBSET EventType :
                                         Changes(e, name, types)
                                    \/ Disappears(e)
  <1>1. ASSUME NEW c \in Call, NEW e \in Endpoint, NEW name \in Name, NEW types \in EventTypes,
               CreateEndpoint(c, e, name, types)
        PROVE  /\ calls[c].op = "create" /\ Close(c) /\ UNCHANGED tenantActive
               /\ Appears(e, name, types) /\ OnlyAt(e)
        BY <1>1, Creation DEF CreateEndpoint
  <1>2. ASSUME NEW c \in Call, NEW name \in Name, NEW types \in SUBSET EventType,
               Patch(c, name, types)
        PROVE  /\ Close(c) /\ UNCHANGED tenantActive
               /\ calls[c].endpoint \in DOMAIN endpoints
               /\ Changes(calls[c].endpoint, name, types) /\ OnlyAt(calls[c].endpoint)
    <2>1. Changes(calls[c].endpoint, name, types) /\ OnlyAt(calls[c].endpoint)
          BY <1>2, Patching
    <2> QED BY <1>2, <2>1 DEF Patch, Changes
  <1>3. ASSUME NEW c \in Call, Delete(c)
        PROVE  /\ Close(c) /\ UNCHANGED tenantActive
               /\ calls[c].endpoint \in DOMAIN endpoints
               /\ Disappears(calls[c].endpoint) /\ OnlyAt(calls[c].endpoint)
    <2>1. Disappears(calls[c].endpoint) /\ OnlyAt(calls[c].endpoint)
          BY <1>3, Deletion
    <2> QED BY <1>3, <2>1 DEF Delete, Disappears
  <1>4. ASSUME NEW c \in Call,
               \/ LockTenant(c) \/ RollBack(c)
               \/ \E e \in Endpoint, op \in {"patch", "delete"} : ReadEndpoint(c, e, op)
        PROVE  UNCHANGED tables
        BY <1>4 DEF LockTenant, RollBack, ReadEndpoint
  <1>5. CASE DeleteTenant
        BY <1>5 DEF DeleteTenant
  <1> QED BY <1>1, <1>2, <1>3, <1>4, <1>5 DEF Next

-----------------------------------------------------------------------------
(* The type invariant.                                                      *)

TablesOK ==
  /\ DOMAIN endpoints \subseteq Endpoint /\ endpoints \in [DOMAIN endpoints -> Row]
  /\ subscriptions \in [Endpoint -> SUBSET EventType]
  /\ \A e \in DOMAIN endpoints : endpoints[e].status = "ACTIVE" => subscriptions[e] # {}

LEMMA TablesStep == ASSUME TypeOK, Next
                    PROVE  TablesOK' /\ DOMAIN endpoints \subseteq DOMAIN endpoints'
  <1>1. TablesOK
        BY DEF TypeOK, TablesOK
  <1>2. CASE UNCHANGED tables
        BY <1>1, <1>2 DEF TablesOK, tables
  <1>3. ASSUME NEW e \in Endpoint, NEW name \in Name, NEW types \in EventTypes,
               Appears(e, name, types), OnlyAt(e)
        PROVE  TablesOK' /\ DOMAIN endpoints \subseteq DOMAIN endpoints'
        BY <1>1, <1>3 DEF TablesOK, Appears, OnlyAt
  <1>4. ASSUME NEW e \in DOMAIN endpoints, OnlyAt(e),
               \/ \E name \in Name, types \in SUBSET EventType : Changes(e, name, types)
               \/ Disappears(e)
        PROVE  TablesOK' /\ DOMAIN endpoints \subseteq DOMAIN endpoints'
        BY <1>1, <1>4 DEF TablesOK, Changes, Disappears, OnlyAt
  <1> QED BY <1>2, <1>3, <1>4, Steps

LEMMA CallsStep == ASSUME TypeOK, Next
                   PROVE  /\ calls' \in [Call -> Opened] /\ tenantActive' \in BOOLEAN
                          /\ \A c \in Call : calls'[c].op \in {"patch", "delete"} =>
                               /\ calls'[c].endpoint \in DOMAIN endpoints
                               /\ calls'[c].version < MaxVersion
  <1> DEFINE Fine == /\ calls' \in [Call -> Opened] /\ tenantActive' \in BOOLEAN
                     /\ \A c \in Call : calls'[c].op \in {"patch", "delete"} =>
                          /\ calls'[c].endpoint \in DOMAIN endpoints
                          /\ calls'[c].version < MaxVersion
  <1>1. ASSUME NEW c \in Call, Close(c), UNCHANGED tenantActive PROVE Fine
        BY <1>1, Closing DEF TypeOK
  <1>2. ASSUME NEW c \in Call, LockTenant(c) PROVE Fine
    <2>1. [op |-> "create", endpoint |-> None, version |-> 0] \in Opened
          BY EndpointsAssumption DEF Opened
    <2> QED BY <1>2, <2>1, Opening DEF LockTenant, TypeOK
  <1>3. ASSUME NEW c \in Call, NEW e \in Endpoint, NEW op \in {"patch", "delete"},
               ReadEndpoint(c, e, op)
        PROVE  Fine
    <2>1. endpoints[e].version \in 0..MaxVersion /\ endpoints[e].version < MaxVersion
          BY <1>3, EndpointsAssumption DEF ReadEndpoint, TypeOK, Row
    <2>2. [op |-> op, endpoint |-> e, version |-> endpoints[e].version] \in Opened
          BY <2>1 DEF Opened
    <2> QED BY <1>3, <2>1, <2>2, Opening DEF ReadEndpoint, TypeOK
  <1>4. CASE DeleteTenant
        BY <1>4 DEF DeleteTenant, TypeOK
  <1> QED
      BY <1>1, <1>2, <1>3, <1>4 DEF Next, CreateEndpoint, Patch, Delete, RollBack

\* The type invariant is kept by every action.
LEMMA TypeStep == TypeOK /\ [Next]_vars => TypeOK'
  <1>1. TypeOK /\ Next => TypeOK'
        BY TablesStep, CallsStep DEF TypeOK, TablesOK
  <1>2. TypeOK /\ UNCHANGED vars => TypeOK'
        BY DEF TypeOK, vars, tables
  <1> QED BY <1>1, <1>2

\* Every reachable state of the tables and of the open calls is well formed.
THEOREM EndpointTyping == Spec => []TypeOK
  <1>1. Init => TypeOK
        BY EndpointsAssumption DEF Init, TypeOK, Idle, Opened
  <1> QED BY <1>1, TypeStep, PTL DEF Spec

-----------------------------------------------------------------------------
(* The properties.                                                          *)

\* Two endpoints that are not deleted never share a name, whatever calls overlap.
THEOREM Names == Spec => []NamesDiffer
  <1>1. Init => NamesDiffer
        BY DEF Init, NamesDiffer
  <1>2. TypeOK /\ NamesDiffer /\ [Next]_vars => NamesDiffer'
    <2> SUFFICES ASSUME TypeOK, NamesDiffer, [Next]_vars PROVE NamesDiffer'
        OBVIOUS
    <2>1. \A e \in DOMAIN endpoints : endpoints[e].status \in {"ACTIVE", "DELETED"}
          BY DEF TypeOK, Row
    <2>2. CASE UNCHANGED endpoints
          BY <2>2 DEF NamesDiffer
    <2>3. ASSUME NEW e \in Endpoint, NEW name \in Name, NEW types \in EventTypes,
                 Appears(e, name, types), OnlyAt(e)
          PROVE  NamesDiffer'
          BY <2>1, <2>3 DEF NamesDiffer, Appears, OnlyAt, NameTaken
    <2>4. ASSUME NEW e \in DOMAIN endpoints, OnlyAt(e),
                 \/ \E name \in Name, types \in SUBSET EventType : Changes(e, name, types)
                 \/ Disappears(e)
          PROVE  NamesDiffer'
          BY <2>1, <2>4 DEF NamesDiffer, Changes, Disappears, OnlyAt, NameTaken
    <2> QED BY <2>2, <2>3, <2>4, Steps DEF vars, tables
  <1> QED BY <1>1, <1>2, EndpointTyping, PTL DEF Spec

\* A deletion is final, whatever patches had read the endpoint before it.
THEOREM Deleted == Spec => DeletedForGood
  <1>1. TypeOK /\ [Next]_vars =>
          [\A e \in DOMAIN endpoints : endpoints[e].status = "DELETED" =>
             /\ endpoints'[e].status = "DELETED"
             /\ \A type \in EventType : e \notin GetSubscriptions(type)']_vars
    <2> SUFFICES ASSUME TypeOK, Next, NEW e \in DOMAIN endpoints,
                        endpoints[e].status = "DELETED"
                 PROVE  /\ endpoints'[e].status = "DELETED"
                        /\ \A type \in EventType : e \notin GetSubscriptions(type)'
        OBVIOUS
    <2>1. endpoints'[e].status = "DELETED"
          BY Steps DEF tables, Appears, Changes, Disappears, OnlyAt
    <2> QED BY <2>1 DEF GetSubscriptions
  <1> QED BY <1>1, EndpointTyping, PTL DEF Spec, DeletedForGood

\* A call that has locked the tenant's row keeps it from being deleted.
LockInv == ~tenantActive => \A c \in Call : calls[c].op # "create"

LEMMA LockStep == TypeOK /\ LockInv /\ [Next]_vars => LockInv'
  <1> SUFFICES ASSUME TypeOK, LockInv, [Next]_vars PROVE LockInv'
      OBVIOUS
  <1>1. ASSUME NEW c \in Call, Close(c), UNCHANGED tenantActive PROVE LockInv'
        BY <1>1, Closing DEF LockInv
  <1>2. ASSUME NEW c \in Call, LockTenant(c) PROVE LockInv'
        BY <1>2 DEF LockTenant, LockInv
  <1>3. ASSUME NEW c \in Call, NEW e \in Endpoint, NEW op \in {"patch", "delete"},
               ReadEndpoint(c, e, op)
        PROVE  LockInv'
        BY <1>3 DEF ReadEndpoint, LockInv, TypeOK
  <1>4. CASE DeleteTenant
        BY <1>4 DEF DeleteTenant, TenantLocked, LockInv
  <1>5. CASE UNCHANGED vars
        BY <1>5 DEF vars, LockInv
  <1> QED
      BY <1>1, <1>2, <1>3, <1>4, <1>5 DEF Next, CreateEndpoint, Patch, Delete, RollBack

\* No endpoint is created for a tenant that was deleted.
THEOREM Creations == Spec => NoneAfterDeletion
  <1>1. Init => LockInv
        BY DEF Init, LockInv
  <1>2. TypeOK /\ LockInv /\ [Next]_vars =>
          [~tenantActive => DOMAIN endpoints' = DOMAIN endpoints]_vars
    <2> SUFFICES ASSUME TypeOK, LockInv, Next, ~tenantActive
                 PROVE  DOMAIN endpoints' = DOMAIN endpoints
        OBVIOUS
    <2> QED BY Steps DEF LockInv, tables, Changes, Disappears
  <1> QED BY <1>1, <1>2, LockStep, EndpointTyping, PTL DEF Spec, NoneAfterDeletion

-----------------------------------------------------------------------------
(* Calls that follow each other.                                            *)

\* No endpoint is patched or deleted by two calls that are open together.
NoOverlap ==
  \A c, d \in Call :
    /\ c # d /\ calls[c].op \in {"patch", "delete"} /\ calls[d].op \in {"patch", "delete"}
    => calls[c].endpoint # calls[d].endpoint

\* What an open call has read is still so.
ReadIsCurrent ==
  \A c \in Call : calls[c].op \in {"patch", "delete"} =>
    LET row == endpoints[calls[c].endpoint] IN
    row.version = calls[c].version /\ row.status = "ACTIVE"

\* A change of an endpoint, its subscriptions included, has the version after the
\* last one, and the deletion is its last change.
VersionsFollow ==
  [][\A e \in DOMAIN endpoints :
       endpoints'[e] # endpoints[e] \/ subscriptions'[e] # subscriptions[e] =>
         endpoints[e].status = "ACTIVE" /\ endpoints'[e].version = endpoints[e].version + 1]_vars

\* Only a call on an endpoint changes what is stored of it, to the version after
\* the one it read.
LEMMA WrittenBy ==
  ASSUME TypeOK, Next, NEW e \in DOMAIN endpoints,
         endpoints'[e] # endpoints[e] \/ subscriptions'[e] # subscriptions[e]
  PROVE  \E c \in Call : /\ calls[c].op \in {"patch", "delete"} /\ calls[c].endpoint = e
                         /\ endpoints'[e].version = calls[c].version + 1
                         /\ Close(c)
  <1>0. /\ e \in Endpoint /\ endpoints[e] \in Row
        /\ endpoints \in [DOMAIN endpoints -> Row] /\ subscriptions \in [Endpoint -> SUBSET EventType]
        BY DEF TypeOK
  <1>1. ASSUME NEW c \in Call, NEW f \in Endpoint, NEW name \in Name, NEW types \in EventTypes,
               CreateEndpoint(c, f, name, types)
        PROVE  FALSE
        BY <1>0, <1>1 DEF CreateEndpoint
  <1>2. ASSUME NEW c \in Call, NEW name \in Name, NEW types \in SUBSET EventType, Patch(c, name, types)
        PROVE  /\ calls[c].op = "patch" /\ calls[c].endpoint = e /\ Close(c)
               /\ endpoints'[e].version = calls[c].version + 1
    <2>1. calls[c].endpoint = e
          BY <1>0, <1>2 DEF Patch
    <2> QED BY <1>0, <1>2, <2>1 DEF Patch, Patched, Row
  <1>3. ASSUME NEW c \in Call, Delete(c)
        PROVE  /\ calls[c].op = "delete" /\ calls[c].endpoint = e /\ Close(c)
               /\ endpoints'[e].version = calls[c].version + 1
    <2>1. calls[c].endpoint = e
          BY <1>0, <1>3 DEF Delete
    <2> QED BY <1>0, <1>3, <2>1 DEF Delete, Row
  <1> QED BY <1>1, <1>2, <1>3 DEF Next, DeleteTenant, LockTenant, ReadEndpoint, RollBack, tables

LEMMA CurrentStep ==
  TypeOK /\ NoOverlap /\ ReadIsCurrent /\ [Next]_vars => ReadIsCurrent'
  <1> SUFFICES ASSUME TypeOK, NoOverlap, ReadIsCurrent, [Next]_vars,
                      NEW d \in Call, calls'[d].op \in {"patch", "delete"}
               PROVE  /\ endpoints'[calls'[d].endpoint].version = calls'[d].version
                      /\ endpoints'[calls'[d].endpoint].status = "ACTIVE"
      BY DEF ReadIsCurrent
  <1>1. CASE UNCHANGED vars
        BY <1>1 DEF vars, tables, ReadIsCurrent
  <1>2. CASE Next
    <2>1. CASE calls'[d] = calls[d]
      <3> DEFINE e == calls[d].endpoint
      <3>1. /\ e \in DOMAIN endpoints
            /\ endpoints[e].version = calls[d].version /\ endpoints[e].status = "ACTIVE"
            BY <2>1, CallTyping DEF ReadIsCurrent
      <3>2. endpoints'[e] = endpoints[e]
        <4> SUFFICES ASSUME endpoints'[e] # endpoints[e] PROVE FALSE
            OBVIOUS
        <4>1. PICK c \in Call : /\ calls[c].op \in {"patch", "delete"} /\ calls[c].endpoint = e
                                /\ Close(c)
              BY <1>2, <3>1, WrittenBy
        <4>2. c # d
              BY <2>1, <4>1, Closing
        <4> QED BY <2>1, <4>1, <4>2 DEF NoOverlap
      <3> QED BY <2>1, <3>1, <3>2
    <2>2. CASE calls'[d] # calls[d]
      <3>1. PICK e \in Endpoint, op \in {"patch", "delete"} : ReadEndpoint(d, e, op)
        <4>1. \A c \in Call : ~Close(c) \/ calls'[d] = calls[d]
              BY Closing
        <4>2. \A c \in Call : ~LockTenant(c) \/ calls'[d] = calls[d]
              BY DEF LockTenant, TypeOK
        <4>3. \A c \in Call, e \in Endpoint, op \in {"patch", "delete"} :
                ReadEndpoint(c, e, op) => c = d
              BY <2>2 DEF ReadEndpoint, TypeOK
        <4> QED BY <1>2, <2>2, <4>1, <4>2, <4>3
                DEF Next, DeleteTenant, CreateEndpoint, Patch, Delete, RollBack
      <3> QED BY <3>1 DEF ReadEndpoint, TypeOK, tables
    <2> QED BY <2>1, <2>2
  <1> QED BY <1>1, <1>2

\* Patches and deletions of an endpoint that do not overlap number its versions
\* one after another, up to its deletion: the order that the projection and the
\* theorems about EndpointChanges rely on.
THEOREM InTurn == Spec /\ []NoOverlap => VersionsFollow
  <1>1. Init => ReadIsCurrent
        BY DEF Init, ReadIsCurrent, Idle
  <1>2. TypeOK /\ ReadIsCurrent /\ [Next]_vars =>
          [\A e \in DOMAIN endpoints :
             endpoints'[e] # endpoints[e] \/ subscriptions'[e] # subscriptions[e] =>
               endpoints[e].status = "ACTIVE" /\ endpoints'[e].version = endpoints[e].version + 1]_vars
    <2> SUFFICES ASSUME TypeOK, ReadIsCurrent, Next, NEW e \in DOMAIN endpoints,
                        endpoints'[e] # endpoints[e] \/ subscriptions'[e] # subscriptions[e]
                 PROVE  endpoints[e].status = "ACTIVE" /\ endpoints'[e].version = endpoints[e].version + 1
        OBVIOUS
    <2> QED BY WrittenBy DEF ReadIsCurrent
  <1> QED BY <1>1, <1>2, CurrentStep, EndpointTyping, PTL DEF Spec, VersionsFollow
===============================================================================
