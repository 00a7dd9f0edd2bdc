------------------------------ MODULE Endpoints -------------------------------
(***************************************************************************)
(* The endpoint service: one tenant's endpoints and their subscriptions.   *)
(*                                                                         *)
(* Every call is a READ COMMITTED transaction with two steps: it reads     *)
(* (the tenant, or its endpoint without a lock) and it writes.  The first  *)
(* write locks the endpoint's row, or waits for the one who has it, so the *)
(* statements from there to the commit are one step.  Another tenant's     *)
(* calls end at their read.  Left out: the columns beside the name, retry  *)
(* policies, and the outbox, which no call writes at this commit.          *)
(***************************************************************************)
EXTENDS Naturals

CONSTANTS
  Endpoint, EventType,
  Name,         \* what the unique index compares, lower(name)
  Call,         \* calls that may be open at one time
  MaxVersion,   \* bound: version of an endpoint
  None

ASSUME EndpointsAssumption == MaxVersion \in Nat \ {0} /\ None \notin Endpoint

VARIABLES
  tenantActive,    \* the tenant's row, which belongs to the auth service
  endpoints,       \* table endpoints
  subscriptions,   \* table endpoint_subscriptions, by endpoint
  calls            \* open transactions: what they do and what they have read

tables == <<endpoints, subscriptions>>
vars == <<tenantActive, tables, calls>>

Row == [name : Name, status : {"ACTIVE", "DELETED"}, version : 1..MaxVersion]
Idle == [op |-> "none", endpoint |-> None, version |-> 0]
Opened == [op : {"none", "create", "patch", "delete"},
           endpoint : Endpoint \cup {None}, version : 0..MaxVersion]

\* Mutant of EventTypes: an empty list is accepted.
MutEventTypesAny == SUBSET EventType

\* validation.EventTypes accepts no empty list.
EventTypes == (SUBSET EventType) \ {{}}

Close(c) == calls' = [calls EXCEPT ![c] = Idle]

\* Mutant of NameTaken: an index on every row that is given a new name.
MutNameTakenNewOnly(e, name) ==
  e \notin DOMAIN endpoints
    /\ \E f \in DOMAIN endpoints : endpoints[f].name = name /\ endpoints[f].status = "ACTIVE"

\* idx_endpoints_active_name: a row that is not deleted has its name to itself.
NameTaken(e, name) ==
  \E f \in DOMAIN endpoints \ {e} : endpoints[f].name = name /\ endpoints[f].status = "ACTIVE"

-----------------------------------------------------------------------------
(* CreateEndpoint.                                                          *)

\* SELECT status FROM tenants ... FOR SHARE.
LockTenant(c) ==
  /\ calls[c] = Idle
  /\ tenantActive
  /\ calls' = [calls EXCEPT ![c] = [op |-> "create", endpoint |-> None, version |-> 0]]
  /\ UNCHANGED <<tenantActive, tables>>

CreateEndpoint(c, e, name, types) ==
  /\ calls[c].op = "create"
  /\ e \notin DOMAIN endpoints
  /\ ~NameTaken(e, name)
  /\ endpoints' = [f \in DOMAIN endpoints \cup {e} |->
                     IF f = e THEN [name |-> name, status |-> "ACTIVE", version |-> 1]
                     ELSE endpoints[f]]
  /\ subscriptions' = [subscriptions EXCEPT ![e] = types]
  /\ Close(c)
  /\ UNCHANGED tenantActive

\* Mutant of TenantLocked: the tenant is read without FOR SHARE.
MutTenantLockedNever == FALSE

TenantLocked == \E c \in Call : calls[c].op = "create"

\* The auth service's UPDATE of the tenant waits for those who share its row.
DeleteTenant ==
  /\ tenantActive /\ ~TenantLocked
  /\ tenantActive' = FALSE
  /\ UNCHANGED <<tables, calls>>

-----------------------------------------------------------------------------
(* Patch and Delete.                                                        *)

\* Both read the endpoint without a lock, and end here if it is deleted.
ReadEndpoint(c, e, op) ==
  /\ calls[c] = Idle
  /\ e \in DOMAIN endpoints /\ endpoints[e].status = "ACTIVE"
  /\ endpoints[e].version < MaxVersion
  /\ calls' = [calls EXCEPT ![c] = [op |-> op, endpoint |-> e, version |-> endpoints[e].version]]
  /\ UNCHANGED <<tenantActive, tables>>

\* Mutant of Patched: every column is written back, the status too.
MutPatchedStatus(row, name, version) ==
  [name |-> name, status |-> "ACTIVE", version |-> version]

Patched(row, name, version) == [row EXCEPT !.name = name, !.version = version]

\* The row is updated whatever has become of it since the read.  The name is
\* the request's, or the one that was read; types are the request's, or what
\* the table has.
Patch(c, name, types) ==
  LET e == calls[c].endpoint IN
  /\ calls[c].op = "patch"
  /\ endpoints[e].status = "DELETED" \/ ~NameTaken(e, name)
  /\ types \in EventTypes \cup {subscriptions[e]}
  /\ endpoints' = [endpoints EXCEPT ![e] = Patched(@, name, calls[c].version + 1)]
  /\ subscriptions' = [subscriptions EXCEPT ![e] = types]
  /\ Close(c)
  /\ UNCHANGED tenantActive

Delete(c) ==
  LET e == calls[c].endpoint IN
  /\ calls[c].op = "delete"
  /\ endpoints' = [endpoints EXCEPT ![e] = [@ EXCEPT !.status = "DELETED",
                                                     !.version = calls[c].version + 1]]
  /\ subscriptions' = [subscriptions EXCEPT ![e] = {}]
  /\ Close(c)
  /\ UNCHANGED tenantActive

\* A statement fails, a name is taken, two calls deadlock, the process dies.
RollBack(c) ==
  /\ calls[c] # Idle
  /\ Close(c)
  /\ UNCHANGED <<tenantActive, tables>>

GetSubscriptions(type) ==
  {e \in DOMAIN endpoints : endpoints[e].status = "ACTIVE" /\ type \in subscriptions[e]}

-----------------------------------------------------------------------------
Init ==
  /\ tenantActive = TRUE
  /\ endpoints = [e \in {} |-> None]
  /\ subscriptions = [e \in Endpoint |-> {}]
  /\ calls = [c \in Call |-> Idle]

Next ==
  \/ DeleteTenant
  \/ \E c \in Call :
       \/ LockTenant(c)
       \/ \E e \in Endpoint, name \in Name, types \in EventTypes :
            CreateEndpoint(c, e, name, types)
       \/ \E e \in Endpoint, op \in {"patch", "delete"} : ReadEndpoint(c, e, op)
       \/ \E name \in Name, types \in SUBSET EventType : Patch(c, name, types)
       \/ Delete(c)
       \/ RollBack(c)

Spec == Init /\ [][Next]_vars

-----------------------------------------------------------------------------
(* Properties.                                                              *)

\* An active endpoint subscribes to something, and a call that is past its read
\* has an endpoint that exists.
TypeOK ==
  /\ tenantActive \in BOOLEAN
  /\ DOMAIN endpoints \subseteq Endpoint /\ endpoints \in [DOMAIN endpoints -> Row]
  /\ subscriptions \in [Endpoint -> SUBSET EventType]
  /\ \A e \in DOMAIN endpoints : endpoints[e].status = "ACTIVE" => subscriptions[e] # {}
  /\ calls \in [Call -> Opened]
  /\ \A c \in Call : calls[c].op \in {"patch", "delete"} =>
       calls[c].endpoint \in DOMAIN endpoints /\ calls[c].version < MaxVersion

\* Two endpoints that are not deleted never share a name, also when a patch
\* writes back a name that it read before others renamed and created.
NamesDiffer ==
  \A e, f \in DOMAIN endpoints :
    e # f /\ endpoints[e].name = endpoints[f].name =>
      endpoints[e].status = "DELETED" \/ endpoints[f].status = "DELETED"

\* A deleted endpoint stays deleted and is a subscriber of nothing, although a
\* patch that read it before the deletion may rename it and insert
\* subscriptions for it afterwards.
DeletedForGood ==
  [][\A e \in DOMAIN endpoints : endpoints[e].status = "DELETED" =>
       /\ endpoints'[e].status = "DELETED"
       /\ \A type \in EventType : e \notin GetSubscriptions(type)']_vars

\* "... preventing a race where a tenant is deleted between service-level
\* validation and this INSERT": no endpoint appears once the tenant is deleted.
NoneAfterDeletion ==
  [][~tenantActive => DOMAIN endpoints' = DOMAIN endpoints]_vars
===============================================================================
