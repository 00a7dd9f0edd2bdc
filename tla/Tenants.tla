------------------------------- MODULE Tenants --------------------------------
(***************************************************************************)
(* The auth service: tenants, their API keys, and Verify, which decides    *)
(* whether a key opens the door.                                           *)
(*                                                                         *)
(* A single SQL statement is one action.  DeleteTenant is a transaction of *)
(* several statements, each with its own snapshot (READ COMMITTED), and    *)
(* CreateKey is two statements without a transaction.  Left out: the audit *)
(* log, scopes, last_used_at, and the checks of a request's text; a Name   *)
(* is what the unique index compares, lower(name).                         *)
(***************************************************************************)
EXTENDS FiniteSets

CONSTANTS Tenant, KeyId, Name

VARIABLES
  tenants,    \* table tenants
  keys,       \* table api_keys
  checked,    \* open CreateKey calls: a tenant seen ACTIVE, and the key to insert
  deleting,   \* tenants whose row an open DeleteTenant has updated ...
  swept,      \* ... and whose keys it has updated too
  locked      \* the keys it has updated

table == <<tenants, keys>>
deletion == <<deleting, swept, locked>>
vars == <<table, checked, deletion>>

TenantRow == [name : Name, status : {"ACTIVE", "SUSPENDED", "DELETED"}]
KeyRow == [tenant : Tenant, status : {"ACTIVE", "REVOKED"}, expired : BOOLEAN]

-----------------------------------------------------------------------------
(* Tenants.                                                                 *)

\* Mutant of NameTaken: an index that misses suspended tenants.
MutNameTakenActiveOnly(name, t) ==
  \E u \in DOMAIN tenants \ {t} : tenants[u].name = name /\ tenants[u].status = "ACTIVE"

\* tenants_name_active_uq: one row per name among those that are not deleted.
NameTaken(name, t) ==
  \E u \in DOMAIN tenants \ {t} : tenants[u].name = name /\ tenants[u].status # "DELETED"

CreateTenant(t, name) ==
  /\ t \notin DOMAIN tenants
  /\ ~NameTaken(name, t)
  /\ tenants' = [u \in DOMAIN tenants \cup {t} |->
                   IF u = t THEN [name |-> name, status |-> "ACTIVE"] ELSE tenants[u]]
  /\ UNCHANGED <<keys, checked, deletion>>

\* AND status <> 'DELETED', on a row that no open deletion has locked.
Updatable(t) == t \notin deleting /\ tenants[t].status # "DELETED"

UpdateTenant(t, name, status) ==
  /\ t \in DOMAIN tenants
  /\ Updatable(t)
  /\ ~NameTaken(name, t)
  /\ tenants' = [tenants EXCEPT ![t] = [name |-> name, status |-> status]]
  /\ UNCHANGED <<keys, checked, deletion>>

\* DeleteTenant, first statement: locks the row; nobody sees the change yet.
DeleteTenantRow(t) ==
  /\ t \in DOMAIN tenants
  /\ tenants[t].status # "DELETED" /\ t \notin deleting
  /\ deleting' = deleting \cup {t}
  /\ UNCHANGED <<table, checked, swept, locked>>

ActiveKeys(t) == {k \in DOMAIN keys : keys[k].tenant = t /\ keys[k].status = "ACTIVE"}

\* Second statement: the keys that are ACTIVE when it starts.
RevokeTenantKeys(t) ==
  /\ t \in deleting \ swept
  /\ swept' = swept \cup {t}
  /\ locked' = locked \cup ActiveKeys(t)
  /\ UNCHANGED <<table, checked, deleting>>

Own(t) == {k \in locked : keys[k].tenant = t}

\* Mutant of EndDeletion: the locks on the keys outlive the transaction.
MutEndDeletionKeepsKeys(t) ==
  /\ deleting' = deleting \ {t}
  /\ swept' = swept \ {t}
  /\ UNCHANGED locked

EndDeletion(t) ==
  /\ deleting' = deleting \ {t}
  /\ swept' = swept \ {t}
  /\ locked' = locked \ Own(t)

Revoke(revoked) ==
  keys' = [k \in DOMAIN keys |-> IF k \in revoked THEN [keys[k] EXCEPT !.status = "REVOKED"]
                                 ELSE keys[k]]

CommitDeletion(t) ==
  /\ t \in swept
  /\ tenants' = [tenants EXCEPT ![t].status = "DELETED"]
  /\ Revoke(Own(t))
  /\ EndDeletion(t)
  /\ UNCHANGED checked

RollBackDeletion(t) ==
  /\ t \in deleting
  /\ EndDeletion(t)
  /\ UNCHANGED <<table, checked>>

\* DELETE is idempotent: called for a deleted tenant it revokes what is left.
DeleteTenantAgain(t) ==
  /\ t \in DOMAIN tenants /\ tenants[t].status = "DELETED"
  /\ Revoke(ActiveKeys(t))
  /\ UNCHANGED <<tenants, checked, deletion>>

-----------------------------------------------------------------------------
(* Keys.                                                                    *)

\* A new key's id is a UUID that no other call has drawn.
Fresh(k) == k \notin DOMAIN keys /\ \A t \in Tenant : <<t, k>> \notin checked

\* CreateKey looks for an ACTIVE tenant in one statement ...
CheckTenant(t, k) ==
  /\ t \in DOMAIN tenants /\ tenants[t].status = "ACTIVE"
  /\ Fresh(k)
  /\ checked' = checked \cup {<<t, k>>}
  /\ UNCHANGED <<table, deletion>>

\* ... and inserts the key in another, whatever has become of the tenant.
CreateKey(t, k) ==
  /\ <<t, k>> \in checked
  /\ k \notin DOMAIN keys
  /\ keys' = [j \in DOMAIN keys \cup {k} |->
                IF j = k THEN [tenant |-> t, status |-> "ACTIVE", expired |-> FALSE] ELSE keys[j]]
  /\ checked' = checked \ {<<t, k>>}
  /\ UNCHANGED <<tenants, deletion>>

\* The call ends between the two.
AbandonKey(t, k) ==
  /\ <<t, k>> \in checked
  /\ checked' = checked \ {<<t, k>>}
  /\ UNCHANGED <<table, deletion>>

RevokeKey(k) ==
  /\ k \in DOMAIN keys \ locked
  /\ keys[k].status = "ACTIVE"
  /\ Revoke({k})
  /\ UNCHANGED <<tenants, checked, deletion>>

\* now() reaches expires_at.
Expire(k) ==
  /\ k \in DOMAIN keys /\ ~keys[k].expired
  /\ keys' = [keys EXCEPT ![k].expired = TRUE]
  /\ UNCHANGED <<tenants, checked, deletion>>

\* Mutant of Verify: the tenant is not joined.
MutVerifyKeyOnly(k) == keys[k].status = "ACTIVE" /\ ~keys[k].expired

Verify(k) ==
  /\ keys[k].status = "ACTIVE" /\ ~keys[k].expired
  /\ tenants[keys[k].tenant].status = "ACTIVE"

-----------------------------------------------------------------------------
Init ==
  /\ tenants = [t \in {} |-> t] /\ keys = [k \in {} |-> k]
  /\ checked = {} /\ deleting = {} /\ swept = {} /\ locked = {}

Next ==
  \/ \E t \in Tenant, name \in Name : CreateTenant(t, name)
  \/ \E t \in Tenant, name \in Name, status \in {"ACTIVE", "SUSPENDED"} :
       UpdateTenant(t, name, status)
  \/ \E t \in Tenant : \/ DeleteTenantRow(t) \/ RevokeTenantKeys(t)
                       \/ CommitDeletion(t) \/ RollBackDeletion(t)
                       \/ DeleteTenantAgain(t)
  \/ \E t \in Tenant, k \in KeyId : CheckTenant(t, k) \/ CreateKey(t, k) \/ AbandonKey(t, k)
  \/ \E k \in KeyId : RevokeKey(k) \/ Expire(k)

Spec == Init /\ [][Next]_vars

-----------------------------------------------------------------------------
(* Properties.                                                              *)

\* Every key belongs to a tenant that exists, and what an open deletion holds
\* is its own and not yet deleted or revoked.
TypeOK ==
  /\ DOMAIN tenants \subseteq Tenant /\ tenants \in [DOMAIN tenants -> TenantRow]
  /\ DOMAIN keys \subseteq KeyId /\ keys \in [DOMAIN keys -> KeyRow]
  /\ \A k \in DOMAIN keys : keys[k].tenant \in DOMAIN tenants
  /\ checked \subseteq (DOMAIN tenants) \X KeyId
  /\ swept \subseteq deleting /\ deleting \subseteq DOMAIN tenants
  /\ \A t \in deleting : tenants[t].status # "DELETED"
  /\ locked \subseteq DOMAIN keys
  /\ \A k \in locked : keys[k].status = "ACTIVE" /\ keys[k].tenant \in swept

Gone(k) == \/ keys[k].status = "REVOKED" \/ keys[k].expired
           \/ tenants[keys[k].tenant].status = "DELETED"

\* A key that was revoked, has expired or belongs to a deleted tenant never
\* opens the door again: not through a key created while the tenant was being
\* deleted, nor through a later update of the tenant.
GoneForGood ==
  [][\A k \in DOMAIN keys : Gone(k) => Gone(k)' /\ ~Verify(k)']_vars

\* Tenants that are not deleted have different names, through concurrent
\* creations, renames, suspensions and deletions.
NamesDiffer ==
  \A t, u \in DOMAIN tenants :
    t # u /\ tenants[t].name = tenants[u].name =>
      tenants[t].status = "DELETED" \/ tenants[u].status = "DELETED"
===============================================================================
