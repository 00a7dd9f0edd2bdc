----------------------------- MODULE TenantsProofs ----------------------------
(***************************************************************************)
(* Theorems about Tenants, for any tenants, keys and names.                *)
(***************************************************************************)
EXTENDS Tenants, TLAPS

\* The type invariant is kept by every action.
LEMMA TypeStep == TypeOK /\ [Next]_vars => TypeOK'
  <1> SUFFICES ASSUME TypeOK, [Next]_vars PROVE TypeOK'
      OBVIOUS
  <1> USE DEF TypeOK, TenantRow, KeyRow, table, deletion
  <1>1. ASSUME NEW t \in Tenant, NEW name \in Name, CreateTenant(t, name) PROVE TypeOK'
        BY <1>1 DEF CreateTenant
  <1>2. ASSUME NEW t \in Tenant, NEW name \in Name, NEW status \in {"ACTIVE", "SUSPENDED"},
               UpdateTenant(t, name, status)
        PROVE  TypeOK'
        BY <1>2 DEF UpdateTenant
  <1>3. ASSUME NEW t \in Tenant, DeleteTenantRow(t) PROVE TypeOK'
        BY <1>3 DEF DeleteTenantRow
  <1>4. ASSUME NEW t \in Tenant, RevokeTenantKeys(t) PROVE TypeOK'
        BY <1>4 DEF RevokeTenantKeys, ActiveKeys
  <1>5. ASSUME NEW t \in Tenant, CommitDeletion(t) PROVE TypeOK'
    <2>1. \A row \in KeyRow : [row EXCEPT !.status = "REVOKED"] \in KeyRow
          OBVIOUS
    <2>2. /\ DOMAIN keys' = DOMAIN keys /\ keys' \in [DOMAIN keys -> KeyRow]
          /\ \A k \in DOMAIN keys : keys'[k].tenant = keys[k].tenant
          /\ \A k \in DOMAIN keys \ Own(t) : keys'[k] = keys[k]
      <3>1. keys' = [k \in DOMAIN keys |-> IF k \in Own(t) THEN [keys[k] EXCEPT !.status = "REVOKED"]
                                           ELSE keys[k]]
            BY ONLY <1>5 DEF CommitDeletion, Revoke
      <3>2. keys \in [DOMAIN keys -> KeyRow]
            OBVIOUS
      <3>3. \A row \in KeyRow : [row EXCEPT !.status = "REVOKED"].tenant = row.tenant
            OBVIOUS
      <3> HIDE DEF TypeOK, KeyRow
      <3> QED BY ONLY <2>1, <3>1, <3>2, <3>3
    <2>3. /\ tenants' \in [DOMAIN tenants' -> TenantRow] /\ DOMAIN tenants' = DOMAIN tenants
          /\ \A u \in DOMAIN tenants \ {t} : tenants'[u] = tenants[u]
          BY <1>5 DEF CommitDeletion
    <2>4. /\ deleting' \subseteq deleting /\ swept' = swept \ {t} /\ deleting' = deleting \ {t}
          /\ locked' = locked \ Own(t) /\ checked' = checked
          BY <1>5 DEF CommitDeletion, EndDeletion
    <2>5. \A k \in locked' : /\ keys'[k].status = "ACTIVE"
                             /\ keys'[k].tenant \in swept'
          BY <2>2, <2>4 DEF Own
    <2>6. \A u \in deleting' : tenants'[u].status # "DELETED"
          BY <2>3, <2>4
    <2> QED BY <2>2, <2>3, <2>4, <2>5, <2>6
  <1>6. ASSUME NEW t \in Tenant, RollBackDeletion(t) PROVE TypeOK'
        BY <1>6 DEF RollBackDeletion, EndDeletion, Own
  <1>7. ASSUME NEW t \in Tenant, DeleteTenantAgain(t) PROVE TypeOK'
        BY <1>7 DEF DeleteTenantAgain, Revoke, ActiveKeys
  <1>8. ASSUME NEW t \in Tenant, NEW k \in KeyId, CheckTenant(t, k) \/ AbandonKey(t, k)
        PROVE  TypeOK'
        BY <1>8 DEF CheckTenant, AbandonKey
  <1>9. ASSUME NEW t \in Tenant, NEW k \in KeyId, CreateKey(t, k) PROVE TypeOK'
        BY <1>9 DEF CreateKey
  <1>10. ASSUME NEW k \in KeyId, RevokeKey(k) PROVE TypeOK'
        BY <1>10 DEF RevokeKey, Revoke
  <1>11. ASSUME NEW k \in KeyId, Expire(k) PROVE TypeOK'
    <2>1. [keys[k] EXCEPT !.expired = TRUE] \in KeyRow
      <3>1. keys[k] \in KeyRow
            BY <1>11 DEF Expire
      <3>2. \A row \in KeyRow : [row EXCEPT !.expired = TRUE] \in KeyRow
            OBVIOUS
      <3> QED BY <3>1, <3>2
    <2>2. keys' = [keys EXCEPT ![k] = [keys[k] EXCEPT !.expired = TRUE]] /\ k \in DOMAIN keys
          BY <1>11 DEF Expire
    <2>3. /\ DOMAIN keys' = DOMAIN keys /\ keys' \in [DOMAIN keys' -> KeyRow]
          /\ \A j \in DOMAIN keys : /\ keys'[j].tenant = keys[j].tenant
                                     /\ keys'[j].status = keys[j].status
          BY <2>1, <2>2
    <2> QED BY <1>11, <2>3 DEF Expire
  <1>12. CASE UNCHANGED vars
        BY <1>12 DEF vars
  <1> QED
      BY <1>1, <1>2, <1>3, <1>4, <1>5, <1>6, <1>7, <1>8, <1>9, <1>10, <1>11, <1>12 DEF Next

\* Every reachable state is well formed.
THEOREM TenantTyping == Spec => []TypeOK
  <1>1. Init => TypeOK
        BY DEF Init, TypeOK
  <1> QED BY <1>1, TypeStep, PTL DEF Spec

\* What a step may do to the rows that exist: a deleted tenant stays as it is, a
\* key keeps its tenant, and it never comes back from REVOKED or from expiry.
LEMMA RowsStay ==
  ASSUME TypeOK, Next
  PROVE  /\ DOMAIN tenants \subseteq DOMAIN tenants'
         /\ \A t \in DOMAIN tenants : tenants[t].status = "DELETED" => tenants'[t] = tenants[t]
         /\ DOMAIN keys \subseteq DOMAIN keys'
         /\ \A k \in DOMAIN keys :
              /\ keys'[k].tenant = keys[k].tenant
              /\ keys[k].status = "REVOKED" => keys'[k].status = "REVOKED"
              /\ keys[k].expired => keys'[k].expired
  <1> USE DEF TypeOK, KeyRow, table, deletion
  <1> DEFINE Stay ==
         /\ DOMAIN tenants \subseteq DOMAIN tenants'
         /\ \A t \in DOMAIN tenants : tenants[t].status = "DELETED" => tenants'[t] = tenants[t]
         /\ DOMAIN keys \subseteq DOMAIN keys'
         /\ \A k \in DOMAIN keys :
              /\ keys'[k].tenant = keys[k].tenant
              /\ keys[k].status = "REVOKED" => keys'[k].status = "REVOKED"
              /\ keys[k].expired => keys'[k].expired
  <1>1. ASSUME NEW revoked, Revoke(revoked), UNCHANGED tenants PROVE Stay
        BY <1>1 DEF Revoke
  <1>2. CASE \E t \in Tenant, name \in Name : CreateTenant(t, name)
        BY <1>2 DEF CreateTenant
  <1>3. CASE \E t \in Tenant, name \in Name, status \in {"ACTIVE", "SUSPENDED"} :
               UpdateTenant(t, name, status)
        BY <1>3 DEF UpdateTenant, Updatable
  <1>4. ASSUME NEW t \in Tenant, CommitDeletion(t) PROVE Stay
        BY <1>4 DEF CommitDeletion, Revoke
  <1>5. ASSUME NEW t \in Tenant, DeleteTenantAgain(t) PROVE Stay
        BY <1>1, <1>5 DEF DeleteTenantAgain
  <1>6. ASSUME NEW t \in Tenant, NEW k \in KeyId, CreateKey(t, k) PROVE Stay
        BY <1>6 DEF CreateKey
  <1>7. ASSUME NEW k \in KeyId, RevokeKey(k) PROVE Stay
        BY <1>1, <1>7 DEF RevokeKey
  <1>8. CASE \E k \in KeyId : Expire(k)
        BY <1>8 DEF Expire
  <1>9. CASE UNCHANGED table
        BY <1>9
  <1> QED
      BY <1>2, <1>3, <1>4, <1>5, <1>6, <1>7, <1>8, <1>9
      DEF Next, DeleteTenantRow, RevokeTenantKeys, RollBackDeletion, CheckTenant, AbandonKey

\* A revoked or expired key, and every key of a deleted tenant, stays out for
\* good, whatever creations and updates overlap with the deletion.
THEOREM KeysStayOut == Spec => GoneForGood
  <1>1. TypeOK /\ [Next]_vars =>
          [\A k \in DOMAIN keys : Gone(k) => Gone(k)' /\ ~Verify(k)']_vars
    <2> SUFFICES ASSUME TypeOK, Next, NEW k \in DOMAIN keys, Gone(k)
                 PROVE  Gone(k)' /\ ~Verify(k)'
        OBVIOUS
    <2>1. keys[k].tenant \in DOMAIN tenants
          BY DEF TypeOK
    <2>2. Gone(k)'
          BY <2>1, RowsStay DEF Gone
    <2> QED BY <2>2 DEF Gone, Verify
  <1> QED BY <1>1, TenantTyping, PTL DEF Spec, GoneForGood

\* Two tenants that are not deleted never have one name.
THEOREM Names == Spec => []NamesDiffer
  <1>1. Init => NamesDiffer
        BY DEF Init, NamesDiffer
  <1>2. TypeOK /\ NamesDiffer /\ [Next]_vars => NamesDiffer'
    <2> SUFFICES ASSUME TypeOK, NamesDiffer, [Next]_vars PROVE NamesDiffer'
        OBVIOUS
    <2> USE DEF TypeOK, TenantRow, NamesDiffer
    <2>1. ASSUME NEW t \in Tenant, NEW name \in Name, CreateTenant(t, name)
          PROVE  NamesDiffer'
          BY <2>1 DEF CreateTenant, NameTaken
    <2>2. ASSUME NEW t \in Tenant, NEW name \in Name, NEW status \in {"ACTIVE", "SUSPENDED"},
                 UpdateTenant(t, name, status)
          PROVE  NamesDiffer'
          BY <2>2 DEF UpdateTenant, NameTaken
    <2>3. ASSUME NEW t \in Tenant, CommitDeletion(t) PROVE NamesDiffer'
          BY <2>3 DEF CommitDeletion
    <2>4. CASE UNCHANGED tenants
          BY <2>4
    <2> HIDE DEF TypeOK, TenantRow, NamesDiffer
    <2> QED
        BY <2>1, <2>2, <2>3, <2>4
        DEF Next, vars, table, DeleteTenantRow, RevokeTenantKeys, RollBackDeletion,
            DeleteTenantAgain, CheckTenant, AbandonKey, CreateKey, RevokeKey, Expire
  <1> QED BY <1>1, <1>2, TenantTyping, PTL DEF Spec

===============================================================================
