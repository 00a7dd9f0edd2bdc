\* Two tenants, two names, three keys.
SPECIFICATION Spec
CONSTANTS
  Tenant = {t1, t2}
  KeyId = {k1, k2, k3}
  Name = {n1, n2}
INVARIANTS TypeOK NamesDiffer
PROPERTIES GoneForGood
