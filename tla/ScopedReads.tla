----------------------------- MODULE ScopedReads ----------------------------
(* What a read of the adapters with one table asks for: a tenant, or none,   *)
(* and an instant, or none.  Without an as_of they search the whole history, *)
(* closed versions too.  A rid has the same tenant in every record.          *)
EXTENDS CallerHistory

CONSTANTS
  TenantOf,   \* the tenant each rid belongs to
  Deployed    \* deployed_correctly: FALSE is the 7b misconfiguration

ASSUME DeployedAssumption == Deployed \in BOOLEAN

Always == -1         \* as_of=None

AnyTenant == "any"   \* tenant=None

Asks(tenant, r) == tenant = AnyTenant \/ TenantOf[r] = tenant

HoldsAt(iv, t) == t = Always \/ ValidAt(iv, t)

\* (mutant) the tenant filter is dropped, as in the 7b deployment
Selects_Unscoped(r, iv, tenant, t) == HoldsAt(iv, t)

\* The filter of a read, on a row or on a point's payload.
Selects(r, iv, tenant, t) ==
  /\ Deployed => Asks(tenant, r)
  /\ HoldsAt(iv, t)

\* What the caller's own history says the answer is.
Truth(tenant, t) ==
  {r \in Rid : acked[r] # Absent /\ Asks(tenant, r) /\ HoldsAt(acked[r], t)}

Tenants == {TenantOf[r] : r \in Rid} \cup {AnyTenant}

Instants == Instant \cup {Always}
=============================================================================
