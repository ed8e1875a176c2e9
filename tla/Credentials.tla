----------------------------- MODULE Credentials -----------------------------
(***************************************************************************)
(* The choice of the credentials provider (get_isolated_credentials in     *)
(* automation/common/credentials.py): with CONF.auth.allow_tenant_isolation *)
(* the classes make tenants of their own, otherwise, with an accounts file, *)
(* they share the pool.  The configuration is the same for all processes.  *)
(* The third provider, NotLockingAccounts, hands the configured users to   *)
(* everybody and keeps no state; it is left out.                           *)
(***************************************************************************)
EXTENDS AccountPool, TenantIsolation

VARIABLE allow_tenant_isolation

credVars == <<poolVars, isoVars, allow_tenant_isolation>>

CredInit == PoolInit /\ IsoInit /\ allow_tenant_isolation \in BOOLEAN

get_isolated_credentials ==
  /\ UNCHANGED allow_tenant_isolation
  /\ \/ allow_tenant_isolation /\ IsoNext /\ UNCHANGED poolVars
     \/ ~allow_tenant_isolation /\ PoolNext /\ UNCHANGED isoVars
=============================================================================
