---------------------------- MODULE MCTenantRouting ----------------------------
(* TenantRouting on a small instance: one tenant, its platform address "ha"  *)
(* and one other host.                                                       *)
EXTENDS TenantRouting, TLC

Labels == "ha" :> "a" @@ "hc" :> "none"
Registered == "a" :> "d1"
===============================================================================
