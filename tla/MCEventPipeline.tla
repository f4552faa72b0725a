-------------------------- MODULE MCEventPipeline --------------------------
(* EventPipeline for TLC: the tenants of the events. *)
EXTENDS EventPipeline

CONSTANTS t1, e2

(* Every event belongs to the one tenant. *)
OneTenant == [e \in Events |-> t1]

(* Event e2 belongs to another tenant than the rest: TenantOf for two-tenant instances. *)
TwoTenants == [e \in Events |-> IF e = e2 THEN CHOOSE t \in Tenants : t # t1 ELSE t1]
=============================================================================
