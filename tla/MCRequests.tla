----------------------------- MODULE MCRequests -----------------------------
(***************************************************************************)
(* Ann belongs to the control plane and to a tenant, Bob to the tenant;    *)
(* each has a session, the tenant has an invitation, and Access keeps a    *)
(* document of either.                                                     *)
(***************************************************************************)
EXTENDS Requests, TLC

CONSTANTS s1, m1, m2, m3, v1, d1, d2, ann, bob, plane, tenant

MCUser   == s1 :> ann
MCOwner  == m1 :> ann @@ m2 :> ann @@ m3 :> bob
MCTenant == m1 :> plane @@ m2 :> tenant @@ m3 :> tenant @@ v1 :> tenant
              @@ d1 :> plane @@ d2 :> tenant
=============================================================================
