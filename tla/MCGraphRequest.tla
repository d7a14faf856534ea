--------------------------- MODULE MCGraphRequest ---------------------------
(* Two requests of one tenant: an admin's, and a viewer's or developer's.   *)
EXTENDS GraphRequest

CONSTANTS q1, q2, t1
MCTenantOf == (q1 :> t1) @@ (q2 :> t1)
MCRolesOf == (q1 :> {"admin"}) @@ (q2 :> {"viewer", "developer"})
=============================================================================
