---------------------------- MODULE MCUserRoles ----------------------------
(***************************************************************************)
(* Small instances of UserRoles for TLC: tenant t1 with three users and    *)
(* tenant t2 with two.                                                     *)
(***************************************************************************)
EXTENDS UserRoles, TLC

CONSTANTS t1, t2, a, b, c, d, e, h1, h2

MCTenantOf == a :> t1 @@ b :> t1 @@ c :> t1 @@ d :> t2 @@ e :> t2
MCSymmetry ==
    Permutations({a, b, c}) \cup Permutations({d, e}) \cup Permutations({h1, h2})
MCSmallTenantOf == a :> t1 @@ b :> t1
=============================================================================
