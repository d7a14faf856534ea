--------------------------- MODULE MCTenantPlane ---------------------------
(***************************************************************************)
(* Small instances of TenantPlane for TLC: model values for its tenants    *)
(* and handlers.                                                           *)
(***************************************************************************)
EXTENDS TenantPlane

CONSTANTS t1, t2, h1, h2
=============================================================================
