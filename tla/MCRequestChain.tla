--------------------------- MODULE MCRequestChain ---------------------------
(***************************************************************************)
(* Small instances of RequestChain for TLC: a tenant with an API key and   *)
(* one without.                                                            *)
(***************************************************************************)
EXTENDS RequestChain, TLC

CONSTANTS t1, t2, r1, r2

MCIssued == 1 :> t1
MCTokens == {[tenant |-> t1, role |-> "viewer"], [tenant |-> t2, role |-> "developer"]}
MCSymmetry == Permutations(Requests)
=============================================================================
