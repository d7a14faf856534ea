----------------------------- MODULE MCSessions -----------------------------
(***************************************************************************)
(* Small instances of Sessions for TLC.                                    *)
(***************************************************************************)
EXTENDS Sessions, TLC

CONSTANTS u1, u2, h1, h2

MCSymmetry == Permutations({u1, u2}) \cup Permutations({h1, h2})
=============================================================================
