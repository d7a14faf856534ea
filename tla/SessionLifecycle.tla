-------------------------- MODULE SessionLifecycle --------------------------
(***************************************************************************)
(* What a login promises: a session is entered with one refresh token at a *)
(* time, each of which is good for one exchange, until it is over for good *)
(* ("single use", docs/SECURITY.md; "ending every session", Logout).       *)
(*                                                                         *)
(*     absent -> usable <-> exchanging                                     *)
(*                  +-----------+----> over                                *)
(*                                                                         *)
(* No rows, no requests and no users: only what may be accepted.           *)
(***************************************************************************)
CONSTANT Ids            \* refresh tokens; a session is named by its first

VARIABLES
    phase,              \* phase[s] of session s
    accepted,           \* accepted[s]: the tokens that s can be entered with
    issued              \* the tokens ever given out

vars == <<phase, accepted, issued>>

Init ==
    /\ phase = [s \in Ids |-> "absent"]
    /\ accepted = [s \in Ids |-> {}]
    /\ issued = {}

\* A token nobody ever had replaces whatever s was entered with before.
Issue(s, k) ==
    /\ k \notin issued
    /\ phase' = [phase EXCEPT ![s] = "usable"]
    /\ accepted' = [accepted EXCEPT ![s] = {k}]
    /\ issued' = issued \cup {k}

Start(s) == phase[s] = "absent" /\ Issue(s, s)

\* The token is taken, its successor not given yet.
Exchange(s) ==
    /\ phase[s] = "usable"
    /\ phase' = [phase EXCEPT ![s] = "exchanging"]
    /\ accepted' = [accepted EXCEPT ![s] = {}]
    /\ issued' = issued

Renew(s, k) == phase[s] = "exchanging" /\ Issue(s, k)

\* Logged out, expired, or left in the middle of an exchange: several
\* sessions at once, because one UPDATE statement may end them.
End(S) ==
    /\ \A s \in S : phase[s] \in {"usable", "exchanging"}
    /\ phase' = [s \in Ids |-> IF s \in S THEN "over" ELSE phase[s]]
    /\ accepted' = [s \in Ids |-> IF s \in S THEN {} ELSE accepted[s]]
    /\ issued' = issued

Next ==
    \/ \E s \in Ids : Start(s) \/ Exchange(s)
    \/ \E s, k \in Ids : Renew(s, k)
    \/ \E S \in SUBSET Ids : End(S)

Spec == Init /\ [][Next]_vars
=============================================================================
