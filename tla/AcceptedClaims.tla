--------------------------- MODULE AcceptedClaims ---------------------------
(***************************************************************************)
(* What the match decisions promise, without requests, locks or indexes:  *)
(* each proposal is decided at most once, and a transaction is owned, in  *)
(* its namespace, by at most one accepted proposal.                        *)
(***************************************************************************)
CONSTANTS Proposals, Keys, KeysOf, Nobody

VARIABLES
    outcome,  \* the decision on each proposal
    owner     \* the accepted proposal each key belongs to

avars == <<outcome, owner>>

AInit ==
    /\ outcome = [p \in Proposals |-> "OPEN"]
    /\ owner = [k \in Keys |-> Nobody]

Accept(p) ==
    /\ outcome[p] = "OPEN"
    /\ \A k \in KeysOf[p] : owner[k] = Nobody
    /\ outcome' = [outcome EXCEPT ![p] = "ACCEPTED"]
    /\ owner' = [k \in Keys |-> IF k \in KeysOf[p] THEN p ELSE owner[k]]

Reject(p) ==
    /\ outcome[p] = "OPEN"
    /\ outcome' = [outcome EXCEPT ![p] = "REJECTED"]
    /\ UNCHANGED owner

ANext == \E p \in Proposals : Accept(p) \/ Reject(p)

ASpec == AInit /\ [][ANext]_avars
=============================================================================
