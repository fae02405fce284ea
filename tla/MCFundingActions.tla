-------------------------- MODULE MCFundingActions --------------------------
(* Three actions: two claim one repayment, the third is linked to nothing. *)
EXTENDS FundingActions, TLC

CONSTANTS a1, a2, a3, t1, u1, u2

ThreeActions == {a1, a2, a3}
OneTransaction == {t1}
TwoUsers == {u1, u2}
Links == (a1 :> t1) @@ (a2 :> t1) @@ (a3 :> Nil)
Symmetry == Permutations(TwoUsers) \union Permutations({a1, a2})
=============================================================================
