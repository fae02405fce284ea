---------------------------- MODULE MCFacilities ----------------------------
(* Small instances of Facilities: one or two facilities, two or three      *)
(* drawdowns and one or two repayments, sent by two users.                 *)
EXTENDS Facilities, TLC

CONSTANTS F1, F2, SL, D1, D2, D3, R1, R2, U1, U2

OneFacility == {F1}
TwoFacilities == {F1, F2}
OneSubLimit == {SL}
TwoDrawdowns == {D1, D2}
ThreeDrawdowns == {D1, D2, D3}
OneRepayment == {R1}
TwoRepayments == {R1, R2}
TwoUsers == {U1, U2}
UserSymmetry == Permutations(TwoUsers)

\* Every request is one of F1's, but R2 is recorded at F2 when there is one.
FacilityId ==
    [x \in Requested \union FacilitySubLimit |-> IF x = R2 /\ F2 \in Facility THEN F2 ELSE F1]

\* The third drawdown, which may come from Excel, names no sub-limit.
SubLimitId == [d \in FacilityDrawdown |-> IF d = D3 THEN None ELSE SL]

\* Every repayment is tied to the first drawdown.
DrawdownId == [r \in FacilityRepayment |-> D1]

\* Two drawdowns of 2 fit the sub-limit together, and a facility of 4, not
\* one of 3; the third drawdown gives back.
Amount == [x \in Requested \union FacilitySubLimit |-> CASE x = SL -> 4 [] x = D3 -> -1 [] x = R1 -> 1 [] OTHER -> 2]

\* Negative numbers, which a configuration cannot write.
MinusOne == -1
OneOrMinusOne == {1, -1}
TwoOrMinusOne == {2, -1}
=============================================================================
