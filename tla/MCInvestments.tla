---------------------------- MODULE MCInvestments ----------------------------
(* Deposits of one account that cannot fund two of them: two references,   *)
(* the second one also what the first is rolled over into, or three.       *)
EXTENDS Investments, TLC

CONSTANTS i1, i2, i3, bank, u1, u2, key

TwoReferences == {i1, i2}
ThreeReferences == TwoReferences \union {i3}
OneAccount == {bank}
TwoUsers == {u1, u2}
ShortMonths == <<3, 2>>
SmallYear == [c \in Convention |-> 2]
Deposit == [NoRow EXCEPT !.status = "DRAFT", !.principal = 3, !.original = 3, !.rate = 1, !.maturity = 2,
                         !.account = bank, !.permits = {"early", "partial", "rollover"},
                         !.penalty = [type |-> "RATE_REDUCTION", rate |-> 1, amount |-> 0]]
Created == [r \in Reference |-> Deposit]
Opened == bank :> 4

Statuses == {[op |-> "status", to |-> s] : s \in {"SUBMITTED", "UNDER_REVIEW", "APPROVED"}}
Money == {[op |-> "place", date |-> 1], [op |-> "place", date |-> 0],
          [op |-> "terminate", amount |-> 1, date |-> 1], [op |-> "terminate", amount |-> 2, date |-> 1],
          [op |-> "settle", date |-> 2, interest |-> None]}
Rollover(amount, r) ==
    [op |-> "rollover", amount |-> amount, rate |-> 1, start |-> 1, maturity |-> 2, reference |-> r]
Rebookings == {[op |-> "rebook", rate |-> None, maturity |-> None, additional |-> -4, key |-> None],
               [op |-> "rebook", rate |-> 2, maturity |-> None, additional |-> 0, key |-> key],
               [op |-> "rebook", rate |-> None, maturity |-> None, additional |-> 1, key |-> key],
               [op |-> "update", rate |-> 2, maturity |-> None]}
AllRequests == Statuses \union Money \union Rebookings \union {Rollover(1, i2), Rollover(3, i2)}
Activations == {[op |-> "status", to |-> s] : s \in {"SUBMITTED", "UNDER_REVIEW", "APPROVED", "PLACEMENT_PENDING", "ACTIVE"}}
Rollovers == Statuses \union {[op |-> "place", date |-> 1], Rollover(1, i2), Rollover(1, i3)}
Symmetry == Permutations(TwoUsers)
=============================================================================
