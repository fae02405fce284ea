------------------------------ MODULE MCImports ------------------------------
(* Two users, two batches.                                                 *)
EXTENDS Imports, TLC

CONSTANTS u1, u2, b1, b2, e1, e2

TwoUsers == {u1, u2}
TwoBatches == {b1, b2}
TwoEntities == {e1, e2}
There == {[kind |-> "Account", name |-> "a1", entity |-> e1], [kind |-> "Facility", name |-> "f1", entity |-> e1],
          [kind |-> "Investment", name |-> "i1", entity |-> e1]}
AllAndOne == [u \in TwoUsers |-> IF u = u1 THEN {e1, e2, None} ELSE {e1}]

Blank == [column \in Column |-> IF column \in {"Start", "Date"} THEN 1 ELSE IF column = "End" THEN 2 ELSE
                                IF column = "Entity" THEN e1 ELSE ""]
Cells(row) == [row |-> row, valid |-> TRUE]
Bad(row) == [row |-> row, valid |-> FALSE]
File1(template, rows) == [template |-> template, entity |-> e1, complete |-> TRUE, rows |-> rows]

Line(type, amount, reference, narration) ==
    [Blank EXCEPT !["Account"] = "a1", !["Type"] = type, !["Amount"] = amount, !["Reference"] = reference, !["Narration"] = narration]
Transaction(account, entity) == [Blank EXCEPT !["Account"] = account, !["Entity"] = entity, !["Amount"] = "100"]
Rate(type, value) == [Blank EXCEPT !["From"] = "USD", !["To"] = "EUR", !["Type"] = type, !["Rate"] = value]

StatementFiles ==
    {File1(BANK_STATEMENT, <<Cells(Line("DR", "100", "r1", "n1")), Cells(Line("CREDIT", "100", "r2", "n1"))>>),
     File1(BANK_STATEMENT, <<Cells(Line("CR", "100", "r2", "n2")), Cells(Line("DEBIT", "100", "r1", "n1"))>>),
     File1(BANK_STATEMENT, <<Cells(Line("DR", "100", "r1", "n2")), Cells(Line("DEBIT", "100", "r1", "n2")),
                             Bad(Line("DR", "x", "r3", "n1"))>>),
     File1(BANK_STATEMENT, <<Cells(Line("DR", "100", "", "n1")), Cells(Line("DEBIT", "100", "", "n1"))>>)}
RetypedFiles ==
    {File1(BANK_STATEMENT, <<Cells(Line("DR", amount, "r1", "n1"))>>) : amount \in {"100", "100.00"}}
RateFiles ==
    {[File1(FX_RATES, <<Cells(Rate("SPOT", "1.1")), Cells(Rate("", "1.2")), Cells(Rate("SPOT", "1.3"))>>) EXCEPT !.entity = None],
     File1(FX_RATES, <<Cells(Rate("SPOT", "1.4"))>>)}
OtherFiles ==
    {File1(BANK_ACCOUNTS, <<Cells([Blank EXCEPT !["Account"] = "a2"])>>),
     File1(BANK_TRANSACTIONS, <<Cells(Transaction("a1", e1)), Cells(Transaction("a2", e2))>>),
     [File1(BANK_BALANCES, <<Cells(Transaction("a1", e1))>>) EXCEPT !.complete = FALSE],
     File1(BANK_BALANCES, <<Cells(Transaction("a1", e1)), Cells(Transaction("a2", e1))>>),
     File1(FACILITY_DRAWDOWNS, <<Cells([Blank EXCEPT !["Facility"] = "f1", !["Amount"] = "5"])>>),
     File1(INVESTMENT_ROLLOVERS, <<Cells([Blank EXCEPT !["Investment"] = "i1", !["Successor"] = "i2"]),
                                   Cells([Blank EXCEPT !["Investment"] = "i2", !["Successor"] = "i3"])>>)}
AllFiles == StatementFiles \union RateFiles \union OtherFiles

OneRate == {[from |-> "USD", to |-> "EUR", date |-> 1, rate |-> "1.5"]}
=============================================================================
