----------------------------- MODULE MCForecasts -----------------------------
(* Three weeks of two days over months of three and two days, two entities *)
(* and three currencies, one without a rate.                               *)
EXTENDS Forecasts, TLC

CONSTANTS f1, f2, u1, u2, e1, e2, usd, eur, gbp, bank1, bank2

TwoForecasts == {f1, f2}
TwoUsers == {u1, u2}
TwoEntities == {e1, e2}
Currencies == {usd, eur, gbp}
Months == <<3, 2, 3, 3, 3, 3, 3, 3, 3, 3>>
SmallYear == [c \in Convention |-> 2]
Signs == [INTERCOMPANY_PAYMENT |-> -1, INTERCOMPANY_RECEIPT |-> 1, BANK_TRANSFER |-> 0]

Start == 2
Group == [entity |-> None, start |-> Start, basis |-> "PROBABILITY_ADJUSTED", reporting |-> usd, assumptions |-> <<>>]
Delayed == [Group EXCEPT !.entity = e1, !.basis = "GROSS",
                         !.assumptions = <<[type |-> "COLLECTION_DELAY_WEEKS", value |-> 1],
                                           [type |-> "UNEXPECTED_OUTFLOW_AMOUNT", value |-> 2]>>]

Item(id, source, entity, currency, date, amount, probability, status) ==
    [id |-> <<id>>, source |-> source, entity |-> entity, currency |-> currency, date |-> date, amount |-> amount,
     probability |-> probability, status |-> status]
Posted(id, entity, direction, event, date, amount) ==
    [id |-> <<id>>, entity |-> entity, currency |-> usd, direction |-> direction, event |-> event, date |-> date, amount |-> amount]
Flow(id, entity, direction, days, months, end) ==
    [id |-> <<id>>, entity |-> entity, currency |-> eur, direction |-> direction, amount |-> 1, start |-> Start,
     end |-> end, days |-> days, months |-> months]
Balance(account, entity, currency, closing) ==
    [account |-> account, entity |-> entity, currency |-> currency, date |-> 0, closing |-> closing, available |-> NoBalance]
Deposit(id, method, status) ==
    [id |-> <<id>>, entity |-> e2, currency |-> usd, status |-> status, principal |-> 4, rate |-> 1, start |-> 0,
     maturity |-> 7, months |-> 1, convention |-> "ACT_365", method |-> method, expected |-> 3,
     placement |-> IF status = "PLACEMENT_PENDING" THEN 5 ELSE None, receipts |-> {3}]

Everything ==
    [expected |-> {Item("c1", "EXPECTED_COLLECTION", e1, usd, 2, 5, 50, "OPEN"),
                   Item("c2", "EXPECTED_COLLECTION", e1, usd, 7, 3, None, "RECEIVED"),
                   Item("p1", "EXPECTED_PAYMENT", e2, eur, 4, 2, 50, "OPEN"),
                   Item("p2", "EXPECTED_PAYMENT", e2, eur, 4, 9, None, "CANCELLED")},
     flows |-> {Flow("r1", e2, "OUTFLOW", 1, None, None), Flow("r2", e1, "INFLOW", None, 1, 4)},
     ledger |-> {Posted("t4", e1, "INFLOW", "BANK_RECEIPT", 3, 5),
                 Posted("t1", e1, "TRANSFER", "INTERCOMPANY_PAYMENT", 2, 3),
                 Posted("t2", e2, "TRANSFER", "INTERCOMPANY_RECEIPT", 2, 3),
                 Posted("t3", e2, "NON_CASH", "ROLLOVER", 2, 9),
                 [Posted("t5", e2, "OUTFLOW", "BANK_CHARGE", 7, 2) EXCEPT !.currency = gbp]},
     rates |-> {[from |-> usd, to |-> eur, date |-> 0, rate |-> <<2, 1>>, version |-> 1, is_current |-> TRUE]},
     thresholds |-> {[scope |-> "GROUP", entity |-> None, currency |-> None, minimum |-> 3],
                     [scope |-> "ENTITY", entity |-> e1, currency |-> None, minimum |-> 2],
                     [scope |-> "CURRENCY", entity |-> None, currency |-> eur, minimum |-> 2]},
     balances |-> {Balance(bank1, e1, usd, 4), Balance(bank2, e2, eur, 3)},
     repayments |-> {[id |-> <<"q1">>, entity |-> e1, currency |-> usd, due |-> 5, amount |-> 4, paid |-> 1, status |-> "PARTIALLY_PAID"]},
     fees |-> {[id |-> <<"q2">>, entity |-> e1, currency |-> usd, due |-> 6, amount |-> 1, status |-> "DUE"]},
     drawdowns |-> {[id |-> <<"d1">>, entity |-> e1, currency |-> usd, date |-> 5, amount |-> 2, status |-> "APPROVED"]},
     investments |-> {Deposit("i1", "PERIODIC", "ACTIVE"), Deposit("i2", "AT_MATURITY", "PARTIALLY_TERMINATED"),
                      Deposit("i3", "UPFRONT", "PLACEMENT_PENDING")}]
More == {[type |-> "MIN_CASH_BUFFER_MULTIPLIER", value |-> 2]}
Entry == {[id |-> <<"a1">>, entity |-> e1, currency |-> usd, direction |-> "OUTFLOW", week |-> 3, amount |-> 9]}
TwoColumns == {Group, Delayed}
Symmetry == Permutations(TwoUsers)
=============================================================================
