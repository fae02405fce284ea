---------------------------- MODULE CashPosition ----------------------------
(***************************************************************************)
(* What the application knows of the cash in bank accounts: balances the   *)
(* banks reported, each for a day, and the one ledger of movements.  The   *)
(* operators take the balances as a set of rows and the ledger as a        *)
(* sequence of them.                                                       *)
(*                                                                         *)
(* Source: services/cash_position_service.py, models/balance.py.           *)
(***************************************************************************)
EXTENDS Integers, Sequences, FiniteSets, FiniteSetsExt, Functions

NoBalance == -1      \* the column is NULL
BeginningOfTime == -1

\* Of each account the rows of its latest day up to as_of; more than one if
\* several sources reported that day.
latest_balances(balances, accounts, as_of) ==
    {b \in balances :
        /\ b.account \in accounts /\ b.date <= as_of
        /\ \A c \in balances : c.account = b.account /\ c.date <= as_of => c.date <= b.date}

reported_available(b) == IF b.available # NoBalance THEN b.available ELSE b.closing

calculate_cash_position(balances, accounts, as_of) ==
    LET rows == latest_balances(balances, accounts, as_of)
        Closing(b) == b.closing
        Overdrawn(b) == IF b.closing < 0 THEN -b.closing ELSE 0
    IN  [total_cash |-> MapThenSumSet(Closing, rows),
         available_cash |-> MapThenSumSet(reported_available, rows),
         overdraft |-> MapThenSumSet(Overdrawn, rows),
         net_cash |-> MapThenSumSet(Closing, rows) - MapThenSumSet(Overdrawn, rows),
         by_currency |-> [c \in {b.currency : b \in rows} |->
                            MapThenSumSet(Closing, {b \in rows : b.currency = c})],
         account_count |-> Cardinality(rows)]

\* What the rows of a ledger between two days, or of one account after a day,
\* move in a direction. Every row that reaches the ledger is POSTED.
Moved(ledger, direction, Counted(_)) ==
    SumFunctionOnSet([n \in DOMAIN ledger |-> ledger[n].amount],
                     {n \in DOMAIN ledger : ledger[n].direction = direction /\ Counted(ledger[n])})

calculate_net_movement(ledger, first, last) ==
    LET Within(row) == first <= row.date /\ row.date <= last
    IN  [direction \in {"INFLOW", "OUTFLOW", "NON_CASH"} |-> Moved(ledger, direction, Within)]

\* The day up to which an account's reported balance speaks for itself.
anchor_date(balances, account, today) ==
    LET rows == latest_balances(balances, {account}, today)
    IN  IF rows = {} THEN BeginningOfTime ELSE (CHOOSE b \in rows : TRUE).date

\* Mutant: a movement of the anchor's own day counts as well.
unreflected_SameDay(row, account, anchor) == row.account = account /\ row.date >= anchor

\* A movement the reported balance cannot contain yet.
unreflected(row, account, anchor) == row.account = account /\ row.date > anchor

calculate_operational_available_cash(balances, ledger, account, today) ==
    LET rows == latest_balances(balances, {account}, today)
        reported == IF rows = {} THEN 0 ELSE reported_available(CHOOSE b \in rows : TRUE)
        Counted(row) == unreflected(row, account, anchor_date(balances, account, today))
    IN  reported + Moved(ledger, "INFLOW", Counted) - Moved(ledger, "OUTFLOW", Counted)
=============================================================================
