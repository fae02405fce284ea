----------------------------- MODULE Investments -----------------------------
(***************************************************************************)
(* Investments and the cash they move.  A request takes the row lock of    *)
(* its investment, is checked against the row and, when it pays out of an  *)
(* account, against the cash in it, which no lock protects; then it writes *)
(* the investment, its transactions and the cash ledger in one commit.     *)
(*                                                                         *)
(* Source: api/v1/investments.py, services/investment_service.py,          *)
(* services/investment_validation_service.py, models/investment.py.        *)
(***************************************************************************)
EXTENDS InvestmentEngine, CashPosition, SequencesExt

CONSTANTS
    Reference,      \* the unique references investments may be given
    Account,        \* bank accounts of the investments' entity and currency
    Users,          \* each sends one request at a time
    None,
    created,        \* the row each reference is created with
    Opening,        \* what each account's bank reported for day 0
    Today,          \* the day of the requests
    Requests,       \* what users ask for
    MaxVersions, MaxCash    \* bounds on the updates of a row, on the ledger

VARIABLES
    investment,     \* committed rows; status "NONE" while there is none
    versions,       \* the terms in each InvestmentVersion, oldest first
    transactions,   \* InvestmentTransactions of each investment, oldest first
    rebooked,       \* the keys of its REBOOKED events, None for one without
    ledger,         \* TreasuryTransactions that investments made
    balances,       \* BankBalances; known counts the ledger rows it contains
    phase, on, request, seen   \* each user's handler and the row it has read

vars == <<investment, versions, transactions, rebooked, ledger, balances, phase, on, request, seen>>
handlers == <<phase, on, request, seen>>

INVESTMENT_STATUS_TRANSITIONS == [
    DRAFT                |-> {"SUBMITTED", "CANCELLED"},
    SUBMITTED            |-> {"UNDER_REVIEW", "REJECTED", "CANCELLED"},
    UNDER_REVIEW         |-> {"APPROVED", "REJECTED", "CANCELLED"},
    APPROVED             |-> {"PLACEMENT_PENDING", "CANCELLED"},
    PLACEMENT_PENDING    |-> {"ACTIVE", "CANCELLED"},
    ACTIVE               |-> {"MATURED", "PARTIALLY_TERMINATED", "TERMINATED", "ROLLED_OVER", "REBOOKED"},
    PARTIALLY_TERMINATED |-> {"MATURED", "TERMINATED", "ROLLED_OVER", "REBOOKED"},
    MATURED              |-> {"TERMINATED", "ROLLED_OVER"},
    TERMINATED           |-> {}, ROLLED_OVER |-> {}, REBOOKED |-> {}, CANCELLED |-> {}, REJECTED |-> {}]
InvestmentStatus == DOMAIN INVESTMENT_STATUS_TRANSITIONS
Outstanding == {"ACTIVE", "PARTIALLY_TERMINATED"}

recompute_expected_interest(i) ==
    calculate_simple_interest(i.principal, i.rate, i.start, i.maturity, i.convention)

\* The terms a version keeps. Whether early or partial termination and
\* rollover are allowed is set once: `permits`.
terms_snapshot(i) == [principal |-> i.principal, original |-> i.original, rate |-> i.rate, maturity |-> i.maturity]

PenaltyType == {"NONE", "RATE_REDUCTION", "FLAT_AMOUNT", "FORFEIT_INTEREST", "CUSTOM"}
InvestmentRow ==
    [status : InvestmentStatus, principal : Int, original : Int, rate : Int, start : Days, maturity : Days,
     convention : Convention, expected : Int, received : Int, account : Account \union {None},
     permits : SUBSET {"early", "partial", "rollover"}, penalty : [type : PenaltyType, rate : Int, amount : Int],
     previous : Reference \union {None}, rolled_to : Reference \union {None}]

ASSUME RowAssumption ==
    /\ created \in [Reference -> InvestmentRow]
    /\ \A r \in Reference : created[r].status = "DRAFT" /\ created[r].original = created[r].principal
    /\ Opening \in [Account -> Int]
    /\ Today \in Nat

\* What the schemas of the requests ask for. An amount may have any sign.
ASSUME RequestAssumption ==
    \A q \in Requests :
        /\ q.op \in {"status", "update", "place", "terminate", "settle", "rollover", "rebook"}
        /\ q.op \in {"place", "terminate", "settle"} => q.date \in Days
        /\ q.op \in {"terminate", "rollover"} => q.amount \in Int
        /\ q.op = "settle" => q.interest \in Int \union {None}
        /\ q.op \in {"update", "rebook"} => q.rate \in Int \union {None} /\ q.maturity \in Days \union {None}
        /\ q.op = "rebook" => q.additional \in Int
        /\ q.op = "rollover" => /\ q.rate \in Int /\ q.start \in Days /\ q.maturity \in Days
                               /\ q.reference \in Reference

NoRow == [status |-> "NONE", principal |-> 0, original |-> 0, rate |-> 0, start |-> 0, maturity |-> 0,
          convention |-> "ACT_365", expected |-> 0, received |-> 0, account |-> None, permits |-> {},
          penalty |-> [type |-> "NONE", rate |-> 0, amount |-> 0], previous |-> None, rolled_to |-> None]

Init ==
    /\ investment = [r \in Reference |-> NoRow]
    /\ versions = [r \in Reference |-> <<>>]
    /\ transactions = [r \in Reference |-> <<>>]
    /\ rebooked = [r \in Reference |-> <<>>]
    /\ ledger = <<>>
    /\ balances = {[account |-> a, date |-> 0, closing |-> Opening[a], available |-> NoBalance, known |-> 0] :
                      a \in Account}
    /\ phase = [u \in Users |-> "idle"]
    /\ on = [u \in Users |-> None]
    /\ request = [u \in Users |-> None]
    /\ seen = [u \in Users |-> NoRow]

-----------------------------------------------------------------------------
(* Creation, and the bank                                                  *)

\* A new row comes with its expected interest and its first version.
New(r, row) ==
    /\ investment[r].status = "NONE"
    /\ versions' = [versions EXCEPT ![r] = <<terms_snapshot(row)>>]

With(r, row) == [investment EXCEPT ![r] = [row EXCEPT !.expected = recompute_expected_interest(row)]]

create_investment(r) ==
    /\ New(r, created[r])
    /\ created[r].principal > 0 /\ created[r].maturity >= created[r].start
    /\ investment' = With(r, created[r])
    /\ UNCHANGED <<transactions, rebooked, ledger, balances, handlers>>

\* The bank reports the end of a day: what was there, and every movement of
\* that day and of the days before that the ledger holds by now. One source
\* reports, once a day (uq_bank_balance_identity).
net(movement) == CASE movement.direction = "INFLOW" -> movement.amount
                   [] movement.direction = "OUTFLOW" -> -movement.amount
                   [] OTHER -> 0
Net(a, rows) ==
    SumFunctionOnSet([n \in DOMAIN ledger |-> net(ledger[n])], {n \in rows : ledger[n].account = a})

import_balance(a, date) ==
    LET upto == {n \in DOMAIN ledger : ledger[n].date <= date}
    IN  /\ \A b \in balances : ~(b.account = a /\ b.date = date)
        /\ balances' = balances \union {[account |-> a, date |-> date, known |-> Len(ledger),
                                         closing |-> Opening[a] + Net(a, upto), available |-> NoBalance]}
        /\ UNCHANGED <<investment, versions, transactions, rebooked, ledger, handlers>>

-----------------------------------------------------------------------------
(* Locking and checking                                                    *)

\* Mutant: no statement says FOR UPDATE.
Locked_Never(r) == FALSE

Locked(r) == \E u \in Users : on[u] = r

\* What the endpoint asks of the row it has locked.
Accepted(q, i) ==
    CASE q.op = "status" -> q.to \in INVESTMENT_STATUS_TRANSITIONS[i.status] \union {i.status}
      [] q.op = "update" -> i.status = "DRAFT"
      [] q.op = "place" ->
            /\ i.status \in {"APPROVED", "PLACEMENT_PENDING"}
            /\ i.principal > 0 /\ i.start <= i.maturity /\ q.date <= i.maturity
      [] q.op = "terminate" ->
            /\ i.status \in Outstanding /\ "early" \in i.permits
            /\ 0 < q.amount /\ q.amount <= i.principal
            /\ q.amount < i.principal => "partial" \in i.permits
      [] q.op = "settle" -> i.status \in Outstanding /\ i.maturity <= q.date
      [] q.op = "rollover" ->
            /\ i.status \in Outstanding \union {"MATURED"} /\ "rollover" \in i.permits
            /\ 0 < q.amount /\ q.amount <= i.principal
      [] q.op = "rebook" -> i.status \in Outstanding

\* The money it takes out of the investment's account, which must be there.
Spends(q, i) == CASE i.account = None -> 0
                  [] q.op = "place" -> i.principal
                  [] q.op = "rebook" -> q.additional
                  [] OTHER -> 0

Handle(u, next, r, q, i) ==
    /\ phase' = [phase EXCEPT ![u] = next]
    /\ on' = [on EXCEPT ![u] = r]
    /\ request' = [request EXCEPT ![u] = q]
    /\ seen' = [seen EXCEPT ![u] = i]
Finish(u) == Handle(u, "idle", None, None, NoRow)

load_investment_for_update(u, r, q) ==
    /\ phase[u] = "idle" /\ investment[r].status # "NONE" /\ ~Locked(r)
    /\ Accepted(q, investment[r])
    /\ q.op = "update" => Len(versions[r]) < MaxVersions
    /\ Len(ledger) < MaxCash
    /\ Handle(u, IF Spends(q, investment[r]) > 0 THEN "cash" ELSE "save", r, q, investment[r])
    /\ UNCHANGED <<investment, versions, transactions, rebooked, ledger, balances>>

available_cash(a) == calculate_operational_available_cash(balances, ledger, a, Today)

CheckCash(u) ==
    /\ phase[u] = "cash"
    /\ Spends(request[u], seen[u]) <= available_cash(seen[u].account)
    /\ Handle(u, "save", on[u], request[u], seen[u])
    /\ UNCHANGED <<investment, versions, transactions, rebooked, ledger, balances>>

\* A refusal, a constraint that fails or a lost connection: the transaction
\* is rolled back.
GiveUp(u) ==
    /\ phase[u] # "idle" /\ Finish(u)
    /\ UNCHANGED <<investment, versions, transactions, rebooked, ledger, balances>>

-----------------------------------------------------------------------------
(* Writing                                                                 *)

transaction(type, amount, principal, related, key) ==
    [type |-> type, amount |-> amount, principal |-> principal, related |-> related, key |-> key]
cash_transaction(i, direction, amount, date) ==
    [direction |-> direction, amount |-> amount, date |-> date, account |-> i.account]
Recorded(r, entry) == [transactions EXCEPT ![r] = Append(@, entry)]
Has(r, type) == \E n \in DOMAIN transactions[r] : transactions[r][n].type = type

Row(u) == seen[u]

\* An update of a DRAFT and a rebooking end in a new version.
Amended(i, rate, maturity, additional) ==
    LET new == [i EXCEPT !.rate = IF rate = None THEN @ ELSE rate,
                         !.maturity = IF maturity = None THEN @ ELSE maturity,
                         !.principal = @ + additional, !.original = @ + additional]
    IN  [new EXCEPT !.expected = recompute_expected_interest(new)]
apply_investment_update(r, new) ==
    /\ investment' = [investment EXCEPT ![r] = new]
    /\ versions' = [versions EXCEPT ![r] = Append(@, terms_snapshot(new))]

transition_investment_status(u, r, q) ==
    /\ investment' = [investment EXCEPT ![r] = [Row(u) EXCEPT !.status = q.to]]
    /\ UNCHANGED <<versions, transactions, rebooked, ledger>>

update_investment(u, r, q) ==
    /\ apply_investment_update(r, Amended(Row(u), q.rate, q.maturity, 0))
    /\ UNCHANGED <<transactions, rebooked, ledger>>

\* ux_investment_transactions_one_placement stands behind the first guard.
place_investment(u, r, q) ==
    LET i == Row(u)
    IN  /\ ~Has(r, "PLACEMENT")
        /\ ledger' = Append(ledger, cash_transaction(i, "OUTFLOW", i.principal, q.date))
        /\ transactions' = Recorded(r, transaction("PLACEMENT", i.principal, i.principal, None, None))
        /\ investment' = [investment EXCEPT ![r] = [i EXCEPT !.status = "ACTIVE"]]
        /\ UNCHANGED <<versions, rebooked>>

\* Mutant: the projection is left as it was.
Reduced_Stale(i, amount, status) == [i EXCEPT !.principal = @ - amount, !.status = status]

\* What is left of the principal, with the interest it will bring.
Reduced(i, amount, status) ==
    LET new == [i EXCEPT !.principal = @ - amount, !.status = status]
    IN  [new EXCEPT !.expected = recompute_expected_interest(new)]

terminate_investment(u, r, q) ==
    LET i == Row(u)
        full == q.amount = i.principal
        result == calculate_early_termination(q.amount, i.rate, i.start, q.date, i.convention, i.penalty, i.original)
        type == IF full THEN "FULL_TERMINATION" ELSE "PARTIAL_TERMINATION"
        terminated == Recorded(r, transaction(type, result.net_proceeds, q.amount, None, None))
    IN  /\ ledger' = Append(ledger, cash_transaction(i, "INFLOW", result.net_proceeds, q.date))
        /\ transactions' = IF result.penalty > 0
                           THEN [terminated EXCEPT ![r] = Append(@, transaction("PENALTY", result.penalty, 0, None, None))]
                           ELSE terminated
        /\ investment' = [investment EXCEPT ![r] =
                              Reduced(i, q.amount, IF full THEN "TERMINATED" ELSE "PARTIALLY_TERMINATED")]
        /\ UNCHANGED <<versions, rebooked>>

\* The projection of what is settled is kept.
settle_maturity(u, r, q) ==
    LET i == Row(u)
        interest == IF q.interest = None THEN i.expected ELSE q.interest
    IN  /\ ~Has(r, "MATURITY_SETTLEMENT")
        /\ ledger' = Append(ledger, cash_transaction(i, "INFLOW", i.principal + interest, q.date))
        /\ transactions' = Recorded(r,
              transaction("MATURITY_SETTLEMENT", i.principal + interest, i.principal, None, None))
        /\ investment' = [investment EXCEPT ![r] =
              [i EXCEPT !.principal = 0, !.received = @ + interest, !.status = "MATURED"]]
        /\ UNCHANGED <<versions, rebooked>>

\* The successor takes over everything but amount, rate and dates; its
\* reference is unique.
Successor(r, i, q) ==
    [i EXCEPT !.principal = q.amount, !.original = q.amount, !.rate = q.rate, !.start = q.start,
              !.maturity = q.maturity, !.status = "ACTIVE", !.received = 0, !.previous = r, !.rolled_to = None]
rollover_investment(u, r, q) ==
    LET i == Row(u)
        new == Successor(r, i, q)
        status == IF q.amount = i.principal THEN "ROLLED_OVER" ELSE "PARTIALLY_TERMINATED"
    IN  /\ New(q.reference, new)
        /\ ledger' = Append(ledger, cash_transaction(i, "NON_CASH", q.amount, q.start))
        /\ transactions' = [transactions EXCEPT
              ![r] = Append(@, transaction("ROLLOVER", q.amount, q.amount, q.reference, None)),
              ![q.reference] = Append(@, transaction("PLACEMENT", q.amount, q.amount, r, None))]
        /\ investment' = [With(q.reference, new) EXCEPT
              ![r] = [Reduced(i, q.amount, status) EXCEPT !.rolled_to = q.reference]]
        /\ UNCHANGED rebooked

\* Mutant: only transactions are looked at, which a new rate does not make.
AlreadyRebooked_ByTransaction(r, key) ==
    key # None /\ \E n \in DOMAIN transactions[r] : transactions[r][n].key = key

\* A REBOOKED event with this key: the request is a retry.
AlreadyRebooked(r, key) == key # None /\ Contains(rebooked[r], key)

\* ux_investment_events_rebooking_idempotency_key and the index on the key of
\* transactions.
UniqueKey(r, key) ==
    key # None => /\ ~Contains(rebooked[r], key)
                  /\ \A n \in DOMAIN transactions[r] : transactions[r][n].key # key

rebook_investment(u, r, q) ==
    LET i == Row(u)
    IN  IF AlreadyRebooked(r, q.key)
        THEN UNCHANGED <<investment, versions, transactions, rebooked, ledger>>
        ELSE /\ UniqueKey(r, q.key)
             /\ apply_investment_update(r, Amended(i, q.rate, q.maturity, q.additional))
             /\ rebooked' = [rebooked EXCEPT ![r] = Append(@, q.key)]
             /\ IF q.additional = 0 THEN UNCHANGED <<transactions, ledger>>
                ELSE /\ ledger' = Append(ledger, cash_transaction(i, "OUTFLOW", q.additional, Today))
                     /\ transactions' = Recorded(r,
                           transaction("REBOOKING", q.additional, q.additional, None, q.key))

Save(u) ==
    LET r == on[u]
        q == request[u]
    IN  /\ phase[u] = "save"
        /\ CASE q.op = "status" -> transition_investment_status(u, r, q)
             [] q.op = "update" -> update_investment(u, r, q)
             [] q.op = "place" -> place_investment(u, r, q)
             [] q.op = "terminate" -> terminate_investment(u, r, q)
             [] q.op = "settle" -> settle_maturity(u, r, q)
             [] q.op = "rollover" -> rollover_investment(u, r, q)
             [] q.op = "rebook" -> rebook_investment(u, r, q)
        /\ UNCHANGED balances
        /\ Finish(u)

Next ==
    \/ \E r \in Reference : create_investment(r)
    \/ \E a \in Account, date \in 1..Today : import_balance(a, date)
    \/ \E u \in Users :
          \/ \E r \in Reference, q \in Requests : load_investment_for_update(u, r, q)
          \/ CheckCash(u) \/ Save(u) \/ GiveUp(u)

Spec == Init /\ [][Next]_vars

-----------------------------------------------------------------------------
(* Properties                                                              *)

\* Every row has the columns the schema gives it, and a first version. A
\* handler that holds a lock has the committed row before it.
TypeOK ==
    /\ \A r \in Reference :
          /\ investment[r] \in InvestmentRow \union {NoRow}
          /\ investment[r].status = "NONE" <=> versions[r] = <<>>
    /\ \A n \in DOMAIN ledger : ledger[n].direction \in {"INFLOW", "OUTFLOW", "NON_CASH"}
    /\ phase \in [Users -> {"idle", "cash", "save"}]
    /\ \A u \in Users : phase[u] # "idle" => on[u] \in Reference /\ seen[u] = investment[on[u]]

MovedOut == {"PARTIAL_TERMINATION", "FULL_TERMINATION", "ROLLOVER", "MATURITY_SETTLEMENT"}
PrincipalOf(entries, types) ==
    SumFunctionOnSet([n \in DOMAIN entries |-> entries[n].principal], {n \in DOMAIN entries : entries[n].type \in types})
Principal(r, types) == PrincipalOf(transactions[r], types)

\* However terminations, settlements, rollovers and rebookings of one
\* investment interleave, what has been put in is what is still outstanding
\* and what its transactions have taken out: no two requests pay out the
\* same principal. What was put in was placed or rebooked, except where the
\* status endpoint made the investment ACTIVE without a placement.
PrincipalIsAccounted ==
    \A r \in Reference :
        LET i == investment[r]
        IN  /\ i.original = i.principal + Principal(r, MovedOut)
            /\ Has(r, "PLACEMENT") => i.original = Principal(r, {"PLACEMENT", "REBOOKING"})

\* The row agrees with the latest of its versions, through updates and
\* rebookings, and its expected interest is the projection of the principal
\* and terms it has now; a settlement keeps the projection it settled.
TermsAreCurrent ==
    \A r \in Reference : investment[r].status # "NONE" =>
        LET i == investment[r]
            latest == Last(versions[r])
        IN  /\ <<latest.rate, latest.maturity, latest.original>> = <<i.rate, i.maturity, i.original>>
            /\ i.expected = recompute_expected_interest(i) \/ Has(r, "MATURITY_SETTLEMENT")

\* The cash a placement is checked against counts every movement once: in
\* the balance the bank reported or beside it. Only one that was entered for
\* a day the bank had reported before is in neither.
CashIsCountedOnce ==
    \A a \in Account :
        LET anchor == CHOOSE b \in latest_balances(balances, {a}, Today) : TRUE
            intime == {n \in DOMAIN ledger : n <= anchor.known \/ ledger[n].date > anchor.date}
        IN  available_cash(a) = Opening[a] + Net(a, intime)

\* A rebooking whose key has been applied is recognized before the unique
\* indexes refuse it, whether or not it moved cash.
RetriesAreRecognized ==
    \A u \in Users :
        phase[u] = "save" /\ request[u].op = "rebook" =>
            UniqueKey(on[u], request[u].key) \/ AlreadyRebooked(on[u], request[u].key)

\* Not so in this code, see the README: accounts are never overdrawn, ...
AccountsAreCovered == \A a \in Account : available_cash(a) >= 0
\* ... an outstanding investment has been placed, ...
OutstandingWasPlaced ==
    \A r \in Reference : investment[r].status \in Outstanding => Has(r, "PLACEMENT")
\* ... and an investment has one replacement.
OneReplacement ==
    \A r \in Reference : \A x, y \in Reference \ {r} :
        investment[x].previous = r /\ investment[y].previous = r => x = y
=============================================================================
