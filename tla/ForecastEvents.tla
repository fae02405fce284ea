--------------------------- MODULE ForecastEvents ---------------------------
(***************************************************************************)
(* The cash that facilities and investments will bring and take: what the  *)
(* two adapters hand to the forecast engine, before it is cut to the       *)
(* entities and the horizon of a forecast.                                 *)
(*                                                                         *)
(* Source: services/facility_forecast_adapter.py,                          *)
(* services/investment_forecast_adapter.py.                                *)
(***************************************************************************)
EXTENDS InvestmentEngine

CONSTANT None

Event(row, source, id, direction, date, amount) ==
    [source |-> source, id |-> id, entity |-> row.entity, currency |-> row.currency,
     direction |-> direction, date |-> date, amount |-> amount]

\* What is left to pay of open repayments, fees that are due, and drawdowns
\* that are approved and not executed yet.
OpenRepayment == {"SCHEDULED", "DUE", "PARTIALLY_PAID", "OVERDUE"}
repayment_events(d) ==
    {Event(r, "FACILITY_REPAYMENT", r.id, "OUTFLOW", r.due, r.amount - r.paid) :
        r \in {r \in d.repayments : r.status \in OpenRepayment /\ r.paid < r.amount}}
fee_events(d) ==
    {Event(r, "FACILITY_FEE", r.id, "OUTFLOW", r.due, r.amount) : r \in {r \in d.fees : r.status = "DUE"}}
drawdown_events(d) ==
    {Event(r, "FACILITY_DRAWDOWN", r.id, "INFLOW", r.date, r.amount) :
        r \in {r \in d.drawdowns : r.status = "APPROVED"}}
facility_forecast_events(d) == repayment_events(d) \union fee_events(d) \union drawdown_events(d)

\* Of an outstanding investment the principal at maturity, with the interest
\* unless that is paid in periods or was paid up front.
outstanding(d) == {i \in d.investments : i.status \in {"ACTIVE", "PARTIALLY_TERMINATED"}}
maturity_events(d) ==
    {Event(i, "INVESTMENT_MATURITY_PRINCIPAL", i.id, "INFLOW", i.maturity, i.principal) :
        i \in {i \in outstanding(d) : i.principal > 0}}
    \union {Event(i, "INVESTMENT_MATURITY_INTEREST", i.id, "INFLOW", i.maturity, i.expected) :
        i \in {i \in outstanding(d) : i.method = "AT_MATURITY" /\ i.expected > 0}}

\* The periods without a receipt on exactly the day they end.
open_periods(i) ==
    LET schedule == generate_periodic_interest_schedule(i.principal, i.rate, i.start, i.maturity, i.months, i.convention)
    IN  {schedule[k] : k \in {k \in DOMAIN schedule :
            schedule[k].interest_amount > 0 /\ schedule[k].period_end \notin i.receipts}}
periodic_events(d) ==
    UNION {{Event(i, "INVESTMENT_INTEREST_RECEIPT", Append(i.id, p.period), "INFLOW", p.period_end, p.interest_amount) :
                p \in open_periods(i)} :
           i \in {i \in outstanding(d) : i.method = "PERIODIC" /\ i.months # None}}

\* A placement that has a date before it is made, with the interest that is
\* paid up front.
placement_events(d) ==
    LET pending == {i \in d.investments : i.status = "PLACEMENT_PENDING" /\ i.placement # None}
    IN  {Event(i, "INVESTMENT_PLACEMENT", i.id, "OUTFLOW", i.placement, i.principal) : i \in pending}
        \union {Event(i, "INVESTMENT_INTEREST_RECEIPT", i.id, "INFLOW", i.placement, i.expected) :
            i \in {i \in pending : i.method = "UPFRONT" /\ i.expected > 0}}
investment_forecast_events(d) == maturity_events(d) \union periodic_events(d) \union placement_events(d)
=============================================================================
