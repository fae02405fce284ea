--------------------------- MODULE ForecastEngine ---------------------------
(***************************************************************************)
(* What a calculation of a cash flow forecast makes of the rows it reads:  *)
(* lines, the weekly waterfall, alerts, and the views, variance and        *)
(* summary computed from them later.  A forecast f is a record of its own  *)
(* columns, d the rows of the tables a calculation reads, a line a record, *)
(* and the output of a calculation a record of lines, weeks and alerts.    *)
(*                                                                         *)
(* Source: services/forecast_engine.py, forecast_dates.py,                 *)
(* forecast_views_service.py, forecast_variance_service.py,                *)
(* fx_conversion_service.py; api/v1/forecast.py for the summary.           *)
(***************************************************************************)
EXTENDS ForecastEvents, CashPosition, SequencesExt

CONSTANTS
    FORECAST_HORIZON_WEEKS, WeekLength,
    TransferSign        \* of an event type: -1, 1, or 0 when it is unknown

Excluded == -1          \* the week of a line pushed beyond the horizon
Week == 1..FORECAST_HORIZON_WEEKS
Percent == 100

-----------------------------------------------------------------------------
(* Weeks and rates                                                         *)

FirstDate(start, w) == start + WeekLength * (w - 1)
LastDate(start, w) == FirstDate(start, w) + WeekLength - 1
Horizon(start) == FirstDate(start, 1)..LastDate(start, FORECAST_HORIZON_WEEKS)
week_for_date(start, date) == CHOOSE w \in Week : date \in FirstDate(start, w)..LastDate(start, w)

week_status(start, w, today) ==
    CASE today > LastDate(start, w) -> "COMPLETED"
      [] today < FirstDate(start, w) -> "FUTURE"
      [] OTHER -> "CURRENT"

\* A rate is a fraction <<n, d>> with d > 0: the latest current one of the pair
\* up to a day, else the inverse of the latest one of the inverse pair, else None.
latest_rate(rates, from, to, as_of) ==
    LET usable == {r \in rates : r.from = from /\ r.to = to /\ r.date <= as_of /\ r.is_current}
    IN  IF usable = {} THEN None
        ELSE (CHOOSE r \in usable : \A s \in usable : s.date <= r.date).rate

get_conversion_rate(rates, from, to, as_of) ==
    LET rate == latest_rate(rates, from, to, as_of)
        inverse == latest_rate(rates, to, from, as_of)
    IN  IF from = to THEN <<1, 1>>
        ELSE IF rate # None THEN rate
        ELSE IF inverse = None \/ inverse[1] = 0 THEN None
        ELSE IF inverse[1] > 0 THEN <<inverse[2], inverse[1]>> ELSE <<-inverse[2], -inverse[1]>>

\* The rounded sum of fractions, times a fraction.
RoundedSum(S, Fraction(_), factor) ==
    LET Plus(x, sum) == <<Fraction(x)[1] * sum[2] + sum[1] * Fraction(x)[2], Fraction(x)[2] * sum[2]>>
        sum == FoldSet(Plus, <<0, 1>>, S)
    IN  round_half_up(sum[1] * factor[1], sum[2] * factor[2])

-----------------------------------------------------------------------------
(* Lines                                                                   *)

Line(row, source, direction, week, amount, sign) ==
    [source |-> source, id |-> row.id, entity |-> row.entity, currency |-> row.currency,
     direction |-> direction, week |-> week, amount |-> amount, sign |-> sign,
     probability |-> IF "probability" \in DOMAIN row THEN row.probability ELSE None]

Scoped(f, rows) == {row \in rows : row.entity \in f.entities}
Dated(f, rows) == {row \in Scoped(f, rows) : row.date \in Horizon(f.start)}

\* Collections are INFLOWs and payments OUTFLOWs, whatever was received or
\* paid of them, unless they are cancelled.
expected_lines(f, d) ==
    {Line(row, row.source, IF row.source = "EXPECTED_COLLECTION" THEN "INFLOW" ELSE "OUTFLOW",
          week_for_date(f.start, row.date), row.amount, 1) :
        row \in {r \in Dated(f, d.expected) : r.status # "CANCELLED"}}

\* Mutant: the day of the month is that of the first date.
occurrences_Drifting(flow, start) ==
    LET first == LargerOf(flow.start, start)
        last == LastDate(start, FORECAST_HORIZON_WEEKS)
    IN  {date \in first..(IF flow.end = None THEN last ELSE SmallerOf(flow.end, last)) :
            IF flow.days # None THEN (date - first) % flow.days = 0
            ELSE (month_of(date) - month_of(first)) % flow.months = 0 /\ day_of(date) = day_of(first)}

\* The dates of a flow: every so many days, or on one day of every so many
\* months. They start with the later of its own and the horizon's start.
occurrences(flow, start) ==
    LET first == LargerOf(flow.start, start)
        last == LastDate(start, FORECAST_HORIZON_WEEKS)
        until == IF flow.end = None THEN last ELSE SmallerOf(flow.end, last)
        InStep(date) ==
            IF flow.days # None THEN (date - first) % flow.days = 0
            ELSE date = first \/
                 LET months == month_of(date) - month_of(first)
                 IN  /\ months > 0 /\ months % flow.months = 0
                     /\ day_of(date) = SmallerOf(day_of(flow.start), MonthDays[month_of(date)])
    IN  {date \in first..until : InStep(date)}

\* One line for all occurrences in a week.
recurring_lines(f, d) ==
    LET In(flow, w) == {date \in occurrences(flow, f.start) : week_for_date(f.start, date) = w}
    IN  {Line(fw[1], "RECURRING", fw[1].direction, fw[2], fw[1].amount * Cardinality(In(fw[1], fw[2])), 1) :
            fw \in {fw \in Scoped(f, d.flows) \X Week : In(fw[1], fw[2]) # {}}}

\* Posted transactions; transfers only where the side is known.
actual_lines(f, d) ==
    {Line(row, "ACTUAL", row.direction, week_for_date(f.start, row.date), row.amount,
          IF row.direction = "TRANSFER" THEN TransferSign[row.event] ELSE 1) :
        row \in {r \in Dated(f, d.ledger) : r.direction # "NON_CASH"
                                            /\ (r.direction = "TRANSFER" => TransferSign[r.event] # 0)}}

manual_lines(adjustments) ==
    {Line(row, "MANUAL_ADJUSTMENT", row.direction, row.week, row.amount, 1) : row \in adjustments}

\* What facilities and investments will bring and take, see ForecastEvents.
event_lines(f, d) ==
    {Line(e, e.source, e.direction, week_for_date(f.start, e.date), e.amount, 1) :
        e \in Dated(f, facility_forecast_events(d) \union investment_forecast_events(d))}

\* Every assumption of a type applies, one after the other.
OfType(f, type) == {n \in DOMAIN f.assumptions : f.assumptions[n].type = type}
Applied(f, type, value, Change(_, _)) ==
    LET Step(v, a) == IF a.type = type THEN Change(v, a.value) ELSE v
    IN  FoldLeft(Step, value, f.assumptions)

\* A line already pushed out of the horizon is moved like any other.
scenario_line(f, line) ==
    LET Delay(w, n) == IF w + n > FORECAST_HORIZON_WEEKS THEN Excluded ELSE w + n
        Accelerate(w, n) == LargerOf(1, w - n)
        Haircut(p, n) == IF p = None THEN None ELSE LargerOf(0, p - n)
    IN  CASE line.source = "EXPECTED_COLLECTION" ->
                [line EXCEPT !.week = Applied(f, "COLLECTION_DELAY_WEEKS", @, Delay),
                             !.probability = Applied(f, "COLLECTION_PROBABILITY_HAIRCUT_PCT", @, Haircut)]
          [] line.source = "EXPECTED_PAYMENT" ->
                [line EXCEPT !.week = Applied(f, "PAYMENT_ACCELERATION_WEEKS", @, Accelerate)]
          [] OTHER -> line

\* An unexpected outflow goes to the entity of whichever line comes first; a
\* forecast without lines has none.
outflow_lines(f, lines) ==
    LET first == CHOOSE line \in lines : TRUE
    IN  IF lines = {} THEN {}
        ELSE {Line([id |-> <<"scenario", n>>, entity |-> first.entity, currency |-> first.currency],
                   "SCENARIO_ADJUSTMENT", "OUTFLOW", 1, f.assumptions[n].value, 1) :
                n \in OfType(f, "UNEXPECTED_OUTFLOW_AMOUNT")}

raw_lines(f, d, adjustments) ==
    expected_lines(f, d) \union recurring_lines(f, d) \union actual_lines(f, d)
        \union manual_lines(adjustments) \union event_lines(f, d)

scenario_lines(f, raw) ==
    {line \in {scenario_line(f, l) : l \in raw} \union outflow_lines(f, raw) : line.week # Excluded}

\* What is stored of a line. Without a rate it counts for nothing in the
\* reporting currency.
expectation(f, line) ==
    IF line.source \in {"EXPECTED_COLLECTION", "EXPECTED_PAYMENT"} /\ f.basis = "PROBABILITY_ADJUSTED"
       /\ line.probability # None
    THEN line.probability ELSE Percent
stored_line(f, d, line) ==
    LET share == line.amount * expectation(f, line) * line.sign
        rate == get_conversion_rate(d.rates, line.currency, f.reporting, LastDate(f.start, line.week))
    IN  [source |-> line.source, id |-> line.id, entity |-> line.entity, currency |-> line.currency,
         direction |-> line.direction, week |-> line.week, rate |-> rate,
         adjusted_amount |-> round_half_up(share, Percent),
         reporting_amount |-> IF rate = None THEN 0 ELSE round_half_up(share * rate[1], Percent * rate[2])]

-----------------------------------------------------------------------------
(* Weeks                                                                   *)

\* What the banks reported up to the day before, of each entity and currency.
Opening(f, d) ==
    LET Accounts(e) == {b.account : b \in Scoped([entities |-> {e}], d.balances)}
        position == [e \in f.entities |-> calculate_cash_position(d.balances, Accounts(e), f.start - 1).by_currency]
        pairs == {pair \in f.entities \X {b.currency : b \in d.balances} : pair[2] \in DOMAIN position[pair[1]]}
    IN  [pair \in pairs |-> position[pair[1]][pair[2]]]

opening_cash(f, d, opening) ==
    LET Rate(c) == get_conversion_rate(d.rates, c, f.reporting, f.start)
        Amount(pair) == <<opening[pair] * Rate(pair[2])[1], Rate(pair[2])[2]>>
    IN  RoundedSum({pair \in DOMAIN opening : Rate(pair[2]) # None}, Amount, <<1, 1>>)

Applies(f, t) ==
    \/ t.scope = "GROUP" /\ f.entity = None
    \/ t.scope = "ENTITY" /\ f.entity # None /\ t.entity = f.entity
    \/ t.scope = "CURRENCY" /\ t.currency # None

\* Only the first buffer of several is used.
minimum_liquidity(f, d, w) ==
    LET buffers == OfType(f, "MIN_CASH_BUFFER_MULTIPLIER")
        Rate(t) == IF t.currency = None THEN <<1, 1>>
                   ELSE get_conversion_rate(d.rates, t.currency, f.reporting, LastDate(f.start, w))
        Minimum(t) == <<t.minimum * Rate(t)[1], Rate(t)[2]>>
    IN  RoundedSum({t \in d.thresholds : Applies(f, t) /\ Rate(t) # None}, Minimum,
                   <<IF buffers = {} THEN 1 ELSE f.assumptions[Min(buffers)].value, 1>>)

SumOver(lines, direction, Amount(_)) == MapThenSumSet(Amount, {l \in lines : l.direction = direction})
Reporting(l) == l.reporting_amount
Native(l) == l.adjusted_amount

\* What some lines bring, take and transfer.
flows(lines, Amount(_)) ==
    [inflows |-> SumOver(lines, "INFLOW", Amount), outflows |-> SumOver(lines, "OUTFLOW", Amount),
     transfers |-> SumOver(lines, "TRANSFER", Amount)]
net(f) == f.inflows - f.outflows + f.transfers

\* The balance after each of the weeks, from an opening one.
Running(opening, lines, Amount(_)) ==
    LET Closing[w \in 0..FORECAST_HORIZON_WEEKS] ==
            IF w = 0 THEN opening
            ELSE Closing[w - 1] + net(flows({l \in lines : l.week = w}, Amount))
    IN  Closing

forecast_weeks(f, d, lines, opening, today) ==
    LET closing == Running(opening_cash(f, d, opening), lines, Reporting)
    IN  [w \in Week |->
            [week_flows |-> flows({l \in lines : l.week = w}, Reporting), status |-> week_status(f.start, w, today),
             opening_cash |-> closing[w - 1], closing_cash |-> closing[w],
             minimum |-> minimum_liquidity(f, d, w), surplus_or_gap |-> closing[w] - minimum_liquidity(f, d, w)]]

\* Coverage is compared in hundredths.
coverage(week) == IF week.minimum > 0 THEN round_half_up(100 * week.closing_cash, week.minimum) ELSE None

native_opening(opening, currency) ==
    LET Amount(pair) == opening[pair] IN MapThenSumSet(Amount, {pair \in DOMAIN opening : pair[2] = currency})

Alert(metric, severity, week, currency) ==
    [metric |-> metric, severity |-> severity, week |-> week, currency |-> currency]
LiquidityAlert(w, week) ==
    IF week.surplus_or_gap < 0
    THEN {Alert("LIQUIDITY_GAP", IF week.minimum > 0 /\ -week.surplus_or_gap > week.minimum
                                 THEN "CRITICAL" ELSE "HIGH", w, None)}
    ELSE IF coverage(week) # None /\ coverage(week) < 120
    THEN {Alert("LOW_LIQUIDITY_COVERAGE", "MEDIUM", w, None)}
    ELSE {}

\* Mutant: the balance of a week does not carry over the weeks before.
ShortfallAlerts_Week(lines, opening) ==
    LET Signed(l) == IF l.direction = "OUTFLOW" THEN -l.adjusted_amount ELSE l.adjusted_amount
        After(c, w) == native_opening(opening, c)
                       + MapThenSumSet(Signed, {l \in lines : l.currency = c /\ l.week = w})
    IN  {Alert("CURRENCY_LIQUIDITY_SHORTFALL", "HIGH", cw[2], cw[1]) :
            cw \in {cw \in {l.currency : l \in lines} \X Week : After(cw[1], cw[2]) < 0}}

\* Of every currency that has a line, the weeks its own balance is negative
\* after; here everything but an outflow is added.
ShortfallAlerts(lines, opening) ==
    LET Signed(l) == IF l.direction = "OUTFLOW" THEN -l.adjusted_amount ELSE l.adjusted_amount
        After(c, w) == native_opening(opening, c)
                       + MapThenSumSet(Signed, {l \in lines : l.currency = c /\ l.week <= w})
    IN  {Alert("CURRENCY_LIQUIDITY_SHORTFALL", "HIGH", cw[2], cw[1]) :
            cw \in {cw \in {l.currency : l \in lines} \X Week : After(cw[1], cw[2]) < 0}}

generate_alerts(weeks, lines, opening) ==
    (UNION {LiquidityAlert(w, weeks[w]) : w \in Week}) \union ShortfallAlerts(lines, opening)

\* The set of the one output. It is empty where an assumption has moved a line
\* before the first week: the line has no week to go to, the request fails.
calculate_forecast(f, d, adjustments, today) ==
    LET placeable == {lines \in {scenario_lines(f, raw) : raw \in {raw_lines(f, d, adjustments)}} :
                        \A line \in lines : line.week \in Week}
    IN  {[lines |-> lw[1], opening |-> lw[2], weeks |-> lw[3],
          alerts |-> {[alert |-> a, status |-> "OPEN"] : a \in generate_alerts(lw[3], lw[1], lw[2])}] :
            lw \in {<<lo[1], lo[2], forecast_weeks(f, d, lo[1], lo[2], today)>> :
                lo \in {<<{stored_line(f, d, line) : line \in lines}, Opening(f, d)>> : lines \in placeable}}}

-----------------------------------------------------------------------------
(* What is read from an output                                             *)

\* Mutant: in the currency of each line.
get_entity_view_Native(o, entity) ==
    [w \in Week |-> flows({l \in o.lines : l.entity = entity /\ l.week = w}, Native)]

get_entity_view(o, entity) ==
    [w \in Week |-> flows({l \in o.lines : l.entity = entity /\ l.week = w}, Reporting)]

get_currency_view(o, currency) ==
    LET lines == {l \in o.lines : l.currency = currency}
        closing == Running(native_opening(o.opening, currency), lines, Native)
    IN  [w \in Week |-> [week_flows |-> flows({l \in lines : l.week = w}, Native),
                         opening_cash |-> closing[w - 1], closing_cash |-> closing[w]]]

\* Of each group of lines of completed weeks, what was forecast and what was.
compute_variance(o, Key(_)) ==
    LET lines == {l \in o.lines : o.weeks[l.week].status = "COMPLETED"}
        Signed(l) == IF l.direction = "OUTFLOW" THEN -l.reporting_amount ELSE l.reporting_amount
        Total(k, actual) == MapThenSumSet(Signed, {l \in lines : Key(l) = k /\ (l.source = "ACTUAL") = actual})
    IN  [k \in {Key(l) : l \in lines} |->
            [forecast |-> Total(k, FALSE), actual |-> Total(k, TRUE), variance |-> Total(k, TRUE) - Total(k, FALSE)]]

\* In hundredths, cut off at none.
compute_accuracy(o) ==
    LET ByWeek(l) == l.week
        rows == compute_variance(o, ByWeek)
        Size(n) == IF n < 0 THEN -n ELSE n
        Projected(k) == Size(rows[k].forecast)
        Variance(k) == Size(rows[k].variance)
        total == MapThenSumSet(Projected, DOMAIN rows)
    IN  IF total = 0 THEN None
        ELSE LargerOf(0, round_half_up(100 * (total - MapThenSumSet(Variance, DOMAIN rows)), total))

get_summary(o) ==
    LET Lowest(value(_), S) == CHOOSE w \in S : \A v \in S : value(w) < value(v) \/ (value(w) = value(v) /\ w <= v)
        Closing(w) == o.weeks[w].closing_cash
        Surplus(w) == o.weeks[w].surplus_or_gap
        Net(w) == net(o.weeks[w].week_flows)
        gaps == {w \in Week : Surplus(w) < 0}
    IN  [opening_cash |-> o.weeks[1].opening_cash, net_cash_flow |-> MapThenSumSet(Net, Week),
         lowest_projected_cash_week |-> Lowest(Closing, Week),
         largest_funding_gap_week |-> IF gaps = {} THEN None ELSE Lowest(Surplus, gaps),
         total_surplus |-> MapThenSumSet(Surplus, Week \ gaps)]
=============================================================================
