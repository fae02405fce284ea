------------------------------ MODULE Forecasts ------------------------------
(***************************************************************************)
(* Forecasts, from creation over calculation, adjustment and publication   *)
(* to the rolled forward version.  No request takes a lock: it reads the   *)
(* forecast, decides, and writes later, while other requests commit.  The  *)
(* tables that calculations read stay what they are.                       *)
(*                                                                         *)
(* Source: api/v1/forecast.py, services/forecast_lifecycle_service.py,     *)
(* services/forecast_engine.py, models/forecast.py.                        *)
(***************************************************************************)
EXTENDS ForecastEngine

CONSTANTS
    Forecast,       \* ids of forecasts; those of rows are sequences
    Worked,         \* the ones that users create, and send requests for
    Users,          \* each sends one request at a time
    Entity,         \* the legal entities of the group
    Currency,
    Columns,        \* what forecasts are created with
    data,           \* the tables calculations read
    Adjustments, Assumptions,   \* what users may enter
    Today,
    MaxOutputs, MaxEntries, MaxAcknowledged   \* bounds on outputs, entries, alerts someone has seen

Direction == {"INFLOW", "OUTFLOW", "TRANSFER", "NON_CASH"}
Assumption == [type : STRING, value : Int]
Basis == {"GROSS", "PROBABILITY_ADJUSTED"}

ForecastRow ==
    [status : {"DRAFT", "PUBLISHED", "ARCHIVED"}, start : Int, entity : Entity \union {None}, basis : Basis,
     reporting : Currency, entities : SUBSET Entity, assumptions : Seq(Assumption),
     version : Nat, parent : Forecast \union {None}]

ASSUME ForecastsAssumption ==
    /\ IsFiniteSet(Entity) /\ Worked \subseteq Forecast /\ None \notin ForecastRow
    /\ FORECAST_HORIZON_WEEKS \in Nat \ {0} /\ WeekLength \in Nat \ {0}

\* What the schemas let users enter: amounts of any sign.
ASSUME EntriesAssumption ==
    /\ Columns \subseteq [entity : Entity \union {None}, start : Int, basis : Basis,
                          reporting : Currency, assumptions : Seq(Assumption)]
    /\ \A a \in Adjustments : a \in [id : {a.id}, entity : Entity, currency : Currency,
                                     direction : Direction, week : Int, amount : Int]
    /\ Assumptions \subseteq Assumption

\* A row of a table has an amount, and some have a probability.
Amounts(rows) ==
    /\ IsFiniteSet(rows)
    /\ \A r \in rows : r.amount \in Int /\ ("probability" \in DOMAIN r => r.probability \in Int \union {None})

\* A line is an INFLOW, an OUTFLOW or a TRANSFER, unless a user or a flow says
\* something else.
LineDirection == {"INFLOW", "OUTFLOW", "TRANSFER"} \union {a.direction : a \in Adjustments}
                     \union {r.direction : r \in data.flows}
Entries(rows) == Amounts(rows) /\ \A a \in rows : a.entity \in Entity /\ a.direction \in LineDirection

ASSUME TablesAssumption ==
    /\ Amounts(data.expected) /\ Amounts(data.flows) /\ Amounts(data.ledger)
    /\ Amounts(data.repayments) /\ Amounts(data.fees) /\ Amounts(data.drawdowns)
    /\ \A r \in data.flows :
          /\ r.direction \in Direction /\ r.start \in Int /\ r.end \in Int \union {None}
          /\ IF r.days # None THEN r.days \in Nat \ {0} ELSE r.months \in Nat \ {0}
    /\ \A r \in data.ledger : r.direction \in Direction /\ (r.direction = "TRANSFER" => TransferSign[r.event] \in Int)
    /\ \A r \in data.repayments : r.paid \in Int
    /\ IsFiniteSet(data.rates) /\ \A r \in data.rates : r.date \in Int /\ r.rate \in Int \X (Nat \ {0})
    /\ IsFiniteSet(data.balances) /\ \A b \in data.balances : b.closing \in Int
    /\ IsFiniteSet(data.investments)
    /\ \A i \in data.investments :
          /\ i.principal \in Int /\ i.rate \in Int /\ i.expected \in Int /\ i.convention \in Convention
          /\ i.start \in Int /\ i.maturity \in Int /\ i.months \in (Nat \ {0}) \union {None}

\* Paid in periods: the ones whose schedule is not empty.
Periodic == {i \in outstanding(data) : i.method = "PERIODIC" /\ i.months # None /\ i.start < i.maturity}

\* The calendar ends after every date that is computed.
ASSUME CalendarCoversData ==
    /\ \A flow \in {f \in data.flows : f.days = None} :
          /\ flow.start \in Days /\ flow.start + WeekLength * FORECAST_HORIZON_WEEKS \in Days
          /\ month_of(flow.start) + WeekLength * FORECAST_HORIZON_WEEKS * flow.months <= Len(MonthDays)
    /\ \A i \in Periodic :
          i.start \in Days /\ i.maturity \in Days /\ month_of(i.maturity) + i.months <= Len(MonthDays)

VARIABLES
    forecast,       \* committed rows, None while there is none
    output,         \* of each forecast the weeks, lines and alerts of a calculation
    adjustments,    \* ForecastAdjustments of each
    work            \* each user's handler: what it does, on what, and what it has read

vars == <<forecast, output, adjustments, work>>

Init ==
    /\ forecast = [id \in Forecast |-> None]
    /\ output = [id \in Forecast |-> {}]
    /\ adjustments = [id \in Forecast |-> {}]
    /\ work = [u \in Users |-> [op |-> "idle"]]

-----------------------------------------------------------------------------
(* New forecasts, each in one transaction                                  *)

Row(c, start, version, parent) ==
    [status |-> "DRAFT", start |-> start, entity |-> c.entity, basis |-> c.basis, reporting |-> c.reporting,
     entities |-> IF c.entity = None THEN Entity ELSE {c.entity},
     assumptions |-> c.assumptions, version |-> version, parent |-> parent]

Inserted(id, row) == /\ forecast[id] = None
                     /\ forecast' = [forecast EXCEPT ![id] = row]

create_forecast(id, c) ==
    /\ Inserted(id, Row(c, c.start, 1, None))
    /\ UNCHANGED <<output, adjustments, work>>

\* A week later, with the assumptions, and without the adjustments.
roll_forecast(parent, id) ==
    /\ forecast[parent] # None
    /\ Inserted(id, Row(forecast[parent], forecast[parent].start + WeekLength, forecast[parent].version + 1, parent))
    /\ UNCHANGED <<output, adjustments, work>>

\* Each calculation writes rows of its own; where it fails there are none.
Outputs(run, f, entries) ==
    {[lines |-> o.lines, opening |-> o.opening, weeks |-> o.weeks, alerts |-> o.alerts, run |-> run] :
        o \in calculate_forecast(f, data, entries, Today)}

\* A copy with the adjustments and one more, calculated at once.
what_if(base, id, a) ==
    LET copy == Row(forecast[base], forecast[base].start, 1, None)
        entries == adjustments[base] \union {[a EXCEPT !.id = Append(@, id)]}
    IN  /\ forecast[base] # None /\ output[base] # {}
        /\ Inserted(id, copy)
        /\ adjustments' = [adjustments EXCEPT ![id] = entries]
        /\ \E o \in Outputs(1, copy, entries) : output' = [output EXCEPT ![id] = {o}]
        /\ UNCHANGED work

-----------------------------------------------------------------------------
(* Requests on a forecast                                                  *)

\* The forecast and its weeks are loaded, and the request is refused or goes
\* on. It decides by what it has read; a change is a calculation, an
\* adjustment or an assumption.
load_forecast(u, op, id) ==
    /\ work[u].op = "idle" /\ forecast[id] # None
    /\ forecast[id].status # "PUBLISHED"
    /\ op = "publish" => output[id] # {}
    /\ work' = [work EXCEPT ![u] = [op |-> op, id |-> id]]
    /\ UNCHANGED <<forecast, output, adjustments>>

Finish(u) == work' = [work EXCEPT ![u] = [op |-> "idle"]]

\* Mutant: the deletion is committed before the lines are computed.
delete_output_Committed(u) ==
    /\ work[u].op = "change"
    /\ work' = [work EXCEPT ![u] = [op |-> "fill", id |-> @.id, gone |-> output[@.id]]]
    /\ output' = [output EXCEPT ![work[u].id] = {}]
    /\ UNCHANGED <<forecast, adjustments>>

\* The DELETE finds what is committed by now. One that meets rows another
\* calculation has deleted waits for that, and passes over what it inserts.
delete_output(u) ==
    /\ work[u].op = "change"
    /\ work' = [work EXCEPT ![u] = [op |-> "fill", id |-> @.id, gone |-> output[@.id]]]
    /\ UNCHANGED <<forecast, output, adjustments>>

FreeRun(id) == LET used == {o.run : o \in output[id] \union
                                          UNION {IF work[u].op = "fill" THEN work[u].gone ELSE {} : u \in Users}}
               IN  CHOOSE n \in 1..Cardinality(used) + 1 : n \notin used

fill_output(u) ==
    LET id == work[u].id
        left == output[id] \ work[u].gone
    IN  /\ work[u].op = "fill"
        /\ Cardinality(left) < MaxOutputs
        /\ \E o \in Outputs(FreeRun(id), forecast[id], adjustments[id]) :
              output' = [output EXCEPT ![id] = left \union {o}]
        /\ Finish(u)
        /\ UNCHANGED <<forecast, adjustments>>

publish_forecast(u) ==
    /\ work[u].op = "publish"
    /\ forecast' = [forecast EXCEPT ![work[u].id].status = "PUBLISHED"]
    /\ Finish(u)
    /\ UNCHANGED <<output, adjustments>>

\* Of any status.
archive_forecast(id) ==
    /\ forecast[id] # None
    /\ forecast' = [forecast EXCEPT ![id].status = "ARCHIVED"]
    /\ UNCHANGED <<output, adjustments, work>>

create_adjustment(u, a) ==
    LET id == work[u].id
    IN  /\ work[u].op = "change"
        /\ a.entity \in forecast[id].entities
        /\ Cardinality(adjustments[id]) < MaxEntries
        /\ adjustments' = [adjustments EXCEPT ![id] = @ \union {a}]
        /\ Finish(u)
        /\ UNCHANGED <<forecast, output>>

add_scenario_assumption(u, a) ==
    /\ work[u].op = "change"
    /\ Len(forecast[work[u].id].assumptions) < MaxEntries
    /\ forecast' = [forecast EXCEPT ![work[u].id].assumptions = Append(@, a)]
    /\ Finish(u)
    /\ UNCHANGED <<output, adjustments>>

\* Alerts live as long as the output they belong to.
update_alert_status(id, o, a, status) ==
    /\ o \in output[id] /\ a \in o.alerts
    /\ Cardinality({b \in o.alerts : b.status # "OPEN"}) < MaxAcknowledged
    /\ output' = [output EXCEPT ![id] = (@ \ {o}) \union {[o EXCEPT !.alerts = (@ \ {a}) \union {[a EXCEPT !.status = status]}]}]
    /\ UNCHANGED <<forecast, adjustments, work>>

GiveUp(u) ==
    /\ work[u].op # "idle" /\ Finish(u)
    /\ UNCHANGED <<forecast, output, adjustments>>

Next ==
    \/ \E id \in Worked, c \in Columns : create_forecast(id, c)
    \/ \E parent, id \in Forecast : roll_forecast(parent, id)
    \/ \E base, id \in Forecast, a \in Adjustments : what_if(base, id, a)
    \/ \E u \in Users, id \in Worked, op \in {"change", "publish"} : load_forecast(u, op, id)
    \/ \E u \in Users : delete_output(u) \/ fill_output(u) \/ publish_forecast(u)
    \/ \E id \in Worked : archive_forecast(id)
    \/ \E u \in Users, a \in Adjustments : create_adjustment(u, a)
    \/ \E u \in Users, a \in Assumptions : add_scenario_assumption(u, a)
    \/ \E id \in Worked : \E o \in output[id] : \E a \in o.alerts : update_alert_status(id, o, a, "ACKNOWLEDGED")
    \/ \E u \in Users : GiveUp(u)

Spec == Init /\ [][Next]_vars

-----------------------------------------------------------------------------
(* Properties                                                              *)

\* Every variable holds values of its kind, and a request is about a forecast
\* that exists.
TypeOK ==
    /\ forecast \in [Forecast -> ForecastRow \union {None}]
    /\ DOMAIN output = Forecast
    /\ DOMAIN adjustments = Forecast /\ \A id \in Forecast : Entries(adjustments[id])
    /\ DOMAIN work = Users
    /\ \A u \in Users : /\ work[u].op \in {"idle", "change", "fill", "publish"}
                        /\ work[u].op # "idle" => work[u].id \in Forecast /\ forecast[work[u].id] # None

Stored == UNION {output[id] : id \in Forecast}

\* What a calculation leaves in the rows of an output: the weeks follow from
\* the lines, the alerts from both, and of these only the status changes later.
Whole(o) ==
    /\ o = [lines |-> o.lines, opening |-> o.opening, weeks |-> o.weeks, alerts |-> o.alerts, run |-> o.run]
    /\ IsFiniteSet(o.lines)
    /\ \A l \in o.lines : /\ l.entity \in Entity /\ l.week \in Week /\ l.direction \in LineDirection
                          /\ l.adjusted_amount \in Int /\ l.reporting_amount \in Int
    /\ IsFiniteSet(DOMAIN o.opening) /\ \A pair \in DOMAIN o.opening : o.opening[pair] \in Int
    /\ o.weeks[1].opening_cash \in Int
    /\ LET closing == Running(o.weeks[1].opening_cash, o.lines, Reporting)
       IN  \A w \in Week : /\ o.weeks[w].week_flows = flows({l \in o.lines : l.week = w}, Reporting)
                           /\ o.weeks[w].opening_cash = closing[w - 1] /\ o.weeks[w].closing_cash = closing[w]
    /\ \A a \in o.alerts : a = [alert |-> a.alert, status |-> a.status]
    /\ {a.alert : a \in o.alerts} = generate_alerts(o.weeks, o.lines, o.opening)
OutputsAreWhole == \A o \in Stored : Whole(o)

\* What different endpoints read from one output agrees: the weeks with the
\* views of the entities, the summary with the weeks, and the variance of the
\* weeks with that of the entities.
OutputAddsUp ==
    \A o \in Stored :
        LET view == [e \in Entity |-> get_entity_view(o, e)]
            Net(w) == net(o.weeks[w].week_flows)
            EntityNet(w) == LET Of(e) == net(view[e][w]) IN MapThenSumSet(Of, Entity)
            ByWeek(l) == l.week
            ByEntity(l) == l.entity
            Total(rows) == LET Variance(k) == rows[k].variance IN MapThenSumSet(Variance, DOMAIN rows)
        IN  /\ \A w \in Week : Net(w) = EntityNet(w)
            /\ get_summary(o).net_cash_flow = o.weeks[FORECAST_HORIZON_WEEKS].closing_cash - o.weeks[1].opening_cash
            /\ Total(compute_variance(o, ByWeek)) = Total(compute_variance(o, ByEntity))

\* A published forecast has its weeks, through calculations that are running
\* or have failed since.
PublishedHasWeeks ==
    \A id \in {i \in Forecast : forecast[i] # None} : forecast[id].status = "PUBLISHED" => output[id] # {}

\* So has one somebody is about to publish.
PublishersSawWeeks == \A u \in Users : work[u].op = "publish" => output[work[u].id] # {}

\* The invariant the proofs rest on.
IndInv == TypeOK /\ OutputsAreWhole /\ PublishedHasWeeks /\ PublishersSawWeeks

\* A week with a gap has an alert, and a currency with lines has one for
\* exactly the weeks in which its own view ends below zero, healthy as the
\* consolidated weeks may be.
AlertsMatchViews ==
    \A o \in Stored :
        LET Raised(metric, w, c) == \E a \in o.alerts : <<a.alert.metric, a.alert.week, a.alert.currency>> = <<metric, w, c>>
            view == [c \in {l.currency : l \in o.lines} |-> get_currency_view(o, c)]
        IN  \A w \in Week :
                /\ Raised("LIQUIDITY_GAP", w, None) <=> o.weeks[w].surplus_or_gap < 0
                /\ \A c \in DOMAIN view :
                      Raised("CURRENCY_LIQUIDITY_SHORTFALL", w, c) <=> view[c][w].closing_cash < 0

\* Every occurrence of a flow that starts in the horizon is on a day the flow
\* names, none is left out, and the month ends do not make later ones drift;
\* the periods of an investment follow each other from its start to its
\* maturity, and each is received, still forecast or bears no interest.
SchedulesAreWhole ==
    /\ \A start \in {forecast[id].start : id \in {i \in Forecast : forecast[i] # None}}, flow \in data.flows :
          LET Due(k) == IF flow.days # None THEN flow.start + k * flow.days ELSE add_months(flow.start, k * flow.months)
              due == {Due(k) : k \in 0..WeekLength * FORECAST_HORIZON_WEEKS} \intersect Horizon(start)
          IN  flow.start \in Horizon(start) =>
                  occurrences(flow, start) = {date \in due : flow.end = None \/ date <= flow.end}
    /\ \A i \in Periodic :
          \A schedule \in {generate_periodic_interest_schedule(i.principal, i.rate, i.start, i.maturity, i.months, i.convention)},
             open \in {{p.period_end : p \in open_periods(i)}} :
              /\ schedule[1].period_start = i.start /\ schedule[Len(schedule)].period_end = i.maturity
              /\ \A k \in 2..Len(schedule) : schedule[k].period_start = schedule[k - 1].period_end
              /\ \A k \in DOMAIN schedule :
                    /\ schedule[k].period_start < schedule[k].period_end
                    /\ schedule[k].period_end \in open <=>
                          schedule[k].interest_amount > 0 /\ schedule[k].period_end \notin i.receipts
=============================================================================
