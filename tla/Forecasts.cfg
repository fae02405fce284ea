\* Two users work on two forecasts.
SPECIFICATION Spec
CONSTANTS
    f1 = f1
    f2 = f2
    u1 = u1
    u2 = u2
    e1 = e1
    e2 = e2
    usd = usd
    eur = eur
    gbp = gbp
    bank1 = bank1
    bank2 = bank2
    None = None
    MonthDays <- Months
    denominator <- SmallYear
    FORECAST_HORIZON_WEEKS = 3
    WeekLength = 2
    TransferSign <- Signs
    Forecast <- TwoForecasts
    Worked = {f1}
    Users <- TwoUsers
    Entity <- TwoEntities
    Currency <- Currencies
    Columns <- TwoColumns
    data <- Everything
    Adjustments <- Entry
    Assumptions <- More
    Today = 4
    MaxOutputs = 1
    MaxEntries = 1
    MaxAcknowledged = 1
\* Every request may have been refused.
CHECK_DEADLOCK FALSE
SYMMETRY Symmetry
INVARIANTS OutputAddsUp AlertsMatchViews SchedulesAreWhole PublishedHasWeeks
