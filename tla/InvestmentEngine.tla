-------------------------- MODULE InvestmentEngine --------------------------
(***************************************************************************)
(* The arithmetic of investments, as operators without state: interest by  *)
(* a day count, proceeds of an early termination, the comparison of a      *)
(* rollover and the schedule of periodic interest.  Money is counted in    *)
(* hundredths, a rate in the units of denominator, and a date is the       *)
(* number of days since the first day of month 1.                          *)
(*                                                                         *)
(* Source: services/investment_engine.py.                                  *)
(***************************************************************************)
EXTENDS Integers, Sequences, SequencesExt

CONSTANTS
    MonthDays,     \* the lengths of the months, in order
    denominator    \* of each convention: days in its year, times 100 per cent

Convention == {"ACT_365", "ACT_360", "THIRTY_360"}

ASSUME CalendarAssumption ==
    /\ MonthDays \in Seq(Nat \ {0})
    /\ denominator \in [Convention -> Nat \ {0}]

SmallerOf(a, b) == IF a < b THEN a ELSE b
LargerOf(a, b) == IF a > b THEN a ELSE b

\* The half of a hundredth goes away from zero.
round_half_up(n, d) ==
    IF n >= 0 THEN (2 * n + d) \div (2 * d) ELSE -((d - 2 * n) \div (2 * d))

-----------------------------------------------------------------------------
(* Dates                                                                   *)

Date == Int
FirstDay == [month \in 1..Len(MonthDays) + 1 |-> SumFunctionOnSet(MonthDays, 1..month - 1)]
Days == 0..FirstDay[Len(MonthDays) + 1] - 1
month_of(date) == CHOOSE m \in 1..Len(MonthDays) : FirstDay[m] <= date /\ date < FirstDay[m + 1]
day_of(date) == date - FirstDay[month_of(date)] + 1

\* The same day some months on, or the last day of a month too short for it.
add_months(date, months) ==
    LET m == month_of(date) + months
    IN  FirstDay[m] + SmallerOf(day_of(date), MonthDays[m]) - 1

\* A year of 30-day months counts the 31st as the 30th: always on the left
\* side, on the right side when the left one is a 30th.
days_between(start, end, convention) ==
    IF convention # "THIRTY_360" THEN end - start
    ELSE LET d1 == SmallerOf(day_of(start), 30)
             d2 == IF d1 = 30 THEN SmallerOf(day_of(end), 30) ELSE day_of(end)
         IN  30 * (month_of(end) - month_of(start)) + d2 - d1

-----------------------------------------------------------------------------
(* Interest                                                                *)

calculate_simple_interest(principal, rate, start, end, convention) ==
    round_half_up(principal * rate * days_between(start, end, convention), denominator[convention])

\* An entry for each period, the last one cut off at maturity.
generate_periodic_interest_schedule(principal, rate, start, maturity, months, convention) ==
    IF start >= maturity THEN <<>>
    ELSE LET Boundary[k \in Nat] ==
                 IF k = 0 THEN start ELSE SmallerOf(maturity, add_months(Boundary[k - 1], months))
             periods == CHOOSE k \in 1..(maturity - start) :
                            Boundary[k] = maturity /\ Boundary[k - 1] < maturity
         IN  [k \in 1..periods |->
                [period |-> k, period_start |-> Boundary[k - 1], period_end |-> Boundary[k],
                 interest_amount |->
                    calculate_simple_interest(principal, rate, Boundary[k - 1], Boundary[k], convention)]]

-----------------------------------------------------------------------------
(* Early termination and rollover                                          *)

\* penalty is a record of a type, a rate and an amount; part and whole are
\* the principal terminated and the original principal.
penalty_of(penalty, earned, reduced, part, whole) ==
    CASE penalty.type = "FLAT_AMOUNT" -> round_half_up(penalty.amount * part, whole)
      [] penalty.type = "RATE_REDUCTION" -> earned - reduced
      [] penalty.type = "FORFEIT_INTEREST" -> earned
      [] OTHER -> 0

\* Under RATE_REDUCTION the interest is cut to the lower rate and the
\* difference is charged as well; forfeited interest is not charged again.
calculate_early_termination(principal, rate, start, end, convention, penalty, whole) ==
    LET Interest(r) == calculate_simple_interest(principal, r, start, end, convention)
        reduced == Interest(LargerOf(0, rate - penalty.rate))
        charge == penalty_of(penalty, Interest(rate), reduced, principal, whole)
        kept == CASE penalty.type = "RATE_REDUCTION" -> reduced
                  [] penalty.type = "FORFEIT_INTEREST" -> 0
                  [] OTHER -> Interest(rate)
        forfeits == penalty.type = "FORFEIT_INTEREST"
    IN  [principal_returned |-> principal, interest_earned |-> kept, penalty |-> charge,
         interest_forfeited |-> IF forfeits THEN charge ELSE 0,
         net_proceeds |-> principal + kept - (IF forfeits THEN 0 ELSE charge)]

compare_rollover_options(current, new, convention, penalty) ==
    LET Interest(t) == calculate_simple_interest(t.principal, t.rate, t.start, t.maturity, convention)
    IN  [additional_principal |-> LargerOf(0, new.principal - current.principal),
         withdrawn_principal |-> LargerOf(0, current.principal - new.principal),
         expected_interest_current_term |-> Interest(current),
         expected_interest_new_term |-> Interest(new),
         net_expected_proceeds |-> new.principal + Interest(new) - penalty]
=============================================================================
