-------------------------- MODULE InvestmentsProof --------------------------
(***************************************************************************)
(* Proofs about Investments, for any number of investments, accounts and   *)
(* users, any calendar and any amounts.                                    *)
(***************************************************************************)
EXTENDS Investments, FiniteSums, TLAPS

-----------------------------------------------------------------------------
(* Interest and proceeds are integers                                      *)

LEMMA RoundingIsInteger ==
    ASSUME NEW n \in Int, NEW d \in Nat \ {0}
    PROVE  round_half_up(n, d) \in Int
<1>1. (2 * n + d) \div (2 * d) \in Int
    <2>1. 2 * n + d \in Int /\ 2 * d \in Nat \ {0}
        OBVIOUS
    <2>. QED  BY <2>1
<1>2. (d - 2 * n) \div (2 * d) \in Int
    <2>1. d - 2 * n \in Int /\ 2 * d \in Nat \ {0}
        OBVIOUS
    <2>. QED  BY <2>1
<1>. QED  BY <1>1, <1>2 DEF round_half_up

LEMMA FirstDayIsInteger ==
    ASSUME NEW m \in 1..Len(MonthDays) + 1
    PROVE  FirstDay[m] \in Nat
<1>1. FirstDay[m] = SumFunctionOnSet(MonthDays, 1..m - 1)
    BY DEF FirstDay
<1>2. IsFiniteSet(1..m - 1) /\ \A x \in 1..m - 1 : MonthDays[x] \in Nat
    <2>1. Len(MonthDays) \in Nat /\ \A x \in 1..Len(MonthDays) : MonthDays[x] \in Nat
        BY CalendarAssumption
    <2>2. IsFiniteSet(1..m - 1)
        BY FS_Interval
    <2>. QED  BY <2>1, <2>2
<1>. QED  BY <1>1, <1>2, SumOfNaturals

LEMMA FirstDayOfTheFirstMonth == FirstDay[1] = 0
<1>1. Len(MonthDays) \in Nat
    BY CalendarAssumption
<1>2. FirstDay[1] = SumFunctionOnSet(MonthDays, 1..1 - 1)
    BY <1>1 DEF FirstDay
<1>3. 1..1 - 1 = {}
    OBVIOUS
<1>. QED  BY <1>2, <1>3, SumOfNothing

\* Every day of the calendar is in one of its months.
LEMMA DaysHaveMonths ==
    ASSUME NEW day \in Days
    PROVE  month_of(day) \in 1..Len(MonthDays) /\ day_of(day) \in Int
<1> DEFINE L == Len(MonthDays)
           In(m) == FirstDay[m] <= day /\ day < FirstDay[m + 1]
           T == {n \in Nat : n <= L => FirstDay[n + 1] <= day \/ \E m \in 1..L : In(m)}
<1>1. L \in Nat
    BY CalendarAssumption
<1>2. day \in Nat /\ day < FirstDay[L + 1]
    BY <1>1, FirstDayIsInteger DEF Days
<1>3. 0 \in T
    BY <1>2, FirstDayOfTheFirstMonth
<1>4. ASSUME NEW n \in Nat, n \in T
      PROVE  n + 1 \in T
    <2>1. CASE ~(n + 1 <= L)
        BY <2>1
    <2>2. CASE n + 1 <= L
        <3>1. n <= L /\ n + 1 \in 1..L /\ n + 1 \in 1..L + 1 /\ n + 2 \in 1..L + 1 /\ (n + 1) + 1 = n + 2
            BY <1>1, <2>2
        <3>2. FirstDay[n + 1] \in Nat /\ FirstDay[n + 2] \in Nat
            BY <3>1, FirstDayIsInteger
        <3>3. FirstDay[n + 1] <= day \/ \E m \in 1..L : In(m)
            BY <1>4, <3>1
        <3>4. FirstDay[n + 2] <= day \/ \E m \in 1..L : In(m)
            BY <1>2, <3>1, <3>2, <3>3
        <3>. QED  BY <3>1, <3>4
    <2>. QED  BY <2>1, <2>2
<1>5. L \in T
    <2> HIDE DEF T
    <2>1. Nat \subseteq T
        BY <1>3, <1>4, NaturalsFromZero
    <2>. QED  BY <1>1, <2>1
<1>6. \E m \in 1..L : In(m)
    <2>1. FirstDay[L + 1] \in Nat
        BY <1>1, FirstDayIsInteger
    <2>. QED  BY <1>1, <1>2, <1>5, <2>1
<1>7. month_of(day) \in 1..L
    BY <1>6 DEF month_of
<1>8. FirstDay[month_of(day)] \in Nat
    BY <1>1, <1>7, FirstDayIsInteger
<1>. QED  BY <1>2, <1>7, <1>8 DEF day_of

LEMMA InterestIsInteger ==
    ASSUME NEW principal \in Int, NEW rate \in Int, NEW start \in Days, NEW end \in Days,
           NEW convention \in Convention
    PROVE  calculate_simple_interest(principal, rate, start, end, convention) \in Int
<1>1. /\ month_of(start) \in Int /\ day_of(start) \in Int
      /\ month_of(end) \in Int /\ day_of(end) \in Int
    BY DaysHaveMonths
<1>2. start \in Int /\ end \in Int
    BY DEF Days
<1>3. days_between(start, end, convention) \in Int
    <2>1. CASE convention # "THIRTY_360"
        BY <1>2, <2>1 DEF days_between
    <2>2. CASE convention = "THIRTY_360"
        <3> DEFINE d1 == SmallerOf(day_of(start), 30)
                   d2 == IF d1 = 30 THEN SmallerOf(day_of(end), 30) ELSE day_of(end)
        <3>1. d1 \in Int /\ d2 \in Int
            BY <1>1 DEF SmallerOf
        <3>2. days_between(start, end, convention) = 30 * (month_of(end) - month_of(start)) + d2 - d1
            BY <2>2 DEF days_between
        <3> HIDE DEF d1, d2
        <3>. QED  BY <1>1, <3>1, <3>2
    <2>. QED  BY <2>1, <2>2
<1>4. principal * rate * days_between(start, end, convention) \in Int
    <2>1. principal * rate \in Int
        OBVIOUS
    <2>. QED  BY <1>3, <2>1
<1>5. denominator[convention] \in Nat \ {0}
    BY CalendarAssumption
<1>. QED  BY <1>4, <1>5, RoundingIsInteger DEF calculate_simple_interest

LEMMA ProjectionIsInteger ==
    ASSUME NEW i \in InvestmentRow
    PROVE  recompute_expected_interest(i) \in Int
<1>1. /\ i.principal \in Int /\ i.rate \in Int /\ i.start \in Days /\ i.maturity \in Days
      /\ i.convention \in Convention
    BY DEF InvestmentRow
<1>. QED  BY <1>1, InterestIsInteger DEF recompute_expected_interest

\* A flat penalty is charged in proportion to the original principal.
LEMMA ProceedsAreInteger ==
    ASSUME NEW part \in Int, NEW rate \in Int, NEW start \in Days, NEW end \in Days,
           NEW convention \in Convention, NEW penalty \in [type : PenaltyType, rate : Int, amount : Int],
           NEW whole \in Nat \ {0}
    PROVE  LET result == calculate_early_termination(part, rate, start, end, convention, penalty, whole)
           IN  result.net_proceeds \in Int /\ result.penalty \in Int
<1> DEFINE Interest(r) == calculate_simple_interest(part, r, start, end, convention)
           lower == LargerOf(0, rate - penalty.rate)
           reduced == Interest(lower)
           charge == penalty_of(penalty, Interest(rate), reduced, part, whole)
           kept == CASE penalty.type = "RATE_REDUCTION" -> reduced
                     [] penalty.type = "FORFEIT_INTEREST" -> 0
                     [] OTHER -> Interest(rate)
           proceeds == part + kept - (IF penalty.type = "FORFEIT_INTEREST" THEN 0 ELSE charge)
<1>1. lower \in Int
    BY DEF LargerOf
<1>2. Interest(rate) \in Int /\ reduced \in Int
    BY <1>1, InterestIsInteger
<1>3. round_half_up(penalty.amount * part, whole) \in Int
    <2>1. penalty.amount * part \in Int
        OBVIOUS
    <2>. QED  BY <2>1, RoundingIsInteger
<1>4. /\ calculate_early_termination(part, rate, start, end, convention, penalty, whole).net_proceeds = proceeds
      /\ calculate_early_termination(part, rate, start, end, convention, penalty, whole).penalty = charge
    BY DEF calculate_early_termination
<1> HIDE DEF Interest, lower, reduced
<1>5. charge \in Int
    BY <1>2, <1>3 DEF penalty_of
<1>6. kept \in Int
    BY <1>2
<1> HIDE DEF charge, kept
<1>7. proceeds \in Int
    BY <1>5, <1>6
<1>. QED  BY <1>4, <1>5, <1>7

-----------------------------------------------------------------------------
(* The principal of transactions                                           *)

TransactionType == MovedOut \union {"PLACEMENT", "REBOOKING", "PENALTY"}
Keys == {None} \union {q.key : q \in {p \in Requests : p.op = "rebook"}}
Transaction == [type : TransactionType, amount : Int, principal : Int, related : Reference \union {None},
                key : Keys]

LEMMA EntriesAreTyped ==
    ASSUME NEW t \in Seq(Transaction), NEW n \in DOMAIN t
    PROVE  t[n].principal \in Int
<1>1. t[n] \in Transaction
    OBVIOUS
<1>. QED  BY <1>1 DEF Transaction

LEMMA PrincipalOfNothing ==
    ASSUME NEW types
    PROVE  PrincipalOf(<<>>, types) = 0
<1>1. {n \in DOMAIN <<>> : <<>>[n].type \in types} = {}
    OBVIOUS
<1>. QED  BY <1>1, SumOfNothing DEF PrincipalOf

LEMMA PrincipalIsInteger ==
    ASSUME NEW t \in Seq(Transaction), NEW types
    PROVE  PrincipalOf(t, types) \in Int
<1> DEFINE f == [n \in DOMAIN t |-> t[n].principal]
           rows == {n \in DOMAIN t : t[n].type \in types}
<1>1. IsFiniteSet(rows)
    <2>1. Len(t) \in Nat /\ DOMAIN t = 1..Len(t)
        OBVIOUS
    <2>2. IsFiniteSet(1..Len(t))
        BY <2>1, FS_Interval
    <2>. QED  BY <2>1, <2>2, FS_Subset
<1>2. \A n \in rows : f[n] \in Int
    BY EntriesAreTyped
<1>3. PrincipalOf(t, types) = SumFunctionOnSet(f, rows)
    BY DEF PrincipalOf
<1> HIDE DEF f, rows
<1>. QED  BY <1>1, <1>2, <1>3, SumOfIntegers

\* What is paid out of a principal is not negative if no entry is.
LEMMA PrincipalIsNatural ==
    ASSUME NEW t \in Seq(Transaction), NEW types,
           \A n \in DOMAIN t : t[n].type \in types => t[n].principal \in Nat
    PROVE  PrincipalOf(t, types) \in Nat
<1> DEFINE f == [n \in DOMAIN t |-> t[n].principal]
           rows == {n \in DOMAIN t : t[n].type \in types}
<1>1. IsFiniteSet(rows)
    <2>1. Len(t) \in Nat /\ DOMAIN t = 1..Len(t)
        OBVIOUS
    <2>2. IsFiniteSet(1..Len(t))
        BY <2>1, FS_Interval
    <2>. QED  BY <2>1, <2>2, FS_Subset
<1>2. \A n \in rows : f[n] \in Nat
    OBVIOUS
<1>3. PrincipalOf(t, types) = SumFunctionOnSet(f, rows)
    BY DEF PrincipalOf
<1> HIDE DEF f, rows
<1>. QED  BY <1>1, <1>2, <1>3, SumOfNaturals

\* An entry more adds its principal if it is of one of the types.
LEMMA PrincipalOfOneMore ==
    ASSUME NEW t \in Seq(Transaction), NEW entry \in Transaction, NEW types
    PROVE  PrincipalOf(Append(t, entry), types) =
               PrincipalOf(t, types) + (IF entry.type \in types THEN entry.principal ELSE 0)
<1> DEFINE more == Append(t, entry)
           last == Len(t) + 1
           f == [n \in DOMAIN t |-> t[n].principal]
           rows == {n \in DOMAIN t : t[n].type \in types}
           g == [n \in DOMAIN more |-> more[n].principal]
           grown == {n \in DOMAIN more : more[n].type \in types}
<1>1. /\ more \in Seq(Transaction) /\ Len(t) \in Nat /\ Len(more) = last
      /\ DOMAIN t = 1..Len(t) /\ DOMAIN more = 1..last
      /\ \A n \in 1..Len(t) : more[n] = t[n]
      /\ more[last] = entry
    OBVIOUS
<1>2. IsFiniteSet(rows)
    <2>1. IsFiniteSet(1..Len(t))
        BY <1>1, FS_Interval
    <2>. QED  BY <1>1, <2>1, FS_Subset
<1>3. \A n \in rows : g[n] = f[n] /\ f[n] \in Int
    <2>1. \A n \in DOMAIN t : t[n].principal \in Int
        BY EntriesAreTyped
    <2>. QED  BY <1>1, <2>1
<1>4. PrincipalOf(t, types) = SumFunctionOnSet(f, rows) /\ PrincipalOf(more, types) = SumFunctionOnSet(g, grown)
    BY DEF PrincipalOf
<1>5. SumFunctionOnSet(g, rows) = SumFunctionOnSet(f, rows)
    <2> HIDE DEF f, g, rows
    <2>. QED  BY <1>2, <1>3, SumOfTheSame
<1>6. SumFunctionOnSet(f, rows) \in Int
    <2> HIDE DEF f, rows
    <2>. QED  BY <1>2, <1>3, SumOfIntegers
<1>7. last \notin rows /\ g[last] = entry.principal /\ entry.principal \in Int
    BY <1>1 DEF Transaction
<1>8. CASE entry.type \in types
    <2>1. grown = rows \union {last}
        BY <1>1, <1>8
    <2> HIDE DEF f, g, rows, grown, last, more
    <2>2. SumFunctionOnSet(g, rows \union {last}) = g[last] + SumFunctionOnSet(g, rows)
        BY <1>2, <1>3, <1>7, SumWith
    <2>. QED  BY <1>4, <1>5, <1>6, <1>7, <1>8, <2>1, <2>2 DEF more
<1>9. CASE entry.type \notin types
    <2>1. grown = rows
        BY <1>1, <1>9
    <2> HIDE DEF f, g, rows, grown, last
    <2>. QED  BY <1>4, <1>5, <1>6, <1>9, <2>1
<1>. QED  BY <1>8, <1>9

-----------------------------------------------------------------------------
(* An investment and its history                                           *)

Terms == [principal : Int, original : Int, rate : Int, maturity : Days]
Unplaced == {"NONE", "DRAFT", "SUBMITTED", "UNDER_REVIEW", "APPROVED", "PLACEMENT_PENDING"}
Holds(t, type) == \E n \in DOMAIN t : t[n].type = type

\* A row has its columns and its history their types.
IsTyped(i, v, t, b) ==
    /\ i \in InvestmentRow \union {NoRow}
    /\ v \in Seq(Terms) /\ t \in Seq(Transaction) /\ b \in Seq(Keys)
\* There is a version from the creation on and no transaction before the
\* placement, or the status that stands for it.
StartsInOrder(i, v, t) ==
    /\ i.status = "NONE" <=> v = <<>>
    /\ i.status \in Unplaced => t = <<>>
\* Every key of a transaction is the key of an event.
KeysAreRecorded(t, b) == \A n \in DOMAIN t : t[n].key # None => Contains(b, t[n].key)
\* What was put in is what is left and what was taken out.
PrincipalAddsUp(i, t) ==
    /\ i.original = i.principal + PrincipalOf(t, MovedOut)
    /\ Holds(t, "PLACEMENT") => i.original = PrincipalOf(t, {"PLACEMENT", "REBOOKING"})
\* A settlement leaves nothing, and before it nothing negative is taken out.
SettlementEnds(i, t) ==
    /\ \A n \in DOMAIN t : t[n].type \in MovedOut \ {"MATURITY_SETTLEMENT"} => t[n].principal \in Nat
    /\ Holds(t, "MATURITY_SETTLEMENT") => i.principal = 0 /\ i.status \notin Outstanding
\* The row has the terms of its latest version and the projection of them.
HasLatestTerms(i, v, t) ==
    v # <<>> =>
        /\ <<Last(v).rate, Last(v).maturity, Last(v).original>> = <<i.rate, i.maturity, i.original>>
        /\ i.expected = recompute_expected_interest(i) \/ Holds(t, "MATURITY_SETTLEMENT")

Agrees(i, v, t, b) ==
    /\ IsTyped(i, v, t, b)
    /\ StartsInOrder(i, v, t)
    /\ KeysAreRecorded(t, b)
    /\ PrincipalAddsUp(i, t)
    /\ SettlementEnds(i, t)
    /\ HasLatestTerms(i, v, t)

LEMMA RowsHaveAStatus ==
    ASSUME NEW i \in InvestmentRow
    PROVE  i.status \in InvestmentStatus /\ i.status # "NONE" /\ i # NoRow
BY DEF InvestmentRow, InvestmentStatus, INVESTMENT_STATUS_TRANSITIONS, NoRow

LEMMA HoldsOneMore ==
    ASSUME NEW t \in Seq(Transaction), NEW entry \in Transaction, NEW type
    PROVE  Holds(Append(t, entry), type) <=> Holds(t, type) \/ entry.type = type
<1> DEFINE more == Append(t, entry)
<1>1. /\ Len(t) \in Nat /\ DOMAIN t = 1..Len(t) /\ DOMAIN more = 1..Len(t) + 1
      /\ \A n \in 1..Len(t) : more[n] = t[n]
      /\ more[Len(t) + 1] = entry
    OBVIOUS
<1> HIDE DEF more
<1>2. Holds(more, type) <=> Holds(t, type) \/ entry.type = type
    BY <1>1 DEF Holds
<1>. QED  BY <1>2 DEF more

LEMMA ContainsOneMore ==
    ASSUME NEW S, NEW s \in Seq(S), NEW e \in S, NEW x
    PROVE  Contains(Append(s, e), x) <=> Contains(s, x) \/ e = x
<1> DEFINE more == Append(s, e)
<1>1. /\ Len(s) \in Nat /\ Len(more) = Len(s) + 1
      /\ \A n \in 1..Len(s) : more[n] = s[n]
      /\ more[Len(s) + 1] = e
    OBVIOUS
<1> HIDE DEF more
<1>2. Contains(more, x) <=> Contains(s, x) \/ e = x
    BY <1>1 DEF Contains
<1>. QED  BY <1>2 DEF more

\* An entry more, whose key is recorded if it has one.
LEMMA KeysOneMore ==
    ASSUME NEW t \in Seq(Transaction), NEW entry \in Transaction, NEW b, KeysAreRecorded(t, b),
           entry.key # None => Contains(b, entry.key)
    PROVE  KeysAreRecorded(Append(t, entry), b)
<1> DEFINE more == Append(t, entry)
<1>1. /\ Len(t) \in Nat /\ DOMAIN t = 1..Len(t) /\ DOMAIN more = 1..Len(t) + 1
      /\ \A n \in 1..Len(t) : more[n] = t[n]
      /\ more[Len(t) + 1] = entry
    OBVIOUS
<1> HIDE DEF more
<1>2. KeysAreRecorded(more, b)
    BY <1>1 DEF KeysAreRecorded
<1>. QED  BY <1>2 DEF more

\* An event more.
LEMMA KeysStayRecorded ==
    ASSUME NEW t, NEW b \in Seq(Keys), NEW key \in Keys, KeysAreRecorded(t, b)
    PROVE  KeysAreRecorded(t, Append(b, key))
<1>1. \A x : Contains(b, x) => Contains(Append(b, key), x)
    BY ContainsOneMore
<1>. QED  BY <1>1 DEF KeysAreRecorded

LEMMA TakenOutOneMore ==
    ASSUME NEW t \in Seq(Transaction), NEW entry \in Transaction, NEW types,
           \A n \in DOMAIN t : t[n].type \in types => t[n].principal \in Nat,
           entry.type \in types => entry.principal \in Nat
    PROVE  \A n \in DOMAIN Append(t, entry) :
               Append(t, entry)[n].type \in types => Append(t, entry)[n].principal \in Nat
<1> DEFINE more == Append(t, entry)
<1>1. /\ Len(t) \in Nat /\ DOMAIN t = 1..Len(t) /\ DOMAIN more = 1..Len(t) + 1
      /\ \A n \in 1..Len(t) : more[n] = t[n]
      /\ more[Len(t) + 1] = entry
    OBVIOUS
<1> HIDE DEF more
<1>2. \A n \in DOMAIN more : more[n].type \in types => more[n].principal \in Nat
    BY <1>1
<1>. QED  BY <1>2 DEF more

\* Nothing becomes outstanding, or not yet placed, that was not one of them
\* or about to be.
LEMMA StatusesMoveOn ==
    ASSUME NEW s \in InvestmentStatus, NEW to \in INVESTMENT_STATUS_TRANSITIONS[s] \union {s}
    PROVE  /\ to \in InvestmentStatus
           /\ to \in Unplaced => s \in Unplaced
           /\ to \in Outstanding => s \in Outstanding \/ s \in Unplaced
BY DEF InvestmentStatus, INVESTMENT_STATUS_TRANSITIONS, Unplaced, Outstanding

LEMMA NothingHeld ==
    ASSUME NEW type
    PROVE  ~Holds(<<>>, type)
BY DEF Holds

LEMMA SnapshotsAreTerms ==
    ASSUME NEW i \in InvestmentRow
    PROVE  LET terms == terms_snapshot(i)
           IN  /\ terms \in Terms
               /\ terms.rate = i.rate /\ terms.maturity = i.maturity /\ terms.original = i.original
BY DEF terms_snapshot, Terms, InvestmentRow

LEMMA LastOfOneMore ==
    ASSUME NEW S, NEW s \in Seq(S), NEW e \in S
    PROVE  Append(s, e) \in Seq(S) /\ Append(s, e) # <<>> /\ Last(Append(s, e)) = e
BY DEF Last

-----------------------------------------------------------------------------
(* What each operation does to an investment                               *)

LEMMA StatusAgrees ==
    ASSUME NEW i \in InvestmentRow, NEW v, NEW t, NEW b, Agrees(i, v, t, b),
           NEW to \in INVESTMENT_STATUS_TRANSITIONS[i.status] \union {i.status}
    PROVE  Agrees([i EXCEPT !.status = to], v, t, b)
<1> DEFINE new == [i EXCEPT !.status = to]
<1>1. /\ to \in InvestmentStatus
      /\ to \in Unplaced => i.status \in Unplaced
      /\ to \in Outstanding => i.status \in Outstanding \/ i.status \in Unplaced
    BY RowsHaveAStatus, StatusesMoveOn
<1>2. /\ new \in InvestmentRow /\ new.status = to
      /\ new.principal = i.principal /\ new.original = i.original /\ new.expected = i.expected
      /\ new.rate = i.rate /\ new.maturity = i.maturity
      /\ new.start = i.start /\ new.convention = i.convention
    BY <1>1 DEF InvestmentRow
<1>3. i.status # "NONE" /\ new.status # "NONE"
    BY <1>2, RowsHaveAStatus
<1> HIDE DEF new
<1>4. IsTyped(new, v, t, b)
    BY <1>2 DEF Agrees, IsTyped
<1>5. StartsInOrder(new, v, t)
    BY <1>1, <1>2, <1>3 DEF Agrees, StartsInOrder
<1>6. KeysAreRecorded(t, b)
    BY DEF Agrees
<1>7. PrincipalAddsUp(new, t)
    BY <1>2 DEF Agrees, PrincipalAddsUp
<1>8. SettlementEnds(new, t)
    <2>1. i.status \in Unplaced => ~Holds(t, "MATURITY_SETTLEMENT")
        BY NothingHeld DEF Agrees, StartsInOrder
    <2>. QED  BY <1>1, <1>2, <2>1 DEF Agrees, SettlementEnds
<1>9. HasLatestTerms(new, v, t)
    BY <1>2 DEF Agrees, HasLatestTerms, recompute_expected_interest
<1>10. Agrees(new, v, t, b)
    BY <1>4, <1>5, <1>6, <1>7, <1>8, <1>9 DEF Agrees
<1>. QED  BY <1>10 DEF new

\* What is written of an amended row; the rest is the transactions'.
LEMMA AmendedRow ==
    ASSUME NEW i \in InvestmentRow, NEW rate \in Int \union {None}, NEW maturity \in Days \union {None},
           NEW additional \in Int
    PROVE  LET new == Amended(i, rate, maturity, additional)
           IN  /\ new \in InvestmentRow /\ new.status = i.status
               /\ new.principal = i.principal + additional /\ new.original = i.original + additional
               /\ new.expected = recompute_expected_interest(new)
<1> DEFINE newrate == IF rate = None THEN i.rate ELSE rate
           newmaturity == IF maturity = None THEN i.maturity ELSE maturity
           principal == i.principal + additional
           original == i.original + additional
           base == [i EXCEPT !.rate = newrate, !.maturity = newmaturity,
                             !.principal = principal, !.original = original]
           new == [base EXCEPT !.expected = recompute_expected_interest(base)]
<1>1. newrate \in Int /\ newmaturity \in Days /\ principal \in Int /\ original \in Int
    BY DEF InvestmentRow
<1>2. Amended(i, rate, maturity, additional) = new
    BY DEF Amended
<1> HIDE DEF newrate, newmaturity, principal, original
<1>3. base \in InvestmentRow /\ base.status = i.status /\ base.principal = principal /\ base.original = original
    BY <1>1 DEF InvestmentRow
<1> HIDE DEF base
<1>4. recompute_expected_interest(base) \in Int
    BY <1>3, ProjectionIsInteger
<1>5. /\ new \in InvestmentRow /\ new.status = base.status
      /\ new.principal = base.principal /\ new.original = base.original
      /\ new.rate = base.rate /\ new.maturity = base.maturity
      /\ new.start = base.start /\ new.convention = base.convention
      /\ new.expected = recompute_expected_interest(base)
    BY <1>3, <1>4 DEF InvestmentRow
<1>6. new.expected = recompute_expected_interest(new)
    BY <1>5 DEF recompute_expected_interest
<1>. QED  BY <1>3, <1>5, <1>6, <1>2 DEF principal, original

\* An update, or a rebooking of the terms.
LEMMA UpdateAgrees ==
    ASSUME NEW i \in InvestmentRow, NEW v, NEW t, NEW b, Agrees(i, v, t, b),
           NEW rate \in Int \union {None}, NEW maturity \in Days \union {None}
    PROVE  LET new == Amended(i, rate, maturity, 0)
           IN  Agrees(new, Append(v, terms_snapshot(new)), t, b)
<1> DEFINE new == Amended(i, rate, maturity, 0)
           w == Append(v, terms_snapshot(new))
<1>1. /\ new \in InvestmentRow /\ new.status = i.status
      /\ new.principal = i.principal + 0 /\ new.original = i.original + 0
      /\ new.expected = recompute_expected_interest(new)
    BY AmendedRow
<1>2. new.principal = i.principal /\ new.original = i.original
    BY <1>1 DEF InvestmentRow
<1> HIDE DEF new
<1>3. v \in Seq(Terms) /\ i.status # "NONE"
    BY RowsHaveAStatus DEF Agrees, IsTyped
<1>4. /\ w \in Seq(Terms) /\ w # <<>>
      /\ Last(w).rate = new.rate /\ Last(w).maturity = new.maturity /\ Last(w).original = new.original
    BY <1>1, <1>3, SnapshotsAreTerms, LastOfOneMore
<1> HIDE DEF w
<1>5. IsTyped(new, w, t, b)
    BY <1>1, <1>4 DEF Agrees, IsTyped
<1>6. StartsInOrder(new, w, t)
    BY <1>1, <1>3, <1>4 DEF Agrees, StartsInOrder
<1>7. PrincipalAddsUp(new, t) /\ SettlementEnds(new, t)
    BY <1>1, <1>2 DEF Agrees, PrincipalAddsUp, SettlementEnds
<1>8. HasLatestTerms(new, w, t)
    BY <1>1, <1>4 DEF HasLatestTerms
<1>9. Agrees(new, w, t, b)
    BY <1>5, <1>6, <1>7, <1>8 DEF Agrees
<1>. QED  BY <1>9 DEF w, new

\* An event more.
LEMMA EventAgrees ==
    ASSUME NEW i \in InvestmentRow, NEW v, NEW t, NEW b, Agrees(i, v, t, b), NEW key \in Keys
    PROVE  Agrees(i, v, t, Append(b, key))
<1>1. b \in Seq(Keys)
    BY DEF Agrees, IsTyped
<1>2. Append(b, key) \in Seq(Keys) /\ KeysAreRecorded(t, Append(b, key))
    BY <1>1, KeysStayRecorded DEF Agrees
<1>. QED  BY <1>2 DEF Agrees, IsTyped

\* A rebooking that adds principal.
LEMMA RebookingAgrees ==
    ASSUME NEW i \in InvestmentRow, NEW v, NEW t, NEW b, Agrees(i, v, t, b), i.status \in Outstanding,
           NEW rate \in Int \union {None}, NEW maturity \in Days \union {None}, NEW additional \in Int,
           NEW key \in Keys
    PROVE  LET new == Amended(i, rate, maturity, additional)
               entry == transaction("REBOOKING", additional, additional, None, key)
           IN  Agrees(new, Append(v, terms_snapshot(new)), Append(t, entry), Append(b, key))
<1> DEFINE new == Amended(i, rate, maturity, additional)
           entry == transaction("REBOOKING", additional, additional, None, key)
           w == Append(v, terms_snapshot(new))
           more == Append(t, entry)
           events == Append(b, key)
<1>1. /\ new \in InvestmentRow /\ new.status = i.status
      /\ new.principal = i.principal + additional /\ new.original = i.original + additional
      /\ new.expected = recompute_expected_interest(new)
    BY AmendedRow
<1> HIDE DEF new
<1>2. /\ entry \in Transaction /\ entry.type = "REBOOKING" /\ entry.principal = additional /\ entry.key = key
    <2>1. "REBOOKING" \in TransactionType /\ None \in Reference \union {None}
        BY DEF TransactionType
    <2>. QED  BY <2>1 DEF transaction, Transaction, Keys
<1> HIDE DEF entry
<1>3. /\ v \in Seq(Terms) /\ t \in Seq(Transaction) /\ b \in Seq(Keys)
      /\ i.status # "NONE" /\ i.status \notin Unplaced
      /\ i.principal \in Int /\ i.original \in Int
    BY RowsHaveAStatus DEF Agrees, IsTyped, Outstanding, Unplaced, InvestmentRow
<1>4. /\ w \in Seq(Terms) /\ w # <<>>
      /\ Last(w).rate = new.rate /\ Last(w).maturity = new.maturity /\ Last(w).original = new.original
    BY <1>1, <1>3, SnapshotsAreTerms, LastOfOneMore
<1> HIDE DEF w
<1>5. events \in Seq(Keys) /\ KeysAreRecorded(t, events) /\ Contains(events, key)
    BY <1>3, KeysStayRecorded, ContainsOneMore DEF Agrees
<1> HIDE DEF events
<1>6. KeysAreRecorded(more, events)
    BY <1>2, <1>3, <1>5, KeysOneMore
<1>7. /\ PrincipalOf(more, MovedOut) = PrincipalOf(t, MovedOut) + 0
      /\ PrincipalOf(more, {"PLACEMENT", "REBOOKING"}) = PrincipalOf(t, {"PLACEMENT", "REBOOKING"}) + additional
    BY <1>2, <1>3, PrincipalOfOneMore DEF MovedOut
<1>8. PrincipalOf(t, MovedOut) \in Int /\ PrincipalOf(t, {"PLACEMENT", "REBOOKING"}) \in Int
    BY <1>3, PrincipalIsInteger
<1>9. \A type : type # "REBOOKING" => (Holds(more, type) <=> Holds(t, type))
    BY <1>2, <1>3, HoldsOneMore
<1>10. \A n \in DOMAIN more : more[n].type \in MovedOut \ {"MATURITY_SETTLEMENT"} => more[n].principal \in Nat
    BY <1>2, <1>3, TakenOutOneMore DEF MovedOut, Agrees, SettlementEnds
<1>11. more \in Seq(Transaction)
    BY <1>2, <1>3
<1> HIDE DEF more
<1>12. IsTyped(new, w, more, events)
    BY <1>1, <1>4, <1>5, <1>11 DEF IsTyped
<1>13. StartsInOrder(new, w, more)
    BY <1>1, <1>3, <1>4 DEF StartsInOrder
<1>14. PrincipalAddsUp(new, more)
    BY <1>1, <1>3, <1>7, <1>8, <1>9 DEF Agrees, PrincipalAddsUp
<1>15. SettlementEnds(new, more)
    BY <1>9, <1>10 DEF Agrees, SettlementEnds
<1>16. HasLatestTerms(new, w, more)
    BY <1>1, <1>4 DEF HasLatestTerms
<1>17. Agrees(new, w, more, events)
    BY <1>6, <1>12, <1>13, <1>14, <1>15, <1>16 DEF Agrees
<1>. QED  BY <1>17 DEF new, w, more, events, entry

\* An entry that says nothing of the principal.
LEMMA PenaltyAgrees ==
    ASSUME NEW i \in InvestmentRow, NEW v, NEW t, NEW b, Agrees(i, v, t, b), i.status \notin Unplaced,
           NEW amount \in Int
    PROVE  Agrees(i, v, Append(t, transaction("PENALTY", amount, 0, None, None)), b)
<1> DEFINE entry == transaction("PENALTY", amount, 0, None, None)
           more == Append(t, entry)
<1>1. entry \in Transaction /\ entry.type = "PENALTY" /\ entry.principal = 0 /\ entry.key = None
    <2>1. "PENALTY" \in TransactionType
        BY DEF TransactionType
    <2>. QED  BY <2>1 DEF transaction, Transaction, Keys
<1> HIDE DEF entry
<1>2. t \in Seq(Transaction)
    BY DEF Agrees, IsTyped
<1>3. KeysAreRecorded(more, b)
    BY <1>1, <1>2, KeysOneMore DEF Agrees
<1>4. /\ PrincipalOf(more, MovedOut) = PrincipalOf(t, MovedOut) + 0
      /\ PrincipalOf(more, {"PLACEMENT", "REBOOKING"}) = PrincipalOf(t, {"PLACEMENT", "REBOOKING"}) + 0
    BY <1>1, <1>2, PrincipalOfOneMore DEF MovedOut
<1>5. PrincipalOf(t, MovedOut) \in Int /\ PrincipalOf(t, {"PLACEMENT", "REBOOKING"}) \in Int
    BY <1>2, PrincipalIsInteger
<1>6. \A type : type # "PENALTY" => (Holds(more, type) <=> Holds(t, type))
    BY <1>1, <1>2, HoldsOneMore
<1>7. \A n \in DOMAIN more : more[n].type \in MovedOut \ {"MATURITY_SETTLEMENT"} => more[n].principal \in Nat
    BY <1>1, <1>2, TakenOutOneMore DEF MovedOut, Agrees, SettlementEnds
<1>8. more \in Seq(Transaction)
    BY <1>1, <1>2
<1> HIDE DEF more
<1>9. IsTyped(i, v, more, b)
    BY <1>8 DEF Agrees, IsTyped
<1>10. StartsInOrder(i, v, more)
    BY DEF Agrees, StartsInOrder
<1>11. PrincipalAddsUp(i, more)
    BY <1>4, <1>5, <1>6 DEF Agrees, PrincipalAddsUp
<1>12. SettlementEnds(i, more)
    BY <1>6, <1>7 DEF Agrees, SettlementEnds
<1>13. HasLatestTerms(i, v, more)
    BY <1>6 DEF Agrees, HasLatestTerms
<1>14. Agrees(i, v, more, b)
    BY <1>3, <1>9, <1>10, <1>11, <1>12, <1>13 DEF Agrees
<1>. QED  BY <1>14 DEF more, entry

\* A termination or a rollover takes out part of the principal, or all.
LEMMA ReductionAgrees ==
    ASSUME NEW i \in InvestmentRow, NEW v, NEW t, NEW b, Agrees(i, v, t, b),
           NEW amount \in Int, 0 < amount, amount <= i.principal,
           NEW status \in InvestmentStatus, i.status \notin Unplaced, status \notin Unplaced,
           NEW entry \in Transaction, entry.type \in MovedOut \ {"MATURITY_SETTLEMENT"},
           entry.principal = amount, entry.key = None
    PROVE  LET new == Reduced(i, amount, status)
           IN  /\ new \in InvestmentRow /\ new.status = status
               /\ Agrees(new, v, Append(t, entry), b)
<1> DEFINE left == i.principal - amount
           base == [i EXCEPT !.principal = left, !.status = status]
           new == [base EXCEPT !.expected = recompute_expected_interest(base)]
           more == Append(t, entry)
<1>1. left \in Int
    BY DEF InvestmentRow
<1>2. Reduced(i, amount, status) = new
    BY DEF Reduced
<1> HIDE DEF left
<1>3. /\ base \in InvestmentRow /\ base.status = status /\ base.principal = left
      /\ base.original = i.original /\ base.rate = i.rate /\ base.maturity = i.maturity
    BY <1>1 DEF InvestmentRow
<1> HIDE DEF base
<1>4. recompute_expected_interest(base) \in Int
    BY <1>3, ProjectionIsInteger
<1>5. /\ new \in InvestmentRow /\ new.status = status /\ new.principal = left
      /\ new.original = i.original /\ new.rate = i.rate /\ new.maturity = i.maturity
      /\ new.start = base.start /\ new.convention = base.convention
      /\ new.principal = base.principal /\ new.rate = base.rate /\ new.maturity = base.maturity
      /\ new.expected = recompute_expected_interest(base)
    BY <1>3, <1>4 DEF InvestmentRow
<1>6. new.expected = recompute_expected_interest(new)
    BY <1>5 DEF recompute_expected_interest
<1> HIDE DEF new
<1>7. /\ t \in Seq(Transaction) /\ i.principal \in Int /\ i.original \in Int
      /\ i.status # "NONE" /\ status # "NONE"
    BY RowsHaveAStatus DEF Agrees, IsTyped, InvestmentRow, Unplaced
<1>8. KeysAreRecorded(more, b)
    BY <1>7, KeysOneMore DEF Agrees
<1>9. /\ PrincipalOf(more, MovedOut) = PrincipalOf(t, MovedOut) + amount
      /\ PrincipalOf(more, {"PLACEMENT", "REBOOKING"}) = PrincipalOf(t, {"PLACEMENT", "REBOOKING"}) + 0
    BY <1>7, PrincipalOfOneMore DEF MovedOut
<1>10. PrincipalOf(t, MovedOut) \in Int /\ PrincipalOf(t, {"PLACEMENT", "REBOOKING"}) \in Int
    BY <1>7, PrincipalIsInteger
<1>11. \A type : type \notin MovedOut \ {"MATURITY_SETTLEMENT"} => (Holds(more, type) <=> Holds(t, type))
    BY <1>7, HoldsOneMore
<1>12. ~Holds(t, "MATURITY_SETTLEMENT") /\ ~Holds(more, "MATURITY_SETTLEMENT")
    BY <1>7, <1>11 DEF Agrees, SettlementEnds
<1>13. \A n \in DOMAIN more : more[n].type \in MovedOut \ {"MATURITY_SETTLEMENT"} => more[n].principal \in Nat
    BY <1>7, TakenOutOneMore DEF Agrees, SettlementEnds
<1>14. more \in Seq(Transaction)
    BY <1>7
<1> HIDE DEF more
<1>15. IsTyped(new, v, more, b)
    BY <1>5, <1>14 DEF Agrees, IsTyped
<1>16. StartsInOrder(new, v, more)
    BY <1>5, <1>7 DEF Agrees, StartsInOrder
<1>17. PrincipalAddsUp(new, more)
    <2>1. i.original = i.principal + PrincipalOf(t, MovedOut)
        BY DEF Agrees, PrincipalAddsUp
    <2>2. new.original = new.principal + PrincipalOf(more, MovedOut)
        BY <1>5, <1>7, <1>9, <1>10, <2>1 DEF left
    <2>3. Holds(more, "PLACEMENT") <=> Holds(t, "PLACEMENT")
        BY <1>11 DEF MovedOut
    <2>4. Holds(t, "PLACEMENT") => i.original = PrincipalOf(t, {"PLACEMENT", "REBOOKING"})
        BY DEF Agrees, PrincipalAddsUp
    <2>. QED  BY <1>5, <1>9, <1>10, <2>2, <2>3, <2>4 DEF PrincipalAddsUp
<1>18. SettlementEnds(new, more)
    BY <1>12, <1>13 DEF SettlementEnds
<1>19. HasLatestTerms(new, v, more)
    BY <1>5, <1>6 DEF Agrees, HasLatestTerms
<1>20. Agrees(new, v, more, b)
    BY <1>8, <1>15, <1>16, <1>17, <1>18, <1>19 DEF Agrees
<1>. QED  BY <1>2, <1>5, <1>20 DEF more

\* The link to the successor.
LEMMA LinkAgrees ==
    ASSUME NEW i \in InvestmentRow, NEW v, NEW t, NEW b, Agrees(i, v, t, b), NEW reference \in Reference
    PROVE  Agrees([i EXCEPT !.rolled_to = reference], v, t, b)
<1> DEFINE new == [i EXCEPT !.rolled_to = reference]
<1>1. /\ new \in InvestmentRow /\ new.status = i.status
      /\ new.principal = i.principal /\ new.original = i.original /\ new.expected = i.expected
      /\ new.rate = i.rate /\ new.maturity = i.maturity
      /\ new.start = i.start /\ new.convention = i.convention
    BY DEF InvestmentRow
<1> HIDE DEF new
<1>2. Agrees(new, v, t, b)
    BY <1>1 DEF Agrees, IsTyped, StartsInOrder, PrincipalAddsUp, SettlementEnds, HasLatestTerms,
                recompute_expected_interest
<1>. QED  BY <1>2 DEF new

\* The settlement takes out what is left.
LEMMA SettlementAgrees ==
    ASSUME NEW i \in InvestmentRow, NEW v, NEW t, NEW b, Agrees(i, v, t, b), i.status \in Outstanding,
           NEW interest \in Int
    PROVE  LET entry == transaction("MATURITY_SETTLEMENT", i.principal + interest, i.principal, None, None)
           IN  Agrees([i EXCEPT !.principal = 0, !.received = @ + interest, !.status = "MATURED"],
                      v, Append(t, entry), b)
<1> DEFINE left == 0
           received == i.received + interest
           status == "MATURED"
           new == [i EXCEPT !.principal = left, !.received = received, !.status = status]
           entry == transaction("MATURITY_SETTLEMENT", i.principal + interest, i.principal, None, None)
           more == Append(t, entry)
<1>1. i.principal \in Int /\ i.original \in Int /\ i.received \in Int /\ i.principal + interest \in Int
    BY DEF InvestmentRow
<1>2. [i EXCEPT !.principal = 0, !.received = @ + interest, !.status = "MATURED"] = new
    OBVIOUS
<1>3. left \in Int /\ received \in Int /\ status \in InvestmentStatus
    BY <1>1 DEF InvestmentStatus, INVESTMENT_STATUS_TRANSITIONS
<1> HIDE DEF left, received, status
<1>4. /\ new \in InvestmentRow /\ new.status = status /\ new.principal = left
      /\ new.original = i.original /\ new.rate = i.rate /\ new.maturity = i.maturity
    BY <1>3 DEF InvestmentRow
<1>5. /\ entry \in Transaction /\ entry.type = "MATURITY_SETTLEMENT"
      /\ entry.principal = i.principal /\ entry.key = None
    <2>1. "MATURITY_SETTLEMENT" \in TransactionType
        BY DEF TransactionType, MovedOut
    <2>. QED  BY <1>1, <2>1 DEF transaction, Transaction, Keys
<1> HIDE DEF new, entry
<1>6. t \in Seq(Transaction) /\ i.status # "NONE"
    BY RowsHaveAStatus DEF Agrees, IsTyped
<1>7. KeysAreRecorded(more, b)
    BY <1>5, <1>6, KeysOneMore DEF Agrees
<1>8. /\ PrincipalOf(more, MovedOut) = PrincipalOf(t, MovedOut) + i.principal
      /\ PrincipalOf(more, {"PLACEMENT", "REBOOKING"}) = PrincipalOf(t, {"PLACEMENT", "REBOOKING"}) + 0
    BY <1>5, <1>6, PrincipalOfOneMore DEF MovedOut
<1>9. PrincipalOf(t, MovedOut) \in Int /\ PrincipalOf(t, {"PLACEMENT", "REBOOKING"}) \in Int
    BY <1>6, PrincipalIsInteger
<1>10. Holds(more, "MATURITY_SETTLEMENT") /\ (Holds(more, "PLACEMENT") <=> Holds(t, "PLACEMENT"))
    BY <1>5, <1>6, HoldsOneMore
<1>11. \A n \in DOMAIN more : more[n].type \in MovedOut \ {"MATURITY_SETTLEMENT"} => more[n].principal \in Nat
    BY <1>5, <1>6, TakenOutOneMore DEF Agrees, SettlementEnds
<1>12. more \in Seq(Transaction)
    BY <1>5, <1>6
<1> HIDE DEF more
<1>13. IsTyped(new, v, more, b)
    BY <1>4, <1>12 DEF Agrees, IsTyped
<1>14. StartsInOrder(new, v, more)
    BY <1>4, <1>6 DEF Agrees, StartsInOrder, Unplaced, status
<1>15. PrincipalAddsUp(new, more)
    BY <1>1, <1>4, <1>8, <1>9, <1>10 DEF Agrees, PrincipalAddsUp, left
<1>16. SettlementEnds(new, more)
    BY <1>4, <1>11 DEF SettlementEnds, Outstanding, left, status
<1>17. HasLatestTerms(new, v, more)
    BY <1>4, <1>10 DEF Agrees, HasLatestTerms
<1>18. Agrees(new, v, more, b)
    BY <1>7, <1>13, <1>14, <1>15, <1>16, <1>17 DEF Agrees
<1>. QED  BY <1>2, <1>18 DEF more, entry

\* A new row, with its projection and its first version.
LEMMA CreationAgrees ==
    ASSUME NEW row \in InvestmentRow, row.original = row.principal, NEW b \in Seq(Keys)
    PROVE  LET new == [row EXCEPT !.expected = recompute_expected_interest(row)]
           IN  /\ new \in InvestmentRow /\ new.status = row.status
               /\ Agrees(new, <<terms_snapshot(row)>>, <<>>, b)
<1> DEFINE new == [row EXCEPT !.expected = recompute_expected_interest(row)]
           v == <<terms_snapshot(row)>>
<1>1. recompute_expected_interest(row) \in Int
    BY ProjectionIsInteger
<1>2. /\ new \in InvestmentRow /\ new.status = row.status
      /\ new.principal = row.principal /\ new.original = row.original
      /\ new.rate = row.rate /\ new.maturity = row.maturity
      /\ new.start = row.start /\ new.convention = row.convention
      /\ new.expected = recompute_expected_interest(row)
    BY <1>1 DEF InvestmentRow
<1>3. new.expected = recompute_expected_interest(new)
    BY <1>2 DEF recompute_expected_interest
<1> HIDE DEF new
<1>4. row.status # "NONE" /\ row.principal \in Int
    BY RowsHaveAStatus DEF InvestmentRow
<1>5. /\ v \in Seq(Terms) /\ v # <<>>
      /\ Last(v).rate = row.rate /\ Last(v).maturity = row.maturity /\ Last(v).original = row.original
    <2>1. /\ terms_snapshot(row) \in Terms
          /\ terms_snapshot(row).rate = row.rate /\ terms_snapshot(row).maturity = row.maturity
          /\ terms_snapshot(row).original = row.original
        BY SnapshotsAreTerms
    <2>2. v \in Seq(Terms) /\ v # <<>> /\ Last(v) = terms_snapshot(row)
        BY <2>1 DEF Last
    <2>. QED  BY <2>1, <2>2
<1> HIDE DEF v
<1>6. IsTyped(new, v, <<>>, b)
    BY <1>2, <1>5 DEF IsTyped
<1>7. StartsInOrder(new, v, <<>>)
    BY <1>2, <1>4, <1>5 DEF StartsInOrder
<1>8. KeysAreRecorded(<<>>, b)
    BY DEF KeysAreRecorded
<1>9. PrincipalAddsUp(new, <<>>)
    <2>1. PrincipalOf(<<>>, MovedOut) = 0 /\ ~Holds(<<>>, "PLACEMENT")
        BY PrincipalOfNothing, NothingHeld
    <2>. QED  BY <1>2, <1>4, <2>1 DEF PrincipalAddsUp
<1>10. SettlementEnds(new, <<>>)
    BY NothingHeld DEF SettlementEnds
<1>11. HasLatestTerms(new, v, <<>>)
    BY <1>2, <1>3, <1>5 DEF HasLatestTerms
<1>12. Agrees(new, v, <<>>, b)
    BY <1>6, <1>7, <1>8, <1>9, <1>10, <1>11 DEF Agrees
<1>. QED  BY <1>2, <1>12 DEF new, v

LEMMA ActivationAgrees ==
    ASSUME NEW i \in InvestmentRow, NEW v, NEW b, Agrees(i, v, <<>>, b)
    PROVE  /\ [i EXCEPT !.status = "ACTIVE"] \in InvestmentRow
           /\ [i EXCEPT !.status = "ACTIVE"].status = "ACTIVE"
           /\ [i EXCEPT !.status = "ACTIVE"].principal = i.principal
           /\ Agrees([i EXCEPT !.status = "ACTIVE"], v, <<>>, b)
<1> DEFINE status == "ACTIVE"
           new == [i EXCEPT !.status = status]
<1>1. status \in InvestmentStatus /\ status # "NONE"
    BY DEF InvestmentStatus, INVESTMENT_STATUS_TRANSITIONS
<1> HIDE DEF status
<1>2. /\ new \in InvestmentRow /\ new.status = status
      /\ new.principal = i.principal /\ new.original = i.original /\ new.expected = i.expected
      /\ new.rate = i.rate /\ new.maturity = i.maturity
      /\ new.start = i.start /\ new.convention = i.convention
    BY <1>1 DEF InvestmentRow
<1>3. i.status # "NONE"
    BY RowsHaveAStatus
<1> HIDE DEF new
<1>4. Agrees(new, v, <<>>, b)
    <2>1. IsTyped(new, v, <<>>, b)
        BY <1>2 DEF Agrees, IsTyped
    <2>2. StartsInOrder(new, v, <<>>)
        BY <1>1, <1>2, <1>3 DEF Agrees, StartsInOrder
    <2>3. PrincipalAddsUp(new, <<>>) /\ KeysAreRecorded(<<>>, b)
        BY <1>2 DEF Agrees, PrincipalAddsUp
    <2>4. SettlementEnds(new, <<>>)
        BY NothingHeld DEF SettlementEnds
    <2>5. HasLatestTerms(new, v, <<>>)
        BY <1>2 DEF Agrees, HasLatestTerms, recompute_expected_interest
    <2>. QED  BY <2>1, <2>2, <2>3, <2>4, <2>5 DEF Agrees
<1>. QED  BY <1>2, <1>4 DEF new, status

\* The placement is the first entry.
LEMMA PlacementAgrees ==
    ASSUME NEW i \in InvestmentRow, NEW v, NEW b, Agrees(i, v, <<>>, b), i.status \notin Unplaced,
           NEW related \in Reference \union {None}
    PROVE  LET entry == transaction("PLACEMENT", i.principal, i.principal, related, None)
           IN  Agrees(i, v, Append(<<>>, entry), b)
<1> DEFINE entry == transaction("PLACEMENT", i.principal, i.principal, related, None)
           none == <<>>
           more == Append(none, entry)
<1>1. i.principal \in Int /\ i.original \in Int
    BY DEF InvestmentRow
<1>2. /\ entry \in Transaction /\ entry.type = "PLACEMENT"
      /\ entry.principal = i.principal /\ entry.key = None
    <2>1. "PLACEMENT" \in TransactionType
        BY DEF TransactionType
    <2>. QED  BY <1>1, <2>1 DEF transaction, Transaction, Keys
<1> HIDE DEF entry
<1>3. none \in Seq(Transaction) /\ KeysAreRecorded(none, b)
    BY DEF Agrees
<1>4. KeysAreRecorded(more, b)
    <2> HIDE DEF none
    <2>. QED  BY <1>2, <1>3, KeysOneMore
<1>5. /\ PrincipalOf(more, MovedOut) = PrincipalOf(none, MovedOut) + 0
      /\ PrincipalOf(more, {"PLACEMENT", "REBOOKING"}) =
             PrincipalOf(none, {"PLACEMENT", "REBOOKING"}) + i.principal
    <2> HIDE DEF none
    <2>. QED  BY <1>2, <1>3, PrincipalOfOneMore DEF MovedOut
<1>6. PrincipalOf(none, MovedOut) = 0 /\ PrincipalOf(none, {"PLACEMENT", "REBOOKING"}) = 0
    BY PrincipalOfNothing
<1>7. \A type : type # "PLACEMENT" => ~Holds(more, type)
    BY <1>2, <1>3, HoldsOneMore, NothingHeld
<1>8. \A n \in DOMAIN more : more[n].type \in MovedOut \ {"MATURITY_SETTLEMENT"} => more[n].principal \in Nat
    <2>1. entry.type \notin MovedOut
        BY <1>2 DEF MovedOut
    <2>2. \A n \in DOMAIN more : more[n] = entry
        OBVIOUS
    <2>. QED  BY <2>1, <2>2
<1>9. more \in Seq(Transaction)
    BY <1>2, <1>3
<1> HIDE DEF more
<1>10. IsTyped(i, v, more, b)
    BY <1>9 DEF Agrees, IsTyped
<1>11. StartsInOrder(i, v, more)
    BY DEF Agrees, StartsInOrder
<1>12. PrincipalAddsUp(i, more)
    <2> HIDE DEF none
    <2>1. PrincipalAddsUp(i, none)
        BY DEF Agrees, none
    <2>. QED  BY <1>1, <1>5, <1>6, <2>1 DEF PrincipalAddsUp
<1>13. SettlementEnds(i, more)
    BY <1>7, <1>8 DEF SettlementEnds
<1>14. HasLatestTerms(i, v, more)
    BY NothingHeld DEF Agrees, HasLatestTerms
<1>15. Agrees(i, v, more, b)
    BY <1>4, <1>10, <1>11, <1>12, <1>13, <1>14 DEF Agrees
<1>. QED  BY <1>15 DEF more, entry

-----------------------------------------------------------------------------
(* The ledger and the balances                                             *)

Movement == [direction : {"INFLOW", "OUTFLOW", "NON_CASH"}, amount : Int, date : Int,
             account : Account \union {None}]
NetOf(l, a, rows) ==
    SumFunctionOnSet([n \in DOMAIN l |-> net(l[n])], {n \in rows : l[n].account = a})

\* A balance the bank reported is what its account opened with and the rows
\* of the ledger it contains; each account has the one it opened with.
BalancesAreCounted(l, bs) ==
    /\ \A b \in bs :
          /\ b.account \in Account /\ b.date \in 0..Today /\ b.known \in 0..Len(l)
          /\ b.available = NoBalance
          /\ b.closing = Opening[b.account] + NetOf(l, b.account, {n \in 1..b.known : l[n].date <= b.date})
    /\ \A a \in Account : \E b \in bs : b.account = a /\ b.date = 0

LEMMA MovementsAreTyped ==
    ASSUME NEW l \in Seq(Movement), NEW n \in DOMAIN l
    PROVE  /\ l[n].direction \in {"INFLOW", "OUTFLOW", "NON_CASH"}
           /\ l[n].amount \in Int /\ l[n].date \in Int /\ net(l[n]) \in Int
<1>1. l[n] \in Movement
    OBVIOUS
<1>2. l[n].direction \in {"INFLOW", "OUTFLOW", "NON_CASH"} /\ l[n].amount \in Int /\ l[n].date \in Int
    BY <1>1 DEF Movement
<1>. QED  BY <1>2 DEF net

LEMMA RowsAreFinite ==
    ASSUME NEW l \in Seq(Movement), NEW rows \in SUBSET DOMAIN l
    PROVE  IsFiniteSet(rows)
<1>1. Len(l) \in Nat /\ DOMAIN l = 1..Len(l)
    OBVIOUS
<1>2. IsFiniteSet(1..Len(l))
    BY <1>1, FS_Interval
<1>. QED  BY <1>1, <1>2, FS_Subset

\* A row more does not change what the rows before it come to.
LEMMA NetOfTheSame ==
    ASSUME NEW l \in Seq(Movement), NEW m \in Movement, NEW a, NEW rows \in SUBSET DOMAIN l
    PROVE  NetOf(Append(l, m), a, rows) = NetOf(l, a, rows)
<1> DEFINE more == Append(l, m)
           f == [n \in DOMAIN l |-> net(l[n])]
           g == [n \in DOMAIN more |-> net(more[n])]
           S == {n \in rows : l[n].account = a}
<1>1. \A n \in DOMAIN l : n \in DOMAIN more /\ more[n] = l[n]
    OBVIOUS
<1>2. {n \in rows : more[n].account = a} = S
    BY <1>1
<1>3. \A n \in S : g[n] = f[n]
    BY <1>1
<1>4. IsFiniteSet(S)
    BY RowsAreFinite
<1>5. NetOf(l, a, rows) = SumFunctionOnSet(f, S) /\ NetOf(more, a, rows) = SumFunctionOnSet(g, S)
    BY <1>2 DEF NetOf
<1> HIDE DEF f, g, S, more
<1>6. NetOf(more, a, rows) = NetOf(l, a, rows)
    BY <1>3, <1>4, <1>5, SumOfTheSame
<1>. QED  BY <1>6 DEF more

LEMMA MovementKeepsBalances ==
    ASSUME NEW l \in Seq(Movement), NEW bs, BalancesAreCounted(l, bs), NEW m \in Movement
    PROVE  BalancesAreCounted(Append(l, m), bs)
<1> DEFINE more == Append(l, m)
<1>1. /\ Len(l) \in Nat /\ Len(more) = Len(l) + 1 /\ DOMAIN l = 1..Len(l)
      /\ \A n \in 1..Len(l) : more[n] = l[n]
    OBVIOUS
<1>2. ASSUME NEW b \in bs
      PROVE  /\ b.known \in 0..Len(more)
             /\ NetOf(more, b.account, {n \in 1..b.known : more[n].date <= b.date}) =
                    NetOf(l, b.account, {n \in 1..b.known : l[n].date <= b.date})
    <2>1. b.known \in 0..Len(l)
        BY DEF BalancesAreCounted
    <2>2. {n \in 1..b.known : more[n].date <= b.date} = {n \in 1..b.known : l[n].date <= b.date}
        BY <1>1, <2>1
    <2>3. {n \in 1..b.known : l[n].date <= b.date} \in SUBSET DOMAIN l
        BY <1>1, <2>1
    <2>4. b.known \in 0..Len(more)
        BY <1>1, <2>1
    <2>5. \A rows \in SUBSET DOMAIN l : NetOf(more, b.account, rows) = NetOf(l, b.account, rows)
        BY NetOfTheSame
    <2> HIDE DEF more
    <2>. QED  BY <2>2, <2>3, <2>4, <2>5
<1> HIDE DEF more
<1>3. BalancesAreCounted(more, bs)
    BY <1>2 DEF BalancesAreCounted
<1>. QED  BY <1>3 DEF more

Report(l, a, date) ==
    [account |-> a, date |-> date, known |-> Len(l),
     closing |-> Opening[a] + NetOf(l, a, {n \in DOMAIN l : l[n].date <= date}), available |-> NoBalance]

LEMMA ReportKeepsBalances ==
    ASSUME NEW l \in Seq(Movement), NEW bs, BalancesAreCounted(l, bs),
           NEW a \in Account, NEW date \in 1..Today
    PROVE  BalancesAreCounted(l, bs \union {Report(l, a, date)})
<1> DEFINE new == Report(l, a, date)
<1>1. Len(l) \in Nat /\ DOMAIN l = 1..Len(l) /\ Today \in Nat
    BY RowAssumption
<1>2. /\ new.account \in Account /\ new.date \in 0..Today /\ new.known \in 0..Len(l)
      /\ new.available = NoBalance
      /\ new.closing = Opening[new.account]
                       + NetOf(l, new.account, {n \in 1..new.known : l[n].date <= new.date})
    BY <1>1 DEF Report
<1> HIDE DEF new
<1>3. BalancesAreCounted(l, bs \union {new})
    BY <1>2 DEF BalancesAreCounted
<1>. QED  BY <1>3 DEF new

\* Every account has a latest balance.
LEMMA LatestBalanceExists ==
    ASSUME NEW l, NEW bs, BalancesAreCounted(l, bs), NEW a \in Account
    PROVE  latest_balances(bs, {a}, Today) # {}
<1> DEFINE Upto(n) == {b \in bs : b.account = a /\ b.date <= n}
           Latest(n) == \E b \in Upto(n) : \A c \in Upto(n) : c.date <= b.date
           T == {n \in Nat : Latest(n)}
<1>1. \A b \in bs : b.date \in Nat
    <2>1. Today \in Nat /\ \A b \in bs : b.date \in 0..Today
        BY RowAssumption DEF BalancesAreCounted
    <2>. QED  BY <2>1
<1>2. 0 \in T
    BY <1>1 DEF BalancesAreCounted
<1>3. ASSUME NEW n \in Nat, n \in T
      PROVE  n + 1 \in T
    <2>1. CASE \E b \in Upto(n + 1) : b.date = n + 1
        BY <2>1
    <2>2. CASE \A b \in Upto(n + 1) : b.date # n + 1
        <3>1. Upto(n + 1) = Upto(n)
            BY <1>1, <2>2
        <3>. QED  BY <1>3, <3>1
    <2>. QED  BY <2>1, <2>2
<1>4. Latest(Today)
    <2>1. Nat \subseteq T
        <3> HIDE DEF T
        <3>. QED  BY <1>2, <1>3, NaturalsFromZero
    <2>. QED  BY <2>1, RowAssumption
<1>. QED  BY <1>4 DEF latest_balances

\* What rows move on balance is what they move in, less what they move out.
LEMMA NetIsInflowLessOutflow ==
    ASSUME NEW l \in Seq(Movement), NEW rows \in SUBSET DOMAIN l
    PROVE  LET amounts == [n \in DOMAIN l |-> l[n].amount]
           IN  SumFunctionOnSet([n \in DOMAIN l |-> net(l[n])], rows) =
                   SumFunctionOnSet(amounts, {n \in rows : l[n].direction = "INFLOW"})
                   - SumFunctionOnSet(amounts, {n \in rows : l[n].direction = "OUTFLOW"})
<1> DEFINE amounts == [n \in DOMAIN l |-> l[n].amount]
           f == [n \in DOMAIN l |-> net(l[n])]
           In == {n \in rows : l[n].direction = "INFLOW"}
           Out == {n \in rows : l[n].direction = "OUTFLOW"}
           Other == {n \in rows : l[n].direction = "NON_CASH"}
<1>1. \A n \in DOMAIN l : /\ l[n].direction \in {"INFLOW", "OUTFLOW", "NON_CASH"}
                          /\ l[n].amount \in Int
    BY MovementsAreTyped
<1>2. IsFiniteSet(In) /\ IsFiniteSet(Out) /\ IsFiniteSet(Other) /\ IsFiniteSet(Out \union Other)
    BY RowsAreFinite
<1>3. rows = In \union (Out \union Other) /\ In \intersect (Out \union Other) = {} /\ Out \intersect Other = {}
    BY <1>1
<1>4. \A n \in In : f[n] = amounts[n] /\ f[n] \in Int
    BY <1>1 DEF net
<1>5. \A n \in Out : f[n] = -amounts[n] /\ amounts[n] \in Int /\ f[n] \in Int
    BY <1>1 DEF net
<1>6. \A n \in Other : f[n] = 0
    BY <1>1 DEF net
<1> HIDE DEF amounts, f, In, Out, Other
<1>7. SumFunctionOnSet(f, rows) = SumFunctionOnSet(f, In) + SumFunctionOnSet(f, Out \union Other)
    <2>1. \A n \in In \union (Out \union Other) : f[n] \in Int
        BY <1>4, <1>5, <1>6
    <2>2. SumFunctionOnSet(f, In \union (Out \union Other)) =
              SumFunctionOnSet(f, In) + SumFunctionOnSet(f, Out \union Other)
        BY <1>2, <1>3, <2>1, SumOfUnion
    <2>. QED  BY <1>3, <2>2
<1>8. SumFunctionOnSet(f, Out \union Other) = SumFunctionOnSet(f, Out) + SumFunctionOnSet(f, Other)
    <2>1. \A n \in Out \union Other : f[n] \in Int
        BY <1>5, <1>6
    <2>. QED  BY <1>2, <1>3, <2>1, SumOfUnion
<1>9. SumFunctionOnSet(f, In) = SumFunctionOnSet(amounts, In)
    BY <1>2, <1>4, SumOfTheSame
<1>10. SumFunctionOnSet(f, Out) = -SumFunctionOnSet(amounts, Out)
    BY <1>2, <1>5, SumOfOpposites
<1>11. SumFunctionOnSet(f, Other) = 0
    BY <1>2, <1>6, SumOfZeros
<1>12. SumFunctionOnSet(amounts, In) \in Int /\ SumFunctionOnSet(amounts, Out) \in Int
    <2>1. \A n \in In : amounts[n] \in Int
        BY <1>4
    <2>. QED  BY <1>2, <1>5, <2>1, SumOfIntegers
<1>13. SumFunctionOnSet(f, rows) = SumFunctionOnSet(amounts, In) - SumFunctionOnSet(amounts, Out)
    BY ONLY <1>7, <1>8, <1>9, <1>10, <1>11, <1>12
<1>. QED  BY <1>13 DEF amounts, f, In, Out

\* The rows a balance contains and the later ones: the cash there is.
LEMMA AvailableCashIsNet ==
    ASSUME NEW l \in Seq(Movement), NEW bs, BalancesAreCounted(l, bs), NEW a \in Account
    PROVE  LET anchor == CHOOSE b \in latest_balances(bs, {a}, Today) : TRUE
           IN  calculate_operational_available_cash(bs, l, a, Today) =
                   Opening[a] + NetOf(l, a, {n \in DOMAIN l : n <= anchor.known \/ l[n].date > anchor.date})
<1> DEFINE anchor == CHOOSE b \in latest_balances(bs, {a}, Today) : TRUE
           d == anchor.date
           f == [n \in DOMAIN l |-> net(l[n])]
           amounts == [n \in DOMAIN l |-> l[n].amount]
           Before == {n \in 1..anchor.known : l[n].date <= d}
           Mine == {n \in Before : l[n].account = a}
           Later == {n \in DOMAIN l : l[n].account = a /\ l[n].date > d}
           InTime == {n \in DOMAIN l : n <= anchor.known \/ l[n].date > d}
<1>1. latest_balances(bs, {a}, Today) # {} /\ anchor \in latest_balances(bs, {a}, Today)
    BY LatestBalanceExists
<1>2. anchor \in bs /\ anchor.account = a
    BY <1>1 DEF latest_balances
<1>3. /\ d \in 0..Today /\ anchor.known \in 0..Len(l) /\ anchor.available = NoBalance
      /\ anchor.closing = Opening[a] + NetOf(l, a, Before)
    BY <1>2 DEF BalancesAreCounted
<1>4. calculate_operational_available_cash(bs, l, a, Today) =
          anchor.closing + SumFunctionOnSet(amounts, {n \in DOMAIN l : l[n].direction = "INFLOW" /\ unreflected(l[n], a, d)})
          - SumFunctionOnSet(amounts, {n \in DOMAIN l : l[n].direction = "OUTFLOW" /\ unreflected(l[n], a, d)})
    <2>1. reported_available(anchor) = anchor.closing
        BY <1>3 DEF reported_available
    <2>2. anchor_date(bs, a, Today) = d
        BY <1>1 DEF anchor_date
    <2> HIDE DEF d
    <2>. QED  BY <1>1, <2>1, <2>2 DEF calculate_operational_available_cash, Moved
<1> HIDE DEF anchor
<1>5. /\ {n \in DOMAIN l : l[n].direction = "INFLOW" /\ unreflected(l[n], a, d)} =
              {n \in Later : l[n].direction = "INFLOW"}
      /\ {n \in DOMAIN l : l[n].direction = "OUTFLOW" /\ unreflected(l[n], a, d)} =
              {n \in Later : l[n].direction = "OUTFLOW"}
    BY DEF unreflected
<1>6. SumFunctionOnSet(f, Later) = SumFunctionOnSet(amounts, {n \in Later : l[n].direction = "INFLOW"})
                                   - SumFunctionOnSet(amounts, {n \in Later : l[n].direction = "OUTFLOW"})
    BY NetIsInflowLessOutflow
<1>7. \A n \in DOMAIN l : l[n].date \in Int /\ f[n] \in Int
    BY MovementsAreTyped
<1>8. /\ {n \in InTime : l[n].account = a} = Mine \union Later
      /\ Mine \intersect Later = {}
      /\ Mine \subseteq DOMAIN l /\ Later \subseteq DOMAIN l
    <2>1. Len(l) \in Nat /\ DOMAIN l = 1..Len(l) /\ d \in Int
        BY <1>3, RowAssumption
    <2>. QED  BY <1>3, <1>7, <2>1
<1>9. IsFiniteSet(Mine) /\ IsFiniteSet(Later)
    BY <1>8, RowsAreFinite
<1>10. NetOf(l, a, InTime) = SumFunctionOnSet(f, Mine \union Later) /\ NetOf(l, a, Before) = SumFunctionOnSet(f, Mine)
    BY <1>8 DEF NetOf
<1>11. \A n \in Mine \union Later : f[n] \in Int
    BY <1>7, <1>8
<1>12. /\ SumFunctionOnSet(amounts, {n \in Later : l[n].direction = "INFLOW"}) \in Int
       /\ SumFunctionOnSet(amounts, {n \in Later : l[n].direction = "OUTFLOW"}) \in Int
    <2>1. \A n \in Later : amounts[n] \in Int
        BY <1>8, MovementsAreTyped
    <2>2. /\ IsFiniteSet({n \in Later : l[n].direction = "INFLOW"})
          /\ IsFiniteSet({n \in Later : l[n].direction = "OUTFLOW"})
        BY <1>9, FS_Subset
    <2> HIDE DEF amounts, Later
    <2>. QED  BY <2>1, <2>2, SumOfIntegers
<1>13. Opening[a] \in Int
    BY RowAssumption
<1> DEFINE in == SumFunctionOnSet(amounts, {n \in Later : l[n].direction = "INFLOW"})
           out == SumFunctionOnSet(amounts, {n \in Later : l[n].direction = "OUTFLOW"})
           cash == calculate_operational_available_cash(bs, l, a, Today)
<1>14. cash = (Opening[a] + SumFunctionOnSet(f, Mine)) + in - out
    BY <1>3, <1>4, <1>5, <1>10
<1> HIDE DEF f, Mine, Later, InTime, amounts, cash
<1>15. SumFunctionOnSet(f, Mine \union Later) = SumFunctionOnSet(f, Mine) + SumFunctionOnSet(f, Later)
    BY <1>8, <1>9, <1>11, SumOfUnion
<1>16. SumFunctionOnSet(f, Mine) \in Int
    BY <1>9, <1>11, SumOfIntegers
<1>17. in \in Int /\ out \in Int
    BY <1>12
<1>18. SumFunctionOnSet(f, Later) = in - out
    BY <1>6
<1> HIDE DEF in, out
<1>19. cash = Opening[a] + SumFunctionOnSet(f, Mine \union Later)
    BY <1>13, <1>14, <1>15, <1>16, <1>17, <1>18
<1>. QED  BY <1>10, <1>19 DEF cash, InTime, anchor

-----------------------------------------------------------------------------
(* The inductive invariant                                                 *)

HistoriesAgree ==
    /\ investment \in [Reference -> InvestmentRow \union {NoRow}]
    /\ versions \in [Reference -> Seq(Terms)]
    /\ transactions \in [Reference -> Seq(Transaction)]
    /\ rebooked \in [Reference -> Seq(Keys)]
    /\ \A r \in Reference : Agrees(investment[r], versions[r], transactions[r], rebooked[r])

LedgerIsCounted == ledger \in Seq(Movement) /\ BalancesAreCounted(ledger, balances)

\* A handler holds the row it has read, and the row accepts its request.
Held(u) ==
    /\ on[u] \in Reference /\ request[u] \in Requests
    /\ seen[u] = investment[on[u]] /\ seen[u] \in InvestmentRow
    /\ Accepted(request[u], seen[u])
HandlersHold ==
    /\ phase \in [Users -> {"idle", "cash", "save"}]
    /\ on \in [Users -> Reference \union {None}]
    /\ request \in [Users -> Requests \union {None}]
    /\ seen \in [Users -> InvestmentRow \union {NoRow}]
    /\ \A u \in Users : phase[u] # "idle" => Held(u)
    /\ \A u, v \in Users : phase[u] # "idle" /\ phase[v] # "idle" /\ on[u] = on[v] => u = v

InvestmentsInv == HistoriesAgree /\ LedgerIsCounted /\ HandlersHold

LEMMA InvestmentsInit == Init => InvestmentsInv
<1> SUFFICES ASSUME Init PROVE InvestmentsInv
    OBVIOUS
<1>1. ASSUME NEW b \in Seq(Keys)
      PROVE  Agrees(NoRow, <<>>, <<>>, b)
    <2>1. IsTyped(NoRow, <<>>, <<>>, b)
        BY <1>1 DEF IsTyped
    <2>2. NoRow.status = "NONE" /\ NoRow.principal = 0 /\ NoRow.original = 0
        BY DEF NoRow
    <2>3. StartsInOrder(NoRow, <<>>, <<>>)
        BY <2>2 DEF StartsInOrder
    <2>4. PrincipalAddsUp(NoRow, <<>>)
        BY <2>2, PrincipalOfNothing, NothingHeld DEF PrincipalAddsUp
    <2>5. SettlementEnds(NoRow, <<>>)
        BY NothingHeld DEF SettlementEnds
    <2>6. KeysAreRecorded(<<>>, b)
        BY DEF KeysAreRecorded
    <2>7. HasLatestTerms(NoRow, <<>>, <<>>)
        BY DEF HasLatestTerms
    <2>. QED  BY <2>1, <2>3, <2>4, <2>5, <2>6, <2>7 DEF Agrees
<1>2. HistoriesAgree
    <2>1. <<>> \in Seq(Terms) /\ <<>> \in Seq(Transaction) /\ <<>> \in Seq(Keys)
        OBVIOUS
    <2>2. Agrees(NoRow, <<>>, <<>>, <<>>)
        BY <1>1, <2>1
    <2>. QED  BY <2>1, <2>2 DEF Init, HistoriesAgree
<1>3. LedgerIsCounted
    <2>1. ledger = <<>> /\ ledger \in Seq(Movement) /\ Len(ledger) = 0
        BY DEF Init
    <2>2. ASSUME NEW a \in Account, NEW date
          PROVE  NetOf(<<>>, a, {n \in 1..0 : <<>>[n].date <= date}) = 0
        <3>1. {n \in {n \in 1..0 : <<>>[n].date <= date} : <<>>[n].account = a} = {}
            OBVIOUS
        <3>. QED  BY <3>1, SumOfNothing DEF NetOf
    <2>3. ASSUME NEW b \in balances
          PROVE  /\ b.account \in Account /\ b.date = 0 /\ b.known = 0
                 /\ b.available = NoBalance /\ b.closing = Opening[b.account]
        BY DEF Init
    <2>4. \A b \in balances :
              b.closing = Opening[b.account]
                          + NetOf(ledger, b.account, {n \in 1..b.known : ledger[n].date <= b.date})
        <3> SUFFICES ASSUME NEW b \in balances
                     PROVE  b.closing = Opening[b.account]
                                + NetOf(ledger, b.account, {n \in 1..b.known : ledger[n].date <= b.date})
            OBVIOUS
        <3>1. NetOf(ledger, b.account, {n \in 1..b.known : ledger[n].date <= b.date}) = 0
            <4>1. \A date : NetOf(<<>>, b.account, {n \in 1..0 : <<>>[n].date <= date}) = 0
                BY <2>2, <2>3
            <4>2. {n \in 1..b.known : ledger[n].date <= b.date} = {n \in 1..0 : <<>>[n].date <= b.date}
                BY <2>1, <2>3
            <4>. QED  BY <2>1, <4>1, <4>2
        <3>2. Opening[b.account] \in Int
            BY <2>3, RowAssumption
        <3>. QED  BY <2>3, <3>1, <3>2
    <2>5. \A a \in Account : \E b \in balances : b.account = a /\ b.date = 0
        <3> SUFFICES ASSUME NEW a \in Account PROVE \E b \in balances : b.account = a /\ b.date = 0
            OBVIOUS
        <3> DEFINE b == [account |-> a, date |-> 0, closing |-> Opening[a], available |-> NoBalance, known |-> 0]
        <3>1. b \in balances /\ b.account = a /\ b.date = 0
            BY DEF Init
        <3>. QED  BY <3>1
    <2>6. \A b \in balances : b.date \in 0..Today /\ b.known \in 0..Len(ledger)
        <3>1. Today \in Nat
            BY RowAssumption
        <3>. QED  BY <2>1, <2>3, <3>1
    <2>. QED  BY <2>1, <2>3, <2>4, <2>5, <2>6 DEF LedgerIsCounted, BalancesAreCounted
<1>4. HandlersHold
    BY DEF Init, HandlersHold
<1>. QED  BY <1>2, <1>3, <1>4 DEF InvestmentsInv

-----------------------------------------------------------------------------
(* Parts of a step                                                         *)

\* One investment written, with its history.
LEMMA OneRowWritten ==
    ASSUME HistoriesAgree, NEW r \in Reference, NEW i, NEW v, NEW t, NEW b, Agrees(i, v, t, b),
           investment' = [investment EXCEPT ![r] = i],
           versions' = [versions EXCEPT ![r] = v],
           transactions' = [transactions EXCEPT ![r] = t],
           rebooked' = [rebooked EXCEPT ![r] = b]
    PROVE  HistoriesAgree'
<1>1. i \in InvestmentRow \union {NoRow} /\ v \in Seq(Terms) /\ t \in Seq(Transaction) /\ b \in Seq(Keys)
    BY DEF Agrees, IsTyped
<1>2. /\ investment' \in [Reference -> InvestmentRow \union {NoRow}]
      /\ versions' \in [Reference -> Seq(Terms)]
      /\ transactions' \in [Reference -> Seq(Transaction)]
      /\ rebooked' \in [Reference -> Seq(Keys)]
    BY <1>1 DEF HistoriesAgree
<1>3. ASSUME NEW x \in Reference
      PROVE  Agrees(investment'[x], versions'[x], transactions'[x], rebooked'[x])
    <2>1. CASE x = r
        <3>1. investment'[r] = i /\ versions'[r] = v /\ transactions'[r] = t /\ rebooked'[r] = b
            BY DEF HistoriesAgree
        <3>. QED  BY <2>1, <3>1
    <2>2. CASE x # r
        <3>1. /\ investment'[x] = investment[x] /\ versions'[x] = versions[x]
              /\ transactions'[x] = transactions[x] /\ rebooked'[x] = rebooked[x]
            BY <2>2 DEF HistoriesAgree
        <3>. QED  BY <3>1 DEF HistoriesAgree
    <2>. QED  BY <2>1, <2>2
<1>. QED  BY <1>2, <1>3 DEF HistoriesAgree

LEMMA NothingWritten ==
    ASSUME HistoriesAgree, UNCHANGED <<investment, versions, transactions, rebooked>>
    PROVE  HistoriesAgree'
BY DEF HistoriesAgree

\* What is left alone is written as it was.
LEMMA WrittenAsItWas ==
    ASSUME HistoriesAgree, NEW r \in Reference
    PROVE  /\ versions = [versions EXCEPT ![r] = versions[r]]
           /\ transactions = [transactions EXCEPT ![r] = transactions[r]]
           /\ rebooked = [rebooked EXCEPT ![r] = rebooked[r]]
BY DEF HistoriesAgree

LEMMA MovementMade ==
    ASSUME LedgerIsCounted, NEW m \in Movement, ledger' = Append(ledger, m), UNCHANGED balances
    PROVE  LedgerIsCounted'
<1>1. ledger' \in Seq(Movement)
    BY DEF LedgerIsCounted
<1>2. BalancesAreCounted(ledger', balances')
    BY MovementKeepsBalances DEF LedgerIsCounted
<1>. QED  BY <1>1, <1>2 DEF LedgerIsCounted

LEMMA CashIsMovement ==
    ASSUME NEW i \in InvestmentRow, NEW direction \in {"INFLOW", "OUTFLOW", "NON_CASH"},
           NEW amount \in Int, NEW date \in Int
    PROVE  cash_transaction(i, direction, amount, date) \in Movement
BY DEF cash_transaction, Movement, InvestmentRow

\* The rows others hold are as they were: the handler lets go of its own.
LEMMA HandlerFinished ==
    ASSUME HandlersHold, NEW u \in Users, Finish(u),
           \A v \in Users \ {u} : phase[v] # "idle" => investment'[on[v]] = investment[on[v]]
    PROVE  HandlersHold'
<1>1. /\ phase' = [phase EXCEPT ![u] = "idle"] /\ on' = [on EXCEPT ![u] = None]
      /\ request' = [request EXCEPT ![u] = None] /\ seen' = [seen EXCEPT ![u] = NoRow]
    BY DEF Finish, Handle
<1>2. /\ phase' \in [Users -> {"idle", "cash", "save"}]
      /\ on' \in [Users -> Reference \union {None}]
      /\ request' \in [Users -> Requests \union {None}]
      /\ seen' \in [Users -> InvestmentRow \union {NoRow}]
    BY <1>1 DEF HandlersHold
<1>3. phase'[u] = "idle"
    BY <1>1 DEF HandlersHold
<1>4. \A v \in Users \ {u} : /\ phase'[v] = phase[v] /\ on'[v] = on[v]
                             /\ request'[v] = request[v] /\ seen'[v] = seen[v]
    BY <1>1 DEF HandlersHold
<1>5. ASSUME NEW v \in Users, phase'[v] # "idle"
      PROVE  Held(v)'
    <2>1. v # u /\ phase[v] # "idle"
        BY <1>3, <1>4, <1>5
    <2>2. Held(v)
        BY <2>1 DEF HandlersHold
    <2>. QED  BY <1>4, <2>1, <2>2 DEF Held
<1>6. \A v, w \in Users : phase'[v] # "idle" /\ phase'[w] # "idle" /\ on'[v] = on'[w] => v = w
    BY <1>3, <1>4 DEF HandlersHold
<1>. QED  BY <1>2, <1>5, <1>6 DEF HandlersHold

\* A handler takes or keeps a row that nobody else holds.
LEMMA HandlerMoved ==
    ASSUME HandlersHold, NEW u \in Users, NEW next \in {"cash", "save"}, NEW r \in Reference,
           NEW q \in Requests, investment[r] \in InvestmentRow, Accepted(q, investment[r]),
           \A v \in Users \ {u} : phase[v] # "idle" => on[v] # r,
           Handle(u, next, r, q, investment[r]), investment' = investment
    PROVE  HandlersHold'
<1>1. /\ phase' = [phase EXCEPT ![u] = next] /\ on' = [on EXCEPT ![u] = r]
      /\ request' = [request EXCEPT ![u] = q] /\ seen' = [seen EXCEPT ![u] = investment[r]]
    BY DEF Handle
<1>2. /\ phase' \in [Users -> {"idle", "cash", "save"}]
      /\ on' \in [Users -> Reference \union {None}]
      /\ request' \in [Users -> Requests \union {None}]
      /\ seen' \in [Users -> InvestmentRow \union {NoRow}]
    BY <1>1 DEF HandlersHold
<1>3. on'[u] = r /\ request'[u] = q /\ seen'[u] = investment[r]
    BY <1>1 DEF HandlersHold
<1>4. \A v \in Users \ {u} : /\ phase'[v] = phase[v] /\ on'[v] = on[v]
                             /\ request'[v] = request[v] /\ seen'[v] = seen[v]
    BY <1>1 DEF HandlersHold
<1>5. ASSUME NEW v \in Users, phase'[v] # "idle"
      PROVE  Held(v)'
    <2>1. CASE v = u
        BY <1>3, <2>1 DEF Held
    <2>2. CASE v # u
        <3>1. Held(v)
            BY <1>4, <1>5, <2>2 DEF HandlersHold
        <3>. QED  BY <1>4, <2>2, <3>1 DEF Held
    <2>. QED  BY <2>1, <2>2
<1>6. \A v, w \in Users : phase'[v] # "idle" /\ phase'[w] # "idle" /\ on'[v] = on'[w] => v = w
    BY <1>3, <1>4 DEF HandlersHold
<1>. QED  BY <1>2, <1>5, <1>6 DEF HandlersHold

LEMMA HandlersUnchanged ==
    ASSUME HandlersHold, UNCHANGED handlers,
           \A v \in Users : phase[v] # "idle" => investment'[on[v]] = investment[on[v]]
    PROVE  HandlersHold'
BY DEF HandlersHold, Held, handlers

\* What a handler may rely on.
LEMMA WhatIsHeld ==
    ASSUME InvestmentsInv, NEW u \in Users, phase[u] # "idle"
    PROVE  /\ on[u] \in Reference /\ request[u] \in Requests
           /\ seen[u] = investment[on[u]] /\ seen[u] \in InvestmentRow
           /\ Accepted(request[u], seen[u])
           /\ Agrees(seen[u], versions[on[u]], transactions[on[u]], rebooked[on[u]])
           /\ \A v \in Users \ {u} : phase[v] # "idle" => on[v] # on[u]
BY DEF InvestmentsInv, HandlersHold, Held, HistoriesAgree

\* A handler writes its own investment and at most one movement of cash.
LEMMA OwnRowSaved ==
    ASSUME InvestmentsInv, NEW u \in Users, phase[u] = "save", Finish(u), UNCHANGED balances,
           NEW i, NEW v, NEW t, NEW b, Agrees(i, v, t, b),
           investment' = [investment EXCEPT ![on[u]] = i],
           versions' = [versions EXCEPT ![on[u]] = v],
           transactions' = [transactions EXCEPT ![on[u]] = t],
           rebooked' = [rebooked EXCEPT ![on[u]] = b],
           ledger' = ledger \/ \E m \in Movement : ledger' = Append(ledger, m)
    PROVE  InvestmentsInv'
<1>1. on[u] \in Reference /\ \A w \in Users \ {u} : phase[w] # "idle" => on[w] # on[u]
    BY WhatIsHeld
<1>2. HistoriesAgree'
    BY <1>1, OneRowWritten DEF InvestmentsInv
<1>3. LedgerIsCounted'
    <2>1. CASE ledger' = ledger
        BY <2>1 DEF InvestmentsInv, LedgerIsCounted
    <2>2. CASE \E m \in Movement : ledger' = Append(ledger, m)
        BY <2>2, MovementMade DEF InvestmentsInv
    <2>. QED  BY <2>1, <2>2
<1>4. HandlersHold'
    <2>1. \A x \in Reference \ {on[u]} : investment'[x] = investment[x]
        BY DEF InvestmentsInv, HistoriesAgree
    <2>2. \A w \in Users : phase[w] # "idle" => on[w] \in Reference
        BY WhatIsHeld
    <2>3. \A w \in Users \ {u} : phase[w] # "idle" => investment'[on[w]] = investment[on[w]]
        BY <1>1, <2>1, <2>2
    <2>. QED  BY <2>3, HandlerFinished DEF InvestmentsInv
<1>. QED  BY <1>2, <1>3, <1>4 DEF InvestmentsInv

-----------------------------------------------------------------------------
(* What each request writes                                                *)

LEMMA StatusSaved ==
    ASSUME InvestmentsInv, NEW u \in Users, phase[u] = "save", Finish(u), UNCHANGED balances,
           request[u].op = "status", transition_investment_status(u, on[u], request[u])
    PROVE  InvestmentsInv'
<1> DEFINE r == on[u]
           i == seen[u]
           to == request[u].to
<1>1. /\ r \in Reference /\ i \in InvestmentRow /\ Accepted(request[u], i)
      /\ Agrees(i, versions[r], transactions[r], rebooked[r])
    BY WhatIsHeld
<1>2. to \in INVESTMENT_STATUS_TRANSITIONS[i.status] \union {i.status}
    BY <1>1 DEF Accepted
<1>3. Agrees([i EXCEPT !.status = to], versions[r], transactions[r], rebooked[r])
    BY <1>1, <1>2, StatusAgrees
<1>4. /\ investment' = [investment EXCEPT ![r] = [i EXCEPT !.status = to]]
      /\ versions' = [versions EXCEPT ![r] = versions[r]]
      /\ transactions' = [transactions EXCEPT ![r] = transactions[r]]
      /\ rebooked' = [rebooked EXCEPT ![r] = rebooked[r]]
      /\ ledger' = ledger
    BY <1>1, WrittenAsItWas DEF transition_investment_status, InvestmentsInv, Row
<1> HIDE DEF r, i, to
<1>. QED  BY <1>3, <1>4, OwnRowSaved DEF r

LEMMA UpdateSaved ==
    ASSUME InvestmentsInv, NEW u \in Users, phase[u] = "save", Finish(u), UNCHANGED balances,
           request[u].op = "update", update_investment(u, on[u], request[u])
    PROVE  InvestmentsInv'
<1> DEFINE r == on[u]
           i == seen[u]
           new == Amended(i, request[u].rate, request[u].maturity, 0)
<1>1. /\ r \in Reference /\ i \in InvestmentRow /\ request[u] \in Requests
      /\ Agrees(i, versions[r], transactions[r], rebooked[r])
    BY WhatIsHeld
<1>2. request[u].rate \in Int \union {None} /\ request[u].maturity \in Days \union {None}
    BY <1>1, RequestAssumption
<1>3. Agrees(new, Append(versions[r], terms_snapshot(new)), transactions[r], rebooked[r])
    BY <1>1, <1>2, UpdateAgrees
<1>4. /\ investment' = [investment EXCEPT ![r] = new]
      /\ versions' = [versions EXCEPT ![r] = Append(versions[r], terms_snapshot(new))]
      /\ transactions' = [transactions EXCEPT ![r] = transactions[r]]
      /\ rebooked' = [rebooked EXCEPT ![r] = rebooked[r]]
      /\ ledger' = ledger
    BY <1>1, WrittenAsItWas DEF update_investment, apply_investment_update, InvestmentsInv, Row
<1> HIDE DEF r, i, new
<1>. QED  BY <1>3, <1>4, OwnRowSaved DEF r

LEMMA PlacementSaved ==
    ASSUME InvestmentsInv, NEW u \in Users, phase[u] = "save", Finish(u), UNCHANGED balances,
           request[u].op = "place", place_investment(u, on[u], request[u])
    PROVE  InvestmentsInv'
<1> DEFINE r == on[u]
           i == seen[u]
           new == [i EXCEPT !.status = "ACTIVE"]
           entry == transaction("PLACEMENT", i.principal, i.principal, None, None)
           cash == cash_transaction(i, "OUTFLOW", i.principal, request[u].date)
<1>1. /\ r \in Reference /\ i \in InvestmentRow /\ request[u] \in Requests /\ Accepted(request[u], i)
      /\ Agrees(i, versions[r], transactions[r], rebooked[r])
    BY WhatIsHeld
<1>2. i.status \in {"APPROVED", "PLACEMENT_PENDING"}
    BY <1>1 DEF Accepted
<1>3. transactions[r] = <<>>
    BY <1>1, <1>2 DEF Agrees, StartsInOrder, Unplaced
<1>4. /\ new \in InvestmentRow /\ new.status = "ACTIVE" /\ new.principal = i.principal
      /\ Agrees(new, versions[r], <<>>, rebooked[r])
    BY <1>1, <1>3, ActivationAgrees
<1>5. Agrees(new, versions[r], Append(<<>>, entry), rebooked[r])
    <2>1. new.status \notin Unplaced /\ None \in Reference \union {None}
        BY <1>4 DEF Unplaced
    <2> HIDE DEF new, i
    <2>. QED  BY <1>4, <2>1, PlacementAgrees
<1>6. cash \in Movement
    <2>1. i.principal \in Int /\ request[u].date \in Int
        BY <1>1, RequestAssumption DEF InvestmentRow, Days
    <2>. QED  BY <1>1, <2>1, CashIsMovement
<1>7. /\ investment' = [investment EXCEPT ![r] = new]
      /\ versions' = [versions EXCEPT ![r] = versions[r]]
      /\ transactions' = [transactions EXCEPT ![r] = Append(<<>>, entry)]
      /\ rebooked' = [rebooked EXCEPT ![r] = rebooked[r]]
      /\ ledger' = Append(ledger, cash)
    BY <1>1, <1>3, WrittenAsItWas DEF place_investment, Recorded, InvestmentsInv, Row
<1> HIDE DEF r, i, new, entry, cash
<1>. QED  BY <1>5, <1>6, <1>7, OwnRowSaved DEF r

\* While something is left, what was put in is positive.
LEMMA OriginalIsPositive ==
    ASSUME NEW i \in InvestmentRow, NEW v, NEW t, NEW b, Agrees(i, v, t, b), 0 < i.principal
    PROVE  i.original \in Nat \ {0}
<1>1. i.principal \in Int /\ i.original \in Int /\ t \in Seq(Transaction)
    BY RowsHaveAStatus DEF InvestmentRow, Agrees, IsTyped
<1>2. ~Holds(t, "MATURITY_SETTLEMENT")
    BY <1>1 DEF Agrees, SettlementEnds
<1>3. \A n \in DOMAIN t : t[n].type \in MovedOut => t[n].principal \in Nat
    BY <1>2 DEF Holds, Agrees, SettlementEnds
<1>4. PrincipalOf(t, MovedOut) \in Nat
    BY <1>1, <1>3, PrincipalIsNatural
<1>. QED  BY <1>1, <1>4 DEF Agrees, PrincipalAddsUp

LEMMA TerminationSaved ==
    ASSUME InvestmentsInv, NEW u \in Users, phase[u] = "save", Finish(u), UNCHANGED balances,
           request[u].op = "terminate", terminate_investment(u, on[u], request[u])
    PROVE  InvestmentsInv'
<1> DEFINE r == on[u]
           i == seen[u]
           q == request[u]
           full == q.amount = i.principal
           status == IF full THEN "TERMINATED" ELSE "PARTIALLY_TERMINATED"
           type == IF full THEN "FULL_TERMINATION" ELSE "PARTIAL_TERMINATION"
           result == calculate_early_termination(q.amount, i.rate, i.start, q.date, i.convention, i.penalty, i.original)
           entry == transaction(type, result.net_proceeds, q.amount, None, None)
           penalty == transaction("PENALTY", result.penalty, 0, None, None)
           new == Reduced(i, q.amount, status)
           cash == cash_transaction(i, "INFLOW", result.net_proceeds, q.date)
           t == Append(transactions[r], entry)
           more == IF result.penalty > 0 THEN Append(t, penalty) ELSE t
<1>1. /\ r \in Reference /\ i \in InvestmentRow /\ q \in Requests /\ Accepted(q, i)
      /\ Agrees(i, versions[r], transactions[r], rebooked[r])
    BY WhatIsHeld
<1>2. /\ i.status \in Outstanding /\ 0 < q.amount /\ q.amount <= i.principal
      /\ q.amount \in Int /\ q.date \in Days /\ i.principal \in Int
    BY <1>1, RequestAssumption DEF Accepted, InvestmentRow
<1>3. i.original \in Nat \ {0}
    BY <1>1, <1>2, OriginalIsPositive
<1>4. result.net_proceeds \in Int /\ result.penalty \in Int
    <2>1. /\ i.rate \in Int /\ i.start \in Days /\ i.convention \in Convention
          /\ i.penalty \in [type : PenaltyType, rate : Int, amount : Int]
        BY <1>1 DEF InvestmentRow
    <2> HIDE DEF i, q
    <2>. QED  BY <1>2, <1>3, <2>1, ProceedsAreInteger
<1> HIDE DEF result
<1>5. /\ entry \in Transaction /\ entry.type \in MovedOut \ {"MATURITY_SETTLEMENT"}
      /\ entry.principal = q.amount /\ entry.key = None
    <2>1. type \in TransactionType /\ type \in MovedOut \ {"MATURITY_SETTLEMENT"}
        BY DEF TransactionType, MovedOut
    <2> HIDE DEF type, q
    <2>. QED  BY <1>2, <1>4, <2>1 DEF transaction, Transaction, Keys
<1>6. /\ status \in InvestmentStatus /\ status \notin Unplaced /\ i.status \notin Unplaced
    BY <1>2 DEF InvestmentStatus, INVESTMENT_STATUS_TRANSITIONS, Unplaced, Outstanding
<1> HIDE DEF i, q, status, entry
<1>7. new \in InvestmentRow /\ new.status = status /\ Agrees(new, versions[r], t, rebooked[r])
    BY <1>1, <1>2, <1>5, <1>6, ReductionAgrees
<1> HIDE DEF new, t
<1>8. Agrees(new, versions[r], more, rebooked[r])
    <2>1. Agrees(new, versions[r], Append(t, penalty), rebooked[r])
        BY <1>4, <1>6, <1>7, PenaltyAgrees
    <2>. QED  BY <1>7, <2>1
<1>9. cash \in Movement
    <2>1. q.date \in Int
        BY <1>2 DEF Days
    <2>. QED  BY <1>1, <1>4, <2>1, CashIsMovement
<1>10. /\ investment' = [investment EXCEPT ![r] = new]
       /\ versions' = [versions EXCEPT ![r] = versions[r]]
       /\ rebooked' = [rebooked EXCEPT ![r] = rebooked[r]]
       /\ ledger' = Append(ledger, cash)
    BY <1>1, WrittenAsItWas DEF terminate_investment, InvestmentsInv, Row, new, status, i, q, result
<1>11. transactions' = [transactions EXCEPT ![r] = more]
    <2>1. transactions' = IF result.penalty > 0
                          THEN [[transactions EXCEPT ![r] = t] EXCEPT ![r] = Append(@, penalty)]
                          ELSE [transactions EXCEPT ![r] = t]
        BY DEF terminate_investment, Recorded, Row, t, entry, i, q, result
    <2>2. transactions \in [Reference -> Seq(Transaction)]
        BY DEF InvestmentsInv, HistoriesAgree
    <2>3. [transactions EXCEPT ![r] = t][r] = t
        BY <1>1, <2>2
    <2>4. [[transactions EXCEPT ![r] = t] EXCEPT ![r] = Append(t, penalty)] =
              [transactions EXCEPT ![r] = Append(t, penalty)]
        BY <2>2
    <2>. QED  BY <2>1, <2>3, <2>4
<1> HIDE DEF r, more, cash
<1>. QED  BY <1>8, <1>9, <1>10, <1>11, OwnRowSaved DEF r

LEMMA SettlementSaved ==
    ASSUME InvestmentsInv, NEW u \in Users, phase[u] = "save", Finish(u), UNCHANGED balances,
           request[u].op = "settle", settle_maturity(u, on[u], request[u])
    PROVE  InvestmentsInv'
<1> DEFINE r == on[u]
           i == seen[u]
           q == request[u]
           interest == IF q.interest = None THEN i.expected ELSE q.interest
           entry == transaction("MATURITY_SETTLEMENT", i.principal + interest, i.principal, None, None)
           new == [i EXCEPT !.principal = 0, !.received = @ + interest, !.status = "MATURED"]
           cash == cash_transaction(i, "INFLOW", i.principal + interest, q.date)
<1>1. /\ r \in Reference /\ i \in InvestmentRow /\ q \in Requests /\ Accepted(q, i)
      /\ Agrees(i, versions[r], transactions[r], rebooked[r])
    BY WhatIsHeld
<1>2. i.status \in Outstanding
    BY <1>1 DEF Accepted
<1>3. interest \in Int /\ q.date \in Int /\ i.principal + interest \in Int
    <2>1. q.interest \in Int \union {None} /\ q.date \in Days
        BY <1>1, RequestAssumption
    <2>2. i.expected \in Int /\ i.principal \in Int
        BY <1>1 DEF InvestmentRow
    <2>3. interest \in Int
        BY <2>1, <2>2
    <2> HIDE DEF interest
    <2>. QED  BY <2>1, <2>2, <2>3 DEF Days
<1>4. Agrees(new, versions[r], Append(transactions[r], entry), rebooked[r])
    <2> HIDE DEF i, interest
    <2>. QED  BY <1>1, <1>2, <1>3, SettlementAgrees
<1>5. cash \in Movement
    <2> HIDE DEF i, interest
    <2>. QED  BY <1>1, <1>3, CashIsMovement
<1>6. /\ investment' = [investment EXCEPT ![r] = new]
      /\ versions' = [versions EXCEPT ![r] = versions[r]]
      /\ transactions' = [transactions EXCEPT ![r] = Append(transactions[r], entry)]
      /\ rebooked' = [rebooked EXCEPT ![r] = rebooked[r]]
      /\ ledger' = Append(ledger, cash)
    BY <1>1, WrittenAsItWas DEF settle_maturity, Recorded, InvestmentsInv, Row
<1> HIDE DEF r, i, q, interest, new, entry, cash
<1>. QED  BY <1>4, <1>5, <1>6, OwnRowSaved DEF r

LEMMA RebookingSaved ==
    ASSUME InvestmentsInv, NEW u \in Users, phase[u] = "save", Finish(u), UNCHANGED balances,
           request[u].op = "rebook", rebook_investment(u, on[u], request[u])
    PROVE  InvestmentsInv'
<1> DEFINE r == on[u]
           i == seen[u]
           q == request[u]
           new == Amended(i, q.rate, q.maturity, q.additional)
           entry == transaction("REBOOKING", q.additional, q.additional, None, q.key)
           cash == cash_transaction(i, "OUTFLOW", q.additional, Today)
           v == Append(versions[r], terms_snapshot(new))
           b == Append(rebooked[r], q.key)
<1>1. /\ r \in Reference /\ i \in InvestmentRow /\ q \in Requests /\ Accepted(q, i)
      /\ i = investment[r]
      /\ Agrees(i, versions[r], transactions[r], rebooked[r])
    BY WhatIsHeld
<1>2. /\ i.status \in Outstanding /\ q.rate \in Int \union {None} /\ q.maturity \in Days \union {None}
      /\ q.additional \in Int /\ q.key \in Keys
    BY <1>1, RequestAssumption DEF Accepted, Keys
<1>3. CASE AlreadyRebooked(r, q.key)
    <2>1. UNCHANGED <<investment, versions, transactions, rebooked, ledger>>
        BY <1>3 DEF rebook_investment
    <2>2. investment = [investment EXCEPT ![r] = i]
        BY <1>1 DEF InvestmentsInv, HistoriesAgree
    <2>3. /\ investment' = [investment EXCEPT ![r] = i]
          /\ versions' = [versions EXCEPT ![r] = versions[r]]
          /\ transactions' = [transactions EXCEPT ![r] = transactions[r]]
          /\ rebooked' = [rebooked EXCEPT ![r] = rebooked[r]]
          /\ ledger' = ledger
        BY <1>1, <2>1, <2>2, WrittenAsItWas DEF InvestmentsInv
    <2> HIDE DEF r, i
    <2>. QED  BY <1>1, <2>3, OwnRowSaved DEF r
<1>4. CASE ~AlreadyRebooked(r, q.key)
    <2>1. /\ investment' = [investment EXCEPT ![r] = new]
          /\ versions' = [versions EXCEPT ![r] = v]
          /\ rebooked' = [rebooked EXCEPT ![r] = b]
        BY <1>4 DEF rebook_investment, apply_investment_update, Row
    <2>2. CASE q.additional = 0
        <3>1. Agrees(new, v, transactions[r], rebooked[r]) /\ new \in InvestmentRow
            BY <1>1, <1>2, <2>2, UpdateAgrees, AmendedRow
        <3>2. Agrees(new, v, transactions[r], b)
            <4> HIDE DEF new, v
            <4>. QED  BY <1>2, <3>1, EventAgrees
        <3>3. transactions' = [transactions EXCEPT ![r] = transactions[r]] /\ ledger' = ledger
            BY <1>1, <1>4, <2>2, WrittenAsItWas DEF rebook_investment, InvestmentsInv
        <3> HIDE DEF r, i, q, new, v, b
        <3>. QED  BY <2>1, <3>2, <3>3, OwnRowSaved DEF r
    <2>3. CASE q.additional # 0
        <3>1. Agrees(new, v, Append(transactions[r], entry), b)
            BY <1>1, <1>2, RebookingAgrees
        <3>2. cash \in Movement
            <4>1. Today \in Int
                BY RowAssumption
            <4>. QED  BY <1>1, <1>2, <4>1, CashIsMovement
        <3>3. /\ transactions' = [transactions EXCEPT ![r] = Append(transactions[r], entry)]
              /\ ledger' = Append(ledger, cash)
            BY <1>4, <2>3 DEF rebook_investment, Recorded, Row
        <3> HIDE DEF r, i, q, new, v, b, entry, cash
        <3>. QED  BY <2>1, <3>1, <3>2, <3>3, OwnRowSaved DEF r
    <2>. QED  BY <2>2, <2>3
<1>. QED  BY <1>3, <1>4

LEMMA RolloverSaved ==
    ASSUME InvestmentsInv, NEW u \in Users, phase[u] = "save", Finish(u), UNCHANGED balances,
           request[u].op = "rollover", rollover_investment(u, on[u], request[u])
    PROVE  InvestmentsInv'
<1> DEFINE r == on[u]
           i == seen[u]
           q == request[u]
           s == q.reference
           row == Successor(r, i, q)
           status == IF q.amount = i.principal THEN "ROLLED_OVER" ELSE "PARTIALLY_TERMINATED"
           reduced == Reduced(i, q.amount, status)
           old == [reduced EXCEPT !.rolled_to = s]
           new == [row EXCEPT !.expected = recompute_expected_interest(row)]
           taken == transaction("ROLLOVER", q.amount, q.amount, s, None)
           placed == transaction("PLACEMENT", q.amount, q.amount, r, None)
           cash == cash_transaction(i, "NON_CASH", q.amount, q.start)
<1>1. /\ r \in Reference /\ i \in InvestmentRow /\ q \in Requests /\ Accepted(q, i)
      /\ i = investment[r]
      /\ Agrees(i, versions[r], transactions[r], rebooked[r])
      /\ \A w \in Users \ {u} : phase[w] # "idle" => on[w] # r
    BY WhatIsHeld
<1>2. /\ i.status \in Outstanding \union {"MATURED"} /\ 0 < q.amount /\ q.amount <= i.principal
      /\ q.amount \in Int /\ q.rate \in Int /\ q.start \in Days /\ q.maturity \in Days /\ s \in Reference
    BY <1>1, RequestAssumption DEF Accepted
<1>3. investment[s].status = "NONE" /\ s # r
    BY <1>1, RowsHaveAStatus DEF rollover_investment, New
<1>4. investment[s] = NoRow /\ transactions[s] = <<>> /\ rebooked[s] \in Seq(Keys)
    <2>1. Agrees(investment[s], versions[s], transactions[s], rebooked[s])
        BY <1>2 DEF InvestmentsInv, HistoriesAgree
    <2>. QED  BY <1>3, <2>1, RowsHaveAStatus DEF Agrees, IsTyped, StartsInOrder, Unplaced
<1>5. row \in InvestmentRow /\ row.status = "ACTIVE" /\ row.principal = q.amount /\ row.original = q.amount
    <2> DEFINE active == "ACTIVE"
               received == 0
               amount == q.amount
               rate == q.rate
               start == q.start
               maturity == q.maturity
               next == [i EXCEPT !.principal = amount, !.original = amount, !.rate = rate, !.start = start,
                                 !.maturity = maturity, !.status = active, !.received = received,
                                 !.previous = r, !.rolled_to = None]
    <2>1. active \in InvestmentStatus /\ received \in Int
        BY DEF InvestmentStatus, INVESTMENT_STATUS_TRANSITIONS
    <2>2. row = next
        BY DEF Successor
    <2>3. amount \in Int /\ rate \in Int /\ start \in Days /\ maturity \in Days
        BY <1>2
    <2> HIDE DEF active, received, amount, rate, start, maturity, r, i
    <2>4. next \in InvestmentRow /\ next.status = active /\ next.principal = amount /\ next.original = amount
        BY <1>1, <2>1, <2>3 DEF InvestmentRow
    <2>. QED  BY <2>2, <2>4 DEF active, amount
<1>6. /\ new \in InvestmentRow /\ new.status = "ACTIVE" /\ new.principal = q.amount
      /\ Agrees(new, <<terms_snapshot(row)>>, <<>>, rebooked[s])
    <2> HIDE DEF row
    <2>1. /\ new \in InvestmentRow /\ new.status = row.status
          /\ Agrees(new, <<terms_snapshot(row)>>, <<>>, rebooked[s])
        BY <1>4, <1>5, CreationAgrees
    <2>2. new.principal = row.principal
        BY <1>5 DEF InvestmentRow
    <2>. QED  BY <1>5, <2>1, <2>2
<1> HIDE DEF row
<1>7. Agrees(new, <<terms_snapshot(row)>>, Append(<<>>, placed), rebooked[s])
    <2>1. new.status \notin Unplaced /\ r \in Reference \union {None}
        BY <1>1, <1>6 DEF Unplaced
    <2>2. placed = transaction("PLACEMENT", new.principal, new.principal, r, None)
        BY <1>6
    <2> HIDE DEF new, placed
    <2>. QED  BY <1>6, <2>1, <2>2, PlacementAgrees
<1>8. /\ taken \in Transaction /\ taken.type \in MovedOut \ {"MATURITY_SETTLEMENT"}
      /\ taken.principal = q.amount /\ taken.key = None
    <2>1. "ROLLOVER" \in TransactionType /\ "ROLLOVER" \in MovedOut \ {"MATURITY_SETTLEMENT"}
        BY DEF TransactionType, MovedOut
    <2> HIDE DEF q, s
    <2>. QED  BY <1>2, <2>1 DEF transaction, Transaction, Keys
<1>9. /\ status \in InvestmentStatus /\ status \notin Unplaced /\ i.status \notin Unplaced
    BY <1>2 DEF InvestmentStatus, INVESTMENT_STATUS_TRANSITIONS, Unplaced, Outstanding
<1>10. reduced \in InvestmentRow /\ Agrees(reduced, versions[r], Append(transactions[r], taken), rebooked[r])
    <2> HIDE DEF i, q, status, taken
    <2>. QED  BY <1>1, <1>2, <1>8, <1>9, ReductionAgrees
<1> HIDE DEF reduced
<1>11. old \in InvestmentRow /\ Agrees(old, versions[r], Append(transactions[r], taken), rebooked[r])
    <2>1. old \in InvestmentRow
        BY <1>2, <1>10 DEF InvestmentRow
    <2>. QED  BY <1>2, <1>10, <2>1, LinkAgrees
<1>12. cash \in Movement
    <2>1. q.start \in Int
        BY <1>2 DEF Days
    <2>. QED  BY <1>1, <1>2, <2>1, CashIsMovement
<1>13. /\ investment' = [investment EXCEPT ![s] = new, ![r] = old]
       /\ versions' = [versions EXCEPT ![s] = <<terms_snapshot(row)>>]
       /\ transactions' = [transactions EXCEPT ![r] = Append(@, taken), ![s] = Append(@, placed)]
       /\ rebooked' = rebooked
       /\ ledger' = Append(ledger, cash)
    BY DEF rollover_investment, New, With, Row, row, reduced
<1> HIDE DEF r, i, q, s, old, new, taken, placed, cash
<1>14. /\ investment'[s] = new /\ investment'[r] = old
       /\ versions'[s] = <<terms_snapshot(row)>> /\ versions'[r] = versions[r]
       /\ transactions'[s] = Append(<<>>, placed) /\ transactions'[r] = Append(transactions[r], taken)
    BY <1>1, <1>2, <1>3, <1>4, <1>13 DEF InvestmentsInv, HistoriesAgree
<1>15. \A x \in Reference \ {r, s} : /\ investment'[x] = investment[x] /\ versions'[x] = versions[x]
                                     /\ transactions'[x] = transactions[x]
    BY <1>13 DEF InvestmentsInv, HistoriesAgree
<1>16. \A x \in Reference : Agrees(investment'[x], versions'[x], transactions'[x], rebooked'[x])
    <2> SUFFICES ASSUME NEW x \in Reference
                 PROVE  Agrees(investment'[x], versions'[x], transactions'[x], rebooked'[x])
        OBVIOUS
    <2>1. CASE x = r
        BY <1>11, <1>13, <1>14, <2>1
    <2>2. CASE x = s
        BY <1>7, <1>13, <1>14, <2>2
    <2>3. CASE x \notin {r, s}
        BY <1>13, <1>15, <2>3 DEF InvestmentsInv, HistoriesAgree
    <2>. QED  BY <2>1, <2>2, <2>3
<1>17. HistoriesAgree'
    <2>1. \A x \in Reference : /\ investment'[x] \in InvestmentRow \union {NoRow}
                               /\ versions'[x] \in Seq(Terms) /\ transactions'[x] \in Seq(Transaction)
        BY <1>16 DEF Agrees, IsTyped
    <2>2. /\ investment' \in [Reference -> InvestmentRow \union {NoRow}]
          /\ versions' \in [Reference -> Seq(Terms)]
          /\ transactions' \in [Reference -> Seq(Transaction)]
          /\ rebooked' \in [Reference -> Seq(Keys)]
        BY <1>13, <2>1 DEF InvestmentsInv, HistoriesAgree
    <2>. QED  BY <1>16, <2>2 DEF HistoriesAgree
<1>18. LedgerIsCounted'
    BY <1>12, <1>13, MovementMade DEF InvestmentsInv
<1>19. HandlersHold'
    <2>1. \A w \in Users \ {u} : phase[w] # "idle" => on[w] \in Reference \ {r, s}
        <3> SUFFICES ASSUME NEW w \in Users \ {u}, phase[w] # "idle" PROVE on[w] \in Reference \ {r, s}
            OBVIOUS
        <3>1. on[w] \in Reference /\ on[w] # r /\ investment[on[w]] \in InvestmentRow
            BY <1>1, WhatIsHeld
        <3>. QED  BY <1>3, <3>1, RowsHaveAStatus
    <2>2. \A w \in Users \ {u} : phase[w] # "idle" => investment'[on[w]] = investment[on[w]]
        BY <1>15, <2>1
    <2>. QED  BY <2>2, HandlerFinished DEF InvestmentsInv
<1>. QED  BY <1>17, <1>18, <1>19 DEF InvestmentsInv
-----------------------------------------------------------------------------
(* Every step keeps the invariant                                          *)

LEMMA CreationKeeps ==
    ASSUME InvestmentsInv, NEW r \in Reference, create_investment(r)
    PROVE  InvestmentsInv'
<1> DEFINE row == created[r]
           new == [row EXCEPT !.expected = recompute_expected_interest(row)]
           v == <<terms_snapshot(row)>>
<1>1. row \in InvestmentRow /\ row.original = row.principal /\ rebooked[r] \in Seq(Keys)
    BY RowAssumption DEF InvestmentsInv, HistoriesAgree
<1>2. Agrees(new, v, <<>>, rebooked[r])
    <2> HIDE DEF row
    <2>. QED  BY <1>1, CreationAgrees
<1>3. investment[r].status = "NONE" /\ Agrees(investment[r], versions[r], transactions[r], rebooked[r])
    BY DEF create_investment, New, InvestmentsInv, HistoriesAgree
<1>4. transactions[r] = <<>> /\ investment[r] \notin InvestmentRow
    BY <1>3, RowsHaveAStatus DEF Agrees, StartsInOrder, Unplaced
<1>5. /\ investment' = [investment EXCEPT ![r] = new]
      /\ versions' = [versions EXCEPT ![r] = v]
      /\ transactions' = [transactions EXCEPT ![r] = <<>>]
      /\ rebooked' = [rebooked EXCEPT ![r] = rebooked[r]]
      /\ UNCHANGED <<ledger, balances, handlers>>
    BY <1>4, WrittenAsItWas DEF create_investment, New, With, InvestmentsInv
<1> HIDE DEF row, new, v
<1>6. HistoriesAgree'
    BY <1>2, <1>5, OneRowWritten DEF InvestmentsInv
<1>7. LedgerIsCounted'
    BY <1>5 DEF InvestmentsInv, LedgerIsCounted
<1>8. HandlersHold'
    <2>1. \A x \in Reference \ {r} : investment'[x] = investment[x]
        BY <1>5 DEF InvestmentsInv, HistoriesAgree
    <2>2. \A w \in Users : phase[w] # "idle" => on[w] \in Reference \ {r}
        <3> SUFFICES ASSUME NEW w \in Users, phase[w] # "idle" PROVE on[w] \in Reference \ {r}
            OBVIOUS
        <3>1. on[w] \in Reference /\ investment[on[w]] \in InvestmentRow
            BY WhatIsHeld
        <3>. QED  BY <1>4, <3>1
    <2>3. \A w \in Users : phase[w] # "idle" => investment'[on[w]] = investment[on[w]]
        BY <2>1, <2>2
    <2>. QED  BY <1>5, <2>3, HandlersUnchanged DEF InvestmentsInv
<1>. QED  BY <1>6, <1>7, <1>8 DEF InvestmentsInv

LEMMA ReportKeeps ==
    ASSUME InvestmentsInv, NEW a \in Account, NEW date \in 1..Today, import_balance(a, date)
    PROVE  InvestmentsInv'
<1>1. UNCHANGED <<investment, versions, transactions, rebooked, ledger, handlers>>
    BY DEF import_balance
<1>2. LedgerIsCounted'
    <2>1. ledger \in Seq(Movement) /\ BalancesAreCounted(ledger, balances)
        BY DEF InvestmentsInv, LedgerIsCounted
    <2>2. balances' = balances \union {Report(ledger, a, date)}
        BY DEF import_balance, Report, Net, NetOf
    <2>3. BalancesAreCounted(ledger, balances')
        BY <2>1, <2>2, ReportKeepsBalances
    <2>. QED  BY <1>1, <2>1, <2>3 DEF LedgerIsCounted
<1>3. HistoriesAgree'
    BY <1>1, NothingWritten DEF InvestmentsInv
<1>4. HandlersHold'
    BY <1>1, HandlersUnchanged DEF InvestmentsInv
<1>. QED  BY <1>2, <1>3, <1>4 DEF InvestmentsInv

LEMMA LoadKeeps ==
    ASSUME InvestmentsInv, NEW u \in Users, NEW r \in Reference, NEW q \in Requests,
           load_investment_for_update(u, r, q)
    PROVE  InvestmentsInv'
<1> DEFINE next == IF Spends(q, investment[r]) > 0 THEN "cash" ELSE "save"
<1>1. /\ next \in {"cash", "save"} /\ Handle(u, next, r, q, investment[r])
      /\ Accepted(q, investment[r]) /\ investment[r].status # "NONE"
      /\ \A v \in Users : on[v] # r
      /\ UNCHANGED <<investment, versions, transactions, rebooked, ledger, balances>>
    BY DEF load_investment_for_update, Locked
<1> HIDE DEF next
<1>2. investment[r] \in InvestmentRow
    BY <1>1 DEF InvestmentsInv, HistoriesAgree, NoRow
<1>3. HandlersHold'
    BY <1>1, <1>2, HandlerMoved DEF InvestmentsInv
<1>4. HistoriesAgree' /\ LedgerIsCounted'
    BY <1>1, NothingWritten DEF InvestmentsInv, LedgerIsCounted
<1>. QED  BY <1>3, <1>4 DEF InvestmentsInv

LEMMA CheckKeeps ==
    ASSUME InvestmentsInv, NEW u \in Users, CheckCash(u)
    PROVE  InvestmentsInv'
<1>1. /\ phase[u] # "idle" /\ Handle(u, "save", on[u], request[u], seen[u])
      /\ UNCHANGED <<investment, versions, transactions, rebooked, ledger, balances>>
    BY DEF CheckCash
<1>2. /\ on[u] \in Reference /\ request[u] \in Requests
      /\ seen[u] = investment[on[u]] /\ seen[u] \in InvestmentRow
      /\ Accepted(request[u], seen[u])
      /\ \A v \in Users \ {u} : phase[v] # "idle" => on[v] # on[u]
    BY <1>1, WhatIsHeld
<1>3. HandlersHold'
    BY <1>1, <1>2, HandlerMoved DEF InvestmentsInv
<1>4. HistoriesAgree' /\ LedgerIsCounted'
    BY <1>1, NothingWritten DEF InvestmentsInv, LedgerIsCounted
<1>. QED  BY <1>3, <1>4 DEF InvestmentsInv

LEMMA GivingUpKeeps ==
    ASSUME InvestmentsInv, NEW u \in Users, GiveUp(u)
    PROVE  InvestmentsInv'
<1>1. Finish(u) /\ UNCHANGED <<investment, versions, transactions, rebooked, ledger, balances>>
    BY DEF GiveUp
<1>2. HandlersHold'
    BY <1>1, HandlerFinished DEF InvestmentsInv
<1>3. HistoriesAgree' /\ LedgerIsCounted'
    BY <1>1, NothingWritten DEF InvestmentsInv, LedgerIsCounted
<1>. QED  BY <1>2, <1>3 DEF InvestmentsInv

LEMMA SavingKeeps ==
    ASSUME InvestmentsInv, NEW u \in Users, Save(u)
    PROVE  InvestmentsInv'
<1>1. phase[u] = "save" /\ Finish(u) /\ UNCHANGED balances
    BY DEF Save
<1>2. request[u].op \in {"status", "update", "place", "terminate", "settle", "rollover", "rebook"}
    BY <1>1, WhatIsHeld, RequestAssumption
<1>3. CASE request[u].op = "status"
    <2>1. transition_investment_status(u, on[u], request[u])
        BY <1>3 DEF Save
    <2>. QED  BY <1>1, <1>3, <2>1, StatusSaved
<1>4. CASE request[u].op = "update"
    <2>1. update_investment(u, on[u], request[u])
        BY <1>4 DEF Save
    <2>. QED  BY <1>1, <1>4, <2>1, UpdateSaved
<1>5. CASE request[u].op = "place"
    <2>1. place_investment(u, on[u], request[u])
        BY <1>5 DEF Save
    <2>. QED  BY <1>1, <1>5, <2>1, PlacementSaved
<1>6. CASE request[u].op = "terminate"
    <2>1. terminate_investment(u, on[u], request[u])
        BY <1>6 DEF Save
    <2>. QED  BY <1>1, <1>6, <2>1, TerminationSaved
<1>7. CASE request[u].op = "settle"
    <2>1. settle_maturity(u, on[u], request[u])
        BY <1>7 DEF Save
    <2>. QED  BY <1>1, <1>7, <2>1, SettlementSaved
<1>8. CASE request[u].op = "rollover"
    <2>1. rollover_investment(u, on[u], request[u])
        BY <1>8 DEF Save
    <2>. QED  BY <1>1, <1>8, <2>1, RolloverSaved
<1>9. CASE request[u].op = "rebook"
    <2>1. rebook_investment(u, on[u], request[u])
        BY <1>9 DEF Save
    <2>. QED  BY <1>1, <1>9, <2>1, RebookingSaved
<1>. QED  BY <1>2, <1>3, <1>4, <1>5, <1>6, <1>7, <1>8, <1>9

LEMMA InvestmentsNext == InvestmentsInv /\ [Next]_vars => InvestmentsInv'
<1> SUFFICES ASSUME InvestmentsInv, [Next]_vars PROVE InvestmentsInv'
    OBVIOUS
<1>1. CASE \E r \in Reference : create_investment(r)
    BY <1>1, CreationKeeps
<1>2. CASE \E a \in Account, date \in 1..Today : import_balance(a, date)
    BY <1>2, ReportKeeps
<1>3. ASSUME NEW u \in Users,
             \/ \E r \in Reference, q \in Requests : load_investment_for_update(u, r, q)
             \/ CheckCash(u) \/ Save(u) \/ GiveUp(u)
      PROVE  InvestmentsInv'
    <2>1. CASE \E r \in Reference, q \in Requests : load_investment_for_update(u, r, q)
        BY <2>1, LoadKeeps
    <2>2. CASE CheckCash(u)
        BY <2>2, CheckKeeps
    <2>3. CASE Save(u)
        BY <2>3, SavingKeeps
    <2>4. CASE GiveUp(u)
        BY <2>4, GivingUpKeeps
    <2>. QED  BY <1>3, <2>1, <2>2, <2>3, <2>4
<1>4. CASE UNCHANGED vars
    <2>1. HistoriesAgree' /\ LedgerIsCounted'
        BY <1>4, NothingWritten DEF vars, InvestmentsInv, LedgerIsCounted
    <2>2. HandlersHold'
        BY <1>4, HandlersUnchanged DEF vars, handlers, InvestmentsInv
    <2>. QED  BY <2>1, <2>2 DEF InvestmentsInv
<1>. QED  BY <1>1, <1>2, <1>3, <1>4 DEF Next

-----------------------------------------------------------------------------
(* Theorems                                                                *)

\* Whatever the users ask for, and in whatever order the locks are taken and
\* the handlers commit or roll back: each row agrees with its history, each
\* reported balance with the ledger, and a handler with the row it locked.
THEOREM InvestmentsInvariance == Spec => []InvestmentsInv
BY InvestmentsInit, InvestmentsNext, PTL DEF Spec

LEMMA TypesHold == InvestmentsInv => TypeOK
<1> SUFFICES ASSUME InvestmentsInv PROVE TypeOK
    OBVIOUS
<1>1. ASSUME NEW r \in Reference
      PROVE  /\ investment[r] \in InvestmentRow \union {NoRow}
             /\ investment[r].status = "NONE" <=> versions[r] = <<>>
    <2>1. Agrees(investment[r], versions[r], transactions[r], rebooked[r])
        BY DEF InvestmentsInv, HistoriesAgree
    <2>. QED  BY <2>1 DEF Agrees, IsTyped, StartsInOrder
<1>2. \A n \in DOMAIN ledger : ledger[n].direction \in {"INFLOW", "OUTFLOW", "NON_CASH"}
    BY MovementsAreTyped DEF InvestmentsInv, LedgerIsCounted
<1>3. phase \in [Users -> {"idle", "cash", "save"}]
    BY DEF InvestmentsInv, HandlersHold
<1>4. \A u \in Users : phase[u] # "idle" => on[u] \in Reference /\ seen[u] = investment[on[u]]
    BY WhatIsHeld
<1>. QED  BY <1>1, <1>2, <1>3, <1>4 DEF TypeOK

\* Every row has its columns and, from its creation on, a version; a handler
\* that holds the lock of a row has the committed row before it.
THEOREM TypeCorrect == Spec => []TypeOK
BY InvestmentsInvariance, TypesHold, PTL

LEMMA PrincipalIsInHistory == InvestmentsInv => PrincipalIsAccounted
<1> SUFFICES ASSUME InvestmentsInv, NEW r \in Reference
             PROVE  /\ investment[r].original = investment[r].principal + Principal(r, MovedOut)
                    /\ Has(r, "PLACEMENT") => investment[r].original = Principal(r, {"PLACEMENT", "REBOOKING"})
    BY DEF PrincipalIsAccounted
<1>1. PrincipalAddsUp(investment[r], transactions[r])
    BY DEF InvestmentsInv, HistoriesAgree, Agrees
<1>. QED  BY <1>1 DEF PrincipalAddsUp, Principal, Has, Holds

\* No two requests pay out the same principal, however terminations,
\* settlements, rollovers and rebookings of an investment interleave: what was
\* put in is what is left and what its transactions took out.
THEOREM PrincipalIsAccountedHolds == Spec => []PrincipalIsAccounted
BY InvestmentsInvariance, PrincipalIsInHistory, PTL

LEMMA LatestVersionAgrees == InvestmentsInv => TermsAreCurrent
<1> SUFFICES ASSUME InvestmentsInv, NEW r \in Reference, investment[r].status # "NONE"
             PROVE  /\ <<Last(versions[r]).rate, Last(versions[r]).maturity, Last(versions[r]).original>> =
                           <<investment[r].rate, investment[r].maturity, investment[r].original>>
                    /\ \/ investment[r].expected = recompute_expected_interest(investment[r])
                       \/ Has(r, "MATURITY_SETTLEMENT")
    BY DEF TermsAreCurrent
<1>1. /\ HasLatestTerms(investment[r], versions[r], transactions[r])
      /\ StartsInOrder(investment[r], versions[r], transactions[r])
    BY DEF InvestmentsInv, HistoriesAgree, Agrees
<1>2. versions[r] # <<>>
    BY <1>1 DEF StartsInOrder
<1>. QED  BY <1>1, <1>2 DEF HasLatestTerms, Has, Holds

\* A row has the terms of its latest version, and the interest projected from
\* the principal and terms it has now until it is settled.
THEOREM TermsAreCurrentHolds == Spec => []TermsAreCurrent
BY InvestmentsInvariance, LatestVersionAgrees, PTL

LEMMA MovementsAreCountedOnce == InvestmentsInv => CashIsCountedOnce
<1> SUFFICES ASSUME InvestmentsInv, NEW a \in Account
             PROVE  LET anchor == CHOOSE b \in latest_balances(balances, {a}, Today) : TRUE
                        intime == {n \in DOMAIN ledger : n <= anchor.known \/ ledger[n].date > anchor.date}
                    IN  available_cash(a) = Opening[a] + Net(a, intime)
    BY DEF CashIsCountedOnce
<1> DEFINE anchor == CHOOSE b \in latest_balances(balances, {a}, Today) : TRUE
           intime == {n \in DOMAIN ledger : n <= anchor.known \/ ledger[n].date > anchor.date}
<1>1. calculate_operational_available_cash(balances, ledger, a, Today) = Opening[a] + NetOf(ledger, a, intime)
    BY AvailableCashIsNet DEF InvestmentsInv, LedgerIsCounted
<1>2. Net(a, intime) = NetOf(ledger, a, intime)
    BY DEF Net, NetOf
<1>. QED  BY <1>1, <1>2 DEF available_cash

\* The cash a placement is checked against counts every movement that was
\* entered in time once, in the latest reported balance or beside it.
THEOREM CashIsCountedOnceHolds == Spec => []CashIsCountedOnce
BY InvestmentsInvariance, MovementsAreCountedOnce, PTL

LEMMA KeysAreFound == InvestmentsInv => RetriesAreRecognized
<1> SUFFICES ASSUME InvestmentsInv, NEW u \in Users, phase[u] = "save", request[u].op = "rebook"
             PROVE  UniqueKey(on[u], request[u].key) \/ AlreadyRebooked(on[u], request[u].key)
    BY DEF RetriesAreRecognized
<1>1. KeysAreRecorded(transactions[on[u]], rebooked[on[u]])
    BY WhatIsHeld DEF Agrees
<1>. QED  BY <1>1 DEF KeysAreRecorded, UniqueKey, AlreadyRebooked

\* The unique indexes never refuse a rebooking whose key has been applied:
\* every key of a transaction is the key of an event, where it is looked for.
THEOREM RetriesAreRecognizedHolds == Spec => []RetriesAreRecognized
BY InvestmentsInvariance, KeysAreFound, PTL
=============================================================================
