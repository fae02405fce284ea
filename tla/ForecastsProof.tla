---------------------------- MODULE ForecastsProof ----------------------------
(***************************************************************************)
(* Theorems about Forecasts, whatever tables the calculations read and     *)
(* whatever users enter.  The lemmas follow a calculation from the rows to *)
(* what it stores: sums over lines and balances that run through weeks;    *)
(* the calendar, the periods of investments and the occurrences of flows;  *)
(* the lines, what scenarios make of them and what is stored of them; the  *)
(* opening balances.  So every output is Whole when it is written, and no  *)
(* request spoils it.  What the endpoints read from whole outputs agrees.  *)
(***************************************************************************)
EXTENDS Forecasts, FiniteSums, TLAPS

-----------------------------------------------------------------------------
(* Finite sets                                                             *)

LEMMA ImageIsFinite ==
    ASSUME NEW S, IsFiniteSet(S), NEW g
    PROVE  IsFiniteSet({g[x] : x \in S})
<1> DEFINE f == [x \in S |-> g[x]]
<1>1. f \in Surjection(S, {g[x] : x \in S})
    BY DEF Surjection
<1>. QED  BY <1>1, FS_Surjection

\* The last of some days.
LEMMA LatestExists ==
    ASSUME NEW S, IsFiniteSet(S), NEW n, \A x \in S : n[x] \in Int
    PROVE  S # {} => \E x \in S : \A y \in S : n[y] <= n[x]
<1> DEFINE T == {s \in SUBSET S : s # {} => \E x \in s : \A y \in s : n[y] <= n[x]}
<1>1. {} \in T
    OBVIOUS
<1>2. ASSUME NEW s \in T, NEW c \in S \ s
      PROVE  s \union {c} \in T
    <2> SUFFICES \E x \in s \union {c} : \A y \in s \union {c} : n[y] <= n[x]
        OBVIOUS
    <2>1. CASE s = {}
        BY <2>1
    <2>2. CASE s # {}
        <3>1. PICK x \in s : \A y \in s : n[y] <= n[x]
            BY <2>2
        <3>2. CASE n[c] <= n[x]
            BY <3>1, <3>2
        <3>3. CASE ~(n[c] <= n[x])
            BY <3>1, <3>3
        <3>. QED  BY <3>2, <3>3
    <2>. QED  BY <2>1, <2>2
<1>3. S \in T
    <2> HIDE DEF T
    <2>1. \A s \in T : \A c \in S \ s : s \union {c} \in T
        BY <1>2
    <2>. QED  BY <1>1, <2>1, SubsetInduction
<1>. QED  BY <1>3

-----------------------------------------------------------------------------
(* Rates                                                                   *)

\* A rate has a positive denominator.
Rate == Int \X (Nat \ {0})

LEMMA LatestRateIsTyped ==
    ASSUME NEW from, NEW to, NEW as_of
    PROVE  latest_rate(data.rates, from, to, as_of) \in Rate \union {None}
<1> DEFINE usable == {r \in data.rates : r.from = from /\ r.to = to /\ r.date <= as_of /\ r.is_current}
           n == [r \in usable |-> r.date]
<1>1. IsFiniteSet(usable) /\ \A r \in usable : r.date \in Int /\ r.rate \in Rate
    BY TablesAssumption, FS_Subset DEF Rate
<1>2. CASE usable = {}
    BY <1>2 DEF latest_rate
<1>3. CASE usable # {}
    <2>1. \E r \in usable : \A s \in usable : n[s] <= n[r]
        <3>1. \A r \in usable : n[r] \in Int
            BY <1>1
        <3> HIDE DEF usable, n
        <3>. QED  BY <1>1, <1>3, <3>1, LatestExists
    <2>2. \E r \in usable : \A s \in usable : s.date <= r.date
        BY <2>1
    <2>3. (CHOOSE r \in usable : \A s \in usable : s.date <= r.date) \in usable
        <3> HIDE DEF usable
        <3>. QED  BY <2>2
    <2>4. latest_rate(data.rates, from, to, as_of) = (CHOOSE r \in usable : \A s \in usable : s.date <= r.date).rate
        BY <1>3 DEF latest_rate
    <2> HIDE DEF usable
    <2>. QED  BY <1>1, <2>3, <2>4
<1>. QED  BY <1>2, <1>3

LEMMA RateIsTyped ==
    ASSUME NEW from, NEW to, NEW as_of
    PROVE  get_conversion_rate(data.rates, from, to, as_of) \in Rate \union {None}
<1> DEFINE rate == latest_rate(data.rates, from, to, as_of)
           inverse == latest_rate(data.rates, to, from, as_of)
<1>1. rate \in Rate \union {None} /\ inverse \in Rate \union {None}
    BY LatestRateIsTyped
<1>2. get_conversion_rate(data.rates, from, to, as_of) =
          IF from = to THEN <<1, 1>>
          ELSE IF rate # None THEN rate
          ELSE IF inverse = None \/ inverse[1] = 0 THEN None
          ELSE IF inverse[1] > 0 THEN <<inverse[2], inverse[1]>> ELSE <<-inverse[2], -inverse[1]>>
    BY DEF get_conversion_rate
<1> HIDE DEF rate, inverse
<1>3. inverse # None /\ inverse[1] # 0 =>
          (IF inverse[1] > 0 THEN <<inverse[2], inverse[1]>> ELSE <<-inverse[2], -inverse[1]>>) \in Rate
    BY <1>1 DEF Rate
<1>4. <<1, 1>> \in Rate
    BY DEF Rate
<1>. QED  BY <1>1, <1>2, <1>3, <1>4

-----------------------------------------------------------------------------
(* Sums over lines                                                         *)

\* What a line adds to a balance: nothing if it is NON_CASH.
Moves(direction, amount) ==
    CASE direction \in {"INFLOW", "TRANSFER"} -> amount
      [] direction = "OUTFLOW" -> -amount
      [] OTHER -> 0

LEMMA MovesByDirection ==
    ASSUME NEW direction, NEW amount \in Int
    PROVE  /\ direction \in {"INFLOW", "TRANSFER"} => Moves(direction, amount) = amount
           /\ direction = "OUTFLOW" => Moves(direction, amount) = -amount
           /\ direction \notin {"INFLOW", "TRANSFER", "OUTFLOW"} => Moves(direction, amount) = 0
           /\ Moves(direction, amount) \in Int
BY DEF Moves

\* What some lines bring, take and transfer is, in all, the sum of what they
\* move.
LEMMA NetOfAmounts ==
    ASSUME NEW L, IsFiniteSet(L), NEW a, \A l \in L : a[l] \in Int,
           NEW m, \A l \in L : m[l] = Moves(l.direction, a[l])
    PROVE  SumFunctionOnSet(m, L) = SumFunctionOnSet(a, {l \in L : l.direction = "INFLOW"})
                                    - SumFunctionOnSet(a, {l \in L : l.direction = "OUTFLOW"})
                                    + SumFunctionOnSet(a, {l \in L : l.direction = "TRANSFER"})
<1> DEFINE In == {l \in L : l.direction = "INFLOW"}
           Out == {l \in L : l.direction = "OUTFLOW"}
           Across == {l \in L : l.direction = "TRANSFER"}
           Rest == {l \in L : l.direction \notin {"INFLOW", "OUTFLOW", "TRANSFER"}}
<1>1. IsFiniteSet(In) /\ IsFiniteSet(Out) /\ IsFiniteSet(Across) /\ IsFiniteSet(Rest)
    BY FS_Subset
<1>2. \A l \in L : m[l] \in Int
    BY MovesByDirection
<1>3. SumFunctionOnSet(m, In) = SumFunctionOnSet(a, In)
    <2>1. \A l \in In : m[l] = a[l]
        BY MovesByDirection
    <2> HIDE DEF In
    <2>. QED  BY <1>1, <2>1, SumOfTheSame
<1>4. SumFunctionOnSet(m, Across) = SumFunctionOnSet(a, Across)
    <2>1. \A l \in Across : m[l] = a[l]
        BY MovesByDirection
    <2> HIDE DEF Across
    <2>. QED  BY <1>1, <2>1, SumOfTheSame
<1>5. SumFunctionOnSet(m, Out) = -SumFunctionOnSet(a, Out)
    <2>1. \A l \in Out : a[l] \in Int /\ m[l] = -a[l]
        BY MovesByDirection
    <2> HIDE DEF Out
    <2>. QED  BY <1>1, <2>1, SumOfOpposites
<1>6. SumFunctionOnSet(m, Rest) = 0
    <2>1. \A l \in Rest : m[l] = 0
        BY MovesByDirection
    <2> HIDE DEF Rest
    <2>. QED  BY <1>1, <2>1, SumOfZeros
<1>7. L = ((In \union Out) \union Across) \union Rest
    OBVIOUS
<1>8. /\ In \intersect Out = {} /\ (In \union Out) \intersect Across = {}
      /\ ((In \union Out) \union Across) \intersect Rest = {}
    OBVIOUS
<1>9. In \subseteq L /\ Out \subseteq L /\ Across \subseteq L /\ Rest \subseteq L
    OBVIOUS
<1> HIDE DEF In, Out, Across, Rest
<1>10. SumFunctionOnSet(m, In \union Out) = SumFunctionOnSet(m, In) + SumFunctionOnSet(m, Out)
    BY <1>1, <1>2, <1>8, <1>9, SumOfUnion
<1>11. SumFunctionOnSet(m, (In \union Out) \union Across) = SumFunctionOnSet(m, In \union Out) + SumFunctionOnSet(m, Across)
    BY <1>1, <1>2, <1>8, <1>9, FS_Union, SumOfUnion
<1>12. SumFunctionOnSet(m, L) = SumFunctionOnSet(m, (In \union Out) \union Across) + SumFunctionOnSet(m, Rest)
    <2>1. IsFiniteSet((In \union Out) \union Across)
        BY <1>1, FS_Union
    <2>2. \A l \in ((In \union Out) \union Across) \union Rest : m[l] \in Int
        BY <1>2, <1>7
    <2>. QED  BY <1>1, <1>7, <1>8, <2>1, <2>2, SumOfUnion
<1>13. /\ SumFunctionOnSet(a, In) \in Int /\ SumFunctionOnSet(a, Out) \in Int
       /\ SumFunctionOnSet(a, Across) \in Int
    BY <1>1, <1>9, SumOfIntegers
<1>14. SumFunctionOnSet(m, L) = SumFunctionOnSet(a, In) - SumFunctionOnSet(a, Out) + SumFunctionOnSet(a, Across)
    BY <1>3, <1>4, <1>5, <1>6, <1>10, <1>11, <1>12, <1>13
<1>. QED  BY <1>14 DEF In, Out, Across

\* The same in the terms of the engine, in the reporting currency ...
LEMMA NetInReporting ==
    ASSUME NEW L, IsFiniteSet(L), \A l \in L : l.reporting_amount \in Int,
           NEW m, \A l \in L : m[l] = Moves(l.direction, l.reporting_amount)
    PROVE  net(flows(L, Reporting)) = SumFunctionOnSet(m, L) /\ net(flows(L, Reporting)) \in Int
<1> DEFINE a == [l \in L |-> l.reporting_amount]
           Of(d) == {l \in L : l.direction = d}
<1>1. \A d : SumOver(L, d, Reporting) = SumFunctionOnSet(a, Of(d))
    <2> TAKE d
    <2>1. SumOver(L, d, Reporting) = SumFunctionOnSet([l \in Of(d) |-> l.reporting_amount], Of(d))
        <3>1. SumOver(L, d, Reporting) = MapThenSumSet(Reporting, Of(d))
            BY DEF SumOver
        <3> HIDE DEF Of
        <3>2. MapThenSumSet(Reporting, Of(d)) = SumFunctionOnSet([l \in Of(d) |-> l.reporting_amount], Of(d))
            BY Zenon DEF Reporting, MapThenSumSet, SumFunctionOnSet, FoldFunctionOnSet, MapThenFoldSet
        <3>. QED  BY <3>1, <3>2, Zenon
    <2>2. IsFiniteSet(Of(d)) /\ \A l \in Of(d) : a[l] = [k \in Of(d) |-> k.reporting_amount][l]
        BY FS_Subset
    <2> HIDE DEF Of, a
    <2>3. SumFunctionOnSet([l \in Of(d) |-> l.reporting_amount], Of(d)) = SumFunctionOnSet(a, Of(d))
        BY <2>2, SumOfTheSame
    <2>. QED  BY <2>1, <2>3
<1>2. net(flows(L, Reporting)) = SumFunctionOnSet(a, Of("INFLOW")) - SumFunctionOnSet(a, Of("OUTFLOW"))
                                 + SumFunctionOnSet(a, Of("TRANSFER"))
    <2> HIDE DEF Of, a
    <2>. QED  BY <1>1 DEF net, flows
<1>3. \A l \in L : a[l] \in Int /\ m[l] = Moves(l.direction, a[l])
    OBVIOUS
<1>4. SumFunctionOnSet(m, L) = SumFunctionOnSet(a, Of("INFLOW")) - SumFunctionOnSet(a, Of("OUTFLOW"))
                               + SumFunctionOnSet(a, Of("TRANSFER"))
    <2> HIDE DEF a
    <2>. QED  BY <1>3, NetOfAmounts
<1>5. SumFunctionOnSet(m, L) \in Int
    BY MovesByDirection, SumOfIntegers
<1>. QED  BY <1>2, <1>4, <1>5

\* ... and in that of the lines.
LEMMA NetInNative ==
    ASSUME NEW L, IsFiniteSet(L), \A l \in L : l.adjusted_amount \in Int,
           NEW m, \A l \in L : m[l] = Moves(l.direction, l.adjusted_amount)
    PROVE  net(flows(L, Native)) = SumFunctionOnSet(m, L) /\ net(flows(L, Native)) \in Int
<1> DEFINE a == [l \in L |-> l.adjusted_amount]
           Of(d) == {l \in L : l.direction = d}
<1>1. \A d : SumOver(L, d, Native) = SumFunctionOnSet(a, Of(d))
    <2> TAKE d
    <2>1. SumOver(L, d, Native) = SumFunctionOnSet([l \in Of(d) |-> l.adjusted_amount], Of(d))
        <3>1. SumOver(L, d, Native) = MapThenSumSet(Native, Of(d))
            BY DEF SumOver
        <3> HIDE DEF Of
        <3>2. MapThenSumSet(Native, Of(d)) = SumFunctionOnSet([l \in Of(d) |-> l.adjusted_amount], Of(d))
            BY Zenon DEF Native, MapThenSumSet, SumFunctionOnSet, FoldFunctionOnSet, MapThenFoldSet
        <3>. QED  BY <3>1, <3>2, Zenon
    <2>2. IsFiniteSet(Of(d)) /\ \A l \in Of(d) : a[l] = [k \in Of(d) |-> k.adjusted_amount][l]
        BY FS_Subset
    <2> HIDE DEF Of, a
    <2>3. SumFunctionOnSet([l \in Of(d) |-> l.adjusted_amount], Of(d)) = SumFunctionOnSet(a, Of(d))
        BY <2>2, SumOfTheSame
    <2>. QED  BY <2>1, <2>3
<1>2. net(flows(L, Native)) = SumFunctionOnSet(a, Of("INFLOW")) - SumFunctionOnSet(a, Of("OUTFLOW"))
                              + SumFunctionOnSet(a, Of("TRANSFER"))
    <2> HIDE DEF Of, a
    <2>. QED  BY <1>1 DEF net, flows
<1>3. \A l \in L : a[l] \in Int /\ m[l] = Moves(l.direction, a[l])
    OBVIOUS
<1>4. SumFunctionOnSet(m, L) = SumFunctionOnSet(a, Of("INFLOW")) - SumFunctionOnSet(a, Of("OUTFLOW"))
                               + SumFunctionOnSet(a, Of("TRANSFER"))
    <2> HIDE DEF a
    <2>. QED  BY <1>3, NetOfAmounts
<1>5. SumFunctionOnSet(m, L) \in Int
    BY MovesByDirection, SumOfIntegers
<1>. QED  BY <1>2, <1>4, <1>5

-----------------------------------------------------------------------------
(* Balances that run through the weeks                                     *)

\* A balance that runs through the weeks 1..H.
RunsFrom(c, H, opening, step) ==
    /\ c = [w \in 0..H |-> c[w]] /\ c[0] = opening
    /\ \A w \in 1..H : c[w] = c[w - 1] + step[w]

LEMMA BalanceExists ==
    ASSUME NEW H \in Nat, NEW opening \in Int, NEW step, \A w \in 1..H : step[w] \in Int
    PROVE  \E c : RunsFrom(c, H, opening, step)
<1> DEFINE h == [p \in Nat \X Int |-> p[2] + (IF p[1] + 1 \in 1..H THEN step[p[1] + 1] ELSE 0)]
<1>1. h \in [Nat \X Int -> Int]
    OBVIOUS
<1>2. PICK g \in [Nat -> Int] : g[0] = opening /\ \A n \in Nat : g[n + 1] = h[<<n, g[n]>>]
    <2> HIDE DEF h
    <2>1. \E g \in [Nat -> Int] : Steps(g, opening, h)
        BY <1>1, NaturalRecursion
    <2>. QED  BY <2>1 DEF Steps
<1> DEFINE c == [w \in 0..H |-> g[w]]
<1>3. c = [w \in 0..H |-> c[w]]
    OBVIOUS
<1>4. ASSUME NEW w \in 1..H
      PROVE  c[w] = c[w - 1] + step[w]
    <2>1. w - 1 \in Nat /\ w - 1 \in 0..H /\ (w - 1) + 1 = w /\ w \in 0..H
        OBVIOUS
    <2>2. g[w] = h[<<w - 1, g[w - 1]>>]
        <3> HIDE DEF h
        <3>. QED  BY <1>2, <2>1
    <2>3. h[<<w - 1, g[w - 1]>>] = g[w - 1] + step[w]
        BY <1>2, <2>1
    <2>4. c[w] = g[w] /\ c[w - 1] = g[w - 1]
        BY <2>1
    <2> HIDE DEF c, h
    <2>. QED  BY <2>2, <2>3, <2>4
<1>5. c[0] = opening
    BY <1>2
<1> HIDE DEF c
<1>. QED  BY <1>3, <1>4, <1>5 DEF RunsFrom

\* It stays an integer, and moves by the sum of its steps.
LEMMA BalanceMoves ==
    ASSUME NEW H \in Nat, NEW c, c[0] \in Int, NEW step, \A w \in 1..H : step[w] \in Int /\ c[w] = c[w - 1] + step[w]
    PROVE  \A w \in 0..H : c[w] \in Int /\ c[w] = c[0] + SumFunctionOnSet(step, 1..w)
<1> DEFINE P == {n \in Nat : n <= H => c[n] \in Int /\ c[n] = c[0] + SumFunctionOnSet(step, 1..n)}
<1>1. 0 \in P
    <2>1. 1..0 = {}
        OBVIOUS
    <2>. QED  BY <2>1, SumOfNothing
<1>2. ASSUME NEW n \in Nat, n \in P
      PROVE  n + 1 \in P
    <2> SUFFICES ASSUME n + 1 <= H
                 PROVE  c[n + 1] \in Int /\ c[n + 1] = c[0] + SumFunctionOnSet(step, 1..n + 1)
        OBVIOUS
    <2>1. c[n] \in Int /\ c[n] = c[0] + SumFunctionOnSet(step, 1..n)
        BY <1>2
    <2>2. n + 1 \in 1..H /\ (n + 1) - 1 = n
        OBVIOUS
    <2>3. step[n + 1] \in Int /\ c[n + 1] = c[n] + step[n + 1]
        BY <2>2
    <2>4. SumFunctionOnSet(step, 1..n + 1) = step[n + 1] + SumFunctionOnSet(step, 1..n)
        <3>1. n + 1 \notin 1..n /\ 1..n + 1 = (1..n) \union {n + 1}
            OBVIOUS
        <3>2. \A w \in (1..n) \union {n + 1} : step[w] \in Int
            OBVIOUS
        <3>3. IsFiniteSet(1..n)
            BY FS_Interval
        <3>. QED  BY <3>1, <3>2, <3>3, SumWith
    <2>5. SumFunctionOnSet(step, 1..n) \in Int
        <3>1. \A w \in 1..n : step[w] \in Int
            OBVIOUS
        <3>2. IsFiniteSet(1..n)
            BY FS_Interval
        <3>. QED  BY <3>1, <3>2, SumOfIntegers
    <2>. QED  BY <2>1, <2>3, <2>4, <2>5
<1>3. Nat \subseteq P
    <2> HIDE DEF P
    <2>. QED  BY <1>1, <1>2, NaturalsFromZero
<1>. QED  BY <1>3

LEMMA RunningInReporting ==
    ASSUME NEW L, IsFiniteSet(L), \A l \in L : l.reporting_amount \in Int, NEW opening \in Int
    PROVE  LET c == Running(opening, L, Reporting)
           IN  /\ c[0] = opening /\ \A w \in 0..FORECAST_HORIZON_WEEKS : c[w] \in Int
               /\ \A w \in Week : c[w] = c[w - 1] + net(flows({l \in L : l.week = w}, Reporting))
<1> DEFINE H == FORECAST_HORIZON_WEEKS
           c == Running(opening, L, Reporting)
           step == [w \in 1..H |-> net(flows({l \in L : l.week = w}, Reporting))]
<1>1. H \in Nat
    BY ForecastsAssumption
<1>2. \A w \in 1..H : step[w] \in Int
    <2> SUFFICES ASSUME NEW w \in 1..H PROVE step[w] \in Int
        OBVIOUS
    <2> DEFINE K == {l \in L : l.week = w}
               m == [l \in K |-> Moves(l.direction, l.reporting_amount)]
    <2>1. IsFiniteSet(K) /\ \A l \in K : l.reporting_amount \in Int
        BY FS_Subset
    <2>2. \A l \in K : m[l] = Moves(l.direction, l.reporting_amount)
        OBVIOUS
    <2>3. step[w] = net(flows(K, Reporting))
        OBVIOUS
    <2> HIDE DEF K, m, step
    <2>. QED  BY <2>1, <2>2, <2>3, NetInReporting
<1>3. c = CHOOSE g : g = [w \in 0..H |-> IF w = 0 THEN opening ELSE g[w - 1] + net(flows({l \in L : l.week = w}, Reporting))]
    BY Zenon DEF Running
<1>4. \E g : g = [w \in 0..H |-> IF w = 0 THEN opening ELSE g[w - 1] + net(flows({l \in L : l.week = w}, Reporting))]
    <2>1. \E g : RunsFrom(g, H, opening, step)
        <3> HIDE DEF step, H
        <3>. QED  BY <1>1, <1>2, BalanceExists
    <2>2. PICK g : /\ g = [w \in 0..H |-> g[w]] /\ g[0] = opening
                   /\ \A w \in 1..H : g[w] = g[w - 1] + step[w]
        BY <2>1 DEF RunsFrom
    <2>3. \A w \in 0..H : w # 0 => w \in 1..H /\ step[w] = net(flows({l \in L : l.week = w}, Reporting))
        <3>1. \A w \in 0..H : w # 0 => w \in 1..H
            BY <1>1
        <3>. QED  BY <3>1
    <2>4. \A w \in 0..H : g[w] = IF w = 0 THEN opening ELSE g[w - 1] + net(flows({l \in L : l.week = w}, Reporting))
        <3> HIDE DEF step, H
        <3>. QED  BY <2>2, <2>3
    <2>. QED  BY <2>2, <2>4, Zenon
<1> HIDE DEF c
<1>5. c = [w \in 0..H |-> IF w = 0 THEN opening ELSE c[w - 1] + net(flows({l \in L : l.week = w}, Reporting))]
    BY <1>3, <1>4, Zenon
<1>6. c[0] = opening /\ \A w \in 1..H : c[w] = c[w - 1] + step[w]
    <2>1. 0 \in 0..H /\ \A w \in 1..H : w \in 0..H /\ w # 0 /\ step[w] = net(flows({l \in L : l.week = w}, Reporting))
        BY <1>1
    <2> HIDE DEF step, H
    <2>. QED  BY <1>5, <2>1, Zenon
<1>7. \A w \in 0..H : c[w] \in Int
    <2> HIDE DEF step, H
    <2>. QED  BY <1>1, <1>2, <1>6, BalanceMoves
<1>8. \A w \in Week : c[w] = c[w - 1] + net(flows({l \in L : l.week = w}, Reporting))
    BY <1>6 DEF Week
<1>. QED  BY <1>6, <1>7, <1>8 DEF c

LEMMA RunningInNative ==
    ASSUME NEW L, IsFiniteSet(L), \A l \in L : l.adjusted_amount \in Int, NEW opening \in Int
    PROVE  LET c == Running(opening, L, Native)
           IN  /\ c[0] = opening /\ \A w \in 0..FORECAST_HORIZON_WEEKS : c[w] \in Int
               /\ \A w \in Week : c[w] = c[w - 1] + net(flows({l \in L : l.week = w}, Native))
<1> DEFINE H == FORECAST_HORIZON_WEEKS
           c == Running(opening, L, Native)
           step == [w \in 1..H |-> net(flows({l \in L : l.week = w}, Native))]
<1>1. H \in Nat
    BY ForecastsAssumption
<1>2. \A w \in 1..H : step[w] \in Int
    <2> SUFFICES ASSUME NEW w \in 1..H PROVE step[w] \in Int
        OBVIOUS
    <2> DEFINE K == {l \in L : l.week = w}
               m == [l \in K |-> Moves(l.direction, l.adjusted_amount)]
    <2>1. IsFiniteSet(K) /\ \A l \in K : l.adjusted_amount \in Int
        BY FS_Subset
    <2>2. \A l \in K : m[l] = Moves(l.direction, l.adjusted_amount)
        OBVIOUS
    <2>3. step[w] = net(flows(K, Native))
        OBVIOUS
    <2> HIDE DEF K, m, step
    <2>. QED  BY <2>1, <2>2, <2>3, NetInNative
<1>3. c = CHOOSE g : g = [w \in 0..H |-> IF w = 0 THEN opening ELSE g[w - 1] + net(flows({l \in L : l.week = w}, Native))]
    BY Zenon DEF Running
<1>4. \E g : g = [w \in 0..H |-> IF w = 0 THEN opening ELSE g[w - 1] + net(flows({l \in L : l.week = w}, Native))]
    <2>1. \E g : RunsFrom(g, H, opening, step)
        <3> HIDE DEF step, H
        <3>. QED  BY <1>1, <1>2, BalanceExists
    <2>2. PICK g : /\ g = [w \in 0..H |-> g[w]] /\ g[0] = opening
                   /\ \A w \in 1..H : g[w] = g[w - 1] + step[w]
        BY <2>1 DEF RunsFrom
    <2>3. \A w \in 0..H : w # 0 => w \in 1..H /\ step[w] = net(flows({l \in L : l.week = w}, Native))
        <3>1. \A w \in 0..H : w # 0 => w \in 1..H
            BY <1>1
        <3>. QED  BY <3>1
    <2>4. \A w \in 0..H : g[w] = IF w = 0 THEN opening ELSE g[w - 1] + net(flows({l \in L : l.week = w}, Native))
        <3> HIDE DEF step, H
        <3>. QED  BY <2>2, <2>3
    <2>. QED  BY <2>2, <2>4, Zenon
<1> HIDE DEF c
<1>5. c = [w \in 0..H |-> IF w = 0 THEN opening ELSE c[w - 1] + net(flows({l \in L : l.week = w}, Native))]
    BY <1>3, <1>4, Zenon
<1>6. c[0] = opening /\ \A w \in 1..H : c[w] = c[w - 1] + step[w]
    <2>1. 0 \in 0..H /\ \A w \in 1..H : w \in 0..H /\ w # 0 /\ step[w] = net(flows({l \in L : l.week = w}, Native))
        BY <1>1
    <2> HIDE DEF step, H
    <2>. QED  BY <1>5, <2>1, Zenon
<1>7. \A w \in 0..H : c[w] \in Int
    <2> HIDE DEF step, H
    <2>. QED  BY <1>1, <1>2, <1>6, BalanceMoves
<1>8. \A w \in Week : c[w] = c[w - 1] + net(flows({l \in L : l.week = w}, Native))
    BY <1>6 DEF Week
<1>. QED  BY <1>6, <1>7, <1>8 DEF c

\* Where every line has a week, the balance after one has moved by the lines up
\* to then.
LEMMA BalanceOfLines ==
    ASSUME NEW L, IsFiniteSet(L), \A l \in L : l.week \in Week,
           NEW m, \A l \in L : m[l] \in Int,
           NEW c, c[0] \in Int, \A w \in Week : c[w] = c[w - 1] + SumFunctionOnSet(m, {l \in L : l.week = w})
    PROVE  \A w \in 0..FORECAST_HORIZON_WEEKS : c[w] = c[0] + SumFunctionOnSet(m, {l \in L : l.week <= w})
<1> DEFINE H == FORECAST_HORIZON_WEEKS
           step == [w \in 1..H |-> SumFunctionOnSet(m, {l \in L : l.week = w})]
           key == [l \in L |-> l.week]
<1>1. H \in Nat /\ c[0] \in Int
    BY ForecastsAssumption
<1>2. \A w \in 1..H : step[w] \in Int
    <2> SUFFICES ASSUME NEW w \in 1..H PROVE step[w] \in Int
        OBVIOUS
    <2> DEFINE K == {l \in L : l.week = w}
    <2>1. IsFiniteSet(K) /\ \A l \in K : m[l] \in Int
        BY FS_Subset
    <2>2. step[w] = SumFunctionOnSet(m, K)
        OBVIOUS
    <2> HIDE DEF K, step
    <2>. QED  BY <2>1, <2>2, SumOfIntegers
<1>3. \A w \in 0..H : c[w] \in Int /\ c[w] = c[0] + SumFunctionOnSet(step, 1..w)
    <2>1. \A w \in 1..H : step[w] \in Int /\ c[w] = c[w - 1] + step[w]
        BY <1>2 DEF Week
    <2> HIDE DEF H, step, key
    <2>. QED  BY ONLY <1>1, <2>1, BalanceMoves
<1>4. ASSUME NEW w \in 0..H
      PROVE  SumFunctionOnSet(step, 1..w) = SumFunctionOnSet(m, {l \in L : l.week <= w})
    <2> DEFINE S == {l \in L : l.week <= w}
    <2>1. IsFiniteSet(S)
        BY FS_Subset
    <2>2. IsFiniteSet(1..w)
        BY FS_Interval
    <2>3. \A l \in S : key[l] \in 1..w /\ m[l] \in Int
        BY <1>1 DEF Week
    <2>4. ASSUME NEW k \in 1..w
          PROVE  step[k] = SumFunctionOnSet(m, Class(S, key, k))
        <3>1. k \in 1..H /\ {l \in L : l.week = k} = Class(S, key, k)
            BY <1>1 DEF Class
        <3>. QED  BY <3>1
    <2> HIDE DEF S, step, key
    <2>5. SumFunctionOnSet(step, 1..w) = SumFunctionOnSet(m, S)
        BY <2>1, <2>2, <2>3, <2>4, SumOfClasses
    <2>. QED  BY <2>5 DEF S
<1> HIDE DEF step
<1>. QED  BY <1>3, <1>4

-----------------------------------------------------------------------------
(* The calendar                                                            *)

LEMMA RoundingIsInteger ==
    ASSUME NEW n \in Int, NEW d \in Nat \ {0}
    PROVE  round_half_up(n, d) \in Int
<1>1. (2 * n + d) \div (2 * d) \in Int
    <2>1. 2 * n + d \in Int /\ 2 * d \in Nat \ {0}
        OBVIOUS
    <2>. QED  BY <2>1
<1>2. (d - 2 * n) \div (2 * d) \in Int
    <2>1. d - 2 * n \in Int /\ 2 * d \in Nat \ {0}
        OBVIOUS
    <2>. QED  BY <2>1
<1>. QED  BY <1>1, <1>2 DEF round_half_up

LEMMA FirstDayIsInteger ==
    ASSUME NEW m \in 1..Len(MonthDays) + 1
    PROVE  FirstDay[m] \in Nat
<1>1. FirstDay[m] = SumFunctionOnSet(MonthDays, 1..m - 1)
    BY DEF FirstDay
<1>2. IsFiniteSet(1..m - 1) /\ \A x \in 1..m - 1 : MonthDays[x] \in Nat
    <2>1. Len(MonthDays) \in Nat /\ \A x \in 1..Len(MonthDays) : MonthDays[x] \in Nat
        BY CalendarAssumption
    <2>2. IsFiniteSet(1..m - 1)
        BY FS_Interval
    <2>. QED  BY <2>1, <2>2
<1>. QED  BY <1>1, <1>2, SumOfNaturals

LEMMA FirstDayOfTheFirstMonth == FirstDay[1] = 0
<1>1. Len(MonthDays) \in Nat
    BY CalendarAssumption
<1>2. FirstDay[1] = SumFunctionOnSet(MonthDays, 1..1 - 1)
    BY <1>1 DEF FirstDay
<1>3. 1..1 - 1 = {}
    OBVIOUS
<1>. QED  BY <1>2, <1>3, SumOfNothing

\* Every day of the calendar is in one of its months.
LEMMA DaysHaveMonths ==
    ASSUME NEW day \in Days
    PROVE  /\ month_of(day) \in 1..Len(MonthDays)
           /\ FirstDay[month_of(day)] <= day /\ day < FirstDay[month_of(day) + 1]
<1> DEFINE L == Len(MonthDays)
           In(m) == FirstDay[m] <= day /\ day < FirstDay[m + 1]
           T == {n \in Nat : n <= L => FirstDay[n + 1] <= day \/ \E m \in 1..L : In(m)}
<1>1. L \in Nat
    BY CalendarAssumption
<1>2. day \in Nat /\ day < FirstDay[L + 1]
    BY <1>1, FirstDayIsInteger DEF Days
<1>3. 0 \in T
    BY <1>2, FirstDayOfTheFirstMonth
<1>4. ASSUME NEW n \in Nat, n \in T
      PROVE  n + 1 \in T
    <2>1. CASE ~(n + 1 <= L)
        BY <2>1
    <2>2. CASE n + 1 <= L
        <3>1. n <= L /\ n + 1 \in 1..L /\ n + 1 \in 1..L + 1 /\ n + 2 \in 1..L + 1 /\ (n + 1) + 1 = n + 2
            BY <1>1, <2>2
        <3>2. FirstDay[n + 1] \in Nat /\ FirstDay[n + 2] \in Nat
            BY <3>1, FirstDayIsInteger
        <3>3. FirstDay[n + 1] <= day \/ \E m \in 1..L : In(m)
            BY <1>4, <3>1
        <3>4. FirstDay[n + 2] <= day \/ \E m \in 1..L : In(m)
            BY <1>2, <3>1, <3>2, <3>3
        <3>. QED  BY <3>1, <3>4
    <2>. QED  BY <2>1, <2>2
<1>5. L \in T
    <2> HIDE DEF T
    <2>1. Nat \subseteq T
        BY <1>3, <1>4, NaturalsFromZero
    <2>. QED  BY <1>1, <2>1
<1>6. \E m \in 1..L : In(m)
    <2>1. FirstDay[L + 1] \in Nat
        BY <1>1, FirstDayIsInteger
    <2>. QED  BY <1>1, <1>2, <1>5, <2>1
<1>. QED  BY <1>6 DEF month_of

LEMMA NextFirstDay ==
    ASSUME NEW m \in 1..Len(MonthDays)
    PROVE  FirstDay[m + 1] = FirstDay[m] + MonthDays[m]
<1>1. Len(MonthDays) \in Nat /\ \A x \in 1..Len(MonthDays) : MonthDays[x] \in Nat \ {0}
    BY CalendarAssumption
<1>2. /\ FirstDay[m + 1] = SumFunctionOnSet(MonthDays, 1..m)
      /\ FirstDay[m] = SumFunctionOnSet(MonthDays, 1..m - 1)
    <2>1. m + 1 \in 1..Len(MonthDays) + 1 /\ m \in 1..Len(MonthDays) + 1 /\ (m + 1) - 1 = m
        BY <1>1
    <2>. QED  BY <2>1 DEF FirstDay
<1>3. m \notin 1..m - 1 /\ 1..m = (1..m - 1) \union {m}
    BY <1>1
<1>4. IsFiniteSet(1..m - 1)
    BY FS_Interval
<1>5. \A x \in (1..m - 1) \union {m} : MonthDays[x] \in Int
    BY <1>1
<1>6. SumFunctionOnSet(MonthDays, (1..m - 1) \union {m}) = MonthDays[m] + SumFunctionOnSet(MonthDays, 1..m - 1)
    BY <1>3, <1>4, <1>5, SumWith
<1>7. FirstDay[m] \in Nat /\ MonthDays[m] \in Nat
    <2>1. m \in 1..Len(MonthDays) + 1
        BY <1>1
    <2>. QED  BY <1>1, <2>1, FirstDayIsInteger
<1>8. SumFunctionOnSet(MonthDays, 1..m) = MonthDays[m] + SumFunctionOnSet(MonthDays, 1..m - 1)
    BY <1>3, <1>6
<1>. QED  BY ONLY <1>2, <1>7, <1>8

\* Every month has a day.
LEMMA MonthsTakeDays ==
    ASSUME NEW m \in 1..Len(MonthDays) + 1, NEW n \in m..Len(MonthDays) + 1
    PROVE  FirstDay[m] + (n - m) <= FirstDay[n]
<1> DEFINE L == Len(MonthDays)
           T == {d \in Nat : m + d <= L + 1 => FirstDay[m] + d <= FirstDay[m + d]}
<1>1. L \in Nat /\ \A x \in 1..L : MonthDays[x] \in Nat \ {0}
    BY CalendarAssumption
<1>2. 0 \in T
    BY <1>1, FirstDayIsInteger
<1>3. ASSUME NEW d \in Nat, d \in T
      PROVE  d + 1 \in T
    <2> SUFFICES ASSUME m + (d + 1) <= L + 1
                 PROVE  FirstDay[m] + (d + 1) <= FirstDay[m + (d + 1)]
        OBVIOUS
    <2>1. m + d \in 1..L /\ m + d \in 1..L + 1 /\ (m + d) + 1 \in 1..L + 1 /\ m + (d + 1) = (m + d) + 1
        BY <1>1
    <2>2. FirstDay[m] + d <= FirstDay[m + d]
        BY <1>1, <1>3, <2>1
    <2>3. FirstDay[(m + d) + 1] = FirstDay[m + d] + MonthDays[m + d] /\ MonthDays[m + d] \in Nat \ {0}
        BY <1>1, <2>1, NextFirstDay
    <2>4. FirstDay[m] \in Nat /\ FirstDay[m + d] \in Nat
        BY <1>1, <2>1, FirstDayIsInteger
    <2>. QED  BY <2>1, <2>2, <2>3, <2>4
<1>4. n - m \in T
    <2> HIDE DEF T
    <2>1. Nat \subseteq T
        BY <1>2, <1>3, NaturalsFromZero
    <2>2. n - m \in Nat
        BY <1>1
    <2>. QED  BY <2>1, <2>2
<1>5. m + (n - m) = n /\ n <= L + 1
    BY <1>1
<1>. QED  BY <1>4, <1>5

\* A month begins after one before it, and all its days, are over.
LEMMA LaterMonth ==
    ASSUME NEW m \in 1..Len(MonthDays), NEW n \in 1..Len(MonthDays), m < n
    PROVE  /\ FirstDay[m + 1] \in Nat /\ FirstDay[n] \in Nat
           /\ FirstDay[m + 1] + (n - (m + 1)) <= FirstDay[n]
<1>1. Len(MonthDays) \in Nat
    BY CalendarAssumption
<1>2. m + 1 \in 1..Len(MonthDays) + 1 /\ n \in 1..Len(MonthDays) + 1 /\ n \in m + 1..Len(MonthDays) + 1
    BY <1>1
<1>. QED  BY <1>2, MonthsTakeDays, FirstDayIsInteger

\* Two days are as far apart as their months, or further.
LEMMA MonthsApart ==
    ASSUME NEW a \in Days, NEW b \in Days, a <= b
    PROVE  month_of(a) <= month_of(b) /\ month_of(b) - month_of(a) <= b - a
<1> DEFINE L == Len(MonthDays)
           m == month_of(a)
           n == month_of(b)
<1>1. L \in Nat /\ a \in Int /\ b \in Int
    BY CalendarAssumption DEF Days
<1>2. /\ m \in 1..L /\ FirstDay[m] <= a /\ a < FirstDay[m + 1]
      /\ n \in 1..L /\ FirstDay[n] <= b /\ b < FirstDay[n + 1]
    BY DaysHaveMonths
<1> HIDE DEF m, n
<1>3. m <= n
    <2> SUFFICES ASSUME n < m PROVE FALSE
        BY <1>1, <1>2
    <2>1. FirstDay[n + 1] \in Nat /\ FirstDay[m] \in Nat /\ FirstDay[n + 1] + (m - (n + 1)) <= FirstDay[m]
        BY <1>2, LaterMonth
    <2>. QED  BY <1>1, <1>2, <2>1
<1>4. n - m <= b - a
    <2>1. CASE n = m
        BY <1>1, <1>2, <2>1
    <2>2. CASE m < n
        <3>1. FirstDay[m + 1] \in Nat /\ FirstDay[n] \in Nat /\ FirstDay[m + 1] + (n - (m + 1)) <= FirstDay[n]
            BY <1>2, <2>2, LaterMonth
        <3>. QED  BY <1>1, <1>2, <3>1
    <2>. QED  BY <1>1, <1>2, <1>3, <2>1, <2>2
<1>. QED  BY <1>3, <1>4 DEF m, n

\* A day has one month.
LEMMA MonthOfIs ==
    ASSUME NEW day \in Days, NEW m \in 1..Len(MonthDays), FirstDay[m] <= day, day < FirstDay[m + 1]
    PROVE  month_of(day) = m
<1> DEFINE n == month_of(day)
           L == Len(MonthDays)
<1>1. L \in Nat /\ day \in Int
    BY CalendarAssumption DEF Days
<1>2. n \in 1..L /\ FirstDay[n] <= day /\ day < FirstDay[n + 1]
    BY DaysHaveMonths
<1> HIDE DEF n
<1>3. ~(n < m)
    <2> SUFFICES ASSUME n < m PROVE FALSE
        OBVIOUS
    <2>1. FirstDay[n + 1] \in Nat /\ FirstDay[m] \in Nat /\ FirstDay[n + 1] + (m - (n + 1)) <= FirstDay[m]
        BY <1>2, LaterMonth
    <2>. QED  BY <1>1, <1>2, <2>1
<1>4. ~(m < n)
    <2> SUFFICES ASSUME m < n PROVE FALSE
        OBVIOUS
    <2>1. FirstDay[m + 1] \in Nat /\ FirstDay[n] \in Nat /\ FirstDay[m + 1] + (n - (m + 1)) <= FirstDay[n]
        BY <1>2, LaterMonth
    <2>. QED  BY <1>1, <1>2, <2>1
<1>5. n = m
    BY <1>1, <1>2, <1>3, <1>4
<1>. QED  BY <1>5 DEF n

\* The day of a month is one of its days.
LEMMA DayOfMonth ==
    ASSUME NEW day \in Days
    PROVE  /\ day_of(day) \in 1..MonthDays[month_of(day)]
           /\ FirstDay[month_of(day)] + day_of(day) - 1 = day
           /\ FirstDay[month_of(day)] \in Nat
<1> DEFINE m == month_of(day)
<1>1. m \in 1..Len(MonthDays) /\ FirstDay[m] <= day /\ day < FirstDay[m + 1] /\ day \in Int
    BY DaysHaveMonths DEF Days
<1>2. Len(MonthDays) \in Nat /\ MonthDays[m] \in Nat
    BY <1>1, CalendarAssumption
<1>3. FirstDay[m + 1] = FirstDay[m] + MonthDays[m] /\ FirstDay[m] \in Nat
    <2>1. m \in 1..Len(MonthDays) + 1
        BY <1>1, <1>2
    <2>. QED  BY <1>1, <2>1, NextFirstDay, FirstDayIsInteger
<1>4. day_of(day) = day - FirstDay[m] + 1
    BY DEF day_of
<1> HIDE DEF m
<1>5. day_of(day) \in 1..MonthDays[m] /\ FirstDay[m] + day_of(day) - 1 = day
    BY <1>1, <1>2, <1>3, <1>4
<1>. QED  BY <1>3, <1>5 DEF m

\* What a date some months on is.
LEMMA MonthsOn ==
    ASSUME NEW day \in Days, NEW n \in Nat, month_of(day) + n <= Len(MonthDays)
    PROVE  LET on == add_months(day, n)
               m == month_of(day) + n
           IN  /\ on \in Days /\ month_of(on) = m
               /\ day_of(on) = SmallerOf(day_of(day), MonthDays[m])
               /\ n = 0 => on = day
               /\ n > 0 => on > day
<1> DEFINE on == add_months(day, n)
           m == month_of(day) + n
           k == SmallerOf(day_of(day), MonthDays[m])
           L == Len(MonthDays)
<1>1. /\ L \in Nat /\ day \in Int /\ month_of(day) \in 1..L
      /\ FirstDay[month_of(day)] <= day /\ day < FirstDay[month_of(day) + 1]
    BY CalendarAssumption, DaysHaveMonths DEF Days
<1>2. m \in 1..L /\ MonthDays[m] \in Nat \ {0}
    BY <1>1, CalendarAssumption
<1>3. day_of(day) \in 1..MonthDays[month_of(day)] /\ FirstDay[month_of(day)] + day_of(day) - 1 = day
    BY DayOfMonth
<1>4. MonthDays[month_of(day)] \in Nat /\ day_of(day) \in Nat \ {0}
    <2>1. MonthDays[month_of(day)] \in Nat
        BY <1>1, CalendarAssumption
    <2>. QED  BY <1>3, <2>1
<1>5. k \in 1..MonthDays[m] /\ (n = 0 => k = day_of(day))
    BY <1>1, <1>2, <1>3, <1>4 DEF SmallerOf
<1>6. on = FirstDay[m] + k - 1
    BY DEF add_months
<1>7. /\ FirstDay[m] \in Nat /\ FirstDay[m + 1] = FirstDay[m] + MonthDays[m]
      /\ FirstDay[L + 1] \in Nat /\ FirstDay[m + 1] <= FirstDay[L + 1]
    <2>1. m \in 1..L + 1 /\ m + 1 \in 1..L + 1 /\ L + 1 \in 1..L + 1 /\ L + 1 \in m + 1..L + 1
        BY <1>1, <1>2
    <2>2. FirstDay[m + 1] + ((L + 1) - (m + 1)) <= FirstDay[L + 1]
        BY <2>1, MonthsTakeDays
    <2>3. FirstDay[m] \in Nat /\ FirstDay[m + 1] \in Nat /\ FirstDay[L + 1] \in Nat
        BY <2>1, FirstDayIsInteger
    <2>4. FirstDay[m + 1] = FirstDay[m] + MonthDays[m]
        BY <1>2, NextFirstDay
    <2> HIDE DEF m
    <2>. QED  BY <1>1, <1>2, <2>1, <2>2, <2>3, <2>4
<1>8. on \in Days /\ FirstDay[m] <= on /\ on < FirstDay[m + 1]
    <2>1. k \in Nat /\ 1 <= k /\ k <= MonthDays[m]
        BY <1>2, <1>5
    <2>2. on \in Nat /\ FirstDay[m] <= on /\ on < FirstDay[m + 1]
        <3> HIDE DEF m, on, k
        <3>. QED  BY <1>2, <1>6, <1>7, <2>1
    <2>3. FirstDay[m + 1] \in Nat /\ on <= FirstDay[L + 1] - 1
        <3> HIDE DEF m, on, k
        <3>. QED  BY <1>2, <1>7, <2>2
    <2> HIDE DEF m, on, k
    <2>. QED  BY <1>7, <2>2, <2>3 DEF Days
<1>9. month_of(on) = m
    <2> HIDE DEF m, on
    <2>. QED  BY <1>2, <1>8, MonthOfIs
<1>10. day_of(on) = k
    <2>1. day_of(on) = on - FirstDay[month_of(on)] + 1
        BY DEF day_of
    <2> HIDE DEF m, on, k
    <2>. QED  BY <1>2, <1>5, <1>6, <1>7, <1>9, <2>1
<1>11. ASSUME n = 0 PROVE on = day
    <2>1. m = month_of(day)
        BY <1>1, <1>11
    <2> HIDE DEF m, on, k
    <2>. QED  BY <1>3, <1>5, <1>6, <1>11, <2>1
<1>12. ASSUME n > 0 PROVE on > day
    <2>1. month_of(day) < m
        BY <1>1, <1>12
    <2>2. /\ FirstDay[month_of(day) + 1] \in Nat /\ FirstDay[m] \in Nat
          /\ FirstDay[month_of(day) + 1] + (m - (month_of(day) + 1)) <= FirstDay[m]
        <3> HIDE DEF m
        <3>. QED  BY <1>1, <1>2, <2>1, LaterMonth
    <2> HIDE DEF m, on
    <2>. QED  BY <1>1, <1>2, <1>8, <2>1, <2>2 DEF Days
<1>. QED  BY <1>8, <1>9, <1>10, <1>11, <1>12

-----------------------------------------------------------------------------
(* Schedules of periodic interest                                          *)

\* The ends of the periods between two dates.
Ends(start, maturity, months) ==
    LET Boundary[k \in Nat] ==
            IF k = 0 THEN start ELSE SmallerOf(maturity, add_months(Boundary[k - 1], months))
    IN  Boundary

\* Two dates with a period that the calendar covers.
Schedulable(start, maturity, months) ==
    /\ start \in Days /\ maturity \in Days /\ start < maturity
    /\ months \in Nat \ {0} /\ month_of(maturity) + months <= Len(MonthDays)

\* The end after one.
Following(end, maturity, months) == SmallerOf(maturity, add_months(end, months))

LEMMA DatesAreIntegers ==
    ASSUME NEW start, NEW maturity, NEW months, Schedulable(start, maturity, months)
    PROVE  start \in Int /\ maturity \in Int /\ start < maturity
BY DEF Schedulable, Days

\* What a date within them is followed by.
LEMMA NextEnd ==
    ASSUME NEW start, NEW maturity, NEW months, Schedulable(start, maturity, months), NEW day \in start..maturity
    PROVE  /\ day \in Days /\ Following(day, maturity, months) \in start..maturity
           /\ day < maturity => day < Following(day, maturity, months)
           /\ day = maturity => Following(day, maturity, months) = maturity
<1>1. day \in Days /\ day <= maturity /\ day \in Int /\ start \in Int /\ maturity \in Int
    <2>1. FirstDay[Len(MonthDays) + 1] \in Nat
        <3>1. Len(MonthDays) \in Nat
            BY CalendarAssumption
        <3>. QED  BY <3>1, FirstDayIsInteger
    <2>. QED  BY <2>1 DEF Days, Schedulable
<1>2. maturity \in Days /\ month_of(day) \in 1..Len(MonthDays) /\ month_of(maturity) \in 1..Len(MonthDays) /\ Len(MonthDays) \in Nat
    BY <1>1, DaysHaveMonths, CalendarAssumption DEF Schedulable
<1>3. months \in Nat \ {0} /\ month_of(day) + months <= Len(MonthDays)
    BY <1>1, <1>2, MonthsApart DEF Schedulable
<1>4. add_months(day, months) \in Days /\ add_months(day, months) > day
    BY <1>1, <1>3, MonthsOn
<1>5. add_months(day, months) \in Int
    BY <1>4 DEF Days
<1>. QED  BY <1>1, <1>4, <1>5 DEF Following, SmallerOf

LEMMA EndsFollow ==
    ASSUME NEW start, NEW maturity, NEW months, Schedulable(start, maturity, months),
           NEW B, B = Ends(start, maturity, months)
    PROVE  /\ B[0] = start
           /\ \A k \in Nat : /\ B[k] \in start..maturity
                             /\ B[k] \in Days
                             /\ B[k + 1] = Following(B[k], maturity, months)
<1> DEFINE T == start..maturity
           h == [p \in Nat \X T |-> Following(p[2], maturity, months)]
<1>1. start \in T /\ start \in Int /\ maturity \in Int
    BY DatesAreIntegers
<1>2. h \in [Nat \X T -> T]
    <2>1. \A p \in Nat \X T : Following(p[2], maturity, months) \in T
        <3> SUFFICES ASSUME NEW p \in Nat \X T PROVE Following(p[2], maturity, months) \in T
            OBVIOUS
        <3>1. p[2] \in start..maturity
            OBVIOUS
        <3>. QED  BY <3>1, NextEnd
    <2> HIDE DEF T
    <2>. QED  BY <2>1
<1>3. \E g \in [Nat -> T] : Steps(g, start, h)
    <2> HIDE DEF T, h
    <2>. QED  BY <1>1, <1>2, NaturalRecursion
<1>4. PICK g \in [Nat -> T] : Steps(g, start, h)
    BY <1>3
<1>5. g[0] = start /\ \A k \in Nat : g[k] \in T /\ g[k + 1] = Following(g[k], maturity, months)
    <2>1. \A k \in Nat : g[k] \in T /\ g[k + 1] = h[<<k, g[k]>>]
        <3> HIDE DEF h, T
        <3>. QED  BY <1>4 DEF Steps
    <2>2. \A k \in Nat : h[<<k, g[k]>>] = Following(g[k], maturity, months)
        <3> HIDE DEF T
        <3>. QED  BY <2>1
    <2>3. g[0] = start
        BY <1>4 DEF Steps
    <2> HIDE DEF h, T
    <2>. QED  BY <2>1, <2>2, <2>3
<1>6. g = [k \in Nat |-> IF k = 0 THEN start ELSE Following(g[k - 1], maturity, months)]
    <2>1. \A k \in Nat : g[k] = IF k = 0 THEN start ELSE Following(g[k - 1], maturity, months)
        <3> SUFFICES ASSUME NEW k \in Nat, k # 0
                     PROVE  g[k] = Following(g[k - 1], maturity, months)
            BY <1>5
        <3>1. k - 1 \in Nat /\ (k - 1) + 1 = k
            OBVIOUS
        <3> HIDE DEF T, h
        <3>. QED  BY <1>5, <3>1
    <2>2. g = [k \in Nat |-> g[k]]
        BY <1>4
    <2>. QED  BY <2>1, <2>2, Zenon
<1>7. B = CHOOSE b : b = [k \in Nat |-> IF k = 0 THEN start ELSE Following(b[k - 1], maturity, months)]
    BY Zenon DEF Ends, Following
<1> HIDE DEF T, h
<1>8. B = [k \in Nat |-> IF k = 0 THEN start ELSE Following(B[k - 1], maturity, months)]
    BY <1>6, <1>7, Zenon
<1>9. B[0] = start /\ \A k \in Nat : B[k + 1] = Following(B[k], maturity, months)
    <2>1. 0 \in Nat /\ \A k \in Nat : k + 1 \in Nat /\ k + 1 # 0 /\ (k + 1) - 1 = k
        OBVIOUS
    <2>. QED  BY <1>8, <2>1
<1>10. \A k \in Nat : B[k] \in start..maturity
    <2> DEFINE P == {k \in Nat : B[k] \in start..maturity}
    <2>1. 0 \in P
        BY <1>1, <1>9 DEF T
    <2>2. ASSUME NEW k \in Nat, k \in P
          PROVE  k + 1 \in P
        <3>1. B[k] \in start..maturity
            BY <2>2
        <3>2. Following(B[k], maturity, months) \in start..maturity
            BY <3>1, NextEnd
        <3>3. k + 1 \in Nat /\ B[k + 1] \in start..maturity
            BY <1>9, <3>2
        <3>. QED  BY <3>3
    <2>3. Nat \subseteq P
        <3> HIDE DEF P
        <3>. QED  BY <2>1, <2>2, NaturalsFromZero
    <2>. QED  BY <2>3
<1>11. \A k \in Nat : B[k] \in Days
    BY <1>10, NextEnd
<1>. QED  BY <1>9, <1>10, <1>11

\* Once at maturity they stay there, and before they get nearer.
LEMMA EndsGrow ==
    ASSUME NEW start, NEW maturity, NEW months, Schedulable(start, maturity, months),
           NEW B, B = Ends(start, maturity, months), NEW j \in Nat, NEW k \in Nat, j <= k
    PROVE  /\ B[j] = maturity => B[k] = maturity
           /\ B[k] < maturity => B[j] < B[k + 1]
<1>1. \A n \in Nat : /\ B[n] \in start..maturity
                     /\ B[n + 1] = Following(B[n], maturity, months)
    BY EndsFollow
<1>2. \A n \in Nat : /\ B[n] < maturity => B[n] < B[n + 1]
                     /\ B[n] = maturity => B[n + 1] = maturity
    <2>. QED  BY <1>1, NextEnd
<1>3. start \in Int /\ maturity \in Int /\ start < maturity
    BY DatesAreIntegers
<1>4. \A n \in Nat : B[n] \in Int /\ B[n] <= maturity
    BY <1>1, <1>3
<1>5. \A d \in Nat : /\ B[j] = maturity => B[j + d] = maturity
                     /\ B[j + d] < maturity => B[j] < B[j + (d + 1)]
    <2> DEFINE P == {d \in Nat : /\ B[j] = maturity => B[j + d] = maturity
                                 /\ B[j + d] < maturity => B[j] < B[j + (d + 1)]}
    <2>1. 0 \in P
        BY <1>2
    <2>2. ASSUME NEW d \in Nat, d \in P
          PROVE  d + 1 \in P
        <3>1. j + d \in Nat /\ j + (d + 1) = (j + d) + 1 /\ j + (d + 1) \in Nat
              /\ j + ((d + 1) + 1) = (j + (d + 1)) + 1 /\ j + ((d + 1) + 1) \in Nat
            OBVIOUS
        <3>2. B[j] = maturity => B[j + (d + 1)] = maturity
            BY <1>2, <2>2, <3>1
        <3>3. ASSUME B[j + (d + 1)] < maturity
              PROVE  B[j] < B[j + ((d + 1) + 1)]
            <4>1. B[j + d] < maturity
                BY <1>2, <1>3, <1>4, <3>1, <3>3
            <4>2. B[j] < B[j + (d + 1)]
                BY <2>2, <4>1
            <4>3. B[j + (d + 1)] < B[j + ((d + 1) + 1)]
                BY <1>2, <3>1, <3>3
            <4>. QED  BY <1>4, <3>1, <4>2, <4>3
        <3>. QED  BY <3>2, <3>3
    <2>3. Nat \subseteq P
        <3> HIDE DEF P
        <3>. QED  BY <2>1, <2>2, NaturalsFromZero
    <2>. QED  BY <2>3
<1>6. PICK d \in Nat : k = j + d
    <2>1. k - j \in Nat /\ k = j + (k - j)
        OBVIOUS
    <2>. QED  BY <2>1
<1>7. k + 1 = j + (d + 1)
    BY <1>6
<1>8. /\ B[j] = maturity => B[j + d] = maturity
      /\ B[j + d] < maturity => B[j] < B[j + (d + 1)]
    BY <1>5, Zenon
<1>. QED  BY <1>6, <1>7, <1>8, Zenon

\* They come to maturity.
LEMMA EndsArrive ==
    ASSUME NEW start, NEW maturity, NEW months, Schedulable(start, maturity, months),
           NEW B, B = Ends(start, maturity, months)
    PROVE  \E k \in 1..(maturity - start) : B[k] = maturity /\ B[k - 1] < maturity
<1> DEFINE N == maturity - start
<1>1. start \in Int /\ maturity \in Int /\ start < maturity /\ N \in Nat
    BY DatesAreIntegers
<1>2. B[0] = start /\ \A k \in Nat : B[k] \in Int /\ B[k] <= maturity
    <2>1. B[0] = start /\ \A k \in Nat : B[k] \in start..maturity
        BY EndsFollow
    <2>. QED  BY <1>1, <2>1
<1>3. \A k \in Nat : B[k] < maturity => B[k] < B[k + 1]
    <2>1. \A k \in Nat : B[k] \in start..maturity /\ B[k + 1] = Following(B[k], maturity, months)
        BY EndsFollow
    <2>. QED  BY <2>1, NextEnd
<1> DEFINE Come(n) == \E k \in 1..n : B[k] = maturity /\ B[k - 1] < maturity
           P == {n \in Nat : Come(n) \/ (B[n] < maturity /\ start + n <= B[n])}
<1>4. 0 \in P
    BY <1>1, <1>2
<1>5. ASSUME NEW n \in Nat, n \in P
      PROVE  n + 1 \in P
    <2>1. CASE Come(n)
        <3>1. 1..n \subseteq 1..n + 1
            OBVIOUS
        <3>. QED  BY <2>1, <3>1
    <2>2. CASE B[n] < maturity /\ start + n <= B[n]
        <3>1. B[n] < B[n + 1] /\ B[n + 1] \in Int /\ B[n + 1] <= maturity /\ B[n] \in Int
            BY <1>2, <1>3, <2>2
        <3>2. CASE B[n + 1] = maturity
            <4>1. n + 1 \in 1..n + 1 /\ (n + 1) - 1 = n
                OBVIOUS
            <4>. QED  BY <2>2, <3>2, <4>1
        <3>3. CASE B[n + 1] # maturity
            BY <1>1, <2>2, <3>1, <3>3
        <3>. QED  BY <3>2, <3>3
    <2>. QED  BY <1>5, <2>1, <2>2
<1>6. N \in P
    <2> HIDE DEF P
    <2>1. Nat \subseteq P
        BY <1>4, <1>5, NaturalsFromZero
    <2>. QED  BY <1>1, <2>1
<1>7. Come(N)
    <2> HIDE DEF Come
    <2>. QED  BY <1>1, <1>2, <1>6
<1>. QED  BY <1>7

\* Interest between two days is a whole number of hundredths.
LEMMA InterestIsInteger ==
    ASSUME NEW principal \in Int, NEW rate \in Int, NEW start \in Days, NEW end \in Days,
           NEW convention \in Convention
    PROVE  calculate_simple_interest(principal, rate, start, end, convention) \in Int
<1>1. /\ month_of(start) \in Int /\ day_of(start) \in Int
      /\ month_of(end) \in Int /\ day_of(end) \in Int
    <2>1. \A day \in Days : month_of(day) \in Int /\ FirstDay[month_of(day)] \in Int
        BY DaysHaveMonths, DayOfMonth
    <2>. QED  BY <2>1 DEF day_of, Days
<1>2. start \in Int /\ end \in Int
    BY DEF Days
<1>3. days_between(start, end, convention) \in Int
    <2>1. CASE convention # "THIRTY_360"
        BY <1>2, <2>1 DEF days_between
    <2>2. CASE convention = "THIRTY_360"
        <3> DEFINE d1 == SmallerOf(day_of(start), 30)
                   d2 == IF d1 = 30 THEN SmallerOf(day_of(end), 30) ELSE day_of(end)
        <3>1. d1 \in Int /\ d2 \in Int
            BY <1>1 DEF SmallerOf
        <3>2. days_between(start, end, convention) = 30 * (month_of(end) - month_of(start)) + d2 - d1
            BY <2>2 DEF days_between
        <3> HIDE DEF d1, d2
        <3>. QED  BY <1>1, <3>1, <3>2
    <2>. QED  BY <2>1, <2>2
<1>4. principal * rate * days_between(start, end, convention) \in Int
    <2>1. principal * rate \in Int
        OBVIOUS
    <2>. QED  BY <1>3, <2>1
<1>5. denominator[convention] \in Nat \ {0}
    BY CalendarAssumption
<1>. QED  BY <1>4, <1>5, RoundingIsInteger DEF calculate_simple_interest

\* The periods up to the first n ends.
Periods(B, n, principal, rate, convention) ==
    [k \in 1..n |-> [period |-> k, period_start |-> B[k - 1], period_end |-> B[k],
                     interest_amount |-> calculate_simple_interest(principal, rate, B[k - 1], B[k], convention)]]

\* A schedule has a period up to each end, and the last one ends at maturity.
LEMMA ScheduleOfEnds ==
    ASSUME NEW principal, NEW rate, NEW convention,
           NEW start, NEW maturity, NEW months, Schedulable(start, maturity, months),
           NEW B, B = Ends(start, maturity, months)
    PROVE  \E n \in Nat \ {0} :
              /\ generate_periodic_interest_schedule(principal, rate, start, maturity, months, convention)
                     = Periods(B, n, principal, rate, convention)
              /\ B[n] = maturity /\ B[n - 1] < maturity
<1> DEFINE n == CHOOSE k \in 1..(maturity - start) : B[k] = maturity /\ B[k - 1] < maturity
<1>1. start \in Int /\ maturity \in Int /\ start < maturity
    BY DatesAreIntegers
<1>2. n \in 1..(maturity - start) /\ B[n] = maturity /\ B[n - 1] < maturity
    <2>1. \E k \in 1..(maturity - start) : B[k] = maturity /\ B[k - 1] < maturity
        BY EndsArrive
    <2>. QED  BY <2>1, Zenon
<1>3. generate_periodic_interest_schedule(principal, rate, start, maturity, months, convention)
          = Periods(B, n, principal, rate, convention)
    <2>1. ~(start >= maturity)
        BY <1>1
    <2>. QED  BY <2>1, Zenon DEF generate_periodic_interest_schedule, Ends, Periods
<1> HIDE DEF n
<1>4. n \in Nat \ {0}
    BY <1>1, <1>2
<1>. QED  BY <1>2, <1>3, <1>4

\* Its periods take time, and each ends after the one before it.
LEMMA EndsDiffer ==
    ASSUME NEW start, NEW maturity, NEW months, Schedulable(start, maturity, months),
           NEW B, B = Ends(start, maturity, months), NEW n \in Nat \ {0}, B[n - 1] < maturity
    PROVE  \A j, k \in 1..n : /\ B[j - 1] < B[j]
                              /\ j < k => B[j] < B[k]
<1>1. \A k \in Nat : B[k] \in start..maturity
    BY EndsFollow
<1>2. start \in Int /\ maturity \in Int
    BY DatesAreIntegers
<1>3. \A k \in Nat : B[k] \in Int /\ B[k] <= maturity
    BY <1>1, <1>2
<1>4. ASSUME NEW k \in Nat, k < n
      PROVE  B[k] < maturity
    <2>1. k <= n - 1 /\ n - 1 \in Nat
        BY <1>4
    <2>2. B[k] = maturity => B[n - 1] = maturity
        BY <2>1, EndsGrow
    <2>. QED  BY <1>2, <1>3, <2>1, <2>2
<1>5. ASSUME NEW j \in Nat, NEW k \in Nat, j < k, k <= n
      PROVE  B[j] < B[k]
    <2>1. k - 1 \in Nat /\ j <= k - 1 /\ k - 1 < n /\ (k - 1) + 1 = k
        BY <1>5
    <2>2. B[k - 1] < maturity
        BY <1>4, <2>1
    <2>3. B[j] < B[(k - 1) + 1]
        BY <2>1, <2>2, EndsGrow
    <2>. QED  BY <2>1, <2>3
<1> SUFFICES ASSUME NEW j \in 1..n, NEW k \in 1..n
             PROVE  B[j - 1] < B[j] /\ (j < k => B[j] < B[k])
    OBVIOUS
<1>6. j \in Nat /\ k \in Nat /\ j <= n /\ k <= n /\ j - 1 \in Nat /\ j - 1 < j
    OBVIOUS
<1>. QED  BY <1>5, <1>6

LEMMA PeriodicAreScheduled ==
    ASSUME NEW i \in Periodic
    PROVE  /\ Schedulable(i.start, i.maturity, i.months)
           /\ i.principal \in Int /\ i.rate \in Int /\ i.convention \in Convention
<1>1. i \in data.investments /\ i.months # None /\ i.start < i.maturity
    BY DEF Periodic, outstanding
<1>2. i.months \in Nat \ {0} /\ i.principal \in Int /\ i.rate \in Int /\ i.convention \in Convention
    BY <1>1, TablesAssumption
<1>3. i.start \in Days /\ i.maturity \in Days /\ month_of(i.maturity) + i.months <= Len(MonthDays)
    BY CalendarCoversData
<1>. QED  BY <1>1, <1>2, <1>3 DEF Schedulable

\* What has to be true of the periods of an investment.
PeriodsFollow(i, schedule, open) ==
    /\ schedule[1].period_start = i.start /\ schedule[Len(schedule)].period_end = i.maturity
    /\ \A k \in 2..Len(schedule) : schedule[k].period_start = schedule[k - 1].period_end
    /\ \A k \in DOMAIN schedule :
          /\ schedule[k].period_start < schedule[k].period_end
          /\ schedule[k].period_end \in open <=>
                schedule[k].interest_amount > 0 /\ schedule[k].period_end \notin i.receipts

\* They follow each other, and the open ones are those that bear interest
\* without a receipt.
LEMMA PeriodsAreWhole ==
    ASSUME NEW i \in Periodic, NEW schedule,
           schedule = generate_periodic_interest_schedule(i.principal, i.rate, i.start, i.maturity, i.months, i.convention),
           NEW open, open = {p.period_end : p \in open_periods(i)}
    PROVE  PeriodsFollow(i, schedule, open)
<1> DEFINE B == Ends(i.start, i.maturity, i.months)
<1>1. Schedulable(i.start, i.maturity, i.months)
    BY PeriodicAreScheduled
<1>2. PICK n \in Nat \ {0} :
          /\ schedule = Periods(B, n, i.principal, i.rate, i.convention)
          /\ B[n] = i.maturity /\ B[n - 1] < i.maturity
    BY <1>1, ScheduleOfEnds
<1>3. B[0] = i.start
    BY <1>1, EndsFollow
<1>4. \A j, k \in 1..n : B[j - 1] < B[j] /\ (j < k => B[j] < B[k])
    BY <1>1, <1>2, EndsDiffer
<1>5. \A k \in 1..n : B[k] \in Int
    <2>1. \A k \in Nat : B[k] \in i.start..i.maturity
        BY <1>1, EndsFollow
    <2>2. i.start \in Int /\ i.maturity \in Int
        BY <1>1, DatesAreIntegers
    <2>3. \A k \in Nat : B[k] \in Int
        BY <2>1, <2>2
    <2>. QED  BY <2>3
<1> HIDE DEF B
<1>6. DOMAIN schedule = 1..n /\ Len(schedule) = n
    <2>1. DOMAIN schedule = 1..n
        BY <1>2 DEF Periods
    <2>. QED  BY <1>2, <2>1 DEF Periods
<1>7. \A k \in 1..n : /\ schedule[k].period_start = B[k - 1] /\ schedule[k].period_end = B[k]
    BY <1>2 DEF Periods
<1>8. ASSUME NEW k \in 1..n
      PROVE  schedule[k].period_end \in open <=>
                 schedule[k].interest_amount > 0 /\ schedule[k].period_end \notin i.receipts
    <2>1. open_periods(i) = {schedule[j] : j \in {j \in DOMAIN schedule :
                                schedule[j].interest_amount > 0 /\ schedule[j].period_end \notin i.receipts}}
        BY Zenon DEF open_periods
    <2>2. schedule[k].period_end \in open <=>
              \E j \in 1..n : /\ schedule[j].interest_amount > 0 /\ schedule[j].period_end \notin i.receipts
                              /\ schedule[k].period_end = schedule[j].period_end
        BY <1>6, <2>1, Zenon
    <2>3. ASSUME NEW j \in 1..n, schedule[k].period_end = schedule[j].period_end
          PROVE  j = k
        <3>1. B[k] = B[j] /\ B[k] \in Int
            BY <1>5, <1>7, <2>3
        <3>2. (j < k => B[j] < B[k]) /\ (k < j => B[k] < B[j])
            BY <1>4
        <3>. QED  BY <3>1, <3>2
    <2>. QED  BY <2>2, <2>3, Zenon
<1>9. schedule[1].period_start = i.start /\ schedule[n].period_end = i.maturity
    BY <1>2, <1>3, <1>7
<1>10. ASSUME NEW k \in 2..n
       PROVE  schedule[k].period_start = schedule[k - 1].period_end
    <2>1. k \in 1..n /\ k - 1 \in 1..n
        OBVIOUS
    <2>. QED  BY <1>7, <2>1
<1>11. \A k \in 1..n : schedule[k].period_start < schedule[k].period_end
    BY <1>4, <1>7
<1>. QED  BY <1>6, <1>8, <1>9, <1>10, <1>11 DEF PeriodsFollow

\* What is expected of a periodic investment.
LEMMA OpenPeriodsAreAmounts ==
    ASSUME NEW i \in {j \in outstanding(data) : j.method = "PERIODIC" /\ j.months # None}
    PROVE  IsFiniteSet(open_periods(i)) /\ \A p \in open_periods(i) : p.interest_amount \in Int
<1> DEFINE schedule == generate_periodic_interest_schedule(i.principal, i.rate, i.start, i.maturity, i.months, i.convention)
           Open(k) == schedule[k].interest_amount > 0 /\ schedule[k].period_end \notin i.receipts
<1>1. open_periods(i) = {schedule[k] : k \in {k \in DOMAIN schedule : Open(k)}}
    BY Zenon DEF open_periods
<1>2. i.start \in Int /\ i.maturity \in Int
    BY TablesAssumption DEF outstanding
<1>3. CASE i.start >= i.maturity
    <2>1. schedule = <<>>
        BY <1>3, Zenon DEF generate_periodic_interest_schedule
    <2>2. DOMAIN schedule = {}
        BY <2>1
    <2>3. open_periods(i) = {}
        BY <1>1, <2>2
    <2>. QED  BY <2>3, FS_EmptySet
<1>4. CASE i.start < i.maturity
    <2> DEFINE B == Ends(i.start, i.maturity, i.months)
    <2>1. i \in Periodic
        BY <1>4 DEF Periodic
    <2>2. /\ Schedulable(i.start, i.maturity, i.months)
          /\ i.principal \in Int /\ i.rate \in Int /\ i.convention \in Convention
        BY <2>1, PeriodicAreScheduled
    <2>3. PICK n \in Nat \ {0} :
              schedule = Periods(B, n, i.principal, i.rate, i.convention)
        BY <2>2, ScheduleOfEnds
    <2>4. \A k \in Nat : B[k] \in Days
        BY <2>2, EndsFollow
    <2> HIDE DEF B, schedule
    <2>5. DOMAIN schedule = 1..n
        BY <2>3 DEF Periods
    <2>6. \A k \in 1..n : schedule[k].interest_amount \in Int
        <3> SUFFICES ASSUME NEW k \in 1..n PROVE schedule[k].interest_amount \in Int
            OBVIOUS
        <3>1. B[k - 1] \in Days /\ B[k] \in Days
            BY <2>4
        <3>2. calculate_simple_interest(i.principal, i.rate, B[k - 1], B[k], i.convention) \in Int
            BY <2>2, <3>1, InterestIsInteger
        <3>. QED  BY <2>3, <3>2 DEF Periods
    <2>7. IsFiniteSet({k \in 1..n : Open(k)})
        <3>1. IsFiniteSet(1..n)
            BY FS_Interval
        <3>. QED  BY <3>1, FS_Subset
    <2>8. IsFiniteSet(open_periods(i))
        <3>1. open_periods(i) = {schedule[k] : k \in {k \in 1..n : Open(k)}}
            BY <1>1, <2>5
        <3> HIDE DEF Open
        <3>. QED  BY <2>7, <3>1, ImageIsFinite
    <2>9. \A p \in open_periods(i) : p.interest_amount \in Int
        <3> HIDE DEF Open
        <3>. QED  BY <1>1, <2>5, <2>6
    <2>. QED  BY <2>8, <2>9
<1>. QED  BY <1>2, <1>3, <1>4

-----------------------------------------------------------------------------
(* Occurrences of recurring flows                                          *)

\* Multiples.
LEMMA MultiplesAreInStep ==
    ASSUME NEW k \in Nat, NEW d \in Nat \ {0}
    PROVE  k * d \in Nat /\ (k * d) % d = 0
OBVIOUS

LEMMA InStepIsMultiple ==
    ASSUME NEW n \in Nat, NEW d \in Nat \ {0}, n % d = 0
    PROVE  \E k \in 0..n : n = k * d
<1> DEFINE k == n \div d
<1>1. n = d * k + (n % d) /\ k \in Int
    OBVIOUS
<1>2. k \in Nat /\ k <= n
    OBVIOUS
<1>. QED  BY <1>1, <1>2

\* When a flow that starts at first falls due.
Due(flow, first, k) == IF flow.days # None THEN first + k * flow.days ELSE add_months(first, k * flow.months)

\* What it takes of a later day to be one of them.
InStepWith(flow, first, date) ==
    IF flow.days # None THEN (date - first) % flow.days = 0
    ELSE date = first \/
         LET months == month_of(date) - month_of(first)
         IN  /\ months > 0 /\ months % flow.months = 0
             /\ day_of(date) = SmallerOf(day_of(first), MonthDays[month_of(date)])

\* A flow of so many days.
LEMMA DaysApart ==
    ASSUME NEW flow, flow.days # None, flow.days \in Nat \ {0}, NEW first \in Int, NEW n \in Nat,
           NEW date \in Int, date <= first + n
    PROVE  date >= first /\ InStepWith(flow, first, date) <=> \E k \in 0..n : date = Due(flow, first, k)
<1>1. InStepWith(flow, first, date) <=> (date - first) % flow.days = 0
    BY DEF InStepWith
<1>2. \A k \in 0..n : Due(flow, first, k) = first + k * flow.days
    BY DEF Due
<1>3. ASSUME date >= first, (date - first) % flow.days = 0
      PROVE  \E k \in 0..n : date = Due(flow, first, k)
    <2>1. date - first \in Nat /\ date - first <= n
        BY <1>3
    <2>2. PICK k \in 0..(date - first) : date - first = k * flow.days
        BY <1>3, <2>1, InStepIsMultiple
    <2>3. k \in 0..n /\ k * flow.days \in Int
        BY <2>1
    <2>4. date = first + k * flow.days
        BY <2>2, <2>3
    <2>. QED  BY <1>2, <2>3, <2>4
<1>4. ASSUME NEW k \in 0..n, date = Due(flow, first, k)
      PROVE  date >= first /\ (date - first) % flow.days = 0
    <2>1. k * flow.days \in Nat /\ (k * flow.days) % flow.days = 0
        <3>1. k \in Nat
            OBVIOUS
        <3>. QED  BY <3>1, MultiplesAreInStep, Zenon
    <2>2. date = first + k * flow.days
        BY <1>2, <1>4
    <2>3. date - first = k * flow.days /\ date >= first
        BY <2>1, <2>2
    <2>. QED  BY <2>1, <2>3
<1>. QED  BY <1>1, <1>3, <1>4

\* A flow of so many months.
LEMMA MonthsDue ==
    ASSUME NEW flow, flow.days = None, flow.months \in Nat \ {0}, NEW first \in Days, NEW n \in Nat,
           first + n \in Days, month_of(first) + n * flow.months <= Len(MonthDays),
           NEW date \in Int, date <= first + n
    PROVE  date >= first /\ InStepWith(flow, first, date) <=> \E k \in 0..n : date = Due(flow, first, k)
<1> DEFINE months == month_of(date) - month_of(first)
           InMonth == /\ months > 0 /\ months % flow.months = 0
                      /\ day_of(date) = SmallerOf(day_of(first), MonthDays[month_of(date)])
<1>1. InStepWith(flow, first, date) <=> date = first \/ InMonth
    BY DEF InStepWith
<1>2. \A k \in 0..n : Due(flow, first, k) = add_months(first, k * flow.months)
    BY DEF Due
<1>3. Len(MonthDays) \in Nat /\ first \in Int /\ month_of(first) \in 1..Len(MonthDays)
    BY CalendarAssumption, DaysHaveMonths DEF Days
<1>4. \A k \in 0..n : /\ k * flow.months \in Nat /\ (k = 0 => k * flow.months = 0)
                      /\ (k * flow.months) % flow.months = 0
                      /\ month_of(first) + k * flow.months <= Len(MonthDays)
    <2> SUFFICES ASSUME NEW k \in 0..n
                 PROVE  /\ k * flow.months \in Nat /\ (k = 0 => k * flow.months = 0)
                        /\ (k * flow.months) % flow.months = 0
                        /\ month_of(first) + k * flow.months <= Len(MonthDays)
        OBVIOUS
    <2>1. k * flow.months \in Nat /\ (k * flow.months) % flow.months = 0
        <3>1. k \in Nat
            OBVIOUS
        <3>. QED  BY <3>1, MultiplesAreInStep, Zenon
    <2>2. k * flow.months <= n * flow.months /\ n * flow.months \in Nat /\ (k = 0 => k * flow.months = 0)
        BY ONLY n \in Nat, k \in 0..n, flow.months \in Nat \ {0}
    <2>. QED  BY <1>3, <2>1, <2>2
<1>5. ASSUME date = first
      PROVE  \E k \in 0..n : date = Due(flow, first, k)
    <2>1. add_months(first, 0) = first
        BY <1>3, MonthsOn
    <2>2. 0 \in 0..n /\ 0 * flow.months = 0
        OBVIOUS
    <2>. QED  BY <1>2, <1>5, <2>1, <2>2
<1>6. ASSUME date >= first, InMonth
      PROVE  \E k \in 0..n : date = Due(flow, first, k)
    <2>1. date \in Days
        <3>1. FirstDay[Len(MonthDays) + 1] \in Nat
            BY <1>3, FirstDayIsInteger
        <3>. QED  BY <1>3, <1>6, <3>1 DEF Days
    <2>2. /\ month_of(date) \in 1..Len(MonthDays) /\ months <= date - first
          /\ FirstDay[month_of(date)] + day_of(date) - 1 = date
        BY <1>6, <2>1, DaysHaveMonths, MonthsApart, DayOfMonth
    <2>3. months \in Nat /\ months <= n /\ month_of(first) + months = month_of(date)
        <3>1. /\ month_of(date) \in Int /\ month_of(first) \in Int /\ months = month_of(date) - month_of(first)
              /\ months > 0 /\ months <= date - first /\ date \in Int /\ first \in Int /\ date <= first + n /\ n \in Nat
            BY <1>3, <1>6, <2>2
        <3>. QED  BY ONLY <3>1
    <2>4. PICK k \in 0..months : months = k * flow.months
        BY <1>6, <2>3, InStepIsMultiple
    <2>5. k \in 0..n
        BY <2>3
    <2>6. add_months(first, months) = FirstDay[month_of(date)] + SmallerOf(day_of(first), MonthDays[month_of(date)]) - 1
        BY <2>3 DEF add_months
    <2>7. add_months(first, months) = date
        BY <1>6, <2>2, <2>6
    <2>. QED  BY <1>2, <2>4, <2>5, <2>7
<1>7. ASSUME NEW k \in 0..n, date = Due(flow, first, k)
      PROVE  date >= first /\ (date = first \/ InMonth)
    <2> DEFINE m == k * flow.months
    <2>1. date = add_months(first, m) /\ m \in Nat /\ m % flow.months = 0 /\ month_of(first) + m <= Len(MonthDays)
        BY <1>2, <1>4, <1>7
    <2> HIDE DEF m
    <2>2. /\ month_of(date) = month_of(first) + m
          /\ day_of(date) = SmallerOf(day_of(first), MonthDays[month_of(first) + m])
          /\ m = 0 => date = first
          /\ m > 0 => date > first
        BY <2>1, MonthsOn
    <2>3. months = m
        BY <1>3, <2>1, <2>2
    <2>. QED  BY <1>3, <2>1, <2>2, <2>3
<1>. QED  BY <1>1, <1>5, <1>6, <1>7

\* The dates a flow that starts in the horizon falls due at, up to its end.
LEMMA OccurrencesAreDue ==
    ASSUME NEW start \in Int, NEW flow \in data.flows, flow.start \in Horizon(start)
    PROVE  LET Of(k) == IF flow.days # None THEN flow.start + k * flow.days ELSE add_months(flow.start, k * flow.months)
               due == {Of(k) : k \in 0..WeekLength * FORECAST_HORIZON_WEEKS} \intersect Horizon(start)
           IN  occurrences(flow, start) = {date \in due : flow.end = None \/ date <= flow.end}
<1> DEFINE n == WeekLength * FORECAST_HORIZON_WEEKS
           first == flow.start
           last == start + n - 1
           until == IF flow.end = None THEN last ELSE SmallerOf(flow.end, last)
<1>1. FORECAST_HORIZON_WEEKS \in Nat \ {0} /\ WeekLength \in Nat \ {0}
    BY ForecastsAssumption
<1>2. n \in Nat
    BY <1>1
<1>3. Horizon(start) = start..last /\ LastDate(start, FORECAST_HORIZON_WEEKS) = last
    BY <1>1 DEF Horizon, LastDate, FirstDate
<1>4. first \in Int /\ start <= first /\ last \in Int /\ LargerOf(flow.start, start) = first
    <2>1. last \in Int
        BY <1>2
    <2> HIDE DEF n, last
    <2>. QED  BY <1>3, <2>1 DEF LargerOf
<1>5. /\ flow.end \in Int \union {None}
      /\ IF flow.days # None THEN flow.days \in Nat \ {0} ELSE flow.months \in Nat \ {0}
    BY TablesAssumption
<1>6. occurrences(flow, start) = {date \in first..until : InStepWith(flow, first, date)}
    BY <1>3, <1>4, Zenon DEF occurrences, InStepWith
<1>7. ASSUME NEW date \in Int, date <= first + n
      PROVE  date >= first /\ InStepWith(flow, first, date) <=> \E k \in 0..n : date = Due(flow, first, k)
    <2>1. CASE flow.days # None
        <3> HIDE DEF n
        <3>. QED  BY <1>2, <1>4, <1>5, <1>7, <2>1, DaysApart
    <2>2. CASE flow.days = None
        <3>1. first \in Days /\ first + n \in Days /\ month_of(first) + n * flow.months <= Len(MonthDays)
            BY <2>2, CalendarCoversData
        <3> HIDE DEF n, first
        <3>. QED  BY <1>2, <1>4, <1>5, <1>7, <2>2, <3>1, MonthsDue
    <2>. QED  BY <2>1, <2>2
<1>8. \A date : date \in first..until <=> date \in first..last /\ (flow.end = None \/ date <= flow.end)
    <2> HIDE DEF n, last
    <2>. QED  BY <1>4, <1>5 DEF SmallerOf
<1>9. \A date \in Int : date <= last => date <= first + n
    BY <1>2, <1>4
<1> HIDE DEF n, last, until
<1>10. occurrences(flow, start) =
           {date \in {Due(flow, first, k) : k \in 0..n} \intersect Horizon(start) : flow.end = None \/ date <= flow.end}
    <2> SUFFICES ASSUME NEW date
                 PROVE  date \in first..last /\ (flow.end = None \/ date <= flow.end) /\ InStepWith(flow, first, date)
                        <=> /\ date \in start..last /\ (flow.end = None \/ date <= flow.end)
                            /\ \E k \in 0..n : date = Due(flow, first, k)
        BY <1>3, <1>6, <1>8, Zenon
    <2>1. date \in first..last <=> date \in start..last /\ date >= first
        BY <1>4
    <2>2. date \in start..last => date \in Int /\ date <= first + n
        BY <1>4, <1>9
    <2>. QED  BY <1>7, <2>1, <2>2
<1>. QED  BY <1>10, Zenon DEF Due, n

-----------------------------------------------------------------------------
(* The lines of a calculation                                              *)

\* A line before the scenario, and a set of them.
RawLine(l) ==
    /\ {"entity", "direction", "amount", "sign", "probability", "week", "source"} \subseteq DOMAIN l
    /\ l.entity \in Entity /\ l.direction \in LineDirection
    /\ l.amount \in Int /\ l.sign \in Int /\ l.probability \in Int \union {None}
RawLines(S) == IsFiniteSet(S) /\ \A l \in S : RawLine(l)

LEMMA LineIsTyped ==
    ASSUME NEW row, row.entity \in Entity, NEW source, NEW direction \in LineDirection, NEW week,
           NEW amount \in Int, NEW sign \in Int,
           "probability" \in DOMAIN row => row.probability \in Int \union {None}
    PROVE  RawLine(Line(row, source, direction, week, amount, sign))
BY DEF RawLine, Line

LEMMA LinesAreRaw ==
    ASSUME NEW S, IsFiniteSet(S), NEW g, \A x \in S : RawLine(g[x])
    PROVE  RawLines({g[x] : x \in S})
BY ImageIsFinite DEF RawLines

LEMMA UnionIsRaw ==
    ASSUME NEW S, NEW T, RawLines(S), RawLines(T)
    PROVE  RawLines(S \union T)
BY FS_Union DEF RawLines

LEMMA CashDirections == {"INFLOW", "OUTFLOW", "TRANSFER"} \subseteq LineDirection
BY DEF LineDirection

\* The rows a forecast reads are of its entities.
LEMMA DatedRows ==
    ASSUME NEW f \in ForecastRow, NEW rows, IsFiniteSet(rows)
    PROVE  /\ IsFiniteSet(Scoped(f, rows)) /\ \A r \in Scoped(f, rows) : r \in rows /\ r.entity \in Entity
           /\ IsFiniteSet(Dated(f, rows)) /\ \A r \in Dated(f, rows) : r \in rows /\ r.entity \in Entity
<1>1. f.entities \subseteq Entity
    BY DEF ForecastRow
<1>2. IsFiniteSet(Scoped(f, rows)) /\ \A r \in Scoped(f, rows) : r \in rows /\ r.entity \in Entity
    BY <1>1, FS_Subset DEF Scoped
<1>3. IsFiniteSet(Dated(f, rows)) /\ Dated(f, rows) \subseteq Scoped(f, rows)
    BY <1>2, FS_Subset DEF Dated
<1>. QED  BY <1>2, <1>3

LEMMA ExpectedLinesAreRaw ==
    ASSUME NEW f \in ForecastRow
    PROVE  RawLines(expected_lines(f, data))
<1> DEFINE S == {r \in Dated(f, data.expected) : r.status # "CANCELLED"}
           line(row) == Line(row, row.source, IF row.source = "EXPECTED_COLLECTION" THEN "INFLOW" ELSE "OUTFLOW",
                             week_for_date(f.start, row.date), row.amount, 1)
           g == [row \in S |-> line(row)]
<1>1. Amounts(data.expected)
    BY TablesAssumption
<1>2. /\ IsFiniteSet(S)
      /\ \A row \in S : /\ row.entity \in Entity /\ row.amount \in Int
                        /\ "probability" \in DOMAIN row => row.probability \in Int \union {None}
    BY <1>1, DatedRows, FS_Subset DEF Amounts
<1>3. \A row \in S : RawLine(line(row))
    <2> SUFFICES ASSUME NEW row \in S PROVE RawLine(line(row))
        OBVIOUS
    <2>1. (IF row.source = "EXPECTED_COLLECTION" THEN "INFLOW" ELSE "OUTFLOW") \in LineDirection
        BY CashDirections
    <2> HIDE DEF S
    <2>. QED  BY <1>2, <2>1, LineIsTyped
<1>4. expected_lines(f, data) = {g[row] : row \in S}
    <2>1. expected_lines(f, data) = {line(row) : row \in S}
        BY Zenon DEF expected_lines
    <2> HIDE DEF S, line
    <2>. QED  BY <2>1
<1> HIDE DEF line, S
<1>5. RawLines({g[row] : row \in S})
    <2>1. \A row \in S : RawLine(g[row])
        BY <1>3
    <2> HIDE DEF g
    <2>. QED  BY <1>2, <2>1, LinesAreRaw
<1>. QED  BY <1>4, <1>5

\* A flow has finitely many occurrences.
LEMMA OccurrencesAreFinite ==
    ASSUME NEW flow \in data.flows, NEW start \in Int
    PROVE  IsFiniteSet(occurrences(flow, start))
<1> DEFINE first == LargerOf(flow.start, start)
           last == LastDate(start, FORECAST_HORIZON_WEEKS)
           until == IF flow.end = None THEN last ELSE SmallerOf(flow.end, last)
<1>1. flow.start \in Int /\ flow.end \in Int \union {None}
    BY TablesAssumption
<1>2. last \in Int
    BY ForecastsAssumption DEF LastDate, FirstDate
<1>3. first \in Int /\ until \in Int
    <2> HIDE DEF last
    <2>. QED  BY <1>1, <1>2 DEF LargerOf, SmallerOf
<1>4. occurrences(flow, start) \subseteq first..until
    BY Zenon DEF occurrences
<1>5. IsFiniteSet(first..until)
    <2> HIDE DEF first, until
    <2>. QED  BY <1>3, FS_Interval
<1>. QED  BY <1>4, <1>5, FS_Subset

LEMMA WeeksAreFinite == IsFiniteSet(Week)
<1>1. FORECAST_HORIZON_WEEKS \in Int
    BY ForecastsAssumption
<1>. QED  BY <1>1, FS_Interval DEF Week

LEMMA RecurringLinesAreRaw ==
    ASSUME NEW f \in ForecastRow
    PROVE  RawLines(recurring_lines(f, data))
<1> DEFINE In(flow, w) == {date \in occurrences(flow, f.start) : week_for_date(f.start, date) = w}
           S == {fw \in Scoped(f, data.flows) \X Week : In(fw[1], fw[2]) # {}}
           line(fw) == Line(fw[1], "RECURRING", fw[1].direction, fw[2], fw[1].amount * Cardinality(In(fw[1], fw[2])), 1)
           g == [fw \in S |-> line(fw)]
<1>1. Amounts(data.flows) /\ f.start \in Int
    BY TablesAssumption DEF ForecastRow
<1>2. /\ IsFiniteSet(Scoped(f, data.flows))
      /\ \A row \in Scoped(f, data.flows) :
            /\ row \in data.flows /\ row.entity \in Entity /\ row.amount \in Int /\ row.direction \in LineDirection
            /\ "probability" \in DOMAIN row => row.probability \in Int \union {None}
    <2>1. \A row \in data.flows : row.direction \in LineDirection
        BY DEF LineDirection
    <2>. QED  BY <1>1, <2>1, DatedRows DEF Amounts
<1>3. IsFiniteSet(S)
    <2>1. IsFiniteSet(Scoped(f, data.flows) \X Week)
        BY <1>2, WeeksAreFinite, FS_Product
    <2> HIDE DEF In
    <2>. QED  BY <2>1, FS_Subset
<1>4. \A fw \in S : RawLine(line(fw))
    <2> SUFFICES ASSUME NEW fw \in S PROVE RawLine(line(fw))
        OBVIOUS
    <2>1. fw[1] \in Scoped(f, data.flows)
        <3> HIDE DEF In
        <3>. QED  OBVIOUS
    <2>2. IsFiniteSet(In(fw[1], fw[2]))
        BY <1>1, <1>2, <2>1, OccurrencesAreFinite, FS_Subset
    <2>3. Cardinality(In(fw[1], fw[2])) \in Nat
        <3> HIDE DEF In
        <3>. QED  BY <2>2, FS_CardinalityType
    <2> DEFINE n == Cardinality(In(fw[1], fw[2]))
    <2> HIDE DEF n, S, In
    <2>4. n \in Nat
        BY <2>3 DEF n
    <2>5. fw[1].amount * n \in Int
        BY <1>2, <2>1, <2>4
    <2>6. RawLine(Line(fw[1], "RECURRING", fw[1].direction, fw[2], fw[1].amount * n, 1))
        BY <1>2, <2>1, <2>5, LineIsTyped
    <2>. QED  BY <2>6 DEF n
<1>5. recurring_lines(f, data) = {g[fw] : fw \in S}
    <2>1. recurring_lines(f, data) = {line(fw) : fw \in S}
        BY Zenon DEF recurring_lines
    <2> HIDE DEF S, line
    <2>. QED  BY <2>1
<1> HIDE DEF line, S
<1>6. RawLines({g[fw] : fw \in S})
    <2>1. \A fw \in S : RawLine(g[fw])
        BY <1>4
    <2> HIDE DEF g
    <2>. QED  BY <1>3, <2>1, LinesAreRaw
<1>. QED  BY <1>5, <1>6

LEMMA ActualLinesAreRaw ==
    ASSUME NEW f \in ForecastRow
    PROVE  RawLines(actual_lines(f, data))
<1> DEFINE S == {r \in Dated(f, data.ledger) : r.direction # "NON_CASH"
                                                /\ (r.direction = "TRANSFER" => TransferSign[r.event] # 0)}
           line(row) == Line(row, "ACTUAL", row.direction, week_for_date(f.start, row.date), row.amount,
                             IF row.direction = "TRANSFER" THEN TransferSign[row.event] ELSE 1)
           g == [row \in S |-> line(row)]
<1>1. /\ Amounts(data.ledger)
      /\ \A r \in data.ledger : r.direction \in Direction /\ (r.direction = "TRANSFER" => TransferSign[r.event] \in Int)
    BY TablesAssumption
<1>2. /\ IsFiniteSet(S)
      /\ \A row \in S : /\ row.entity \in Entity /\ row.amount \in Int /\ row.direction \in LineDirection
                        /\ (IF row.direction = "TRANSFER" THEN TransferSign[row.event] ELSE 1) \in Int
                        /\ "probability" \in DOMAIN row => row.probability \in Int \union {None}
    <2>1. IsFiniteSet(S)
        BY <1>1, DatedRows, FS_Subset DEF Amounts
    <2>2. \A row \in S : row \in data.ledger /\ row.entity \in Entity /\ row.direction # "NON_CASH"
        BY <1>1, DatedRows DEF Amounts
    <2> HIDE DEF S
    <2>3. \A row \in S : row.direction \in LineDirection
        BY <1>1, <2>2, CashDirections DEF Direction
    <2>. QED  BY <1>1, <2>1, <2>2, <2>3 DEF Amounts
<1>3. \A row \in S : RawLine(line(row))
    <2> HIDE DEF S
    <2>. QED  BY <1>2, LineIsTyped
<1>4. actual_lines(f, data) = {g[row] : row \in S}
    <2>1. actual_lines(f, data) = {line(row) : row \in S}
        BY Zenon DEF actual_lines
    <2> HIDE DEF S, line
    <2>. QED  BY <2>1
<1> HIDE DEF line, S
<1>5. RawLines({g[row] : row \in S})
    <2>1. \A row \in S : RawLine(g[row])
        BY <1>3
    <2> HIDE DEF g
    <2>. QED  BY <1>2, <2>1, LinesAreRaw
<1>. QED  BY <1>4, <1>5

LEMMA ManualLinesAreRaw ==
    ASSUME NEW entries, Entries(entries)
    PROVE  RawLines(manual_lines(entries))
<1> DEFINE line(row) == Line(row, "MANUAL_ADJUSTMENT", row.direction, row.week, row.amount, 1)
           g == [row \in entries |-> line(row)]
<1>1. \A row \in entries : RawLine(line(row))
    BY LineIsTyped DEF Entries, Amounts
<1>2. manual_lines(entries) = {g[row] : row \in entries}
    <2>1. manual_lines(entries) = {line(row) : row \in entries}
        BY Zenon DEF manual_lines
    <2> HIDE DEF line
    <2>. QED  BY <2>1
<1> HIDE DEF line
<1>3. RawLines({g[row] : row \in entries})
    <2>1. \A row \in entries : RawLine(g[row])
        BY <1>1
    <2>2. IsFiniteSet(entries)
        BY DEF Entries, Amounts
    <2> HIDE DEF g
    <2>. QED  BY <2>1, <2>2, LinesAreRaw
<1>. QED  BY <1>2, <1>3

\* What facilities and investments bring and take.
EventRow(e) == e.amount \in Int /\ e.direction \in {"INFLOW", "OUTFLOW"} /\ "probability" \notin DOMAIN e
EventRows(S) == IsFiniteSet(S) /\ \A e \in S : EventRow(e)

LEMMA EventIsTyped ==
    ASSUME NEW row, NEW source, NEW id, NEW direction \in {"INFLOW", "OUTFLOW"}, NEW date, NEW amount \in Int
    PROVE  EventRow(Event(row, source, id, direction, date, amount))
BY DEF EventRow, Event

LEMMA EventsAreRows ==
    ASSUME NEW S, IsFiniteSet(S), NEW g, \A x \in S : EventRow(g[x])
    PROVE  EventRows({g[x] : x \in S})
BY ImageIsFinite DEF EventRows

LEMMA UnionIsRows ==
    ASSUME NEW S, NEW T, EventRows(S), EventRows(T)
    PROVE  EventRows(S \union T)
BY FS_Union DEF EventRows

LEMMA FacilityEventsAreRows == EventRows(facility_forecast_events(data))
<1>1. /\ Amounts(data.repayments) /\ Amounts(data.fees) /\ Amounts(data.drawdowns)
      /\ \A r \in data.repayments : r.paid \in Int
    BY TablesAssumption
<1>2. EventRows(repayment_events(data))
    <2> DEFINE S == {r \in data.repayments : r.status \in OpenRepayment /\ r.paid < r.amount}
               g == [r \in S |-> Event(r, "FACILITY_REPAYMENT", r.id, "OUTFLOW", r.due, r.amount - r.paid)]
    <2>1. IsFiniteSet(S) /\ \A r \in S : r.amount - r.paid \in Int
        BY <1>1, FS_Subset DEF Amounts
    <2>2. repayment_events(data) = {g[r] : r \in S}
        BY DEF repayment_events
    <2> HIDE DEF S
    <2>3. \A r \in S : EventRow(g[r])
        BY <2>1, EventIsTyped
    <2> HIDE DEF g
    <2>. QED  BY <2>1, <2>2, <2>3, EventsAreRows
<1>3. EventRows(fee_events(data))
    <2> DEFINE S == {r \in data.fees : r.status = "DUE"}
               g == [r \in S |-> Event(r, "FACILITY_FEE", r.id, "OUTFLOW", r.due, r.amount)]
    <2>1. IsFiniteSet(S) /\ \A r \in S : r.amount \in Int
        BY <1>1, FS_Subset DEF Amounts
    <2>2. fee_events(data) = {g[r] : r \in S}
        BY DEF fee_events
    <2> HIDE DEF S
    <2>3. \A r \in S : EventRow(g[r])
        BY <2>1, EventIsTyped
    <2> HIDE DEF g
    <2>. QED  BY <2>1, <2>2, <2>3, EventsAreRows
<1>4. EventRows(drawdown_events(data))
    <2> DEFINE S == {r \in data.drawdowns : r.status = "APPROVED"}
               g == [r \in S |-> Event(r, "FACILITY_DRAWDOWN", r.id, "INFLOW", r.date, r.amount)]
    <2>1. IsFiniteSet(S) /\ \A r \in S : r.amount \in Int
        BY <1>1, FS_Subset DEF Amounts
    <2>2. drawdown_events(data) = {g[r] : r \in S}
        BY DEF drawdown_events
    <2> HIDE DEF S
    <2>3. \A r \in S : EventRow(g[r])
        BY <2>1, EventIsTyped
    <2> HIDE DEF g
    <2>. QED  BY <2>1, <2>2, <2>3, EventsAreRows
<1>. QED  BY <1>2, <1>3, <1>4, UnionIsRows DEF facility_forecast_events

LEMMA InvestmentsAreTyped ==
    /\ IsFiniteSet(data.investments) /\ IsFiniteSet(outstanding(data)) /\ outstanding(data) \subseteq data.investments
    /\ \A i \in data.investments : i.principal \in Int /\ i.expected \in Int
BY TablesAssumption, FS_Subset DEF outstanding

LEMMA MaturitiesAreRows == EventRows(maturity_events(data))
<1> DEFINE S == {i \in outstanding(data) : i.principal > 0}
           g == [i \in S |-> Event(i, "INVESTMENT_MATURITY_PRINCIPAL", i.id, "INFLOW", i.maturity, i.principal)]
           T == {i \in outstanding(data) : i.method = "AT_MATURITY" /\ i.expected > 0}
           h == [i \in T |-> Event(i, "INVESTMENT_MATURITY_INTEREST", i.id, "INFLOW", i.maturity, i.expected)]
<1>1. IsFiniteSet(S) /\ IsFiniteSet(T) /\ (\A i \in S : i.principal \in Int) /\ (\A i \in T : i.expected \in Int)
    BY InvestmentsAreTyped, FS_Subset
<1>2. maturity_events(data) = {g[i] : i \in S} \union {h[i] : i \in T}
    BY DEF maturity_events
<1> HIDE DEF S, T
<1>3. (\A i \in S : EventRow(g[i])) /\ (\A i \in T : EventRow(h[i]))
    BY <1>1, EventIsTyped
<1> HIDE DEF g, h
<1>4. EventRows({g[i] : i \in S}) /\ EventRows({h[i] : i \in T})
    BY <1>1, <1>3, EventsAreRows
<1>. QED  BY <1>2, <1>4, UnionIsRows

LEMMA PlacementsAreRows == EventRows(placement_events(data))
<1> DEFINE S == {i \in data.investments : i.status = "PLACEMENT_PENDING" /\ i.placement # None}
           g == [i \in S |-> Event(i, "INVESTMENT_PLACEMENT", i.id, "OUTFLOW", i.placement, i.principal)]
           T == {i \in S : i.method = "UPFRONT" /\ i.expected > 0}
           h == [i \in T |-> Event(i, "INVESTMENT_INTEREST_RECEIPT", i.id, "INFLOW", i.placement, i.expected)]
<1>1. IsFiniteSet(S) /\ IsFiniteSet(T) /\ (\A i \in S : i.principal \in Int) /\ (\A i \in T : i.expected \in Int)
    BY InvestmentsAreTyped, FS_Subset
<1>2. placement_events(data) = {g[i] : i \in S} \union {h[i] : i \in T}
    BY DEF placement_events
<1> HIDE DEF S, T
<1>3. (\A i \in S : EventRow(g[i])) /\ (\A i \in T : EventRow(h[i]))
    BY <1>1, EventIsTyped
<1> HIDE DEF g, h
<1>4. EventRows({g[i] : i \in S}) /\ EventRows({h[i] : i \in T})
    BY <1>1, <1>3, EventsAreRows
<1>. QED  BY <1>2, <1>4, UnionIsRows

LEMMA ReceiptsAreRows == EventRows(periodic_events(data))
<1> DEFINE S == {i \in outstanding(data) : i.method = "PERIODIC" /\ i.months # None}
           of(i, p) == Event(i, "INVESTMENT_INTEREST_RECEIPT", Append(i.id, p.period), "INFLOW", p.period_end, p.interest_amount)
           G == [i \in S |-> {of(i, p) : p \in open_periods(i)}]
<1>1. IsFiniteSet(S)
    BY InvestmentsAreTyped, FS_Subset
<1>2. periodic_events(data) = UNION {G[i] : i \in S}
    <2>1. periodic_events(data) = UNION {{of(i, p) : p \in open_periods(i)} : i \in S}
        BY Zenon DEF periodic_events
    <2>2. {G[i] : i \in S} = {{of(i, p) : p \in open_periods(i)} : i \in S}
        <3> HIDE DEF S, of
        <3>. QED  OBVIOUS
    <2>. QED  BY <2>1, <2>2, Zenon
<1>3. \A i \in S : EventRows(G[i])
    <2> SUFFICES ASSUME NEW i \in S PROVE EventRows(G[i])
        OBVIOUS
    <2> DEFINE g == [p \in open_periods(i) |-> of(i, p)]
    <2>1. IsFiniteSet(open_periods(i)) /\ \A p \in open_periods(i) : p.interest_amount \in Int
        BY OpenPeriodsAreAmounts
    <2>2. \A p \in open_periods(i) : EventRow(of(i, p))
        <3> HIDE DEF S, G
        <3>. QED  BY <2>1, EventIsTyped
    <2>3. \A p \in open_periods(i) : EventRow(g[p])
        <3> HIDE DEF S, G, of
        <3>. QED  BY <2>2
    <2>4. EventRows({g[p] : p \in open_periods(i)})
        <3> HIDE DEF g, S, G
        <3>. QED  BY <2>1, <2>3, EventsAreRows
    <2>5. G[i] = {g[p] : p \in open_periods(i)}
        <3> HIDE DEF S, of
        <3>. QED  OBVIOUS
    <2>. QED  BY <2>4, <2>5, Zenon
<1> HIDE DEF S, G
<1>4. IsFiniteSet({G[i] : i \in S})
    BY <1>1, ImageIsFinite
<1>5. IsFiniteSet(UNION {G[i] : i \in S})
    <2>1. \A T \in {G[i] : i \in S} : IsFiniteSet(T)
        BY <1>3 DEF EventRows
    <2>. QED  BY <1>4, <2>1, FS_UNION
<1>. QED  BY <1>2, <1>3, <1>5 DEF EventRows

LEMMA EventLinesAreRaw ==
    ASSUME NEW f \in ForecastRow
    PROVE  RawLines(event_lines(f, data))
<1> DEFINE E == facility_forecast_events(data) \union investment_forecast_events(data)
           S == Dated(f, E)
           line(e) == Line(e, e.source, e.direction, week_for_date(f.start, e.date), e.amount, 1)
           g == [e \in S |-> line(e)]
<1>1. EventRows(E)
    BY FacilityEventsAreRows, MaturitiesAreRows, PlacementsAreRows, ReceiptsAreRows, UnionIsRows
       DEF investment_forecast_events
<1> HIDE DEF E
<1>2. IsFiniteSet(S) /\ \A e \in S : EventRow(e) /\ e.entity \in Entity
    BY <1>1, DatedRows DEF EventRows
<1>3. \A e \in S : RawLine(line(e))
    <2> HIDE DEF S
    <2>. QED  BY <1>2, LineIsTyped, CashDirections DEF EventRow
<1>4. event_lines(f, data) = {g[e] : e \in S}
    <2>1. event_lines(f, data) = {line(e) : e \in S}
        BY Zenon DEF event_lines, E
    <2> HIDE DEF S, line
    <2>. QED  BY <2>1
<1> HIDE DEF line, S
<1>5. RawLines({g[e] : e \in S})
    <2>1. \A e \in S : RawLine(g[e])
        BY <1>3
    <2> HIDE DEF g
    <2>. QED  BY <1>2, <2>1, LinesAreRaw
<1>. QED  BY <1>4, <1>5

\* Every line before the scenario.
LEMMA RawLinesAreRaw ==
    ASSUME NEW f \in ForecastRow, NEW entries, Entries(entries)
    PROVE  RawLines(raw_lines(f, data, entries))
BY ExpectedLinesAreRaw, RecurringLinesAreRaw, ActualLinesAreRaw, ManualLinesAreRaw, EventLinesAreRaw, UnionIsRaw
   DEF raw_lines

-----------------------------------------------------------------------------
(* Scenarios                                                               *)

\* What a haircut leaves of a probability, and all of them.
Cut(p, n) == IF p = None THEN None ELSE LargerOf(0, p - n)
HaircutType == "COLLECTION_PROBABILITY_HAIRCUT_PCT"
AfterHaircuts(f, p) == Applied(f, HaircutType, p, Cut)

\* The equation of the recursion over the indices that assumptions apply in.
HaircutStep(f, p, r, s) ==
    IF s = {} THEN p
    ELSE LET n == CHOOSE x \in s : \A y \in s : x >= y
         IN  IF f.assumptions[n].type = HaircutType THEN Cut(r[s \ {n}], f.assumptions[n].value)
             ELSE r[s \ {n}]

LEMMA HaircutsAreSteps ==
    ASSUME NEW f, NEW p
    PROVE  AfterHaircuts(f, p) =
               (CHOOSE r : r = [s \in SUBSET DOMAIN f.assumptions |-> HaircutStep(f, p, r, s)])[DOMAIN f.assumptions]
BY Zenon DEF AfterHaircuts, Applied, FoldLeft, MapThenFoldSet, Max, HaircutStep

LEMMA AssumptionsAreTyped ==
    ASSUME NEW f \in ForecastRow
    PROVE  /\ DOMAIN f.assumptions \subseteq Int /\ IsFiniteSet(DOMAIN f.assumptions)
           /\ \A n \in DOMAIN f.assumptions : f.assumptions[n].value \in Int
<1> DEFINE A == Assumption
           seq == f.assumptions
<1>1. seq \in Seq(A)
    BY DEF ForecastRow
<1>2. \A a \in A : a.value \in Int
    BY DEF Assumption
<1> HIDE DEF A, seq
<1>3. Len(seq) \in Nat /\ DOMAIN seq = 1..Len(seq) /\ \A n \in DOMAIN seq : seq[n] \in A
    BY <1>1
<1>4. IsFiniteSet(1..Len(seq))
    BY <1>3, FS_Interval
<1>5. DOMAIN seq \subseteq Int /\ IsFiniteSet(DOMAIN seq) /\ \A n \in DOMAIN seq : seq[n].value \in Int
    BY <1>2, <1>3, <1>4
<1>. QED  BY <1>5 DEF seq

LEMMA CutIsTyped ==
    ASSUME NEW p \in Int \union {None}, NEW n \in Int
    PROVE  Cut(p, n) \in Int \union {None}
<1>1. CASE p = None
    BY <1>1 DEF Cut
<1>2. CASE p # None
    <2>1. p - n \in Int
        BY <1>2
    <2>2. LargerOf(0, p - n) \in Int
        BY <2>1 DEF LargerOf
    <2>. QED  BY <1>2, <2>2 DEF Cut
<1>. QED  BY <1>1, <1>2

LEMMA AfterHaircutsIsTyped ==
    ASSUME NEW f \in ForecastRow, NEW p \in Int \union {None}
    PROVE  AfterHaircuts(f, p) \in Int \union {None}
<1> DEFINE S == DOMAIN f.assumptions
           T == Int \union {None}
           pick == [s \in SUBSET S |-> CHOOSE x \in s : \A y \in s : x >= y]
           h == [a \in S \X T |-> IF f.assumptions[a[1]].type = HaircutType
                                  THEN Cut(a[2], f.assumptions[a[1]].value) ELSE a[2]]
<1>2. S \subseteq Int /\ IsFiniteSet(S) /\ \A n \in S : f.assumptions[n].value \in Int
    BY AssumptionsAreTyped
<1> HIDE DEF S
<1>4. \A s \in SUBSET S : s # {} => pick[s] \in s
    <2> SUFFICES ASSUME NEW s \in SUBSET S, s # {}
                 PROVE  (CHOOSE x \in s : \A y \in s : x >= y) \in s
        OBVIOUS
    <2> DEFINE n == [x \in s |-> x]
    <2>1. IsFiniteSet(s) /\ \A x \in s : n[x] \in Int
        BY <1>2, FS_Subset
    <2>2. \E x \in s : \A y \in s : n[y] <= n[x]
        <3> HIDE DEF n
        <3>. QED  BY <2>1, LatestExists
    <2>3. \E x \in s : \A y \in s : x >= y
        BY <1>2, <2>2
    <2>. QED  BY <2>3
<1>5. h \in [S \X T -> T]
    <2> SUFFICES ASSUME NEW a \in S \X T PROVE h[a] \in T
        BY Zenon
    <2>1. a[1] \in S /\ a[2] \in T
        OBVIOUS
    <2>2. Cut(a[2], f.assumptions[a[1]].value) \in T
        BY <1>2, <2>1, CutIsTyped, Zenon
    <2>. QED  BY <2>1, <2>2
<1>6. \E g \in [SUBSET S -> T] : SetSteps(g, S, p, pick, h)
    <2> HIDE DEF pick, h, T
    <2>1. p \in T
        BY DEF T
    <2>. QED  BY <1>2, <1>4, <1>5, <2>1, SetRecursion
<1>7. PICK g \in [SUBSET S -> T] : SetSteps(g, S, p, pick, h)
    BY <1>6
<1>8. g = [s \in SUBSET S |-> HaircutStep(f, p, g, s)]
    <2>1. \A s \in SUBSET S : g[s] = HaircutStep(f, p, g, s)
        <3> SUFFICES ASSUME NEW s \in SUBSET S
                     PROVE  g[s] = HaircutStep(f, p, g, s)
            OBVIOUS
        <3>1. g[s] = IF s = {} THEN p ELSE h[<<pick[s], g[s \ {pick[s]}]>>]
            <4> HIDE DEF pick, h, T
            <4>. QED  BY <1>7 DEF SetSteps
        <3>2. CASE s = {}
            BY <3>1, <3>2 DEF HaircutStep
        <3>3. CASE s # {}
            <4> DEFINE n == CHOOSE x \in s : \A y \in s : x >= y
            <4>1. pick[s] = n /\ n \in s /\ n \in S /\ s \ {n} \in SUBSET S
                BY <1>4, <3>3
            <4>2. g[s \ {n}] \in T
                <5> HIDE DEF n, T, pick, h
                <5>. QED  BY <1>7, <4>1
            <4>3. g[s] = h[<<n, g[s \ {n}]>>]
                <5> HIDE DEF n, T, pick, h
                <5>. QED  BY <3>1, <3>3, <4>1
            <4>4. h[<<n, g[s \ {n}]>>] = IF f.assumptions[n].type = HaircutType
                                         THEN Cut(g[s \ {n}], f.assumptions[n].value) ELSE g[s \ {n}]
                <5> HIDE DEF n, T, pick
                <5>. QED  BY <4>1, <4>2
            <4>5. HaircutStep(f, p, g, s) = IF f.assumptions[n].type = HaircutType
                                            THEN Cut(g[s \ {n}], f.assumptions[n].value) ELSE g[s \ {n}]
                BY <3>3 DEF HaircutStep
            <4>. QED  BY <4>3, <4>4, <4>5, Zenon
        <3>. QED  BY <3>2, <3>3
    <2>2. g = [s \in SUBSET S |-> g[s]]
        BY <1>7
    <2>. QED  BY <2>1, <2>2, Zenon
<1> DEFINE r == CHOOSE r : r = [s \in SUBSET S |-> HaircutStep(f, p, r, s)]
<1>9. r = [s \in SUBSET S |-> HaircutStep(f, p, r, s)]
    BY <1>8, Zenon
<1>10. AfterHaircuts(f, p) = r[S]
    BY HaircutsAreSteps, Zenon DEF S
<1> HIDE DEF r
<1>11. r[S] \in T
    <2>1. r[{}] \in T
        BY <1>9 DEF HaircutStep
    <2>2. ASSUME NEW s \in SUBSET S, s # {}, r[s \ {pick[s]}] \in T
          PROVE  r[s] \in T
        <3> DEFINE n == CHOOSE x \in s : \A y \in s : x >= y
        <3>1. pick[s] = n /\ n \in S
            BY <1>4, <2>2
        <3>2. r[s] = HaircutStep(f, p, r, s)
            BY <1>9
        <3>3. HaircutStep(f, p, r, s) = IF f.assumptions[n].type = HaircutType
                                        THEN Cut(r[s \ {n}], f.assumptions[n].value) ELSE r[s \ {n}]
            BY <2>2 DEF HaircutStep
        <3> HIDE DEF n, pick
        <3>4. r[s \ {n}] \in T
            BY <2>2, <3>1
        <3>5. Cut(r[s \ {n}], f.assumptions[n].value) \in T
            BY <1>2, <3>1, <3>4, CutIsTyped, Zenon
        <3>. QED  BY <3>2, <3>3, <3>4, <3>5
    <2> HIDE DEF T, pick
    <2>. QED  BY <1>2, <1>4, <2>1, <2>2, SetRecursionHolds
<1>. QED  BY <1>10, <1>11

\* What the scenario makes of a line, and of none.
LEMMA ScenarioLineIsRaw ==
    ASSUME NEW f \in ForecastRow, NEW l, RawLine(l)
    PROVE  RawLine(scenario_line(f, l))
<1>1. AfterHaircuts(f, l.probability) \in Int \union {None}
    BY AfterHaircutsIsTyped DEF RawLine
<1>2. ASSUME NEW w, NEW p \in Int \union {None}
      PROVE  RawLine([l EXCEPT !.week = w, !.probability = p]) /\ RawLine([l EXCEPT !.week = w])
    BY <1>2 DEF RawLine
<1>3. CASE l.source = "EXPECTED_COLLECTION"
    <2>1. \E w : scenario_line(f, l) = [l EXCEPT !.week = w, !.probability = AfterHaircuts(f, l.probability)]
        BY <1>3, Zenon DEF scenario_line, AfterHaircuts, HaircutType, Cut
    <2>. QED  BY <1>1, <1>2, <2>1, Zenon
<1>4. CASE l.source = "EXPECTED_PAYMENT"
    <2>1. \E w : scenario_line(f, l) = [l EXCEPT !.week = w]
        BY <1>4, Zenon DEF scenario_line
    <2>. QED  BY <1>1, <1>2, <2>1, Zenon
<1>5. CASE l.source \notin {"EXPECTED_COLLECTION", "EXPECTED_PAYMENT"}
    <2>1. scenario_line(f, l) = l
        BY <1>5, Zenon DEF scenario_line
    <2>. QED  BY <2>1
<1>. QED  BY <1>3, <1>4, <1>5

LEMMA OutflowLinesAreRaw ==
    ASSUME NEW f \in ForecastRow, NEW L, RawLines(L)
    PROVE  RawLines(outflow_lines(f, L))
<1> DEFINE first == CHOOSE l \in L : TRUE
           S == OfType(f, "UNEXPECTED_OUTFLOW_AMOUNT")
           row(n) == [id |-> <<"scenario", n>>, entity |-> first.entity, currency |-> first.currency]
           line(n) == Line(row(n), "SCENARIO_ADJUSTMENT", "OUTFLOW", 1, f.assumptions[n].value, 1)
           g == [n \in S |-> line(n)]
<1>1. CASE L = {}
    <2>1. outflow_lines(f, L) = {}
        BY <1>1 DEF outflow_lines
    <2>. QED  BY <2>1, FS_EmptySet DEF RawLines
<1>2. CASE L # {}
    <2>1. first.entity \in Entity
        BY <1>2 DEF RawLines, RawLine
    <2> HIDE DEF first
    <2>2. IsFiniteSet(S) /\ \A n \in S : f.assumptions[n].value \in Int
        BY AssumptionsAreTyped, FS_Subset DEF OfType
    <2>3. outflow_lines(f, L) = {g[n] : n \in S}
        <3>1. outflow_lines(f, L) = {line(n) : n \in S}
            BY <1>2, Zenon DEF outflow_lines, first
        <3> HIDE DEF S, line
        <3>. QED  BY <3>1
    <2>4. \A n \in S : RawLine(line(n))
        <3> SUFFICES ASSUME NEW n \in S PROVE RawLine(line(n))
            OBVIOUS
        <3>1. row(n).entity \in Entity /\ "probability" \notin DOMAIN row(n)
            BY <2>1
        <3> HIDE DEF S, row
        <3>. QED  BY <2>2, <3>1, LineIsTyped, CashDirections
    <2> HIDE DEF S, line
    <2>5. RawLines({g[n] : n \in S})
        <3>1. \A n \in S : RawLine(g[n])
            BY <2>4
        <3> HIDE DEF g
        <3>. QED  BY <2>2, <3>1, LinesAreRaw
    <2>. QED  BY <2>3, <2>5
<1>. QED  BY <1>1, <1>2

LEMMA ScenarioLinesAreRaw ==
    ASSUME NEW f \in ForecastRow, NEW L, RawLines(L)
    PROVE  RawLines(scenario_lines(f, L))
<1> DEFINE g == [l \in L |-> scenario_line(f, l)]
<1>1. RawLines({g[l] : l \in L})
    <2>1. IsFiniteSet(L) /\ \A l \in L : RawLine(g[l])
        BY ScenarioLineIsRaw DEF RawLines
    <2> HIDE DEF g
    <2>. QED  BY <2>1, LinesAreRaw
<1>2. RawLines({g[l] : l \in L} \union outflow_lines(f, L))
    BY <1>1, OutflowLinesAreRaw, UnionIsRaw
<1>3. scenario_lines(f, L) \subseteq {g[l] : l \in L} \union outflow_lines(f, L)
    BY DEF scenario_lines
<1>. QED  BY <1>2, <1>3, FS_Subset DEF RawLines

-----------------------------------------------------------------------------
(* What is stored of a line                                                *)

\* A stored line.
StoredLine(l) == /\ l.entity \in Entity /\ l.week \in Week /\ l.direction \in LineDirection
                 /\ l.adjusted_amount \in Int /\ l.reporting_amount \in Int

LEMMA StoredLineIsTyped ==
    ASSUME NEW f, NEW line, RawLine(line), line.week \in Week
    PROVE  StoredLine(stored_line(f, data, line))
<1> DEFINE expected == expectation(f, line)
           share == line.amount * expectation(f, line) * line.sign
           rate == get_conversion_rate(data.rates, line.currency, f.reporting, LastDate(f.start, line.week))
           adjusted == round_half_up(share, Percent)
           reporting == IF rate = None THEN 0 ELSE round_half_up(share * rate[1], Percent * rate[2])
<1>1. stored_line(f, data, line) =
          [source |-> line.source, id |-> line.id, entity |-> line.entity, currency |-> line.currency,
           direction |-> line.direction, week |-> line.week, rate |-> rate,
           adjusted_amount |-> adjusted, reporting_amount |-> reporting]
    BY Zenon DEF stored_line
<1>2. expected \in Int
    BY DEF expectation, RawLine, Percent
<1> HIDE DEF expected
<1>3. line.amount \in Int /\ line.sign \in Int
    BY DEF RawLine
<1>4. share \in Int
    <2>1. line.amount * expected \in Int
        BY <1>2, <1>3
    <2>2. (line.amount * expected) * line.sign \in Int
        BY <1>3, <2>1
    <2>. QED  BY <2>2 DEF expected
<1>5. rate \in Rate \union {None}
    BY RateIsTyped
<1> HIDE DEF share, rate
<1>6. Percent \in Nat \ {0}
    BY DEF Percent
<1>7. adjusted \in Int
    BY <1>4, <1>6, RoundingIsInteger
<1>8. reporting \in Int
    <2>1. CASE rate = None
        BY <2>1
    <2>2. CASE rate # None
        <3>1. rate[1] \in Int /\ rate[2] \in Nat \ {0}
            BY <1>5, <2>2 DEF Rate
        <3>2. share * rate[1] \in Int
            BY <1>4, <3>1
        <3>3. Percent * rate[2] \in Nat \ {0}
            BY <3>1 DEF Percent
        <3>4. round_half_up(share * rate[1], Percent * rate[2]) \in Int
            BY <3>2, <3>3, RoundingIsInteger
        <3>. QED  BY <2>2, <3>4
    <2>. QED  BY <2>1, <2>2
<1> HIDE DEF adjusted, reporting
<1>. QED  BY <1>1, <1>7, <1>8 DEF StoredLine, RawLine

-----------------------------------------------------------------------------
(* Opening balances                                                        *)

LEMMA ByCurrencyIsInteger ==
    ASSUME NEW accounts, NEW as_of, NEW balance, balance = calculate_cash_position(data.balances, accounts, as_of).by_currency,
           NEW c \in DOMAIN balance
    PROVE  balance[c] \in Int
<1> DEFINE rows == latest_balances(data.balances, accounts, as_of)
           Closing(b) == b.closing
           S == {b \in rows : b.currency = c}
           g == [b \in S |-> b.closing]
<1>1. balance = [k \in {b.currency : b \in rows} |-> MapThenSumSet(Closing, {b \in rows : b.currency = k})]
    BY Zenon DEF calculate_cash_position
<1>2. balance[c] = MapThenSumSet(Closing, S)
    <2> HIDE DEF rows
    <2>1. DOMAIN balance = {b.currency : b \in rows}
        BY <1>1, Zenon
    <2>2. c \in {b.currency : b \in rows}
        BY <2>1
    <2>. QED  BY <1>1, <2>2, Zenon
<1>3. IsFiniteSet(S) /\ \A b \in S : b.closing \in Int
    BY TablesAssumption, FS_Subset DEF latest_balances
<1> HIDE DEF S
<1>4. MapThenSumSet(Closing, S) = SumFunctionOnSet(g, S)
    BY Zenon DEF MapThenSumSet, SumFunctionOnSet, FoldFunctionOnSet, MapThenFoldSet
<1>5. \A b \in S : g[b] \in Int
    BY <1>3
<1> HIDE DEF g
<1>6. SumFunctionOnSet(g, S) \in Int
    BY <1>3, <1>5, SumOfIntegers
<1>. QED  BY <1>2, <1>4, <1>6, Zenon

LEMMA OpeningIsTyped ==
    ASSUME NEW f \in ForecastRow
    PROVE  IsFiniteSet(DOMAIN Opening(f, data)) /\ \A pair \in DOMAIN Opening(f, data) : Opening(f, data)[pair] \in Int
<1> DEFINE Accounts(e) == {b.account : b \in Scoped([entities |-> {e}], data.balances)}
           of(e) == calculate_cash_position(data.balances, Accounts(e), f.start - 1).by_currency
           position == [e \in f.entities |-> of(e)]
           currencies == {b.currency : b \in data.balances}
           pairs == {pair \in f.entities \X currencies : pair[2] \in DOMAIN position[pair[1]]}
<1>1. Opening(f, data) = [pair \in pairs |-> position[pair[1]][pair[2]]]
    BY Zenon DEF Opening
<1>2. IsFiniteSet(pairs)
    <2>1. IsFiniteSet(f.entities)
        <3>1. f.entities \subseteq Entity
            BY DEF ForecastRow
        <3>. QED  BY <3>1, ForecastsAssumption, FS_Subset
    <2>2. IsFiniteSet(currencies)
        <3> DEFINE g == [b \in data.balances |-> b.currency]
        <3>1. currencies = {g[b] : b \in data.balances}
            OBVIOUS
        <3>2. IsFiniteSet(data.balances)
            BY TablesAssumption
        <3> HIDE DEF g
        <3>. QED  BY <3>1, <3>2, ImageIsFinite
    <2> HIDE DEF currencies, position
    <2>3. IsFiniteSet(f.entities \X currencies)
        BY <2>1, <2>2, FS_Product
    <2>. QED  BY <2>3, FS_Subset
<1>3. \A pair \in pairs : position[pair[1]][pair[2]] \in Int
    <2> SUFFICES ASSUME NEW pair \in pairs PROVE position[pair[1]][pair[2]] \in Int
        OBVIOUS
    <2>1. pair[1] \in f.entities /\ pair[2] \in DOMAIN position[pair[1]]
        <3> HIDE DEF currencies, position
        <3>. QED  OBVIOUS
    <2>2. position[pair[1]] = of(pair[1])
        <3> HIDE DEF of, pairs
        <3>. QED  BY <2>1
    <2> HIDE DEF position, pairs, Accounts
    <2>. QED  BY <2>1, <2>2, ByCurrencyIsInteger
<1> HIDE DEF pairs, position
<1>. QED  BY <1>1, <1>2, <1>3

\* The opening balance of an account in the reporting currency, and the
\* equation of the recursion that adds them.
Cash(f, opening, pair) ==
    <<opening[pair] * get_conversion_rate(data.rates, pair[2], f.reporting, f.start)[1],
      get_conversion_rate(data.rates, pair[2], f.reporting, f.start)[2]>>
Convertible(f, opening) == {pair \in DOMAIN opening : get_conversion_rate(data.rates, pair[2], f.reporting, f.start) # None}
CashStep(f, opening, r, s) ==
    IF s = {} THEN <<0, 1>>
    ELSE LET x == CHOOSE y \in s : TRUE
         IN  <<Cash(f, opening, x)[1] * r[s \ {x}][2] + r[s \ {x}][1] * Cash(f, opening, x)[2],
               Cash(f, opening, x)[2] * r[s \ {x}][2]>>
CashSum(f, opening) ==
    (CHOOSE r : r = [s \in SUBSET Convertible(f, opening) |-> CashStep(f, opening, r, s)])[Convertible(f, opening)]

LEMMA OpeningCashIsSum ==
    ASSUME NEW f, NEW opening
    PROVE  opening_cash(f, data, opening) = round_half_up(CashSum(f, opening)[1] * <<1, 1>>[1], CashSum(f, opening)[2] * <<1, 1>>[2])
BY Zenon DEF opening_cash, RoundedSum, FoldSet, MapThenFoldSet, CashSum, CashStep, Cash, Convertible

LEMMA OpeningCashIsInteger ==
    ASSUME NEW f, NEW opening, IsFiniteSet(DOMAIN opening), \A pair \in DOMAIN opening : opening[pair] \in Int
    PROVE  opening_cash(f, data, opening) \in Int
<1> DEFINE S == Convertible(f, opening)
           pick == [s \in SUBSET S |-> CHOOSE y \in s : TRUE]
           h == [a \in S \X Rate |-> <<Cash(f, opening, a[1])[1] * a[2][2] + a[2][1] * Cash(f, opening, a[1])[2],
                                       Cash(f, opening, a[1])[2] * a[2][2]>>]
<1>1. IsFiniteSet(S)
    BY FS_Subset DEF Convertible
<1>2. \A x \in S : Cash(f, opening, x) \in Rate
    <2> SUFFICES ASSUME NEW x \in S PROVE Cash(f, opening, x) \in Rate
        OBVIOUS
    <2> DEFINE rate == get_conversion_rate(data.rates, x[2], f.reporting, f.start)
    <2>1. rate \in Rate /\ opening[x] \in Int
        BY RateIsTyped DEF Convertible
    <2> HIDE DEF rate
    <2>2. <<opening[x] * rate[1], rate[2]>> \in Rate
        BY <2>1 DEF Rate
    <2>. QED  BY <2>2, Zenon DEF Cash, rate
<1> HIDE DEF S
<1>3. \A x \in S : \A v \in Rate :
          <<Cash(f, opening, x)[1] * v[2] + v[1] * Cash(f, opening, x)[2], Cash(f, opening, x)[2] * v[2]>> \in Rate
    <2> SUFFICES ASSUME NEW c \in Rate, NEW v \in Rate
                 PROVE  <<c[1] * v[2] + v[1] * c[2], c[2] * v[2]>> \in Rate
        BY <1>2
    <2>1. c[1] \in Int /\ c[2] \in Nat \ {0} /\ v[1] \in Int /\ v[2] \in Nat \ {0}
        BY DEF Rate
    <2>2. c[1] * v[2] + v[1] * c[2] \in Int /\ c[2] * v[2] \in Nat \ {0}
        BY <2>1
    <2>. QED  BY <2>2 DEF Rate
<1>4. \A s \in SUBSET S : s # {} => pick[s] \in s
    OBVIOUS
<1>5. h \in [S \X Rate -> Rate]
    <2> SUFFICES ASSUME NEW a \in S \X Rate PROVE h[a] \in Rate
        BY Zenon
    <2>1. a[1] \in S /\ a[2] \in Rate
        OBVIOUS
    <2>. QED  BY <1>3, <2>1
<1>6. \E g \in [SUBSET S -> Rate] : SetSteps(g, S, <<0, 1>>, pick, h)
    <2> HIDE DEF pick, h
    <2>1. <<0, 1>> \in Rate
        BY DEF Rate
    <2>. QED  BY <1>1, <1>4, <1>5, <2>1, SetRecursion
<1>7. PICK g \in [SUBSET S -> Rate] : SetSteps(g, S, <<0, 1>>, pick, h)
    BY <1>6
<1>8. g = [s \in SUBSET S |-> CashStep(f, opening, g, s)]
    <2>1. \A s \in SUBSET S : g[s] = CashStep(f, opening, g, s)
        <3> SUFFICES ASSUME NEW s \in SUBSET S
                     PROVE  g[s] = CashStep(f, opening, g, s)
            OBVIOUS
        <3>1. g[s] = IF s = {} THEN <<0, 1>> ELSE h[<<pick[s], g[s \ {pick[s]}]>>]
            <4> HIDE DEF pick, h
            <4>. QED  BY <1>7 DEF SetSteps
        <3>2. CASE s = {}
            BY <3>1, <3>2 DEF CashStep
        <3>3. CASE s # {}
            <4> DEFINE x == CHOOSE y \in s : TRUE
                       sum(v) == <<Cash(f, opening, x)[1] * v[2] + v[1] * Cash(f, opening, x)[2], Cash(f, opening, x)[2] * v[2]>>
            <4>1. pick[s] = x /\ x \in s /\ x \in S /\ s \ {x} \in SUBSET S
                BY <1>4, <3>3
            <4>2. g[s \ {x}] \in Rate
                <5> HIDE DEF x, pick, h
                <5>. QED  BY <1>7, <4>1
            <4>3. g[s] = h[<<x, g[s \ {x}]>>]
                <5> HIDE DEF x, pick, h
                <5>. QED  BY <3>1, <3>3, <4>1
            <4>4. h[<<x, g[s \ {x}]>>] = sum(g[s \ {x}])
                <5> HIDE DEF x, pick
                <5>. QED  BY <4>1, <4>2
            <4>5. CashStep(f, opening, g, s) = sum(g[s \ {x}])
                BY <3>3, Zenon DEF CashStep
            <4>. QED  BY <4>3, <4>4, <4>5, Zenon
        <3>. QED  BY <3>2, <3>3
    <2>2. g = [s \in SUBSET S |-> g[s]]
        BY <1>7
    <2>. QED  BY <2>1, <2>2, Zenon
<1> DEFINE r == CHOOSE r : r = [s \in SUBSET S |-> CashStep(f, opening, r, s)]
<1>9. r = [s \in SUBSET S |-> CashStep(f, opening, r, s)]
    BY <1>8, Zenon
<1>10. CashSum(f, opening) = r[S]
    BY Zenon DEF CashSum, S
<1> HIDE DEF r
<1>11. r[S] \in Rate
    <2>1. r[{}] \in Rate
        BY <1>9 DEF CashStep, Rate
    <2>2. ASSUME NEW s \in SUBSET S, s # {}, r[s \ {pick[s]}] \in Rate
          PROVE  r[s] \in Rate
        <3> DEFINE x == CHOOSE y \in s : TRUE
                   sum(v) == <<Cash(f, opening, x)[1] * v[2] + v[1] * Cash(f, opening, x)[2], Cash(f, opening, x)[2] * v[2]>>
        <3>1. pick[s] = x /\ x \in S
            BY <1>4, <2>2
        <3>2. r[s] = CashStep(f, opening, r, s)
            BY <1>9, Zenon
        <3>3. CashStep(f, opening, r, s) = sum(r[s \ {x}])
            BY <2>2, Zenon DEF CashStep
        <3> HIDE DEF x, pick
        <3>4. sum(r[s \ {x}]) \in Rate
            BY <1>3, <2>2, <3>1
        <3>. QED  BY <3>2, <3>3, <3>4, Zenon
    <2> HIDE DEF pick
    <2>. QED  BY <1>1, <1>4, <2>1, <2>2, SetRecursionHolds
<1> DEFINE sum == CashSum(f, opening)
<1>12. sum[1] \in Int /\ sum[2] \in Nat \ {0}
    BY <1>10, <1>11 DEF Rate
<1>13. opening_cash(f, data, opening) = round_half_up(sum[1] * 1, sum[2] * 1)
    <2>1. <<1, 1>>[1] = 1 /\ <<1, 1>>[2] = 1
        OBVIOUS
    <2>. QED  BY <2>1, OpeningCashIsSum, Zenon
<1> HIDE DEF sum
<1>14. sum[1] * 1 \in Int /\ sum[2] * 1 \in Nat \ {0}
    BY <1>12
<1>. QED  BY <1>13, <1>14, RoundingIsInteger

-----------------------------------------------------------------------------
(* What a calculation stores                                               *)

\* The output of a calculation from its lines and opening balances.
Output(f, L, opening, run) ==
    [lines |-> L, opening |-> opening, weeks |-> forecast_weeks(f, data, L, opening, Today),
     alerts |-> {[alert |-> a, status |-> "OPEN"] :
                    a \in generate_alerts(forecast_weeks(f, data, L, opening, Today), L, opening)},
     run |-> run]

LEMMA OutputsAre ==
    ASSUME NEW run, NEW f \in ForecastRow, NEW entries, Entries(entries), NEW o \in Outputs(run, f, entries)
    PROVE  \E L : /\ RawLines(L) /\ \A line \in L : line.week \in Week
                  /\ o = Output(f, {stored_line(f, data, line) : line \in L}, Opening(f, data), run)
<1> DEFINE Stores(L) == {stored_line(f, data, line) : line \in L}
           Weeks(L, opening) == forecast_weeks(f, data, L, opening, Today)
           Calculated(L, opening) ==
               [lines |-> L, opening |-> opening, weeks |-> Weeks(L, opening),
                alerts |-> {[alert |-> a, status |-> "OPEN"] : a \in generate_alerts(Weeks(L, opening), L, opening)}]
           placeable == {lines \in {scenario_lines(f, raw) : raw \in {raw_lines(f, data, entries)}} :
                            \A line \in lines : line.week \in Week}
<1>1. PICK c \in calculate_forecast(f, data, entries, Today) : 
              o = [lines |-> c.lines, opening |-> c.opening, weeks |-> c.weeks, alerts |-> c.alerts, run |-> run]
    BY DEF Outputs
<1>2. calculate_forecast(f, data, entries, Today) =
          {[lines |-> lw[1], opening |-> lw[2], weeks |-> lw[3],
            alerts |-> {[alert |-> a, status |-> "OPEN"] : a \in generate_alerts(lw[3], lw[1], lw[2])}] :
              lw \in {<<lo[1], lo[2], Weeks(lo[1], lo[2])>> :
                  lo \in {<<Stores(lines), Opening(f, data)>> : lines \in placeable}}}
    BY Zenon DEF calculate_forecast
<1> HIDE DEF placeable, Stores, Weeks
<1>3. PICK L \in placeable : c = Calculated(Stores(L), Opening(f, data))
    BY <1>1, <1>2
<1>4. RawLines(L) /\ \A line \in L : line.week \in Week
    <2>1. RawLines(scenario_lines(f, raw_lines(f, data, entries)))
        BY RawLinesAreRaw, ScenarioLinesAreRaw
    <2>. QED  BY <1>3, <2>1 DEF placeable
<1>5. o = Output(f, Stores(L), Opening(f, data), run)
    BY <1>1, <1>3 DEF Output, Weeks
<1>. QED  BY <1>4, <1>5 DEF Stores

\* A calculation leaves a whole output.
LEMMA CalculatedIsWhole ==
    ASSUME NEW f \in ForecastRow, NEW entries, Entries(entries), NEW run, NEW o \in Outputs(run, f, entries)
    PROVE  Whole(o)
<1> DEFINE opening == Opening(f, data)
<1>1. PICK R : /\ RawLines(R) /\ \A line \in R : line.week \in Week
               /\ o = Output(f, {stored_line(f, data, line) : line \in R}, opening, run)
    BY OutputsAre
<1> DEFINE L == {stored_line(f, data, line) : line \in R}
           first == opening_cash(f, data, opening)
           closing == Running(first, L, Reporting)
           weeks == forecast_weeks(f, data, L, opening, Today)
           raised == generate_alerts(weeks, L, opening)
<1>2. IsFiniteSet(L) /\ \A l \in L : StoredLine(l)
    <2> DEFINE g == [line \in R |-> stored_line(f, data, line)]
    <2>1. L = {g[line] : line \in R}
        OBVIOUS
    <2>2. \A line \in R : StoredLine(g[line])
        BY <1>1, StoredLineIsTyped DEF RawLines
    <2>3. IsFiniteSet(R)
        BY <1>1 DEF RawLines
    <2> HIDE DEF g, L
    <2>. QED  BY <2>1, <2>2, <2>3, ImageIsFinite
<1>3. IsFiniteSet(DOMAIN opening) /\ \A pair \in DOMAIN opening : opening[pair] \in Int
    BY OpeningIsTyped
<1> HIDE DEF L, opening
<1>4. first \in Int
    BY <1>3, OpeningCashIsInteger
<1>5. /\ o.lines = L /\ o.opening = opening /\ o.weeks = weeks
      /\ o.alerts = {[alert |-> a, status |-> "OPEN"] : a \in raised}
      /\ o = [lines |-> o.lines, opening |-> o.opening, weeks |-> o.weeks, alerts |-> o.alerts, run |-> o.run]
    BY <1>1, Zenon DEF Output, L
<1>6. \A w \in Week : /\ weeks[w].week_flows = flows({l \in L : l.week = w}, Reporting)
                      /\ weeks[w].opening_cash = closing[w - 1] /\ weeks[w].closing_cash = closing[w]
    <2> SUFFICES ASSUME NEW w \in Week
                 PROVE  /\ weeks[w].week_flows = flows({l \in L : l.week = w}, Reporting)
                        /\ weeks[w].opening_cash = closing[w - 1] /\ weeks[w].closing_cash = closing[w]
        OBVIOUS
    <2>1. weeks[w] = [week_flows |-> flows({l \in L : l.week = w}, Reporting), status |-> week_status(f.start, w, Today),
                      opening_cash |-> closing[w - 1], closing_cash |-> closing[w],
                      minimum |-> minimum_liquidity(f, data, w),
                      surplus_or_gap |-> closing[w] - minimum_liquidity(f, data, w)]
        BY Zenon DEF forecast_weeks
    <2> HIDE DEF closing, weeks
    <2> DEFINE now == flows({l \in L : l.week = w}, Reporting)
               status == week_status(f.start, w, Today)
               least == minimum_liquidity(f, data, w)
               gap == closing[w] - least
    <2>2. weeks[w] = [week_flows |-> now, status |-> status, opening_cash |-> closing[w - 1],
                      closing_cash |-> closing[w], minimum |-> least, surplus_or_gap |-> gap]
        BY <2>1, Zenon
    <2> HIDE DEF now, status, least, gap
    <2>3. /\ weeks[w].week_flows = now
          /\ weeks[w].opening_cash = closing[w - 1] /\ weeks[w].closing_cash = closing[w]
        BY ONLY <2>2
    <2>. QED  BY <2>3 DEF now
<1>7. closing[0] = first
    <2>1. \A l \in L : l.reporting_amount \in Int
        BY <1>2 DEF StoredLine
    <2>. QED  BY <1>2, <1>4, <2>1, RunningInReporting
<1>8. weeks[1].opening_cash = first
    <2>1. 1 \in Week /\ 1 - 1 = 0
        BY ForecastsAssumption DEF Week
    <2> HIDE DEF weeks, closing, first
    <2>. QED  BY <1>6, <1>7, <2>1
<1> HIDE DEF first, weeks, raised
<1>9. \A a \in o.alerts : a = [alert |-> a.alert, status |-> a.status]
    BY <1>5
<1>10. {a.alert : a \in o.alerts} = raised
    <2>1. \A x : x \in raised <=> \E a \in o.alerts : a.alert = x
        <3>1. SUFFICES ASSUME NEW x PROVE x \in raised <=> \E a \in o.alerts : a.alert = x
            OBVIOUS
        <3>2. ASSUME x \in raised PROVE \E a \in o.alerts : a.alert = x
            <4>1. [alert |-> x, status |-> "OPEN"] \in o.alerts
                BY <1>5, <3>2
            <4>2. [alert |-> x, status |-> "OPEN"].alert = x
                OBVIOUS
            <4>. QED  BY <4>1, <4>2, Zenon
        <3>3. ASSUME NEW a \in o.alerts, a.alert = x PROVE x \in raised
            BY <1>5, <3>3
        <3>. QED  BY <3>2, <3>3
    <2>. QED  BY <2>1, Zenon
<1>11. o.weeks[1].opening_cash = first
    BY <1>5, <1>8
<1>12. LET balance == Running(o.weeks[1].opening_cash, o.lines, Reporting)
       IN  \A w \in Week : /\ o.weeks[w].week_flows = flows({l \in o.lines : l.week = w}, Reporting)
                           /\ o.weeks[w].opening_cash = balance[w - 1] /\ o.weeks[w].closing_cash = balance[w]
    <2>1. Running(o.weeks[1].opening_cash, o.lines, Reporting) = Running(first, L, Reporting)
        BY <1>5, <1>11, Zenon
    <2> HIDE DEF closing
    <2>2. Running(o.weeks[1].opening_cash, o.lines, Reporting) = closing
        BY <2>1 DEF closing
    <2>3. o.lines = L /\ o.weeks = weeks
        BY <1>5
    <2>. QED  BY <1>6, <2>2, <2>3, Zenon
<1>13. {a.alert : a \in o.alerts} = generate_alerts(o.weeks, o.lines, o.opening)
    BY <1>5, <1>10, Zenon DEF raised
<1>14. \A l \in o.lines : /\ l.entity \in Entity /\ l.week \in Week /\ l.direction \in LineDirection
                          /\ l.adjusted_amount \in Int /\ l.reporting_amount \in Int
    BY <1>2, <1>5 DEF StoredLine
<1>15. /\ IsFiniteSet(o.lines) /\ IsFiniteSet(DOMAIN o.opening) /\ (\A pair \in DOMAIN o.opening : o.opening[pair] \in Int)
       /\ o.weeks[1].opening_cash \in Int
    BY <1>2, <1>3, <1>4, <1>5, <1>11
<1>. QED  BY <1>5, <1>9, <1>12, <1>13, <1>14, <1>15, Zenon DEF Whole

\* It stays whole when somebody has seen an alert.
LEMMA WholeWhenSeen ==
    ASSUME NEW o, Whole(o), NEW a \in o.alerts, NEW status
    PROVE  Whole([o EXCEPT !.alerts = (@ \ {a}) \union {[a EXCEPT !.status = status]}])
<1> DEFINE seen == [a EXCEPT !.status = status]
           alerts == (o.alerts \ {a}) \union {seen}
           new == [o EXCEPT !.alerts = (@ \ {a}) \union {[a EXCEPT !.status = status]}]
<1>1. a = [alert |-> a.alert, status |-> a.status] /\ \A b \in o.alerts : b = [alert |-> b.alert, status |-> b.status]
    BY DEF Whole
<1>2. seen.alert = a.alert /\ seen = [alert |-> seen.alert, status |-> seen.status]
    BY <1>1
<1> HIDE DEF seen
<1>3. o = [lines |-> o.lines, opening |-> o.opening, weeks |-> o.weeks, alerts |-> o.alerts, run |-> o.run]
    BY DEF Whole
<1>4. /\ new.lines = o.lines /\ new.opening = o.opening /\ new.weeks = o.weeks /\ new.alerts = alerts
      /\ new = [lines |-> new.lines, opening |-> new.opening, weeks |-> new.weeks, alerts |-> new.alerts, run |-> new.run]
    BY <1>3 DEF seen
<1> HIDE DEF new
<1>5. \A b \in new.alerts : b = [alert |-> b.alert, status |-> b.status]
    BY <1>1, <1>2, <1>4
<1>6. {b.alert : b \in new.alerts} = {b.alert : b \in o.alerts}
    BY <1>2, <1>4
<1> HIDE DEF alerts
<1>7. {b.alert : b \in new.alerts} = generate_alerts(new.weeks, new.lines, new.opening)
    <2>1. {b.alert : b \in o.alerts} = generate_alerts(o.weeks, o.lines, o.opening)
        BY DEF Whole
    <2>. QED  BY <1>4, <1>6, <2>1, Zenon
<1>8. LET closing == Running(new.weeks[1].opening_cash, new.lines, Reporting)
      IN  \A w \in Week : /\ new.weeks[w].week_flows = flows({l \in new.lines : l.week = w}, Reporting)
                          /\ new.weeks[w].opening_cash = closing[w - 1] /\ new.weeks[w].closing_cash = closing[w]
    <2>1. LET closing == Running(o.weeks[1].opening_cash, o.lines, Reporting)
          IN  \A w \in Week : /\ o.weeks[w].week_flows = flows({l \in o.lines : l.week = w}, Reporting)
                              /\ o.weeks[w].opening_cash = closing[w - 1] /\ o.weeks[w].closing_cash = closing[w]
        BY Zenon DEF Whole
    <2>. QED  BY <1>4, <2>1, Zenon
<1>9. /\ IsFiniteSet(new.lines)
      /\ \A l \in new.lines : /\ l.entity \in Entity /\ l.week \in Week /\ l.direction \in LineDirection
                              /\ l.adjusted_amount \in Int /\ l.reporting_amount \in Int
      /\ IsFiniteSet(DOMAIN new.opening) /\ \A pair \in DOMAIN new.opening : new.opening[pair] \in Int
      /\ new.weeks[1].opening_cash \in Int
    BY <1>4, Zenon DEF Whole
<1>10. Whole(new)
    BY <1>4, <1>5, <1>7, <1>8, <1>9, Zenon DEF Whole
<1>. QED  BY <1>10 DEF new

-----------------------------------------------------------------------------
(* The invariant                                                           *)

LEMMA RowIsTyped ==
    ASSUME NEW c, c.entity \in Entity \union {None}, c.basis \in Basis, c.reporting \in Currency,
           c.assumptions \in Seq(Assumption),
           NEW start \in Int, NEW version \in Nat, NEW parent \in Forecast \union {None}
    PROVE  Row(c, start, version, parent) \in ForecastRow /\ Row(c, start, version, parent).status = "DRAFT"
BY DEF ForecastRow, Row

LEMMA InvInit == Init => IndInv
<1> SUFFICES ASSUME Init PROVE IndInv
    OBVIOUS
<1>1. TypeOK
    BY FS_EmptySet DEF Init, TypeOK, Entries, Amounts
<1>2. OutputsAreWhole /\ PublishedHasWeeks /\ PublishersSawWeeks
    BY DEF Init, OutputsAreWhole, Stored, PublishedHasWeeks, PublishersSawWeeks
<1>. QED  BY <1>1, <1>2 DEF IndInv

\* The outputs stay whole if the new ones are.
LEMMA OnlyWholeOutputs ==
    ASSUME OutputsAreWhole, NEW New, \A o \in New : Whole(o),
           \A id \in Forecast : output'[id] \subseteq output[id] \union New
    PROVE  OutputsAreWhole'
<1> SUFFICES ASSUME NEW id \in Forecast, NEW o \in output'[id] PROVE Whole(o)
    BY DEF OutputsAreWhole, Stored
<1>. QED  BY DEF OutputsAreWhole, Stored

\* A forecast that is new and has no output yet.
LEMMA InsertedStep ==
    ASSUME IndInv, NEW id \in Forecast, NEW row, row \in ForecastRow, row.status = "DRAFT",
           Inserted(id, row), UNCHANGED <<output, adjustments, work>>
    PROVE  IndInv'
<1>1. DOMAIN forecast' = Forecast /\ \A i \in Forecast : forecast'[i] = IF i = id THEN row ELSE forecast[i]
    BY DEF IndInv, TypeOK, Inserted
<1>2. TypeOK'
    BY <1>1, ForecastsAssumption DEF IndInv, TypeOK, Inserted
<1>3. PublishedHasWeeks'
    BY <1>1 DEF IndInv, PublishedHasWeeks
<1>4. OutputsAreWhole' /\ PublishersSawWeeks'
    BY DEF IndInv, OutputsAreWhole, Stored, PublishersSawWeeks
<1>. QED  BY <1>2, <1>3, <1>4 DEF IndInv

LEMMA CreateStep ==
    ASSUME IndInv, NEW id \in Worked, NEW c \in Columns, create_forecast(id, c)
    PROVE  IndInv'
<1>1. /\ c.entity \in Entity \union {None} /\ c.basis \in Basis /\ c.start \in Int
      /\ c.reporting \in Currency /\ c.assumptions \in Seq(Assumption)
    BY EntriesAssumption
<1>2. Row(c, c.start, 1, None) \in ForecastRow /\ Row(c, c.start, 1, None).status = "DRAFT"
    BY <1>1, RowIsTyped
<1>. QED  BY <1>2, InsertedStep, ForecastsAssumption DEF create_forecast

LEMMA RollStep ==
    ASSUME IndInv, NEW parent \in Forecast, NEW id \in Forecast, roll_forecast(parent, id)
    PROVE  IndInv'
<1> DEFINE f == forecast[parent]
           row == Row(f, f.start + WeekLength, f.version + 1, parent)
<1>1. f \in ForecastRow
    BY DEF IndInv, TypeOK, roll_forecast
<1>2. /\ f.entity \in Entity \union {None} /\ f.basis \in Basis /\ f.reporting \in Currency /\ f.assumptions \in Seq(Assumption)
      /\ f.start \in Int /\ f.version \in Nat
    BY <1>1 DEF ForecastRow
<1>3. f.start + WeekLength \in Int /\ f.version + 1 \in Nat
    BY <1>2, ForecastsAssumption
<1>4. row \in ForecastRow /\ row.status = "DRAFT"
    BY <1>2, <1>3, RowIsTyped
<1>5. Inserted(id, row) /\ UNCHANGED <<output, adjustments, work>>
    BY DEF roll_forecast
<1> HIDE DEF row
<1>. QED  BY <1>4, <1>5, InsertedStep

LEMMA WhatIfStep ==
    ASSUME IndInv, NEW base \in Forecast, NEW id \in Forecast, NEW a \in Adjustments, what_if(base, id, a)
    PROVE  IndInv'
<1> DEFINE f == forecast[base]
           copy == Row(f, f.start, 1, None)
           entry == [a EXCEPT !.id = Append(@, id)]
           entries == adjustments[base] \union {entry}
<1>1. f \in ForecastRow
    BY DEF IndInv, TypeOK, what_if
<1>2. copy \in ForecastRow /\ copy.status = "DRAFT"
    <2>1. /\ f.entity \in Entity \union {None} /\ f.basis \in Basis /\ f.reporting \in Currency /\ f.assumptions \in Seq(Assumption)
          /\ f.start \in Int
        BY <1>1 DEF ForecastRow
    <2>. QED  BY <2>1, RowIsTyped
<1>3. Entries(entries)
    <2>1. /\ entry.entity \in Entity /\ entry.direction \in LineDirection /\ entry.amount \in Int
          /\ "probability" \notin DOMAIN entry
        <3>1. /\ a \in [id : {a.id}, entity : Entity, currency : Currency, direction : Direction, week : Int, amount : Int]
              /\ a.direction \in LineDirection
            BY EntriesAssumption DEF LineDirection
        <3>. QED  BY <3>1
    <2>2. Entries(adjustments[base])
        BY DEF IndInv, TypeOK
    <2>. QED  BY <2>1, <2>2, FS_AddElement DEF Entries, Amounts
<1> HIDE DEF f, copy, entries
<1>4. PICK o \in Outputs(1, copy, entries) : output' = [output EXCEPT ![id] = {o}]
    BY DEF what_if, f, copy, entries
<1>5. Inserted(id, copy) /\ adjustments' = [adjustments EXCEPT ![id] = entries] /\ UNCHANGED work
    BY DEF what_if, f, copy, entries
<1>6. /\ DOMAIN forecast' = Forecast /\ DOMAIN adjustments' = Forecast /\ DOMAIN output' = Forecast
      /\ \A i \in Forecast : /\ forecast'[i] = IF i = id THEN copy ELSE forecast[i]
                             /\ adjustments'[i] = IF i = id THEN entries ELSE adjustments[i]
                             /\ output'[i] = IF i = id THEN {o} ELSE output[i]
    BY <1>4, <1>5 DEF IndInv, TypeOK, Inserted
<1>7. TypeOK'
    <2>1. forecast' \in [Forecast -> ForecastRow \union {None}]
        BY <1>2, <1>5 DEF IndInv, TypeOK, Inserted
    <2>. QED  BY <1>2, <1>3, <1>5, <1>6, <2>1, ForecastsAssumption DEF IndInv, TypeOK
<1>8. OutputsAreWhole'
    <2>1. Whole(o)
        BY <1>2, <1>3, <1>4, CalculatedIsWhole
    <2>2. \A i \in Forecast : output'[i] \subseteq output[i] \union {o}
        BY <1>6
    <2>. QED  BY <2>1, <2>2, OnlyWholeOutputs DEF IndInv
<1>9. PublishedHasWeeks'
    BY <1>2, <1>6 DEF IndInv, PublishedHasWeeks
<1>10. PublishersSawWeeks'
    <2>1. \A u \in Users : work[u].op = "publish" => work[u].id \in Forecast
        BY DEF IndInv, TypeOK
    <2>. QED  BY <1>5, <1>6, <2>1 DEF IndInv, PublishersSawWeeks
<1>. QED  BY <1>7, <1>8, <1>9, <1>10 DEF IndInv

\* The steps of a request that change no table.
LEMMA QuietStep ==
    ASSUME IndInv, NEW u \in Users, NEW new, work' = [work EXCEPT ![u] = new],
           UNCHANGED <<forecast, output, adjustments>>,
           new.op \in {"idle", "change", "fill", "publish"},
           new.op # "idle" => new.id \in Forecast /\ forecast[new.id] # None,
           new.op = "publish" => output[new.id] # {}
    PROVE  IndInv'
<1>1. DOMAIN work' = Users /\ \A v \in Users : work'[v] = IF v = u THEN new ELSE work[v]
    BY DEF IndInv, TypeOK
<1>2. TypeOK'
    BY <1>1 DEF IndInv, TypeOK
<1>3. OutputsAreWhole' /\ PublishedHasWeeks'
    BY DEF IndInv, OutputsAreWhole, Stored, PublishedHasWeeks
<1>4. PublishersSawWeeks'
    BY <1>1 DEF IndInv, PublishersSawWeeks
<1>. QED  BY <1>2, <1>3, <1>4 DEF IndInv

LEMMA LoadStep ==
    ASSUME IndInv, NEW u \in Users, NEW op \in {"change", "publish"}, NEW id \in Worked, load_forecast(u, op, id)
    PROVE  IndInv'
<1> DEFINE new == [op |-> op, id |-> id]
<1>1. id \in Forecast /\ forecast[id] # None
    BY ForecastsAssumption DEF IndInv, TypeOK, load_forecast
<1>2. /\ new.op \in {"idle", "change", "fill", "publish"}
      /\ new.op # "idle" => new.id \in Forecast /\ forecast[new.id] # None
      /\ new.op = "publish" => output[new.id] # {}
    BY <1>1 DEF load_forecast
<1>3. work' = [work EXCEPT ![u] = new] /\ UNCHANGED <<forecast, output, adjustments>>
    BY DEF load_forecast
<1> HIDE DEF new
<1>. QED  BY <1>2, <1>3, QuietStep

LEMMA DeleteStep ==
    ASSUME IndInv, NEW u \in Users, delete_output(u)
    PROVE  IndInv'
<1> DEFINE new == [op |-> "fill", id |-> work[u].id, gone |-> output[work[u].id]]
<1>1. /\ new.op \in {"idle", "change", "fill", "publish"}
      /\ new.op # "idle" => new.id \in Forecast /\ forecast[new.id] # None
      /\ new.op = "publish" => output[new.id] # {}
    BY DEF IndInv, TypeOK, delete_output
<1>2. work' = [work EXCEPT ![u] = new] /\ UNCHANGED <<forecast, output, adjustments>>
    BY DEF IndInv, TypeOK, delete_output
<1> HIDE DEF new
<1>. QED  BY <1>1, <1>2, QuietStep

LEMMA GiveUpStep ==
    ASSUME IndInv, NEW u \in Users, GiveUp(u)
    PROVE  IndInv'
<1> DEFINE new == [op |-> "idle"]
<1>1. new.op = "idle" /\ work' = [work EXCEPT ![u] = new] /\ UNCHANGED <<forecast, output, adjustments>>
    BY DEF GiveUp, Finish
<1> HIDE DEF new
<1>. QED  BY <1>1, QuietStep

\* What a request that ends leaves of the requests.
LEMMA Finished ==
    ASSUME IndInv, NEW u \in Users, Finish(u)
    PROVE  /\ DOMAIN work' = Users
           /\ \A v \in Users : work'[v].op # "idle" => v # u /\ work'[v] = work[v]
           /\ \A v \in Users : work'[v].op \in {"idle", "change", "fill", "publish"}
<1>1. DOMAIN work' = Users /\ \A v \in Users : work'[v] = IF v = u THEN [op |-> "idle"] ELSE work[v]
    BY DEF IndInv, TypeOK, Finish
<1>. QED  BY <1>1 DEF IndInv, TypeOK

LEMMA FillStep ==
    ASSUME IndInv, NEW u \in Users, fill_output(u)
    PROVE  IndInv'
<1> DEFINE id == work[u].id
           left == output[id] \ work[u].gone
<1>1. id \in Forecast /\ forecast[id] \in ForecastRow /\ Entries(adjustments[id])
    BY DEF IndInv, TypeOK, fill_output
<1>2. PICK o \in Outputs(FreeRun(id), forecast[id], adjustments[id]) :
          output' = [output EXCEPT ![id] = left \union {o}]
    BY DEF fill_output
<1>3. Finish(u) /\ UNCHANGED <<forecast, adjustments>>
    BY DEF fill_output
<1>4. /\ DOMAIN output' = Forecast
      /\ \A i \in Forecast : output'[i] = IF i = id THEN left \union {o} ELSE output[i]
    BY <1>2 DEF IndInv, TypeOK
<1>5. TypeOK'
    BY <1>3, <1>4, Finished DEF IndInv, TypeOK
<1>6. OutputsAreWhole'
    <2>1. Whole(o)
        BY <1>1, <1>2, CalculatedIsWhole
    <2>2. \A i \in Forecast : output'[i] \subseteq output[i] \union {o}
        BY <1>4
    <2>. QED  BY <2>1, <2>2, OnlyWholeOutputs DEF IndInv
<1>7. \A i \in Forecast : output[i] # {} => output'[i] # {}
    BY <1>4
<1>8. PublishedHasWeeks'
    BY <1>3, <1>7 DEF IndInv, PublishedHasWeeks
<1>9. PublishersSawWeeks'
    <2>1. \A v \in Users : work[v].op = "publish" => work[v].id \in Forecast
        BY DEF IndInv, TypeOK
    <2>. QED  BY <1>3, <1>7, <2>1, Finished DEF IndInv, PublishersSawWeeks
<1>. QED  BY <1>5, <1>6, <1>8, <1>9 DEF IndInv

LEMMA PublishStep ==
    ASSUME IndInv, NEW u \in Users, publish_forecast(u)
    PROVE  IndInv'
<1> DEFINE id == work[u].id
<1>1. id \in Forecast /\ forecast[id] \in ForecastRow /\ output[id] # {}
    BY DEF IndInv, TypeOK, PublishersSawWeeks, publish_forecast
<1>2. Finish(u) /\ UNCHANGED <<output, adjustments>>
    BY DEF publish_forecast
<1>3. /\ DOMAIN forecast' = Forecast
      /\ \A i \in Forecast : forecast'[i] = IF i = id THEN [forecast[id] EXCEPT !.status = "PUBLISHED"] ELSE forecast[i]
    BY <1>1 DEF IndInv, TypeOK, publish_forecast
<1>4. forecast'[id] \in ForecastRow
    BY <1>1, <1>3 DEF ForecastRow
<1>5. TypeOK'
    <2>1. forecast' \in [Forecast -> ForecastRow \union {None}]
        BY <1>1, <1>3, <1>4 DEF IndInv, TypeOK, publish_forecast
    <2>. QED  BY <1>2, <1>3, <1>4, <2>1, Finished, ForecastsAssumption DEF IndInv, TypeOK
<1>6. PublishedHasWeeks'
    BY <1>1, <1>2, <1>3 DEF IndInv, PublishedHasWeeks
<1>7. OutputsAreWhole' /\ PublishersSawWeeks'
    BY <1>2, Finished DEF IndInv, OutputsAreWhole, Stored, PublishersSawWeeks
<1>. QED  BY <1>5, <1>6, <1>7 DEF IndInv

LEMMA ArchiveStep ==
    ASSUME IndInv, NEW id \in Worked, archive_forecast(id)
    PROVE  IndInv'
<1>1. id \in Forecast /\ forecast[id] \in ForecastRow
    BY ForecastsAssumption DEF IndInv, TypeOK, archive_forecast
<1>2. UNCHANGED <<output, adjustments, work>>
    BY DEF archive_forecast
<1>3. /\ DOMAIN forecast' = Forecast
      /\ \A i \in Forecast : forecast'[i] = IF i = id THEN [forecast[id] EXCEPT !.status = "ARCHIVED"] ELSE forecast[i]
    BY <1>1 DEF IndInv, TypeOK, archive_forecast
<1>4. forecast'[id] \in ForecastRow /\ forecast'[id].status = "ARCHIVED"
    BY <1>1, <1>3 DEF ForecastRow
<1>5. TypeOK'
    <2>1. forecast' \in [Forecast -> ForecastRow \union {None}]
        BY <1>1, <1>3, <1>4 DEF IndInv, TypeOK, archive_forecast
    <2>. QED  BY <1>2, <1>3, <1>4, <2>1, ForecastsAssumption DEF IndInv, TypeOK
<1>6. PublishedHasWeeks'
    BY <1>2, <1>3, <1>4 DEF IndInv, PublishedHasWeeks
<1>7. OutputsAreWhole' /\ PublishersSawWeeks'
    BY <1>2 DEF IndInv, OutputsAreWhole, Stored, PublishersSawWeeks
<1>. QED  BY <1>5, <1>6, <1>7 DEF IndInv

LEMMA AdjustStep ==
    ASSUME IndInv, NEW u \in Users, NEW a \in Adjustments, create_adjustment(u, a)
    PROVE  IndInv'
<1> DEFINE id == work[u].id
<1>1. id \in Forecast /\ Entries(adjustments[id])
    BY DEF IndInv, TypeOK, create_adjustment
<1>2. Finish(u) /\ UNCHANGED <<forecast, output>>
    BY DEF create_adjustment
<1>3. /\ DOMAIN adjustments' = Forecast
      /\ \A i \in Forecast : adjustments'[i] = IF i = id THEN adjustments[id] \union {a} ELSE adjustments[i]
    BY <1>1 DEF IndInv, TypeOK, create_adjustment
<1>4. Entries(adjustments[id] \union {a})
    <2>1. a.entity \in Entity /\ a.direction \in LineDirection /\ a.amount \in Int /\ "probability" \notin DOMAIN a
        <3>1. /\ a \in [id : {a.id}, entity : Entity, currency : Currency, direction : Direction, week : Int, amount : Int]
              /\ a.direction \in LineDirection
            BY EntriesAssumption DEF LineDirection
        <3>. QED  BY <3>1
    <2>. QED  BY <1>1, <2>1, FS_AddElement DEF Entries, Amounts
<1>5. TypeOK'
    BY <1>2, <1>3, <1>4, Finished, ForecastsAssumption DEF IndInv, TypeOK
<1>6. OutputsAreWhole' /\ PublishedHasWeeks' /\ PublishersSawWeeks'
    BY <1>2, Finished DEF IndInv, OutputsAreWhole, Stored, PublishedHasWeeks, PublishersSawWeeks
<1>. QED  BY <1>5, <1>6 DEF IndInv

LEMMA AssumeStep ==
    ASSUME IndInv, NEW u \in Users, NEW a \in Assumptions, add_scenario_assumption(u, a)
    PROVE  IndInv'
<1> DEFINE id == work[u].id
           f == forecast[id]
           row == [f EXCEPT !.assumptions = Append(@, a)]
<1>1. id \in Forecast /\ f \in ForecastRow
    BY DEF IndInv, TypeOK, add_scenario_assumption
<1>2. Finish(u) /\ UNCHANGED <<output, adjustments>>
    BY DEF add_scenario_assumption
<1>3. /\ DOMAIN forecast' = Forecast
      /\ \A i \in Forecast : forecast'[i] = IF i = id THEN row ELSE forecast[i]
    BY <1>1 DEF IndInv, TypeOK, add_scenario_assumption
<1>4. row \in ForecastRow /\ row.status = f.status
    <2>1. Append(f.assumptions, a) \in Seq(Assumption)
        BY <1>1, EntriesAssumption DEF ForecastRow
    <2>. QED  BY <1>1, <2>1 DEF ForecastRow
<1> HIDE DEF row
<1>5. TypeOK'
    <2>1. forecast' \in [Forecast -> ForecastRow \union {None}]
        BY <1>1, <1>4 DEF IndInv, TypeOK, add_scenario_assumption, row
    <2>. QED  BY <1>2, <1>3, <1>4, <2>1, Finished, ForecastsAssumption DEF IndInv, TypeOK
<1>6. PublishedHasWeeks'
    BY <1>1, <1>2, <1>3, <1>4, ForecastsAssumption DEF IndInv, PublishedHasWeeks
<1>7. OutputsAreWhole' /\ PublishersSawWeeks'
    BY <1>2, Finished DEF IndInv, OutputsAreWhole, Stored, PublishersSawWeeks
<1>. QED  BY <1>5, <1>6, <1>7 DEF IndInv

LEMMA AcknowledgeStep ==
    ASSUME IndInv, NEW id \in Worked, NEW o, NEW a, NEW status, update_alert_status(id, o, a, status)
    PROVE  IndInv'
<1> DEFINE new == [o EXCEPT !.alerts = (@ \ {a}) \union {[a EXCEPT !.status = status]}]
<1>1. id \in Forecast /\ o \in output[id] /\ a \in o.alerts
    BY ForecastsAssumption DEF update_alert_status
<1>2. Whole(new)
    <2>1. Whole(o)
        BY <1>1 DEF IndInv, OutputsAreWhole, Stored
    <2>. QED  BY <1>1, <2>1, WholeWhenSeen
<1>3. /\ DOMAIN output' = Forecast
      /\ \A i \in Forecast : output'[i] = IF i = id THEN (output[id] \ {o}) \union {new} ELSE output[i]
    BY <1>1 DEF IndInv, TypeOK, update_alert_status
<1>4. UNCHANGED <<forecast, adjustments, work>>
    BY DEF update_alert_status
<1> HIDE DEF new
<1>5. TypeOK'
    BY <1>3, <1>4 DEF IndInv, TypeOK
<1>6. OutputsAreWhole'
    <2>1. \A i \in Forecast : output'[i] \subseteq output[i] \union {new}
        BY <1>3
    <2>. QED  BY <1>2, <2>1, OnlyWholeOutputs DEF IndInv
<1>7. \A i \in Forecast : output[i] # {} => output'[i] # {}
    BY <1>3
<1>8. PublishedHasWeeks' /\ PublishersSawWeeks'
    BY <1>4, <1>7 DEF IndInv, TypeOK, PublishedHasWeeks, PublishersSawWeeks
<1>. QED  BY <1>5, <1>6, <1>8 DEF IndInv

LEMMA InvStep == IndInv /\ [Next]_vars => IndInv'
<1> SUFFICES ASSUME IndInv, [Next]_vars PROVE IndInv'
    OBVIOUS
<1>1. CASE UNCHANGED vars
    BY <1>1 DEF vars, IndInv, TypeOK, OutputsAreWhole, Stored, PublishedHasWeeks, PublishersSawWeeks
<1>2. CASE Next
    BY <1>2, CreateStep, RollStep, WhatIfStep, LoadStep, DeleteStep, FillStep, PublishStep, ArchiveStep,
       AdjustStep, AssumeStep, AcknowledgeStep, GiveUpStep DEF Next
<1>. QED  BY <1>1, <1>2

\* In every reachable state the variables are typed, every stored output is
\* what a calculation makes of its own lines and opening balances, and a
\* forecast that is published, or about to be, has an output.
THEOREM Invariance == Spec => []IndInv
BY InvInit, InvStep, PTL DEF Spec

\* A published forecast has its weeks, whatever calculations were running when
\* it was published or have failed since.
THEOREM PublishedHasWeeksHolds == Spec => []PublishedHasWeeks
<1>1. IndInv => PublishedHasWeeks
    BY DEF IndInv
<1>. QED  BY <1>1, Invariance, PTL

-----------------------------------------------------------------------------
(* What is read from an output adds up                                     *)

\* What the views of all entities say of a week.
EntitiesNet(o, w) ==
    LET view == [e \in Entity |-> get_entity_view(o, e)]
        Of(e) == net(view[e][w])
    IN  MapThenSumSet(Of, Entity)

\* The lines of a week move what those of the entities in it move.
LEMMA EntitiesAddUp ==
    ASSUME NEW o, Whole(o), NEW w \in Week
    PROVE  net(o.weeks[w].week_flows) = EntitiesNet(o, w)
<1> DEFINE view == [e \in Entity |-> get_entity_view(o, e)]
           Of(e) == net(view[e][w])
           K == {l \in o.lines : l.week = w}
           m == [l \in K |-> Moves(l.direction, l.reporting_amount)]
           key == [l \in K |-> l.entity]
           g == [e \in Entity |-> Of(e)]
<1>1. /\ IsFiniteSet(o.lines) /\ \A l \in o.lines : l.entity \in Entity /\ l.reporting_amount \in Int
      /\ o.weeks[w].week_flows = flows(K, Reporting)
    BY DEF Whole
<1>2. /\ IsFiniteSet(K) /\ \A l \in K : /\ l.reporting_amount \in Int /\ m[l] = Moves(l.direction, l.reporting_amount)
                                        /\ key[l] \in Entity
    BY <1>1, FS_Subset
<1>3. net(o.weeks[w].week_flows) = SumFunctionOnSet(m, K)
    <2> HIDE DEF K, m
    <2>. QED  BY <1>1, <1>2, NetInReporting
<1>4. \A l \in K : m[l] \in Int
    <2> HIDE DEF K, m
    <2>. QED  BY <1>2, MovesByDirection
<1>5. ASSUME NEW e \in Entity
      PROVE  g[e] = SumFunctionOnSet(m, Class(K, key, e))
    <2> DEFINE C == Class(K, key, e)
    <2>1. {l \in o.lines : l.entity = e /\ l.week = w} = C
        BY DEF Class
    <2>2. g[e] = net(flows(C, Reporting))
        <3>1. g[e] = net(flows({l \in o.lines : l.entity = e /\ l.week = w}, Reporting))
            BY DEF get_entity_view
        <3>. QED  BY <2>1, <3>1, Zenon
    <2>3. IsFiniteSet(C) /\ C \subseteq K
        BY <1>2, FS_Subset DEF Class
    <2> HIDE DEF C, m, K, g
    <2>4. net(flows(C, Reporting)) = SumFunctionOnSet(m, C)
        BY <1>2, <2>3, NetInReporting
    <2>. QED  BY <2>2, <2>4 DEF C
<1>6. MapThenSumSet(Of, Entity) = SumFunctionOnSet(g, Entity)
    <2> HIDE DEF view
    <2>. QED  BY Zenon DEF MapThenSumSet, SumFunctionOnSet, FoldFunctionOnSet, MapThenFoldSet
<1>7. SumFunctionOnSet(g, Entity) = SumFunctionOnSet(m, K)
    <2> HIDE DEF g, m, K, key
    <2>. QED  BY <1>2, <1>4, <1>5, ForecastsAssumption, SumOfClasses
<1>8. net(o.weeks[w].week_flows) = MapThenSumSet(Of, Entity)
    BY <1>3, <1>6, <1>7, Zenon
<1>. QED  BY <1>8, Zenon DEF EntitiesNet

\* The net flows of all weeks lead from the first balance to the last.
LEMMA WeeksAddUp ==
    ASSUME NEW o, Whole(o)
    PROVE  get_summary(o).net_cash_flow = o.weeks[FORECAST_HORIZON_WEEKS].closing_cash - o.weeks[1].opening_cash
<1> DEFINE H == FORECAST_HORIZON_WEEKS
           c == Running(o.weeks[1].opening_cash, o.lines, Reporting)
           Net(w) == net(o.weeks[w].week_flows)
           step == [w \in 1..H |-> Net(w)]
<1>1. H \in Nat /\ H \in Week /\ H \in 0..H /\ Week = 1..H
    BY ForecastsAssumption DEF Week
<1>2. /\ IsFiniteSet(o.lines) /\ \A l \in o.lines : l.reporting_amount \in Int
      /\ o.weeks[1].opening_cash \in Int
    BY DEF Whole
<1>3. \A w \in Week : /\ o.weeks[w].week_flows = flows({l \in o.lines : l.week = w}, Reporting)
                      /\ o.weeks[w].closing_cash = c[w]
    BY Zenon DEF Whole
<1>4. /\ c[0] = o.weeks[1].opening_cash /\ \A w \in 0..H : c[w] \in Int
      /\ \A w \in Week : c[w] = c[w - 1] + net(flows({l \in o.lines : l.week = w}, Reporting))
    BY <1>2, RunningInReporting
<1> HIDE DEF c
<1>5. \A w \in 1..H : c[w] = c[w - 1] + step[w]
    <2> SUFFICES ASSUME NEW w \in 1..H PROVE c[w] = c[w - 1] + step[w]
        OBVIOUS
    <2>1. step[w] = net(flows({l \in o.lines : l.week = w}, Reporting))
        BY <1>1, <1>3
    <2>. QED  BY <1>1, <1>4, <2>1, Zenon
<1>6. \A w \in 1..H : step[w] \in Int
    <2> SUFFICES ASSUME NEW w \in 1..H PROVE step[w] \in Int
        OBVIOUS
    <2> DEFINE K == {l \in o.lines : l.week = w}
               m == [l \in K |-> Moves(l.direction, l.reporting_amount)]
    <2>1. step[w] = net(flows(K, Reporting))
        BY <1>1, <1>3
    <2>2. IsFiniteSet(K) /\ \A l \in K : l.reporting_amount \in Int /\ m[l] = Moves(l.direction, l.reporting_amount)
        BY <1>2, FS_Subset
    <2> HIDE DEF K, m, step
    <2>. QED  BY <2>1, <2>2, NetInReporting
<1>7. c[H] = c[0] + SumFunctionOnSet(step, 1..H)
    <2>1. H \in Nat /\ c[0] \in Int /\ \A w \in 1..H : step[w] \in Int /\ c[w] = c[w - 1] + step[w]
        BY <1>1, <1>2, <1>4, <1>5, <1>6
    <2> HIDE DEF H, step
    <2>2. \A w \in 0..H : c[w] \in Int /\ c[w] = c[0] + SumFunctionOnSet(step, 1..w)
        BY ONLY <2>1, BalanceMoves
    <2>. QED  BY <1>1, <2>2
<1>8. SumFunctionOnSet(step, 1..H) \in Int
    <2>1. IsFiniteSet(1..H)
        BY <1>1, FS_Interval
    <2> HIDE DEF step, H
    <2>. QED  BY <1>6, <2>1, SumOfIntegers
<1>9. get_summary(o).net_cash_flow = SumFunctionOnSet(step, 1..H)
    <2>1. get_summary(o).net_cash_flow = MapThenSumSet(Net, Week)
        BY DEF get_summary
    <2>2. MapThenSumSet(Net, 1..H) = SumFunctionOnSet(step, 1..H)
        <3> HIDE DEF H
        <3>. QED  BY Zenon DEF MapThenSumSet, SumFunctionOnSet, FoldFunctionOnSet, MapThenFoldSet
    <2> HIDE DEF H, step, Net
    <2>. QED  BY <1>1, <2>1, <2>2, Zenon
<1>10. o.weeks[H].closing_cash = c[H]
    BY <1>1, <1>3
<1> HIDE DEF step
<1>. QED  BY <1>2, <1>4, <1>7, <1>8, <1>9, <1>10

\* What the lines of completed weeks add to a variance, by a key of theirs.
Completed(o) == {l \in o.lines : o.weeks[l.week].status = "COMPLETED"}
Signed(o) == [l \in o.lines |-> IF l.direction = "OUTFLOW" THEN -l.reporting_amount ELSE l.reporting_amount]
TotalOf(o, key, k, actual) ==
    SumFunctionOnSet(Signed(o), {l \in Completed(o) : key[l] = k /\ (l.source = "ACTUAL") = actual})

LEMMA SignedIsInteger ==
    ASSUME NEW o, Whole(o)
    PROVE  IsFiniteSet(Completed(o)) /\ \A l \in Completed(o) : l \in o.lines /\ Signed(o)[l] \in Int
<1>1. IsFiniteSet(o.lines) /\ \A l \in o.lines : l.reporting_amount \in Int
    BY DEF Whole
<1>2. \A l \in o.lines : Signed(o)[l] \in Int
    BY <1>1 DEF Signed
<1>. QED  BY <1>1, <1>2, FS_Subset DEF Completed

\* A sum of variances, as the sum of a function.
LEMMA VariancesAreSummed ==
    ASSUME NEW rows, NEW D
    PROVE  LET Variance(k) == rows[k].variance
           IN  MapThenSumSet(Variance, D) = SumFunctionOnSet([k \in D |-> rows[k].variance], D)
BY Zenon DEF MapThenSumSet, SumFunctionOnSet, FoldFunctionOnSet, MapThenFoldSet

\* However the lines are grouped, the variances of the groups add up to the
\* same: what was, less what was forecast.
LEMMA VariancesAddUp ==
    ASSUME NEW o, Whole(o), NEW key, NEW rows, DOMAIN rows = {key[l] : l \in Completed(o)},
           \A k \in DOMAIN rows : rows[k].variance = TotalOf(o, key, k, TRUE) - TotalOf(o, key, k, FALSE),
           NEW d, \A l \in Completed(o) : d[l] = IF l.source = "ACTUAL" THEN Signed(o)[l] ELSE -Signed(o)[l]
    PROVE  LET Variance(k) == rows[k].variance
           IN  MapThenSumSet(Variance, DOMAIN rows) = SumFunctionOnSet(d, Completed(o))
<1> DEFINE Variance(k) == rows[k].variance
           s == Signed(o)
           C == Completed(o)
           D == DOMAIN rows
           g == [k \in D |-> Variance(k)]
<1>1. IsFiniteSet(C) /\ \A l \in C : s[l] \in Int
    BY SignedIsInteger
<1>2. \A l \in C : d[l] = IF l.source = "ACTUAL" THEN s[l] ELSE -s[l]
    OBVIOUS
<1>3. D = {key[l] : l \in C}
    OBVIOUS
<1>4. MapThenSumSet(Variance, D) = SumFunctionOnSet(g, D)
    BY VariancesAreSummed
<1>5. \A k \in D : g[k] = SumFunctionOnSet(s, {l \in C : key[l] = k /\ (l.source = "ACTUAL") = TRUE})
                          - SumFunctionOnSet(s, {l \in C : key[l] = k /\ (l.source = "ACTUAL") = FALSE})
    BY DEF TotalOf
<1> HIDE DEF s, C, D, g
<1>6. IsFiniteSet(D) /\ \A l \in C : key[l] \in D
    BY <1>1, <1>3, ImageIsFinite
<1>7. \A l \in C : d[l] \in Int
    BY <1>1, <1>2
<1>8. ASSUME NEW k \in D
      PROVE  g[k] = SumFunctionOnSet(d, Class(C, key, k))
    <2> DEFINE A == {l \in C : key[l] = k /\ (l.source = "ACTUAL") = TRUE}
               F == {l \in C : key[l] = k /\ (l.source = "ACTUAL") = FALSE}
    <2>1. IsFiniteSet(A) /\ IsFiniteSet(F) /\ A \intersect F = {} /\ A \subseteq C /\ F \subseteq C
        BY <1>1, FS_Subset
    <2>2. Class(C, key, k) = A \union F
        BY DEF Class
    <2>3. (\A l \in A : d[l] = s[l]) /\ \A l \in F : d[l] = -s[l]
        BY <1>2
    <2>4. g[k] = SumFunctionOnSet(s, A) - SumFunctionOnSet(s, F)
        BY <1>5
    <2> HIDE DEF A, F
    <2>5. SumFunctionOnSet(d, A) = SumFunctionOnSet(s, A)
        BY <2>1, <2>3, SumOfTheSame
    <2>6. SumFunctionOnSet(d, F) = -SumFunctionOnSet(s, F)
        BY <1>1, <2>1, <2>3, SumOfOpposites
    <2>7. SumFunctionOnSet(d, A \union F) = SumFunctionOnSet(d, A) + SumFunctionOnSet(d, F)
        BY <1>7, <2>1, SumOfUnion
    <2>8. SumFunctionOnSet(s, A) \in Int /\ SumFunctionOnSet(s, F) \in Int
        BY <1>1, <2>1, SumOfIntegers
    <2>. QED  BY <2>2, <2>4, <2>5, <2>6, <2>7, <2>8
<1>9. SumFunctionOnSet(g, D) = SumFunctionOnSet(d, C)
    BY <1>1, <1>6, <1>7, <1>8, SumOfClasses
<1>10. MapThenSumSet(Variance, D) = SumFunctionOnSet(d, C)
    BY <1>4, <1>9, Zenon
<1>. QED  BY <1>10 DEF C, D

\* What the engine's sum of signed amounts is.
LEMMA VarianceSum ==
    ASSUME NEW o, Whole(o), NEW K \in SUBSET Completed(o)
    PROVE  LET Amount(l) == IF l.direction = "OUTFLOW" THEN -l.reporting_amount ELSE l.reporting_amount
           IN  MapThenSumSet(Amount, K) = SumFunctionOnSet(Signed(o), K)
<1> DEFINE Amount(l) == IF l.direction = "OUTFLOW" THEN -l.reporting_amount ELSE l.reporting_amount
           g == [l \in K |-> Amount(l)]
<1>1. MapThenSumSet(Amount, K) = SumFunctionOnSet(g, K)
    BY Zenon DEF MapThenSumSet, SumFunctionOnSet, FoldFunctionOnSet, MapThenFoldSet
<1>2. IsFiniteSet(K) /\ \A l \in K : g[l] = Signed(o)[l]
    BY SignedIsInteger, FS_Subset DEF Signed
<1> HIDE DEF g
<1>3. SumFunctionOnSet(g, K) = SumFunctionOnSet(Signed(o), K)
    BY <1>2, SumOfTheSame
<1>. QED  BY <1>1, <1>3, Zenon

\* The two reports of the variance.
LEMMA VariancesAgree ==
    ASSUME NEW o, Whole(o)
    PROVE  LET ByWeek(l) == l.week
               ByEntity(l) == l.entity
               Total(rows) == LET Variance(k) == rows[k].variance IN MapThenSumSet(Variance, DOMAIN rows)
           IN  Total(compute_variance(o, ByWeek)) = Total(compute_variance(o, ByEntity))
<1> DEFINE ByWeek(l) == l.week
           ByEntity(l) == l.entity
           Amount(l) == IF l.direction = "OUTFLOW" THEN -l.reporting_amount ELSE l.reporting_amount
           Total(rows) == LET Variance(k) == rows[k].variance IN MapThenSumSet(Variance, DOMAIN rows)
           week == [l \in o.lines |-> l.week]
           entity == [l \in o.lines |-> l.entity]
           weeks == compute_variance(o, ByWeek)
           entities == compute_variance(o, ByEntity)
           d == [l \in Completed(o) |-> IF l.source = "ACTUAL" THEN Signed(o)[l] ELSE -Signed(o)[l]]
<1>1. \A l \in Completed(o) : l \in o.lines
    BY DEF Completed
<1>2. /\ DOMAIN weeks = {week[l] : l \in Completed(o)}
      /\ \A k \in DOMAIN weeks : weeks[k].variance = TotalOf(o, week, k, TRUE) - TotalOf(o, week, k, FALSE)
    <2> DEFINE Of(k, actual) == {l \in Completed(o) : ByWeek(l) = k /\ (l.source = "ACTUAL") = actual}
    <2>1. weeks = [k \in {ByWeek(l) : l \in Completed(o)} |->
                      [forecast |-> MapThenSumSet(Amount, Of(k, FALSE)), actual |-> MapThenSumSet(Amount, Of(k, TRUE)),
                       variance |-> MapThenSumSet(Amount, Of(k, TRUE)) - MapThenSumSet(Amount, Of(k, FALSE))]]
        BY Zenon DEF compute_variance, Completed
    <2>2. \A k, actual : /\ Of(k, actual) \in SUBSET Completed(o)
                         /\ Of(k, actual) = {l \in Completed(o) : week[l] = k /\ (l.source = "ACTUAL") = actual}
        BY <1>1
    <2> HIDE DEF Of
    <2>3. \A k, actual : MapThenSumSet(Amount, Of(k, actual)) = TotalOf(o, week, k, actual)
        <3> HIDE DEF week
        <3>. QED  BY <2>2, VarianceSum, Zenon DEF TotalOf
    <2> DEFINE S(k, actual) == MapThenSumSet(Amount, Of(k, actual))
    <2>4. weeks = [k \in {ByWeek(l) : l \in Completed(o)} |->
                      [forecast |-> S(k, FALSE), actual |-> S(k, TRUE), variance |-> S(k, TRUE) - S(k, FALSE)]]
        BY <2>1, Zenon
    <2>5. \A k, actual : S(k, actual) = TotalOf(o, week, k, actual)
        BY <2>3, Zenon
    <2>6. {ByWeek(l) : l \in Completed(o)} = {week[l] : l \in Completed(o)}
        BY <1>1
    <2> HIDE DEF S, weeks, week
    <2>. QED  BY <2>4, <2>5, <2>6
<1>3. /\ DOMAIN entities = {entity[l] : l \in Completed(o)}
      /\ \A k \in DOMAIN entities : entities[k].variance = TotalOf(o, entity, k, TRUE) - TotalOf(o, entity, k, FALSE)
    <2> DEFINE Of(k, actual) == {l \in Completed(o) : ByEntity(l) = k /\ (l.source = "ACTUAL") = actual}
    <2>1. entities = [k \in {ByEntity(l) : l \in Completed(o)} |->
                         [forecast |-> MapThenSumSet(Amount, Of(k, FALSE)), actual |-> MapThenSumSet(Amount, Of(k, TRUE)),
                          variance |-> MapThenSumSet(Amount, Of(k, TRUE)) - MapThenSumSet(Amount, Of(k, FALSE))]]
        BY Zenon DEF compute_variance, Completed
    <2>2. \A k, actual : /\ Of(k, actual) \in SUBSET Completed(o)
                         /\ Of(k, actual) = {l \in Completed(o) : entity[l] = k /\ (l.source = "ACTUAL") = actual}
        BY <1>1
    <2> HIDE DEF Of
    <2>3. \A k, actual : MapThenSumSet(Amount, Of(k, actual)) = TotalOf(o, entity, k, actual)
        <3> HIDE DEF entity
        <3>. QED  BY <2>2, VarianceSum, Zenon DEF TotalOf
    <2> DEFINE S(k, actual) == MapThenSumSet(Amount, Of(k, actual))
    <2>4. entities = [k \in {ByEntity(l) : l \in Completed(o)} |->
                         [forecast |-> S(k, FALSE), actual |-> S(k, TRUE), variance |-> S(k, TRUE) - S(k, FALSE)]]
        BY <2>1, Zenon
    <2>5. \A k, actual : S(k, actual) = TotalOf(o, entity, k, actual)
        BY <2>3, Zenon
    <2>6. {ByEntity(l) : l \in Completed(o)} = {entity[l] : l \in Completed(o)}
        BY <1>1
    <2> HIDE DEF S, entities, entity
    <2>. QED  BY <2>4, <2>5, <2>6
<1>4. \A l \in Completed(o) : d[l] = IF l.source = "ACTUAL" THEN Signed(o)[l] ELSE -Signed(o)[l]
    OBVIOUS
<1> HIDE DEF weeks, entities, week, entity, d
<1>5. Total(weeks) = SumFunctionOnSet(d, Completed(o))
    BY <1>2, <1>4, VariancesAddUp
<1>6. Total(entities) = SumFunctionOnSet(d, Completed(o))
    BY <1>3, <1>4, VariancesAddUp
<1>7. Total(weeks) = Total(entities)
    BY <1>5, <1>6, Zenon
<1>. QED  BY <1>7, Zenon DEF weeks, entities

\* What different endpoints read from one output agrees: the weeks with the
\* views of the entities, the summary with the weeks, and the variance of the
\* weeks with that of the entities.
LEMMA WholeAddsUp ==
    ASSUME OutputsAreWhole
    PROVE  OutputAddsUp
<1> DEFINE view(o) == [e \in Entity |-> get_entity_view(o, e)]
           Net(o, w) == net(o.weeks[w].week_flows)
           EntityNet(o, w) == LET Of(e) == net(view(o)[e][w]) IN MapThenSumSet(Of, Entity)
           ByWeek(l) == l.week
           ByEntity(l) == l.entity
           Total(rows) == LET Variance(k) == rows[k].variance IN MapThenSumSet(Variance, DOMAIN rows)
<1>1. \A o \in Stored : \A w \in Week : Net(o, w) = EntityNet(o, w)
    <2> SUFFICES ASSUME NEW o \in Stored, NEW w \in Week PROVE Net(o, w) = EntityNet(o, w)
        BY Zenon
    <2>1. Whole(o)
        BY DEF OutputsAreWhole
    <2>2. Net(o, w) = EntitiesNet(o, w)
        BY <2>1, EntitiesAddUp
    <2>3. EntitiesNet(o, w) = EntityNet(o, w)
        BY Zenon DEF EntitiesNet
    <2>. QED  BY <2>2, <2>3, Zenon
<1>2. \A o \in Stored :
          get_summary(o).net_cash_flow = o.weeks[FORECAST_HORIZON_WEEKS].closing_cash - o.weeks[1].opening_cash
    BY WeeksAddUp DEF OutputsAreWhole
<1>3. \A o \in Stored : Total(compute_variance(o, ByWeek)) = Total(compute_variance(o, ByEntity))
    BY VariancesAgree DEF OutputsAreWhole
<1>. QED  BY <1>1, <1>2, <1>3, Zenon DEF OutputAddsUp

-----------------------------------------------------------------------------
(* Alerts                                                                  *)

\* Every line moves cash: nobody adjusts by, and no flow is, NON_CASH.
EntriesMoveCash == "NON_CASH" \notin LineDirection

LEMMA MovesAreSigned ==
    ASSUME NEW direction \in LineDirection, NEW amount \in Int
    PROVE  Moves(direction, amount) = IF direction = "NON_CASH" THEN 0
                                      ELSE IF direction = "OUTFLOW" THEN -amount ELSE amount
<1>1. LineDirection \subseteq Direction
    BY EntriesAssumption, TablesAssumption DEF LineDirection, Direction
<1>2. direction \in {"INFLOW", "TRANSFER", "OUTFLOW", "NON_CASH"}
    BY <1>1 DEF Direction
<1>. QED  BY <1>2 DEF Moves

\* What the engine compares with zero.
Shortfall(o, c, w) ==
    LET Amount(l) == IF l.direction = "OUTFLOW" THEN -l.adjusted_amount ELSE l.adjusted_amount
    IN  native_opening(o.opening, c) + MapThenSumSet(Amount, {l \in o.lines : l.currency = c /\ l.week <= w})

\* What is NON_CASH of it: no view counts that.
NonCash(o, c, w) ==
    MapThenSumSet(Native, {l \in o.lines : l.currency = c /\ l.week <= w /\ l.direction = "NON_CASH"})

LEMMA NativeSum ==
    ASSUME NEW N
    PROVE  MapThenSumSet(Native, N) = SumFunctionOnSet([l \in N |-> l.adjusted_amount], N)
BY Zenon DEF Native, MapThenSumSet, SumFunctionOnSet, FoldFunctionOnSet, MapThenFoldSet

LEMMA NativeOpeningIsInteger ==
    ASSUME NEW o, Whole(o), NEW c
    PROVE  native_opening(o.opening, c) \in Int
<1> DEFINE Amount(pair) == o.opening[pair]
           S == {pair \in DOMAIN o.opening : pair[2] = c}
           g == [pair \in S |-> Amount(pair)]
<1>1. native_opening(o.opening, c) = MapThenSumSet(Amount, S)
    BY DEF native_opening
<1>2. IsFiniteSet(S) /\ \A pair \in S : g[pair] \in Int
    BY FS_Subset DEF Whole
<1>3. MapThenSumSet(Amount, S) = SumFunctionOnSet(g, S)
    <2> HIDE DEF S
    <2>. QED  BY Zenon DEF MapThenSumSet, SumFunctionOnSet, FoldFunctionOnSet, MapThenFoldSet
<1> HIDE DEF S, g, Amount
<1>4. SumFunctionOnSet(g, S) \in Int
    BY <1>2, SumOfIntegers
<1>. QED  BY <1>1, <1>3, <1>4, Zenon

\* The view of a currency ends a week with the rest.
LEMMA ViewsEndInShortfall ==
    ASSUME NEW o, Whole(o), NEW c, NEW w \in Week
    PROVE  /\ Shortfall(o, c, w) = get_currency_view(o, c)[w].closing_cash + NonCash(o, c, w)
           /\ get_currency_view(o, c)[w].closing_cash \in Int
<1> DEFINE H == FORECAST_HORIZON_WEEKS
           L == {l \in o.lines : l.currency = c}
           first == native_opening(o.opening, c)
           closing == Running(first, L, Native)
           m == [l \in L |-> Moves(l.direction, l.adjusted_amount)]
           Amount(l) == IF l.direction = "OUTFLOW" THEN -l.adjusted_amount ELSE l.adjusted_amount
           K == {l \in o.lines : l.currency = c /\ l.week <= w}
           g == [l \in K |-> Amount(l)]
<1>1. /\ IsFiniteSet(L)
      /\ \A l \in L : /\ l.direction \in LineDirection /\ l.week \in Week /\ l.adjusted_amount \in Int
                      /\ m[l] = Moves(l.direction, l.adjusted_amount)
    BY FS_Subset DEF Whole
<1>2. first \in Int
    BY NativeOpeningIsInteger
<1>3. get_currency_view(o, c)[w].closing_cash = closing[w]
    <2> DEFINE row == [w1 \in Week |-> [week_flows |-> flows({l \in L : l.week = w1}, Native),
                                        opening_cash |-> closing[w1 - 1], closing_cash |-> closing[w1]]]
    <2>1. get_currency_view(o, c) = row
        BY Zenon DEF get_currency_view
    <2> HIDE DEF closing, L
    <2>2. row[w].closing_cash = closing[w]
        OBVIOUS
    <2>. QED  BY <2>1, <2>2
<1>4. /\ closing[0] = first /\ (\A v \in 0..H : closing[v] \in Int)
      /\ \A v \in Week : closing[v] = closing[v - 1] + net(flows({l \in L : l.week = v}, Native))
    <2> HIDE DEF L, first, m
    <2>. QED  BY <1>1, <1>2, RunningInNative
<1> HIDE DEF closing, first
<1>5. \A v \in Week : closing[v] = closing[v - 1] + SumFunctionOnSet(m, {l \in L : l.week = v})
    <2> SUFFICES ASSUME NEW v \in Week
                 PROVE  closing[v] = closing[v - 1] + SumFunctionOnSet(m, {l \in L : l.week = v})
        OBVIOUS
    <2> DEFINE N == {l \in L : l.week = v}
    <2>1. closing[v] = closing[v - 1] + net(flows(N, Native))
        BY <1>4
    <2>2. IsFiniteSet(N) /\ \A l \in N : l.adjusted_amount \in Int /\ m[l] = Moves(l.direction, l.adjusted_amount)
        BY <1>1, FS_Subset
    <2> HIDE DEF N, L, m
    <2>3. net(flows(N, Native)) = SumFunctionOnSet(m, N)
        BY <2>2, NetInNative
    <2>. QED  BY <2>1, <2>3 DEF N
<1>6. \A l \in L : m[l] \in Int
    <2> HIDE DEF L, m
    <2>. QED  BY <1>1, MovesByDirection
<1>7. closing[w] = first + SumFunctionOnSet(m, {l \in L : l.week <= w})
    <2>1. w \in 0..H /\ closing[0] \in Int
        BY <1>2, <1>4 DEF Week
    <2> HIDE DEF L, m
    <2>2. \A v \in 0..FORECAST_HORIZON_WEEKS : closing[v] = closing[0] + SumFunctionOnSet(m, {l \in L : l.week <= v})
        BY <1>1, <1>5, <1>6, <2>1, BalanceOfLines
    <2>. QED  BY <1>4, <2>1, <2>2
<1>8. {l \in L : l.week <= w} = K
    OBVIOUS
<1>9. /\ SumFunctionOnSet(g, K) = SumFunctionOnSet(m, K) + NonCash(o, c, w)
      /\ SumFunctionOnSet(m, K) \in Int /\ NonCash(o, c, w) \in Int
    <2> DEFINE N == {l \in o.lines : l.currency = c /\ l.week <= w /\ l.direction = "NON_CASH"}
               A == K \ N
               a == [l \in N |-> l.adjusted_amount]
    <2>1. IsFiniteSet(K) /\ IsFiniteSet(A) /\ IsFiniteSet(N) /\ A \intersect N = {} /\ K = A \union N
        BY FS_Subset DEF Whole
    <2>2. \A l \in K : l \in L /\ (l \in N <=> l.direction = "NON_CASH")
        OBVIOUS
    <2>3. \A l \in K : g[l] = IF l.direction = "OUTFLOW" THEN -l.adjusted_amount ELSE l.adjusted_amount
        OBVIOUS
    <2>4. \A l \in N : a[l] = l.adjusted_amount
        OBVIOUS
    <2>5. NonCash(o, c, w) = SumFunctionOnSet(a, N)
        <3>1. NonCash(o, c, w) = MapThenSumSet(Native, N)
            BY DEF NonCash
        <3>. QED  BY <3>1, NativeSum, Zenon
    <2> HIDE DEF K, L, N, A, m, g, a
    <2>6. \A l \in K : m[l] = IF l \in N THEN 0 ELSE g[l]
        BY <1>1, <2>2, <2>3, MovesAreSigned
    <2>7. \A l \in K : l.adjusted_amount \in Int /\ g[l] \in Int
        BY <1>1, <2>2, <2>3
    <2>8. \A l \in N : g[l] = a[l] /\ a[l] \in Int
        BY <2>1, <2>2, <2>3, <2>4, <2>7
    <2>9. SumFunctionOnSet(g, K) = SumFunctionOnSet(g, A) + SumFunctionOnSet(g, N)
        BY <2>1, <2>7, SumOfUnion
    <2>10. SumFunctionOnSet(m, K) = SumFunctionOnSet(m, A) + SumFunctionOnSet(m, N)
        BY <1>6, <2>1, <2>2, SumOfUnion
    <2>11. SumFunctionOnSet(m, A) = SumFunctionOnSet(g, A)
        <3>1. \A l \in A : m[l] = g[l]
            BY <2>1, <2>6
        <3>. QED  BY <2>1, <3>1, SumOfTheSame
    <2>12. SumFunctionOnSet(m, N) = 0
        <3>1. \A l \in N : m[l] = 0
            BY <2>1, <2>6
        <3>. QED  BY <2>1, <3>1, SumOfZeros
    <2>13. SumFunctionOnSet(g, N) = SumFunctionOnSet(a, N)
        BY <2>1, <2>8, SumOfTheSame
    <2>14. SumFunctionOnSet(a, N) \in Int
        BY <2>1, <2>8, SumOfIntegers
    <2>15. SumFunctionOnSet(g, A) \in Int
        <3>1. \A l \in A : g[l] \in Int
            BY <2>1, <2>7
        <3>. QED  BY <2>1, <3>1, SumOfIntegers
    <2>. QED  BY <2>5, <2>9, <2>10, <2>11, <2>12, <2>13, <2>14, <2>15
<1>10. MapThenSumSet(Amount, K) = SumFunctionOnSet(g, K)
    <2> HIDE DEF K
    <2>. QED  BY Zenon DEF MapThenSumSet, SumFunctionOnSet, FoldFunctionOnSet, MapThenFoldSet
<1>11. Shortfall(o, c, w) = first + MapThenSumSet(Amount, K)
    BY Zenon DEF Shortfall, first
<1>12. Shortfall(o, c, w) = first + SumFunctionOnSet(g, K)
    BY <1>10, <1>11, Zenon
<1>13. closing[w] = first + SumFunctionOnSet(m, K)
    BY <1>7, <1>8, Zenon
<1> HIDE DEF K, g, m, L
<1>. QED  BY <1>2, <1>3, <1>9, <1>12, <1>13

\* The two kinds of alerts that compare a balance with a limit.
LEMMA GapAlerts ==
    ASSUME NEW o, NEW w \in Week
    PROVE  (\E a \in generate_alerts(o.weeks, o.lines, o.opening) :
               <<a.metric, a.week, a.currency>> = <<"LIQUIDITY_GAP", w, None>>) <=> o.weeks[w].surplus_or_gap < 0
<1> DEFINE Gap(a) == <<a.metric, a.week, a.currency>> = <<"LIQUIDITY_GAP", w, None>>
<1>1. ASSUME NEW v \in Week, NEW a \in LiquidityAlert(v, o.weeks[v]), Gap(a)
      PROVE  o.weeks[w].surplus_or_gap < 0
    <2>1. CASE o.weeks[v].surplus_or_gap < 0
        <3>1. a.week = v
            BY <1>1, <2>1 DEF LiquidityAlert, Alert
        <3>. QED  BY <1>1, <2>1, <3>1
    <2>2. CASE ~(o.weeks[v].surplus_or_gap < 0)
        <3>1. a = Alert("LOW_LIQUIDITY_COVERAGE", "MEDIUM", v, None)
            BY <1>1, <2>2, Zenon DEF LiquidityAlert
        <3>. QED  BY <1>1, <3>1 DEF Alert
    <2>. QED  BY <2>1, <2>2
<1>2. ASSUME NEW a \in ShortfallAlerts(o.lines, o.opening)
      PROVE  ~Gap(a)
    <2>1. PICK v, e : a = Alert("CURRENCY_LIQUIDITY_SHORTFALL", "HIGH", v, e)
        BY <1>2, Zenon DEF ShortfallAlerts
    <2>. QED  BY <2>1 DEF Alert
<1>3. ASSUME o.weeks[w].surplus_or_gap < 0
      PROVE  \E a \in LiquidityAlert(w, o.weeks[w]) : Gap(a)
    <2>1. PICK severity : Alert("LIQUIDITY_GAP", severity, w, None) \in LiquidityAlert(w, o.weeks[w])
        BY <1>3 DEF LiquidityAlert
    <2>2. Gap(Alert("LIQUIDITY_GAP", severity, w, None))
        BY DEF Alert
    <2>. QED  BY <2>1, <2>2, Zenon
<1>4. \A a : a \in generate_alerts(o.weeks, o.lines, o.opening) <=>
                 (\E v \in Week : a \in LiquidityAlert(v, o.weeks[v])) \/ a \in ShortfallAlerts(o.lines, o.opening)
    BY DEF generate_alerts
<1> HIDE DEF Gap
<1>5. (\E a \in generate_alerts(o.weeks, o.lines, o.opening) : Gap(a)) <=> o.weeks[w].surplus_or_gap < 0
    BY <1>1, <1>2, <1>3, <1>4, Zenon
<1>. QED  BY <1>5 DEF Gap

LEMMA CurrencyAlerts ==
    ASSUME NEW o, NEW w \in Week, NEW c \in {l.currency : l \in o.lines}
    PROVE  (\E a \in generate_alerts(o.weeks, o.lines, o.opening) :
               <<a.metric, a.week, a.currency>> = <<"CURRENCY_LIQUIDITY_SHORTFALL", w, c>>) <=> Shortfall(o, c, w) < 0
<1> DEFINE Short(a) == <<a.metric, a.week, a.currency>> = <<"CURRENCY_LIQUIDITY_SHORTFALL", w, c>>
           P == {l.currency : l \in o.lines} \X Week
<1>1. ASSUME NEW v \in Week, NEW a \in LiquidityAlert(v, o.weeks[v])
      PROVE  ~Short(a)
    <2>1. a.metric \in {"LIQUIDITY_GAP", "LOW_LIQUIDITY_COVERAGE"}
        <3>1. \/ a = Alert("LIQUIDITY_GAP", "CRITICAL", v, None) \/ a = Alert("LIQUIDITY_GAP", "HIGH", v, None)
              \/ a = Alert("LOW_LIQUIDITY_COVERAGE", "MEDIUM", v, None)
            BY <1>1, Zenon DEF LiquidityAlert
        <3>. QED  BY <3>1 DEF Alert
    <2>. QED  BY <2>1
<1>2. ShortfallAlerts(o.lines, o.opening) =
          {Alert("CURRENCY_LIQUIDITY_SHORTFALL", "HIGH", cw[2], cw[1]) : cw \in {cw \in P : Shortfall(o, cw[1], cw[2]) < 0}}
    BY Zenon DEF ShortfallAlerts, Shortfall
<1>3. ASSUME NEW a \in ShortfallAlerts(o.lines, o.opening), Short(a)
      PROVE  Shortfall(o, c, w) < 0
    <2>1. PICK cw \in P : /\ Shortfall(o, cw[1], cw[2]) < 0
                          /\ a = Alert("CURRENCY_LIQUIDITY_SHORTFALL", "HIGH", cw[2], cw[1])
        BY <1>2, <1>3
    <2>2. cw[2] = w /\ cw[1] = c
        BY <1>3, <2>1 DEF Alert
    <2>. QED  BY <2>1, <2>2
<1>4. ASSUME Shortfall(o, c, w) < 0
      PROVE  \E a \in ShortfallAlerts(o.lines, o.opening) : Short(a)
    <2> DEFINE cw == <<c, w>>
               a == Alert("CURRENCY_LIQUIDITY_SHORTFALL", "HIGH", cw[2], cw[1])
    <2>1. cw \in P /\ Shortfall(o, cw[1], cw[2]) < 0
        BY <1>4
    <2>2. a \in ShortfallAlerts(o.lines, o.opening)
        <3> HIDE DEF cw
        <3>. QED  BY <1>2, <2>1
    <2>3. Short(a)
        BY DEF Alert
    <2>. QED  BY <2>2, <2>3, Zenon
<1>5. \A a : a \in generate_alerts(o.weeks, o.lines, o.opening) <=>
                 (\E v \in Week : a \in LiquidityAlert(v, o.weeks[v])) \/ a \in ShortfallAlerts(o.lines, o.opening)
    BY DEF generate_alerts
<1> HIDE DEF Short
<1>6. (\E a \in generate_alerts(o.weeks, o.lines, o.opening) : Short(a)) <=> Shortfall(o, c, w) < 0
    BY <1>1, <1>3, <1>4, <1>5, Zenon
<1>. QED  BY <1>6 DEF Short

\* The alerts of an output and what is read from it: a week with a gap has one,
\* and a currency with lines has one for exactly the weeks in which its own
\* view, with what is NON_CASH added, ends below zero.
AlertsCountNonCash ==
    \A o \in Stored :
        LET Raised(metric, w, c) == \E a \in o.alerts : <<a.alert.metric, a.alert.week, a.alert.currency>> = <<metric, w, c>>
            view == [c \in {l.currency : l \in o.lines} |-> get_currency_view(o, c)]
        IN  \A w \in Week :
                /\ Raised("LIQUIDITY_GAP", w, None) <=> o.weeks[w].surplus_or_gap < 0
                /\ \A c \in DOMAIN view :
                      Raised("CURRENCY_LIQUIDITY_SHORTFALL", w, c) <=> view[c][w].closing_cash + NonCash(o, c, w) < 0

LEMMA AlertsOfWholeOutputs ==
    ASSUME OutputsAreWhole
    PROVE  AlertsCountNonCash
<1> DEFINE Key(a) == <<a.metric, a.week, a.currency>>
           view(o) == [c \in {l.currency : l \in o.lines} |-> get_currency_view(o, c)]
<1>1. ASSUME NEW o \in Stored, NEW x
      PROVE  (\E a \in o.alerts : Key(a.alert) = x) <=> \E a \in generate_alerts(o.weeks, o.lines, o.opening) : Key(a) = x
    <2>1. {a.alert : a \in o.alerts} = generate_alerts(o.weeks, o.lines, o.opening)
        BY Zenon DEF OutputsAreWhole, Whole
    <2> HIDE DEF Key
    <2>. QED  BY <2>1, Zenon
<1>2. ASSUME NEW o \in Stored, NEW w \in Week
      PROVE  (\E a \in o.alerts : Key(a.alert) = <<"LIQUIDITY_GAP", w, None>>) <=> o.weeks[w].surplus_or_gap < 0
    <2>1. (\E a \in generate_alerts(o.weeks, o.lines, o.opening) : Key(a) = <<"LIQUIDITY_GAP", w, None>>)
              <=> o.weeks[w].surplus_or_gap < 0
        BY GapAlerts, Zenon
    <2> HIDE DEF Key
    <2>. QED  BY <1>1, <2>1, Zenon
<1>3. ASSUME NEW o \in Stored, NEW w \in Week, NEW c \in DOMAIN view(o)
      PROVE  (\E a \in o.alerts : Key(a.alert) = <<"CURRENCY_LIQUIDITY_SHORTFALL", w, c>>) <=> view(o)[c][w].closing_cash + NonCash(o, c, w) < 0
    <2>1. (\E a \in generate_alerts(o.weeks, o.lines, o.opening) : Key(a) = <<"CURRENCY_LIQUIDITY_SHORTFALL", w, c>>)
              <=> Shortfall(o, c, w) < 0
        BY CurrencyAlerts, Zenon
    <2>2. Shortfall(o, c, w) = view(o)[c][w].closing_cash + NonCash(o, c, w)
        BY ViewsEndInShortfall DEF OutputsAreWhole
    <2> HIDE DEF Key, view
    <2>. QED  BY <1>1, <2>1, <2>2, Zenon
<1>. QED  BY <1>2, <1>3, Zenon DEF AlertsCountNonCash

\* Where every line moves cash, the views alone decide.
LEMMA AlertsWithoutNonCash ==
    ASSUME OutputsAreWhole, EntriesMoveCash
    PROVE  AlertsMatchViews
<1> DEFINE Raised(o, metric, w, c) ==
               \E a \in o.alerts : <<a.alert.metric, a.alert.week, a.alert.currency>> = <<metric, w, c>>
           view(o) == [c \in {l.currency : l \in o.lines} |-> get_currency_view(o, c)]
<1>1. \A o \in Stored : \A w \in Week :
          /\ Raised(o, "LIQUIDITY_GAP", w, None) <=> o.weeks[w].surplus_or_gap < 0
          /\ \A c \in DOMAIN view(o) :
                Raised(o, "CURRENCY_LIQUIDITY_SHORTFALL", w, c) <=> view(o)[c][w].closing_cash + NonCash(o, c, w) < 0
    BY AlertsOfWholeOutputs, Zenon DEF AlertsCountNonCash
<1>2. ASSUME NEW o \in Stored, NEW w \in Week, NEW c \in DOMAIN view(o)
      PROVE  view(o)[c][w].closing_cash + NonCash(o, c, w) = view(o)[c][w].closing_cash
    <2>1. Whole(o)
        BY DEF OutputsAreWhole
    <2>2. NonCash(o, c, w) = 0
        <3> DEFINE N == {l \in o.lines : l.currency = c /\ l.week <= w /\ l.direction = "NON_CASH"}
        <3>1. N = {}
            BY <2>1 DEF Whole, EntriesMoveCash
        <3>2. NonCash(o, c, w) = MapThenSumSet(Native, N)
            BY DEF NonCash
        <3>3. MapThenSumSet(Native, {}) = SumFunctionOnSet([l \in {} |-> l.adjusted_amount], {})
            BY NativeSum, Zenon
        <3> HIDE DEF N
        <3>. QED  BY <3>1, <3>2, <3>3, SumOfNothing, Zenon
    <2>3. view(o)[c][w].closing_cash \in Int
        <3>1. view(o)[c][w].closing_cash = get_currency_view(o, c)[w].closing_cash
            OBVIOUS
        <3>. QED  BY <2>1, <3>1, ViewsEndInShortfall
    <2> HIDE DEF view
    <2>. QED  BY <2>2, <2>3
<1>3. \A o \in Stored : \A w \in Week : \A c \in DOMAIN view(o) :
          Raised(o, "CURRENCY_LIQUIDITY_SHORTFALL", w, c) <=> view(o)[c][w].closing_cash < 0
    <2> HIDE DEF Raised, view
    <2>. QED  BY <1>1, <1>2, Zenon
<1>. QED  BY <1>1, <1>3, Zenon DEF AlertsMatchViews

-----------------------------------------------------------------------------
(* The properties                                                          *)

\* What different endpoints read from one output agrees: the weeks with the
\* views of the entities, the summary with the weeks, and the variance of the
\* weeks with that of the entities.
THEOREM OutputAddsUpHolds == Spec => []OutputAddsUp
<1>1. IndInv => OutputAddsUp
    BY WholeAddsUp DEF IndInv
<1>. QED  BY <1>1, Invariance, PTL

\* Whatever is entered, a week with a gap has an alert, and a currency with
\* lines has one for exactly the weeks in which its own view would end below
\* zero if what is NON_CASH counted, as it does for the alerts and not for the
\* views.
THEOREM AlertsCountNonCashHolds == Spec => []AlertsCountNonCash
<1>1. IndInv => AlertsCountNonCash
    BY AlertsOfWholeOutputs DEF IndInv
<1>. QED  BY <1>1, Invariance, PTL

\* So, unless somebody enters what is NON_CASH, a week with a gap has an alert,
\* and a currency with lines has one for exactly the weeks in which its own
\* view ends below zero.
THEOREM AlertsMatchViewsHolds == EntriesMoveCash => (Spec => []AlertsMatchViews)
<1>1. SUFFICES ASSUME EntriesMoveCash PROVE Spec => []AlertsMatchViews
    OBVIOUS
<1>2. IndInv => AlertsMatchViews
    BY <1>1, AlertsWithoutNonCash DEF IndInv
<1>. QED  BY <1>2, Invariance, PTL

\* Every occurrence of a flow that starts in the horizon is on a day the flow
\* names, none is left out, and the month ends do not make later ones drift;
\* the periods of an investment follow each other from its start to its
\* maturity, and each is received, still forecast or bears no interest.
THEOREM SchedulesAreWholeHolds == Spec => []SchedulesAreWhole
<1>1. ASSUME IndInv
      PROVE  SchedulesAreWhole
    <2>1. \A start \in {forecast[id].start : id \in {i \in Forecast : forecast[i] # None}}, flow \in data.flows :
              LET Of(k) == IF flow.days # None THEN flow.start + k * flow.days ELSE add_months(flow.start, k * flow.months)
                  due == {Of(k) : k \in 0..WeekLength * FORECAST_HORIZON_WEEKS} \intersect Horizon(start)
              IN  flow.start \in Horizon(start) =>
                      occurrences(flow, start) = {date \in due : flow.end = None \/ date <= flow.end}
        <3>1. \A id \in Forecast : forecast[id] # None => forecast[id].start \in Int
            BY <1>1 DEF IndInv, TypeOK, ForecastRow
        <3>2. \A start \in {forecast[id].start : id \in {i \in Forecast : forecast[i] # None}} : start \in Int
            BY <3>1
        <3>. QED  BY <3>2, OccurrencesAreDue, Zenon
    <2>2. \A i \in Periodic :
              \A schedule \in {generate_periodic_interest_schedule(i.principal, i.rate, i.start, i.maturity, i.months, i.convention)},
                 open \in {{p.period_end : p \in open_periods(i)}} :
                  /\ schedule[1].period_start = i.start /\ schedule[Len(schedule)].period_end = i.maturity
                  /\ \A k \in 2..Len(schedule) : schedule[k].period_start = schedule[k - 1].period_end
                  /\ \A k \in DOMAIN schedule :
                        /\ schedule[k].period_start < schedule[k].period_end
                        /\ schedule[k].period_end \in open <=>
                              schedule[k].interest_amount > 0 /\ schedule[k].period_end \notin i.receipts
        <3> SUFFICES ASSUME NEW i \in Periodic,
                            NEW schedule, schedule = generate_periodic_interest_schedule(i.principal, i.rate, i.start, i.maturity, i.months, i.convention),
                            NEW open, open = {p.period_end : p \in open_periods(i)}
                     PROVE  PeriodsFollow(i, schedule, open)
            BY Zenon DEF PeriodsFollow
        <3>. QED  BY PeriodsAreWhole
    <2>. QED  BY <2>1, <2>2, Zenon DEF SchedulesAreWhole
<1>. QED  BY <1>1, Invariance, PTL
=============================================================================
