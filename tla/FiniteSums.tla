------------------------------ MODULE FiniteSums ------------------------------
(***************************************************************************)
(* What a sum over a finite set is worth when the set or the summands      *)
(* change: the facts the proofs about drawn amounts, cash and principal    *)
(* rest on. SumFunctionOnSet is a fold, that is a recursive function       *)
(* inside a LET: the first part shows that the function exists, the second *)
(* what follows for the sums. The third does the first for recursions      *)
(* over sets and naturals that are not sums.                               *)
(***************************************************************************)
EXTENDS Integers, Functions, FiniteSetTheorems, TLAPS

-----------------------------------------------------------------------------
(* Induction over the naturals and over the cardinality of sets            *)

\* A set of naturals that has 0, and the successor of each of its members,
\* has them all.
LEMMA NaturalsFromZero ==
    ASSUME NEW T, 0 \in T, \A n \in Nat : n \in T => n + 1 \in T
    PROVE  Nat \subseteq T
<1> DEFINE Rest == Nat \ T
<1>1. SUFFICES ASSUME Rest # {} PROVE FALSE
    OBVIOUS
<1>2. PICK n \in Rest : \A m \in Rest : ~(<<m, n>> \in OpToRel(<, Nat))
    BY <1>1, NatLessThanWellFounded, WFMin
<1>3. n # 0 /\ n - 1 \in Nat /\ n - 1 < n
    OBVIOUS
<1>4. <<n - 1, n>> \in OpToRel(<, Nat)
    BY <1>3 DEF OpToRel
<1>5. n - 1 \in T
    BY <1>2, <1>3, <1>4
<1>. QED  BY <1>3, <1>5

\* A set of subsets of a finite set that has {}, and with a subset every one
\* that has one element more, has the whole set.
LEMMA SubsetInduction ==
    ASSUME NEW S, IsFiniteSet(S), NEW T, {} \in T, \A s \in T : \A c \in S \ s : s \union {c} \in T
    PROVE  S \in T
<1> DEFINE P == {n \in Nat : \A s \in SUBSET S : Cardinality(s) = n => s \in T}
<1>1. \A s \in SUBSET S : IsFiniteSet(s) /\ Cardinality(s) \in Nat
    BY FS_Subset, FS_CardinalityType
<1>2. 0 \in P
    <2>1. \A s \in SUBSET S : Cardinality(s) = 0 => s = {}
        BY <1>1, FS_EmptySet
    <2>. QED  BY <2>1
<1>3. ASSUME NEW n \in Nat, n \in P
      PROVE  n + 1 \in P
    <2> SUFFICES ASSUME NEW s \in SUBSET S, Cardinality(s) = n + 1
                 PROVE  s \in T
        OBVIOUS
    <2>1. s # {}
        BY FS_EmptySet, n + 1 # 0
    <2>2. PICK c \in s : TRUE
        BY <2>1
    <2>3. s \ {c} \in SUBSET S /\ Cardinality(s \ {c}) = n
        BY <1>1, <2>2, FS_RemoveElement
    <2>4. s \ {c} \in T /\ c \in S \ (s \ {c}) /\ (s \ {c}) \union {c} = s
        BY <1>3, <2>2, <2>3
    <2>. QED  BY <2>4
<1>4. Nat \subseteq P
    <2> HIDE DEF P
    <2>. QED  BY <1>2, <1>3, NaturalsFromZero
<1>. QED  BY <1>1, <1>4

-----------------------------------------------------------------------------
(* The recursive function                                                  *)

Chosen(s) == CHOOSE x \in s : TRUE

\* What the function is worth at s, given what it is worth at smaller sets.
SumStep(f, g, s) == IF s = {} THEN 0 ELSE f[Chosen(s)] + g[s \ {Chosen(s)}]

LEMMA Smaller ==
    ASSUME NEW s, IsFiniteSet(s), s # {}
    PROVE  /\ Chosen(s) \in s
           /\ IsFiniteSet(s \ {Chosen(s)})
           /\ Cardinality(s) \in Nat \ {0}
           /\ Cardinality(s \ {Chosen(s)}) = Cardinality(s) - 1
<1>1. Chosen(s) \in s
    BY DEF Chosen
<1>. QED  BY <1>1, FS_RemoveElement, FS_EmptySet, FS_CardinalityType

\* There is a function that satisfies the equation at every subset of S.
LEMMA StepFunction ==
    ASSUME NEW f, NEW S, IsFiniteSet(S)
    PROVE  \E g : g = [s \in SUBSET S |-> SumStep(f, g, s)]
<1> DEFINE Upto(n) == \E g : /\ g = [s \in SUBSET S |-> g[s]]
                             /\ \A s \in SUBSET S : Cardinality(s) <= n => g[s] = SumStep(f, g, s)
           T == {n \in Nat : Upto(n)}
<1>1. \A s \in SUBSET S : IsFiniteSet(s) /\ Cardinality(s) \in Nat
    BY FS_Subset, FS_CardinalityType
<1>2. Upto(0)
    <2> DEFINE g == [s \in SUBSET S |-> 0]
    <2>1. \A s \in SUBSET S : Cardinality(s) <= 0 => s = {}
        BY <1>1, FS_EmptySet
    <2>2. \A s \in SUBSET S : Cardinality(s) <= 0 => g[s] = SumStep(f, g, s)
        BY <2>1 DEF SumStep
    <2>. QED  BY <2>2
<1>3. ASSUME NEW n \in Nat, Upto(n)
      PROVE  Upto(n + 1)
    <2>1. PICK g : /\ g = [s \in SUBSET S |-> g[s]]
                   /\ \A s \in SUBSET S : Cardinality(s) <= n => g[s] = SumStep(f, g, s)
        BY <1>3
    <2> DEFINE h == [s \in SUBSET S |-> IF Cardinality(s) <= n THEN g[s] ELSE SumStep(f, g, s)]
    <2>2. ASSUME NEW s \in SUBSET S, Cardinality(s) <= n + 1
          PROVE  h[s] = SumStep(f, h, s)
        <3>1. h[s] = SumStep(f, g, s)
            BY <2>1
        <3>2. CASE s = {}
            BY <3>1, <3>2 DEF SumStep
        <3>3. CASE s # {}
            <4>1. s \ {Chosen(s)} \in SUBSET S /\ Cardinality(s \ {Chosen(s)}) <= n
                BY <1>1, <2>2, <3>3, Smaller
            <4>2. h[s \ {Chosen(s)}] = g[s \ {Chosen(s)}]
                BY <4>1
            <4>. QED  BY <3>1, <3>3, <4>2 DEF SumStep
        <3>. QED  BY <3>2, <3>3
    <2>3. h = [s \in SUBSET S |-> h[s]]
        OBVIOUS
    <2>4. \E k : /\ k = [s \in SUBSET S |-> k[s]]
                 /\ \A s \in SUBSET S : Cardinality(s) <= n + 1 => k[s] = SumStep(f, k, s)
        <3> HIDE DEF h
        <3>. QED  BY <2>2, <2>3
    <2>. QED  BY <2>4
<1>4. Nat \subseteq T
    <2>1. 0 \in T
        BY <1>2
    <2>2. ASSUME NEW n \in Nat, n \in T
          PROVE  n + 1 \in T
        <3>1. Upto(n)
            BY <2>2
        <3>2. Upto(n + 1)
            BY <3>1, <1>3
        <3>3. n + 1 \in Nat
            OBVIOUS
        <3> HIDE DEF Upto
        <3>. QED  BY <3>2, <3>3
    <2> HIDE DEF T
    <2>. QED  BY <2>1, <2>2, NaturalsFromZero
<1>5. Upto(Cardinality(S))
    BY <1>4, FS_CardinalityType
<1>6. \A s \in SUBSET S : Cardinality(s) <= Cardinality(S)
    BY FS_Subset
<1>7. PICK g : /\ g = [s \in SUBSET S |-> g[s]]
               /\ \A s \in SUBSET S : Cardinality(s) <= Cardinality(S) => g[s] = SumStep(f, g, s)
    BY <1>5
<1>. QED  BY <1>6, <1>7

-----------------------------------------------------------------------------
(* The sums                                                                *)

\* The sum is what the function inside the fold is worth at the whole set.
LEMMA SumIsStepFunction ==
    ASSUME NEW f, NEW S
    PROVE  SumFunctionOnSet(f, S) = (CHOOSE g : g = [s \in SUBSET S |-> SumStep(f, g, s)])[S]
BY Zenon DEF SumFunctionOnSet, FoldFunctionOnSet, MapThenFoldSet, SumStep, Chosen

\* That function satisfies its equation.
LEMMA SumFunctionExists ==
    ASSUME NEW f, NEW S, IsFiniteSet(S)
    PROVE  \E g : /\ \A s \in SUBSET S : g[s] = SumStep(f, g, s)
                 /\ SumFunctionOnSet(f, S) = g[S]
<1>1. PICK g : g = CHOOSE h : h = [s \in SUBSET S |-> SumStep(f, h, s)]
    OBVIOUS
<1>2. g = [s \in SUBSET S |-> SumStep(f, g, s)]
    BY <1>1, StepFunction
<1>3. SumFunctionOnSet(f, S) = g[S]
    BY <1>1, SumIsStepFunction
<1>. QED  BY <1>2, <1>3

\* Two such functions, of summands that agree on T, agree on the subsets of T.
LEMMA SameFunction ==
    ASSUME NEW f, NEW S, IsFiniteSet(S), NEW T \in SUBSET S,
           NEW e, \A x \in T : e[x] = f[x],
           NEW g, \A s \in SUBSET S : g[s] = SumStep(f, g, s),
           NEW h, \A s \in SUBSET T : h[s] = SumStep(e, h, s)
    PROVE  g[T] = h[T]
<1> DEFINE Same(n) == \A s \in SUBSET T : Cardinality(s) = n => g[s] = h[s]
           N == {n \in Nat : Same(n)}
<1>1. \A s \in SUBSET T : s \in SUBSET S /\ IsFiniteSet(s) /\ Cardinality(s) \in Nat
    BY FS_Subset, FS_CardinalityType
<1>2. \A s \in SUBSET T : g[s] = SumStep(f, g, s) /\ h[s] = SumStep(e, h, s)
    BY <1>1
<1>3. Same(0)
    <2>1. \A s \in SUBSET T : Cardinality(s) = 0 => s = {}
        BY <1>1, FS_EmptySet
    <2>. QED  BY <2>1, <1>2 DEF SumStep
<1>4. ASSUME NEW n \in Nat, Same(n)
      PROVE  Same(n + 1)
    <2> SUFFICES ASSUME NEW s \in SUBSET T, Cardinality(s) = n + 1
                 PROVE  g[s] = h[s]
        OBVIOUS
    <2>1. s # {}
        BY FS_EmptySet, n + 1 # 0
    <2>2. s \ {Chosen(s)} \in SUBSET T /\ Cardinality(s \ {Chosen(s)}) = n /\ Chosen(s) \in T
        BY <1>1, <2>1, Smaller
    <2>3. g[s \ {Chosen(s)}] = h[s \ {Chosen(s)}]
        BY <1>4, <2>2
    <2>4. f[Chosen(s)] = e[Chosen(s)]
        BY <2>2
    <2>. QED  BY <1>2, <2>1, <2>3, <2>4 DEF SumStep
<1>5. Nat \subseteq N
    <2>1. 0 \in N
        BY <1>3
    <2>2. ASSUME NEW n \in Nat, n \in N
          PROVE  n + 1 \in N
        <3>1. Same(n)
            BY <2>2
        <3>2. Same(n + 1)
            BY <3>1, <1>4
        <3>3. n + 1 \in Nat
            OBVIOUS
        <3> HIDE DEF Same
        <3>. QED  BY <3>2, <3>3
    <2> HIDE DEF N
    <2>. QED  BY <2>1, <2>2, NaturalsFromZero
<1>6. Same(Cardinality(T))
    BY <1>1, <1>5
<1>. QED  BY <1>6

-----------------------------------------------------------------------------
(* What a sum is worth                                                     *)

LEMMA SumOfNothing ==
    ASSUME NEW f
    PROVE  SumFunctionOnSet(f, {}) = 0
<1>1. IsFiniteSet({})
    BY FS_EmptySet
<1>2. PICK g : /\ \A s \in SUBSET {} : g[s] = SumStep(f, g, s)
               /\ SumFunctionOnSet(f, {}) = g[{}]
    BY <1>1, SumFunctionExists
<1>3. g[{}] = SumStep(f, g, {})
    BY <1>2
<1>. QED  BY <1>2, <1>3 DEF SumStep

\* Summands that agree on the set have the same sum.
LEMMA SumOfTheSame ==
    ASSUME NEW S, IsFiniteSet(S), NEW f, NEW e, \A x \in S : e[x] = f[x]
    PROVE  SumFunctionOnSet(e, S) = SumFunctionOnSet(f, S)
<1>1. PICK g : /\ \A s \in SUBSET S : g[s] = SumStep(f, g, s)
               /\ SumFunctionOnSet(f, S) = g[S]
    BY SumFunctionExists
<1>2. PICK h : /\ \A s \in SUBSET S : h[s] = SumStep(e, h, s)
               /\ SumFunctionOnSet(e, S) = h[S]
    BY SumFunctionExists
<1>3. g[S] = h[S]
    BY <1>1, <1>2, SameFunction
<1>. QED  BY <1>1, <1>2, <1>3

\* The element the fold takes first can be taken out.
LEMMA SumWithoutChosen ==
    ASSUME NEW f, NEW S, IsFiniteSet(S), S # {}
    PROVE  SumFunctionOnSet(f, S) = f[Chosen(S)] + SumFunctionOnSet(f, S \ {Chosen(S)})
<1> DEFINE T == S \ {Chosen(S)}
<1>1. IsFiniteSet(T) /\ T \in SUBSET S
    BY Smaller
<1>2. PICK g : /\ \A s \in SUBSET S : g[s] = SumStep(f, g, s)
               /\ SumFunctionOnSet(f, S) = g[S]
    BY SumFunctionExists
<1>3. PICK h : /\ \A s \in SUBSET T : h[s] = SumStep(f, h, s)
               /\ SumFunctionOnSet(f, T) = h[T]
    BY <1>1, SumFunctionExists
<1>4. g[T] = h[T]
    <2>1. \A x \in T : f[x] = f[x]
        OBVIOUS
    <2> HIDE DEF T
    <2>. QED  BY <1>1, <1>2, <1>3, <2>1, SameFunction
<1>5. g[S] = f[Chosen(S)] + g[T]
    BY <1>2 DEF SumStep
<1>. QED  BY <1>2, <1>3, <1>4, <1>5

\* A sum stays where its summands are, if addition does.
LEMMA SumIsClosed ==
    ASSUME NEW D, 0 \in D, \A x, y \in D : x + y \in D,
           NEW f, NEW S, IsFiniteSet(S), \A x \in S : f[x] \in D
    PROVE  SumFunctionOnSet(f, S) \in D
<1> DEFINE Typed(n) == \A s \in SUBSET S : Cardinality(s) = n => SumFunctionOnSet(f, s) \in D
           N == {n \in Nat : Typed(n)}
<1>1. \A s \in SUBSET S : IsFiniteSet(s) /\ Cardinality(s) \in Nat
    BY FS_Subset, FS_CardinalityType
<1>2. Typed(0)
    <2>1. \A s \in SUBSET S : Cardinality(s) = 0 => s = {}
        BY <1>1, FS_EmptySet
    <2>. QED  BY <2>1, SumOfNothing
<1>3. ASSUME NEW n \in Nat, Typed(n)
      PROVE  Typed(n + 1)
    <2> SUFFICES ASSUME NEW s \in SUBSET S, Cardinality(s) = n + 1
                 PROVE  SumFunctionOnSet(f, s) \in D
        OBVIOUS
    <2>1. s # {}
        BY FS_EmptySet, n + 1 # 0
    <2>2. s \ {Chosen(s)} \in SUBSET S /\ Cardinality(s \ {Chosen(s)}) = n /\ Chosen(s) \in S
        BY <1>1, <2>1, Smaller
    <2>3. SumFunctionOnSet(f, s \ {Chosen(s)}) \in D
        BY <1>3, <2>2
    <2>4. SumFunctionOnSet(f, s) = f[Chosen(s)] + SumFunctionOnSet(f, s \ {Chosen(s)})
        BY <1>1, <2>1, SumWithoutChosen
    <2>. QED  BY <2>2, <2>3, <2>4
<1>4. Nat \subseteq N
    <2>1. 0 \in N
        BY <1>2
    <2>2. ASSUME NEW n \in Nat, n \in N
          PROVE  n + 1 \in N
        <3>1. Typed(n + 1)
            BY <2>2, <1>3
        <3>2. n + 1 \in Nat
            OBVIOUS
        <3> HIDE DEF Typed
        <3>. QED  BY <3>1, <3>2
    <2> HIDE DEF N
    <2>. QED  BY <2>1, <2>2, NaturalsFromZero
<1>5. Typed(Cardinality(S))
    BY <1>1, <1>4
<1>. QED  BY <1>5

LEMMA SumOfNaturals ==
    ASSUME NEW f, NEW S, IsFiniteSet(S), \A x \in S : f[x] \in Nat
    PROVE  SumFunctionOnSet(f, S) \in Nat
<1>1. 0 \in Nat /\ \A x, y \in Nat : x + y \in Nat
    OBVIOUS
<1>. QED  BY <1>1, SumIsClosed

LEMMA SumOfIntegers ==
    ASSUME NEW f, NEW S, IsFiniteSet(S), \A x \in S : f[x] \in Int
    PROVE  SumFunctionOnSet(f, S) \in Int
<1>1. 0 \in Int /\ \A x, y \in Int : x + y \in Int
    OBVIOUS
<1>. QED  BY <1>1, SumIsClosed

LEMMA SumOfZeros ==
    ASSUME NEW f, NEW S, IsFiniteSet(S), \A x \in S : f[x] = 0
    PROVE  SumFunctionOnSet(f, S) = 0
<1>1. 0 \in {0} /\ \A x, y \in {0} : x + y \in {0}
    OBVIOUS
<1>2. SumFunctionOnSet(f, S) \in {0}
    BY <1>1, SumIsClosed
<1>. QED  BY <1>2

\* So can any other: addition does not care which.
LEMMA SumWithout ==
    ASSUME NEW f, NEW S, IsFiniteSet(S), \A y \in S : f[y] \in Int, NEW x \in S
    PROVE  SumFunctionOnSet(f, S) = f[x] + SumFunctionOnSet(f, S \ {x})
<1> DEFINE Split(n) == \A s \in SUBSET S : Cardinality(s) = n =>
                          \A y \in s : SumFunctionOnSet(f, s) = f[y] + SumFunctionOnSet(f, s \ {y})
           N == {n \in Nat : Split(n)}
<1>1. \A s \in SUBSET S : IsFiniteSet(s) /\ Cardinality(s) \in Nat
    BY FS_Subset, FS_CardinalityType
<1>2. Split(0)
    BY <1>1, FS_EmptySet
<1>3. ASSUME NEW n \in Nat, Split(n)
      PROVE  Split(n + 1)
    <2> SUFFICES ASSUME NEW s \in SUBSET S, Cardinality(s) = n + 1, NEW y \in s
                 PROVE  SumFunctionOnSet(f, s) = f[y] + SumFunctionOnSet(f, s \ {y})
        OBVIOUS
    <2> DEFINE c == Chosen(s)
               t == s \ {y, c}
    <2>1. c \in s /\ SumFunctionOnSet(f, s) = f[c] + SumFunctionOnSet(f, s \ {c})
        BY <1>1, Smaller, SumWithoutChosen
    <2>2. CASE y = c
        BY <2>1, <2>2
    <2>3. CASE y # c
        <3>1. /\ s \ {c} \in SUBSET S /\ Cardinality(s \ {c}) = n /\ y \in s \ {c}
              /\ s \ {y} \in SUBSET S /\ Cardinality(s \ {y}) = n /\ c \in s \ {y}
            <4>1. \A z \in s : Cardinality(s \ {z}) = (n + 1) - 1
                BY <1>1, FS_RemoveElement
            <4>. QED  BY <2>1, <2>3, <4>1
        <3>2. SumFunctionOnSet(f, s \ {c}) = f[y] + SumFunctionOnSet(f, (s \ {c}) \ {y})
            BY <1>3, <3>1
        <3>3. SumFunctionOnSet(f, s \ {y}) = f[c] + SumFunctionOnSet(f, (s \ {y}) \ {c})
            BY <1>3, <3>1
        <3>4. (s \ {c}) \ {y} = t /\ (s \ {y}) \ {c} = t
            OBVIOUS
        <3>5. SumFunctionOnSet(f, t) \in Int
            <4>1. IsFiniteSet(t) /\ \A z \in t : f[z] \in Int
                BY <1>1, t \in SUBSET S
            <4>. QED  BY <4>1, SumOfIntegers
        <3>6. f[y] \in Int /\ f[c] \in Int
            BY <2>1
        <3>7. /\ SumFunctionOnSet(f, s) = f[c] + SumFunctionOnSet(f, s \ {c})
              /\ SumFunctionOnSet(f, s \ {c}) = f[y] + SumFunctionOnSet(f, t)
              /\ SumFunctionOnSet(f, s \ {y}) = f[c] + SumFunctionOnSet(f, t)
            BY <2>1, <3>2, <3>3, <3>4
        <3> HIDE DEF t, c
        <3>. QED  BY <3>5, <3>6, <3>7
    <2>. QED  BY <2>2, <2>3
<1>4. Nat \subseteq N
    <2>1. 0 \in N
        BY <1>2
    <2>2. ASSUME NEW n \in Nat, n \in N
          PROVE  n + 1 \in N
        <3>1. Split(n + 1)
            BY <2>2, <1>3
        <3>2. n + 1 \in Nat
            OBVIOUS
        <3> HIDE DEF Split
        <3>. QED  BY <3>1, <3>2
    <2> HIDE DEF N
    <2>. QED  BY <2>1, <2>2, NaturalsFromZero
<1>5. Split(Cardinality(S))
    BY <1>1, <1>4
<1>. QED  BY <1>5

\* An element more.
LEMMA SumWith ==
    ASSUME NEW f, NEW S, IsFiniteSet(S), NEW x, x \notin S, \A y \in S \union {x} : f[y] \in Int
    PROVE  SumFunctionOnSet(f, S \union {x}) = f[x] + SumFunctionOnSet(f, S)
<1>1. IsFiniteSet(S \union {x})
    BY FS_AddElement
<1>2. (S \union {x}) \ {x} = S
    OBVIOUS
<1>. QED  BY <1>1, <1>2, SumWithout

\* One summand changed.
LEMMA SumOfOneChanged ==
    ASSUME NEW S, IsFiniteSet(S), NEW f, NEW e, NEW x \in S,
           \A y \in S : f[y] \in Int /\ e[y] \in Int,
           \A y \in S \ {x} : e[y] = f[y]
    PROVE  SumFunctionOnSet(e, S) = (SumFunctionOnSet(f, S) - f[x]) + e[x]
<1>1. IsFiniteSet(S \ {x})
    BY FS_RemoveElement
<1>2. SumFunctionOnSet(e, S \ {x}) = SumFunctionOnSet(f, S \ {x})
    BY <1>1, SumOfTheSame
<1>3. /\ SumFunctionOnSet(e, S) = e[x] + SumFunctionOnSet(e, S \ {x})
      /\ SumFunctionOnSet(f, S) = f[x] + SumFunctionOnSet(f, S \ {x})
    BY SumWithout
<1>4. SumFunctionOnSet(f, S \ {x}) \in Int
    BY <1>1, SumOfIntegers
<1>. QED  BY <1>2, <1>3, <1>4

\* Two sets that share nothing.
LEMMA SumOfUnion ==
    ASSUME NEW f, NEW S, IsFiniteSet(S), NEW T, IsFiniteSet(T), S \intersect T = {},
           \A x \in S \union T : f[x] \in Int
    PROVE  SumFunctionOnSet(f, S \union T) = SumFunctionOnSet(f, S) + SumFunctionOnSet(f, T)
<1> DEFINE Split(n) == \A t \in SUBSET T : Cardinality(t) = n =>
                          SumFunctionOnSet(f, S \union t) = SumFunctionOnSet(f, S) + SumFunctionOnSet(f, t)
           N == {n \in Nat : Split(n)}
<1>1. \A t \in SUBSET T : IsFiniteSet(t) /\ Cardinality(t) \in Nat /\ IsFiniteSet(S \union t)
    BY FS_Subset, FS_CardinalityType, FS_Union
<1>2. SumFunctionOnSet(f, S) \in Int
    BY SumOfIntegers
<1>3. Split(0)
    <2> SUFFICES ASSUME NEW t \in SUBSET T, Cardinality(t) = 0
                 PROVE  SumFunctionOnSet(f, S \union t) = SumFunctionOnSet(f, S) + SumFunctionOnSet(f, t)
        OBVIOUS
    <2>1. t = {}
        BY <1>1, FS_EmptySet
    <2>2. SumFunctionOnSet(f, S \union t) = SumFunctionOnSet(f, S)
        <3>1. S \union t = S
            BY <2>1
        <3>. QED  BY <3>1
    <2>3. SumFunctionOnSet(f, t) = 0
        BY <2>1, SumOfNothing
    <2>. QED  BY <1>2, <2>2, <2>3
<1>4. ASSUME NEW n \in Nat, Split(n)
      PROVE  Split(n + 1)
    <2> SUFFICES ASSUME NEW t \in SUBSET T, Cardinality(t) = n + 1
                 PROVE  SumFunctionOnSet(f, S \union t) = SumFunctionOnSet(f, S) + SumFunctionOnSet(f, t)
        OBVIOUS
    <2>1. t # {}
        BY FS_EmptySet, n + 1 # 0
    <2>2. PICK c \in t : TRUE
        BY <2>1
    <2> DEFINE rest == t \ {c}
    <2>3. rest \in SUBSET T /\ Cardinality(rest) = n
        <3>1. \A x \in t : Cardinality(t \ {x}) = (n + 1) - 1
            BY <1>1, FS_RemoveElement
        <3>. QED  BY <2>2, <3>1
    <2>4. SumFunctionOnSet(f, S \union rest) = SumFunctionOnSet(f, S) + SumFunctionOnSet(f, rest)
        BY <1>4, <2>3
    <2>5. (S \union rest) \union {c} = S \union t /\ rest \union {c} = t
        BY <2>2
    <2>6. c \in T /\ c \notin S /\ c \notin S \union rest /\ c \notin rest
        BY <2>2
    <2>7. IsFiniteSet(rest) /\ IsFiniteSet(S \union rest) /\ \A x \in (S \union rest) \union {c} : f[x] \in Int
        BY <1>1, <2>3, <2>6
    <2> HIDE DEF rest
    <2>8. SumFunctionOnSet(f, (S \union rest) \union {c}) = f[c] + SumFunctionOnSet(f, S \union rest)
        BY <2>6, <2>7, SumWith
    <2>9. SumFunctionOnSet(f, rest \union {c}) = f[c] + SumFunctionOnSet(f, rest)
        BY <2>6, <2>7, SumWith
    <2>10. f[c] \in Int /\ SumFunctionOnSet(f, rest) \in Int
        BY <2>7, SumOfIntegers
    <2>11. /\ SumFunctionOnSet(f, S \union t) = f[c] + SumFunctionOnSet(f, S \union rest)
           /\ SumFunctionOnSet(f, t) = f[c] + SumFunctionOnSet(f, rest)
        BY <2>5, <2>8, <2>9
    <2>. QED  BY ONLY <1>2, <2>4, <2>10, <2>11
<1>5. Nat \subseteq N
    <2>1. 0 \in N
        BY <1>3
    <2>2. ASSUME NEW n \in Nat, n \in N
          PROVE  n + 1 \in N
        <3>1. Split(n + 1)
            BY <2>2, <1>4
        <3>2. n + 1 \in Nat
            OBVIOUS
        <3> HIDE DEF Split
        <3>. QED  BY <3>1, <3>2
    <2> HIDE DEF N
    <2>. QED  BY <2>1, <2>2, NaturalsFromZero
<1>6. Split(Cardinality(T))
    BY <1>1, <1>5
<1>. QED  BY <1>6

\* Summands and their opposites.
LEMMA SumOfOpposites ==
    ASSUME NEW S, IsFiniteSet(S), NEW f, NEW e, \A x \in S : f[x] \in Int /\ e[x] = -f[x]
    PROVE  SumFunctionOnSet(e, S) = -SumFunctionOnSet(f, S)
<1> DEFINE Opposite(n) == \A s \in SUBSET S : Cardinality(s) = n =>
                             SumFunctionOnSet(e, s) = -SumFunctionOnSet(f, s)
           N == {n \in Nat : Opposite(n)}
<1>1. \A s \in SUBSET S : IsFiniteSet(s) /\ Cardinality(s) \in Nat
    BY FS_Subset, FS_CardinalityType
<1>2. Opposite(0)
    <2>1. \A s \in SUBSET S : Cardinality(s) = 0 => s = {}
        BY <1>1, FS_EmptySet
    <2>. QED  BY <2>1, SumOfNothing
<1>3. ASSUME NEW n \in Nat, Opposite(n)
      PROVE  Opposite(n + 1)
    <2> SUFFICES ASSUME NEW s \in SUBSET S, Cardinality(s) = n + 1
                 PROVE  SumFunctionOnSet(e, s) = -SumFunctionOnSet(f, s)
        OBVIOUS
    <2>1. s # {}
        BY FS_EmptySet, n + 1 # 0
    <2>2. PICK c \in s : TRUE
        BY <2>1
    <2>3. s \ {c} \in SUBSET S /\ Cardinality(s \ {c}) = n /\ c \in S
        <3>1. \A x \in s : Cardinality(s \ {x}) = (n + 1) - 1
            BY <1>1, FS_RemoveElement
        <3>. QED  BY <2>2, <3>1
    <2>4. SumFunctionOnSet(e, s \ {c}) = -SumFunctionOnSet(f, s \ {c})
        BY <1>3, <2>3
    <2>5. SumFunctionOnSet(f, s) = f[c] + SumFunctionOnSet(f, s \ {c})
        BY <1>1, <2>2, SumWithout
    <2>6. SumFunctionOnSet(e, s) = e[c] + SumFunctionOnSet(e, s \ {c})
        <3>1. \A x \in s : e[x] \in Int
            OBVIOUS
        <3>. QED  BY <1>1, <2>2, <3>1, SumWithout
    <2>7. SumFunctionOnSet(f, s \ {c}) \in Int
        BY <1>1, <2>3, SumOfIntegers
    <2>. QED  BY <2>3, <2>4, <2>5, <2>6, <2>7
<1>4. Nat \subseteq N
    <2>1. 0 \in N
        BY <1>2
    <2>2. ASSUME NEW n \in Nat, n \in N
          PROVE  n + 1 \in N
        <3>1. Opposite(n + 1)
            BY <2>2, <1>3
        <3>2. n + 1 \in Nat
            OBVIOUS
        <3> HIDE DEF Opposite
        <3>. QED  BY <3>1, <3>2
    <2> HIDE DEF N
    <2>. QED  BY <2>1, <2>2, NaturalsFromZero
<1>5. Opposite(Cardinality(S))
    BY <1>1, <1>4
<1>. QED  BY <1>5

-----------------------------------------------------------------------------
(* Sums that are sums of sums                                              *)

LEMMA SumOfSums ==
    ASSUME NEW S, IsFiniteSet(S), NEW f, NEW e, NEW g,
           \A x \in S : f[x] \in Int /\ e[x] \in Int /\ g[x] = f[x] + e[x]
    PROVE  SumFunctionOnSet(g, S) = SumFunctionOnSet(f, S) + SumFunctionOnSet(e, S)
<1> DEFINE T == {s \in SUBSET S : SumFunctionOnSet(g, s) = SumFunctionOnSet(f, s) + SumFunctionOnSet(e, s)}
<1>1. {} \in T
    BY SumOfNothing
<1>2. ASSUME NEW s \in T, NEW c \in S \ s
      PROVE  s \union {c} \in T
    <2>1. IsFiniteSet(s) /\ s \union {c} \in SUBSET S
        BY FS_Subset
    <2>2. /\ SumFunctionOnSet(g, s \union {c}) = g[c] + SumFunctionOnSet(g, s)
          /\ SumFunctionOnSet(f, s \union {c}) = f[c] + SumFunctionOnSet(f, s)
          /\ SumFunctionOnSet(e, s \union {c}) = e[c] + SumFunctionOnSet(e, s)
        <3>1. \A y \in s \union {c} : g[y] \in Int /\ f[y] \in Int /\ e[y] \in Int
            BY <2>1
        <3>. QED  BY <2>1, <3>1, SumWith
    <2>3. SumFunctionOnSet(f, s) \in Int /\ SumFunctionOnSet(e, s) \in Int
        BY <2>1, SumOfIntegers
    <2>4. SumFunctionOnSet(g, s) = SumFunctionOnSet(f, s) + SumFunctionOnSet(e, s)
        OBVIOUS
    <2>5. SumFunctionOnSet(g, s \union {c}) = SumFunctionOnSet(f, s \union {c}) + SumFunctionOnSet(e, s \union {c})
        BY <2>2, <2>3, <2>4
    <2>. QED  BY <2>1, <2>5
<1>3. S \in T
    <2> HIDE DEF T
    <2>1. \A s \in T : \A c \in S \ s : s \union {c} \in T
        BY <1>2
    <2>. QED  BY <1>1, <2>1, SubsetInduction
<1>. QED  BY <1>3

\* The sum over a set is that of the sums over its classes.
Class(S, key, k) == {x \in S : key[x] = k}

LEMMA SumOfClasses ==
    ASSUME NEW S, IsFiniteSet(S), NEW K, IsFiniteSet(K), NEW key, \A x \in S : key[x] \in K,
           NEW f, \A x \in S : f[x] \in Int,
           NEW g, \A k \in K : g[k] = SumFunctionOnSet(f, Class(S, key, k))
    PROVE  SumFunctionOnSet(g, K) = SumFunctionOnSet(f, S)
<1> DEFINE Of(J) == {x \in S : key[x] \in J}
           T == {J \in SUBSET K : SumFunctionOnSet(g, J) = SumFunctionOnSet(f, Of(J))}
<1>1. {} \in T
    <2>1. Of({}) = {}
        OBVIOUS
    <2>. QED  BY <2>1, SumOfNothing
<1>2. ASSUME NEW J \in T, NEW k \in K \ J
      PROVE  J \union {k} \in T
    <2>1. IsFiniteSet(J) /\ J \union {k} \in SUBSET K
        BY FS_Subset
    <2>2. IsFiniteSet(Class(S, key, k)) /\ IsFiniteSet(Of(J)) /\ Of(J) \intersect Class(S, key, k) = {}
        BY FS_Subset DEF Class
    <2>3. Of(J \union {k}) = Of(J) \union Class(S, key, k)
        BY DEF Class
    <2>4. SumFunctionOnSet(f, Of(J) \union Class(S, key, k)) = SumFunctionOnSet(f, Of(J)) + SumFunctionOnSet(f, Class(S, key, k))
        <3>1. \A x \in Of(J) \union Class(S, key, k) : f[x] \in Int
            BY DEF Class
        <3> HIDE DEF Of
        <3>. QED  BY <2>2, <3>1, SumOfUnion
    <2>5. \A j \in K : g[j] \in Int
        <3> SUFFICES ASSUME NEW j \in K PROVE g[j] \in Int
            OBVIOUS
        <3>1. IsFiniteSet(Class(S, key, j)) /\ \A x \in Class(S, key, j) : f[x] \in Int
            BY FS_Subset DEF Class
        <3>2. g[j] = SumFunctionOnSet(f, Class(S, key, j))
            OBVIOUS
        <3>. QED  BY <3>1, <3>2, SumOfIntegers
    <2>6. SumFunctionOnSet(g, J \union {k}) = g[k] + SumFunctionOnSet(g, J)
        BY <2>1, <2>5, SumWith
    <2>7. SumFunctionOnSet(f, Of(J)) \in Int /\ g[k] \in Int /\ g[k] = SumFunctionOnSet(f, Class(S, key, k))
        <3>1. \A x \in Of(J) : f[x] \in Int
            OBVIOUS
        <3>2. SumFunctionOnSet(f, Of(J)) \in Int
            <4> HIDE DEF Of
            <4>. QED  BY <2>2, <3>1, SumOfIntegers
        <3>. QED  BY <2>5, <3>2
    <2>8. SumFunctionOnSet(g, J) = SumFunctionOnSet(f, Of(J))
        OBVIOUS
    <2>9. SumFunctionOnSet(g, J \union {k}) = SumFunctionOnSet(f, Of(J \union {k}))
        <3>1. SumFunctionOnSet(f, Of(J \union {k})) = SumFunctionOnSet(f, Of(J) \union Class(S, key, k))
            BY <2>3
        <3> HIDE DEF Of, T
        <3>. QED  BY ONLY <2>4, <2>6, <2>7, <2>8, <3>1
    <2>. QED  BY <2>1, <2>9
<1>3. K \in T
    <2> HIDE DEF T
    <2>1. \A J \in T : \A k \in K \ J : J \union {k} \in T
        BY <1>2
    <2>. QED  BY <1>1, <2>1, SubsetInduction
<1>4. Of(K) = S
    OBVIOUS
<1>. QED  BY <1>3, <1>4

-----------------------------------------------------------------------------
(* Recursions that are not sums                                            *)

\* A function of a set that is given at {} and follows, at every other subset,
\* from a smaller one: it exists.
SetSteps(g, S, base, pick, h) ==
    \A s \in SUBSET S : g[s] = IF s = {} THEN base ELSE h[<<pick[s], g[s \ {pick[s]}]>>]

LEMMA SetRecursion ==
    ASSUME NEW S, IsFiniteSet(S), NEW T, NEW base \in T,
           NEW pick, \A s \in SUBSET S : s # {} => pick[s] \in s,
           NEW h \in [S \X T -> T]
    PROVE  \E g \in [SUBSET S -> T] : SetSteps(g, S, base, pick, h)
<1> DEFINE Step(g, s) == IF s = {} THEN base ELSE h[<<pick[s], g[s \ {pick[s]}]>>]
           Upto(n) == \E g \in [SUBSET S -> T] : \A s \in SUBSET S : Cardinality(s) <= n => g[s] = Step(g, s)
           N == {n \in Nat : Upto(n)}
<1>1. \A s \in SUBSET S : IsFiniteSet(s) /\ Cardinality(s) \in Nat
    BY FS_Subset, FS_CardinalityType
<1>2. 0 \in N
    <2> DEFINE g == [s \in SUBSET S |-> base]
    <2>1. \A s \in SUBSET S : Cardinality(s) <= 0 => s = {}
        BY <1>1, FS_EmptySet
    <2>2. g \in [SUBSET S -> T] /\ \A s \in SUBSET S : Cardinality(s) <= 0 => g[s] = Step(g, s)
        BY <2>1
    <2>. QED  BY <2>2
<1>3. ASSUME NEW n \in N
      PROVE  n + 1 \in N
    <2>1. PICK g \in [SUBSET S -> T] : \A s \in SUBSET S : Cardinality(s) <= n => g[s] = Step(g, s)
        OBVIOUS
    <2> DEFINE k == [s \in SUBSET S |-> IF Cardinality(s) <= n THEN g[s] ELSE Step(g, s)]
    <2>2. ASSUME NEW s \in SUBSET S
          PROVE  Step(g, s) \in T
        <3>1. CASE s = {}
            BY <3>1
        <3>2. CASE s # {}
            <4>1. pick[s] \in S /\ g[s \ {pick[s]}] \in T
                BY <3>2
            <4>. QED  BY <3>2, <4>1
        <3>. QED  BY <3>1, <3>2
    <2>3. k \in [SUBSET S -> T]
        <3>1. \A s \in SUBSET S : (IF Cardinality(s) <= n THEN g[s] ELSE Step(g, s)) \in T
            <4> HIDE DEF Step
            <4>. QED  BY <2>2
        <3> HIDE DEF Step
        <3>. QED  BY <3>1
    <2>4. ASSUME NEW s \in SUBSET S, Cardinality(s) <= n + 1
          PROVE  k[s] = Step(k, s)
        <3>1. k[s] = Step(g, s)
            <4> HIDE DEF Step
            <4>. QED  BY <2>1
        <3>2. CASE s = {}
            BY <3>1, <3>2
        <3>3. CASE s # {}
            <4>1. pick[s] \in s /\ s \ {pick[s]} \in SUBSET S
                BY <3>3
            <4>2. Cardinality(s \ {pick[s]}) = Cardinality(s) - 1
                BY <1>1, <4>1, FS_RemoveElement
            <4>3. Cardinality(s \ {pick[s]}) <= n
                BY <1>1, <2>4, <4>2
            <4>4. k[s \ {pick[s]}] = g[s \ {pick[s]}]
                <5> HIDE DEF Step
                <5>. QED  BY <4>1, <4>3
            <4> HIDE DEF k
            <4>. QED  BY <3>1, <3>3, <4>4
        <3>. QED  BY <3>2, <3>3
    <2>5. Upto(n + 1)
        <3> HIDE DEF k, Step
        <3>. QED  BY <2>3, <2>4
    <2> HIDE DEF Upto
    <2>. QED  BY <2>5
<1>4. Upto(Cardinality(S))
    <2> HIDE DEF Upto
    <2>1. \A n \in Nat : n \in N => n + 1 \in N
        BY <1>3
    <2> HIDE DEF N
    <2>2. Nat \subseteq N
        BY <1>2, <2>1, NaturalsFromZero
    <2>. QED  BY <1>1, <2>2 DEF N
<1>5. \A s \in SUBSET S : Cardinality(s) <= Cardinality(S)
    BY FS_Subset
<1>. QED  BY <1>4, <1>5 DEF SetSteps

\* Whatever holds at {}, and at every subset if at the smaller one, holds at S.
LEMMA SetRecursionHolds ==
    ASSUME NEW S, IsFiniteSet(S), NEW T, NEW pick, \A s \in SUBSET S : s # {} => pick[s] \in s,
           NEW g, g[{}] \in T, \A s \in SUBSET S : s # {} /\ g[s \ {pick[s]}] \in T => g[s] \in T
    PROVE  g[S] \in T
<1> DEFINE P == {n \in Nat : \A s \in SUBSET S : Cardinality(s) = n => g[s] \in T}
<1>1. \A s \in SUBSET S : IsFiniteSet(s) /\ Cardinality(s) \in Nat
    BY FS_Subset, FS_CardinalityType
<1>2. 0 \in P
    <2>1. \A s \in SUBSET S : Cardinality(s) = 0 => s = {}
        BY <1>1, FS_EmptySet
    <2>. QED  BY <2>1
<1>3. ASSUME NEW n \in P
      PROVE  n + 1 \in P
    <2> SUFFICES ASSUME NEW s \in SUBSET S, Cardinality(s) = n + 1
                 PROVE  g[s] \in T
        OBVIOUS
    <2>1. s # {}
        BY FS_EmptySet, n + 1 # 0
    <2>2. pick[s] \in s /\ s \ {pick[s]} \in SUBSET S
        BY <2>1
    <2>3. Cardinality(s \ {pick[s]}) = n
        BY <1>1, <2>2, FS_RemoveElement
    <2>. QED  BY <2>1, <2>2, <2>3
<1>4. Cardinality(S) \in P
    <2>1. \A n \in Nat : n \in P => n + 1 \in P
        BY <1>3
    <2> HIDE DEF P
    <2>2. Nat \subseteq P
        BY <1>2, <2>1, NaturalsFromZero
    <2>. QED  BY <1>1, <2>2
<1>. QED  BY <1>4

\* A function of the naturals that is given at 0 and follows, everywhere else,
\* from the number before.
Steps(g, base, h) == g[0] = base /\ \A n \in Nat : g[n + 1] = h[<<n, g[n]>>]

LEMMA NaturalRecursion ==
    ASSUME NEW T, NEW base \in T, NEW h \in [Nat \X T -> T]
    PROVE  \E g \in [Nat -> T] : Steps(g, base, h)
<1> DEFINE Seg(n) == {g \in [0..n -> T] : g[0] = base /\ \A i \in Nat : i < n => g[i + 1] = h[<<i, g[i]>>]}
           N == {n \in Nat : Seg(n) # {}}
<1>1. 0 \in N
    <2>1. [i \in 0..0 |-> base] \in Seg(0)
        OBVIOUS
    <2>. QED  BY <2>1
<1>2. ASSUME NEW n \in Nat, n \in N
      PROVE  n + 1 \in N
    <2>1. PICK g : g \in Seg(n)
        BY <1>2
    <2> DEFINE k == [i \in 0..n + 1 |-> IF i = n + 1 THEN h[<<n, g[n]>>] ELSE g[i]]
    <2>2. \A i \in 0..n : g[i] \in T /\ k[i] = g[i]
        BY <2>1
    <2>3. h[<<n, g[n]>>] \in T
        <3>1. n \in 0..n
            OBVIOUS
        <3>2. g[n] \in T
            BY <2>2, <3>1
        <3> HIDE DEF k
        <3>. QED  BY <3>2
    <2>4. k \in [0..n + 1 -> T]
        <3>1. \A i \in 0..n + 1 : i = n + 1 \/ i \in 0..n
            OBVIOUS
        <3>2. \A i \in 0..n + 1 : (IF i = n + 1 THEN h[<<n, g[n]>>] ELSE g[i]) \in T
            <4> HIDE DEF k
            <4>. QED  BY <2>1, <2>3, <3>1
        <3>. QED  BY <3>2
    <2>5. k[0] = base
        BY <2>1, <2>2
    <2>6. ASSUME NEW i \in Nat, i < n + 1
          PROVE  k[i + 1] = h[<<i, k[i]>>]
        <3>1. CASE i = n
            <4>1. k[n] = g[n] /\ k[n + 1] = h[<<n, g[n]>>]
                BY <2>2
            <4>. QED  BY <3>1, <4>1
        <3>2. CASE i < n
            <4>1. k[i] = g[i] /\ k[i + 1] = g[i + 1]
                BY <2>2, <3>2
            <4>2. g[i + 1] = h[<<i, g[i]>>]
                BY <2>1, <3>2
            <4> HIDE DEF k
            <4>. QED  BY <4>1, <4>2
        <3>. QED  BY <2>6, <3>1, <3>2
    <2>7. k \in Seg(n + 1)
        <3> HIDE DEF k
        <3>. QED  BY <2>4, <2>5, <2>6
    <2> HIDE DEF Seg
    <2>. QED  BY <2>7
<1>3. \A n \in Nat : Seg(n) # {}
    <2>1. \A n \in Nat : n \in N => n + 1 \in N
        BY <1>2
    <2> HIDE DEF N
    <2>2. Nat \subseteq N
        BY <1>1, <2>1, NaturalsFromZero
    <2>. QED  BY <2>2 DEF N
<1>4. ASSUME NEW m \in Nat, NEW n \in Nat, n <= m, NEW g \in Seg(n), NEW k \in Seg(m)
      PROVE  \A i \in 0..n : g[i] = k[i]
    <2> DEFINE I == {i \in Nat : i <= n => g[i] = k[i]}
    <2>1. 0 \in I
        OBVIOUS
    <2>2. ASSUME NEW i \in Nat, i \in I
          PROVE  i + 1 \in I
        <3>1. CASE i + 1 <= n
            <4>1. i < n /\ i < m /\ g[i] = k[i]
                BY <1>4, <2>2, <3>1
            <4>2. g[i + 1] = h[<<i, g[i]>>] /\ k[i + 1] = h[<<i, k[i]>>]
                BY <4>1
            <4>. QED  BY <4>1, <4>2
        <3>2. CASE ~(i + 1 <= n)
            BY <3>2
        <3>. QED  BY <3>1, <3>2
    <2> HIDE DEF I
    <2>3. Nat \subseteq I
        BY <2>1, <2>2, NaturalsFromZero
    <2>. QED  BY <2>3 DEF I
<1> DEFINE seg == [n \in Nat |-> CHOOSE g \in Seg(n) : TRUE]
           f == [n \in Nat |-> seg[n][n]]
<1>5. \A n \in Nat : seg[n] \in Seg(n)
    <2> HIDE DEF Seg
    <2>. QED  BY <1>3
<1>6. f \in [Nat -> T]
    <2>1. \A n \in Nat : seg[n] \in [0..n -> T]
        BY <1>5
    <2>2. \A n \in Nat : seg[n][n] \in T
        <3> HIDE DEF seg
        <3>. QED  BY <2>1
    <2> HIDE DEF seg
    <2>. QED  BY <2>2
<1>7. f[0] = base
    <2>1. seg[0][0] = base
        <3> HIDE DEF seg
        <3>. QED  BY <1>5
    <2> HIDE DEF seg
    <2>. QED  BY <2>1
<1>8. ASSUME NEW n \in Nat
      PROVE  f[n + 1] = h[<<n, f[n]>>]
    <2>1. seg[n + 1] \in Seg(n + 1) /\ seg[n] \in Seg(n)
        <3> HIDE DEF seg, Seg
        <3>. QED  BY <1>5
    <2>2. seg[n][n] = seg[n + 1][n]
        <3> HIDE DEF seg, Seg
        <3>. QED  BY <1>4, <2>1
    <2>3. seg[n + 1][n + 1] = h[<<n, seg[n + 1][n]>>]
        <3> HIDE DEF seg
        <3>. QED  BY <2>1
    <2>4. f[n + 1] = seg[n + 1][n + 1] /\ f[n] = seg[n][n]
        <3> HIDE DEF seg
        <3>. QED  OBVIOUS
    <2>. QED  BY ONLY <2>2, <2>3, <2>4
<1>. QED
    <2> HIDE DEF f
    <2>. QED  BY <1>6, <1>7, <1>8 DEF Steps
=============================================================================
