---------------------------- MODULE MCReconRuns -----------------------------
(***************************************************************************)
(* An instance of ReconRuns in which every phase finds something.  One     *)
(* currency unit per amount; dates are day numbers.                        *)
(*                                                                         *)
(*   b1, b2   5 units, reference A: both score highest against l1, and     *)
(*            together they sum to l4 (10 units, reference A)              *)
(*   b3       6 units, reference B: l2 + l3 (2 + 4, reference B)           *)
(*   b4       3 units, no reference: a cross-currency match of l5          *)
(*   b5       2 units, imported late, the best match of l2                 *)
(*   l6       the other leg, in another account, of the transfer of l1     *)
(*                                                                         *)
(* rA and rB have one scope; rC's period overlaps it.                      *)
(***************************************************************************)
EXTENDS ReconRuns, TLC

CONSTANTS rA, rB, rC, h1, h2, b1, b2, b3, b4, b5, l1, l2, l3, l4, l5, l6, A, B, C

AllBanks == {b1, b2, b3, b4, b5}
AllLedgers == {l1, l2, l3, l4, l5, l6}
Account == (AllBanks \union AllLedgers) \ {l6}
EarlyBanks == {b1, b2, b3, b4}
TwoRuns == {rA, rB}
ThreeRuns == {rA, rB, rC}
TwoHandlers == {h1, h2}
OneHandler == {h1}

HandlerSymmetry == Permutations(TwoHandlers)

\* For the liveness run: the one-to-many group alone.
SmallBanks == {b3}
SmallLedgers == {l2, l3}
NoTransfer == {}

Order == (b1 :> 1) @@ (b2 :> 2) @@ (b3 :> 3) @@ (b4 :> 4) @@ (b5 :> 5)
         @@ (l1 :> 11) @@ (l2 :> 12) @@ (l3 :> 13) @@ (l4 :> 14) @@ (l5 :> 15) @@ (l6 :> 16)
Amounts == (b1 :> 5) @@ (b2 :> 5) @@ (b3 :> 6) @@ (b4 :> 3) @@ (b5 :> 2)
           @@ (l1 :> 5) @@ (l2 :> 2) @@ (l3 :> 4) @@ (l4 :> 10) @@ (l5 :> 30) @@ (l6 :> 5)
Days == (b1 :> 1) @@ (b2 :> 1) @@ (b3 :> 2) @@ (b4 :> 2) @@ (b5 :> 2)
        @@ (l1 :> 1) @@ (l2 :> 2) @@ (l3 :> 2) @@ (l4 :> 1) @@ (l5 :> 2) @@ (l6 :> 1)
References == (b1 :> {A}) @@ (b2 :> {A}) @@ (b3 :> {B}) @@ (b4 :> {}) @@ (b5 :> {C})
              @@ (l1 :> {A}) @@ (l2 :> {B, C}) @@ (l3 :> {B}) @@ (l4 :> {A}) @@ (l5 :> {}) @@ (l6 :> {})
NoPartial == {}
NoNarration == {}
SameCurrency == AllBanks \X {l1, l2, l3, l4}
CrossCurrency == {<<b4, l5>>}
TransferPairs == {{l1, l6}}

Periods == [r \in ThreeRuns |-> IF r = rC THEN {1, 2, 3} ELSE {1, 2}]
=============================================================================
