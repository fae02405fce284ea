-------------------------- MODULE MCMatchDecisions --------------------------
(***************************************************************************)
(* Instances of MatchDecisions.                                            *)
(*                                                                         *)
(* Overlap: the proposals of two completed runs and a failed one compete.  *)
(* s1, s2 and f1 share a bank row across runs, g1 and s2 a ledger row.     *)
(* Mixed: every kind, t1 an internal transfer, w1 review-tier, n1 a        *)
(* no-candidate placeholder, a1 an ambiguous group.                        *)
(* Twins: two runs over overlapping periods proposed the same group.       *)
(***************************************************************************)
EXTENDS MatchDecisions, TLC

CONSTANTS r1, r2, r3, b1, b2, b3, b4, l1, l2, l3, l4, s1, s2, g1, g2, t1, w1, n1, a1, f1

BothRuns == {r1, r2}
\* The execution of r3 fails after its proposals were stored.
AllRuns == {r1, r2, r3}
Banks == {b1, b2, b3, b4}
Ledgers == {l1, l2, l3, l4}
AllRows == Banks \union Ledgers
WholeScope == [r \in AllRuns |-> AllRows]
\* b1 lies in r1's period only.
NarrowScope == (r1 :> AllRows) @@ (r2 :> AllRows \ {b1})
NoneOf == {}

CONSTANTS h1, h2
Handlers == {h1, h2}
OneHandler == {h1}
HandlerSymmetry == Permutations(Handlers)

OverlapBanks == {b1, b2}
OverlapLedgers == {l1, l2, l3}
OverlapRows == OverlapBanks \union OverlapLedgers
OverlapScope == [r \in AllRuns |-> OverlapRows]
OverlapProposals == {s1, s2, g1, f1}
OverlapSuggestions == {s1, s2, f1}
OverlapRunOf == (s1 :> r1) @@ (s2 :> r2) @@ (g1 :> r1) @@ (f1 :> r3)
OverlapRowsOf ==
    (s1 :> {b1, l1}) @@ (s2 :> {b1, l2}) @@ (g1 :> {b2, l2, l3}) @@ (f1 :> {b1, l1})

MixedProposals == {s1, s2, g1, t1, w1, n1, a1}
MixedSuggestions == {s1, s2, w1, n1}
MixedTransfers == {t1}
MixedAmbiguous == {a1}
MixedAutoTier == {s1, s2}
MixedRunOf ==
    (s1 :> r1) @@ (s2 :> r2) @@ (g1 :> r2) @@ (t1 :> r2) @@ (w1 :> r1) @@ (n1 :> r1) @@ (a1 :> r1)
MixedRowsOf ==
    (s1 :> {b1, l1}) @@ (s2 :> {b1, l2}) @@ (g1 :> {b1, b2, l3}) @@ (t1 :> {l1, l2}) @@ (w1 :> {b3, l4})
    @@ (n1 :> {b4}) @@ (a1 :> {b2, l1, l4})

\* A many-to-one group of r2 that reached back to b1, outside r2's period.
ReachProposals == {s1, g1}
ReachSuggestions == {s1}
ReachRunOf == (s1 :> r1) @@ (g1 :> r2)
ReachRowsOf == (s1 :> {b1, l1}) @@ (g1 :> {b1, b2, l3})

TwinScope == [r \in BothRuns |-> AllRows]
TwinProposals == {g1, g2}
TwinSuggestions == {}
TwinRunOf == (g1 :> r1) @@ (g2 :> r2)
TwinRowsOf == (g1 :> {b2, l2, l3}) @@ (g2 :> {b2, l2, l3})
=============================================================================
