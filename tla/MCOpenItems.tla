----------------------------- MODULE MCOpenItems -----------------------------
(* Two users act on one item at the same time; MaxEvents and MaxNotes      *)
(* bound the item's history.                                               *)
EXTENDS OpenItems, TLC

CONSTANTS u1, u2, i1

TwoUsers == {u1, u2}
OneItem == {i1}
\* No guard, and no property but ListedInOrder, looks at the times, nor tells a
\* comment from a piece of evidence.
WithoutTimes ==
    <<item, [i \in Items |-> [n \in DOMAIN history[i] |->
        [history[i][n] EXCEPT !.created_at = 0, !.type = IF @ \in Notes THEN "COMMENT" ELSE @]]],
      phase, req, seen>>
UserSymmetry == Permutations(TwoUsers)
=============================================================================
