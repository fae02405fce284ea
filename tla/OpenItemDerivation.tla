------------------------- MODULE OpenItemDerivation -------------------------
(***************************************************************************)
(* Which open items a reconciliation run has, given the proposals that     *)
(* exist and a view of their statuses: derive_open_item_specs of           *)
(* services/reconciliation_open_item_service.py.                           *)
(***************************************************************************)
EXTENDS Naturals, FiniteSets

CONSTANTS
    Runs,
    Scope,        \* Scope[r]: the rows of r's entity, account and period
    BankRows, LedgerRows,
    Active,       \* rows that are ACTIVE / POSTED
    Proposals,
    Suggestions,  \* the one-to-one proposals; the others are groups
    AutoTier,     \* suggestions at the auto-match threshold
    RunOf, RowsOf

Rows == BankRows \union LedgerRows
Groups == Proposals \ Suggestions
Status == {"PENDING", "AMBIGUOUS", "ACCEPTED", "REJECTED"}
LIVE == {"PENDING", "ACCEPTED"}

\* REVIEW stands for AMOUNT_VARIANCE, TIMING_DIFFERENCE and EXCEPTION.
Category == {"BANK_ONLY", "LEDGER_ONLY", "AMBIGUOUS_MATCH", "REVIEW", "AMBIGUOUS_GROUP"}
Item == [run : Runs, category : Category, rows : SUBSET Rows]

Placeholder(p) == p \in Suggestions /\ RowsOf[p] \intersect LedgerRows = {}

\* Mutant: placeholders count as candidates.
Live_Placeholders(view, p) == view[p] \in LIVE

Live(view, p) == view[p] \in LIVE /\ ~Placeholder(p)

\* Live one-to-one candidates of bank row b in run r.
real_by_bank(view, r, b) ==
    {p \in Suggestions : RunOf[p] = r /\ b \in RowsOf[p] /\ Live(view, p)}

\* Mutant: only the run's own proposals are looked at.
covered_elsewhere_Never(view, r, b) == FALSE

\* Bank row b is represented by a live proposal of another run, whatever
\* that run's own status.
covered_elsewhere(view, r, b) ==
    \E p \in Proposals : RunOf[p] # r /\ b \in RowsOf[p] /\ Live(view, p)

bank_in_group(view, r, b) ==
    \E g \in Groups : RunOf[g] = r /\ b \in RowsOf[g] /\ view[g] \in LIVE \union {"AMBIGUOUS"}

\* The anchor of an ambiguous group: its single bank row, if that is in
\* the run's scope, or else its ledger rows.
Anchor(r, g) ==
    IF Cardinality(RowsOf[g] \intersect BankRows) = 1
    THEN RowsOf[g] \intersect BankRows \intersect Scope[r] \intersect Active
    ELSE RowsOf[g] \intersect LedgerRows

\* One item per anchor, however many competing groups share it.
AmbiguousItems(view, r) ==
    {[run |-> r, category |-> "AMBIGUOUS_GROUP", rows |-> Anchor(r, g)] :
        g \in {h \in Groups : RunOf[h] = r /\ view[h] = "AMBIGUOUS" /\ Cardinality(Anchor(r, h)) = 1}}

\* Bank rows that no group and no other run represents.
OpenBankRows(view, r) ==
    {b \in BankRows \intersect Scope[r] \intersect Active :
        ~bank_in_group(view, r, b) /\ ~covered_elsewhere(view, r, b)}

\* The run's own candidates decide: none, a tie, or a single weak one.
BankOnlyItems(view, r) ==
    {[run |-> r, category |-> "BANK_ONLY", rows |-> {b}] :
        b \in {c \in OpenBankRows(view, r) : real_by_bank(view, r, c) = {}}}

AmbiguousMatchItems(view, r) ==
    {[run |-> r, category |-> "AMBIGUOUS_MATCH", rows |-> {b}] :
        b \in {c \in OpenBankRows(view, r) : Cardinality(real_by_bank(view, r, c)) >= 2}}

ReviewItems(view, r) ==
    {[run |-> r, category |-> "REVIEW", rows |-> RowsOf[p]] :
        p \in {q \in Suggestions \ AutoTier :
                  view[q] = "PENDING" /\ \E b \in OpenBankRows(view, r) : real_by_bank(view, r, b) = {q}}}

BankItems(view, r) ==
    BankOnlyItems(view, r) \union AmbiguousMatchItems(view, r) \union ReviewItems(view, r)

LedgerCovered(view, r, l) ==
    \E p \in Proposals :
        l \in RowsOf[p] /\ (view[p] \in LIVE \/ (view[p] = "AMBIGUOUS" /\ RunOf[p] = r))

LedgerItems(view, r) ==
    {[run |-> r, category |-> "LEDGER_ONLY", rows |-> {l}] :
        l \in {m \in LedgerRows \intersect Scope[r] \intersect Active : ~LedgerCovered(view, r, m)}}

derive_open_item_specs(view, r) ==
    AmbiguousItems(view, r) \union BankItems(view, r) \union LedgerItems(view, r)
=============================================================================
