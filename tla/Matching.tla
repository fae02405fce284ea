------------------------------ MODULE Matching ------------------------------
(***************************************************************************)
(* The deterministic matching engines, as pure operators over statement    *)
(* and ledger rows: Stage 5C one-to-one matching (candidate generation,    *)
(* scoring, ranking) and Stage 5D grouped matching.                        *)
(*                                                                         *)
(* Abstracted: rows carry the data the engines compare and nothing else.   *)
(* Currency, direction, entity and account select which pairs can meet at  *)
(* all, so they are one relation, Compatible.                              *)
(***************************************************************************)
EXTENDS Integers, FiniteSets, SequencesExt

CONSTANTS
    BankRows, LedgerRows,
    Ord,           \* (date, id) order of the rows
    Amount, Date,
    Refs,          \* normalized references of each row
    PartialRefs,   \* pairs of references one of which contains the other
    Narrated,      \* <<bank, ledger>> whose narrations overlap by 60% or more
    Compatible,    \* <<bank, ledger>> of one account, currency and direction
    FxMatches,     \* <<bank, ledger>> within tolerance at an authoritative rate
    TransferPair,  \* pairs of ledger rows sharing a transfer_pair_id
    DateTolerance, AmountTolerancePct, HighValueThreshold, MaxCandidates

ASSUME RowAssumption == BankRows \intersect LedgerRows = {}

ASSUME PairAssumption == \A q \in TransferPair : q \subseteq LedgerRows

ASSUME OrderAssumption ==
    /\ IsFiniteSet(BankRows \union LedgerRows)
    /\ \A x \in BankRows \union LedgerRows : Ord[x] \in Int

AUTO_MATCH_THRESHOLD == 70
REVIEW_THRESHOLD == 40

AbsDiff(m, n) == IF m >= n THEN m - n ELSE n - m
Within(value, target) == AbsDiff(value, target) * 100 <= target * AmountTolerancePct
Near(x, y) == AbsDiff(Date[x], Date[y]) <= DateTolerance

last(S) == CHOOSE x \in S : \A y \in S : Ord[y] <= Ord[x]
limit(S) == {x \in S : Cardinality({y \in S : Ord[y] < Ord[x]}) < MaxCandidates}

-----------------------------------------------------------------------------
(* Stage 5C                                                                *)

calculate_amount_score(b, l) == IF Amount[b] = Amount[l] THEN 40 ELSE 20
calculate_date_score(b, l) == IF Date[b] = Date[l] THEN 15 ELSE 5
calculate_reference_score(b, l) ==
    IF Refs[b] \intersect Refs[l] # {} THEN 30
    ELSE IF (Refs[b] \X Refs[l]) \intersect PartialRefs # {} THEN 15 ELSE 0
calculate_narration_score(b, l) == IF <<b, l>> \in Narrated THEN 5 ELSE 0

\* Direction contributes 10: an incompatible pair is never a candidate.
score_candidate(b, l) ==
    calculate_amount_score(b, l) + calculate_date_score(b, l)
    + calculate_reference_score(b, l) + 10 + calculate_narration_score(b, l)

generate_candidates(b, excluded) ==
    {l \in LedgerRows \ excluded :
        <<b, l>> \in Compatible /\ Near(b, l) /\ Within(Amount[l], Amount[b])}

scored(b, excluded) ==
    {l \in generate_candidates(b, excluded) : score_candidate(b, l) >= REVIEW_THRESHOLD}

tied(b, excluded) ==
    {l \in scored(b, excluded) : \A m \in scored(b, excluded) : score_candidate(b, m) <= score_candidate(b, l)}

\* A high-value row without any reference evidence is never auto-tier.
Tier(b, l) ==
    IF /\ score_candidate(b, l) >= AUTO_MATCH_THRESHOLD
       /\ Amount[b] > HighValueThreshold => calculate_reference_score(b, l) > 0
    THEN "auto" ELSE "review"

\* The suggestions run r records for bank row b: one per top-scoring
\* candidate, or a placeholder when nothing reaches the review threshold.
run_matching_for_bank_transaction(r, b, excluded) ==
    LET top == tied(b, excluded)
        suggestion(l) == [run |-> r, kind |-> "ONE_TO_ONE", rows |-> {b, l},
                          tier |-> IF Cardinality(top) > 1 THEN "tie" ELSE Tier(b, l), status |-> "PENDING"]
    IN  IF top = {}
        THEN {[run |-> r, kind |-> "ONE_TO_ONE", rows |-> {b}, tier |-> "none", status |-> "PENDING"]}
        ELSE {suggestion(l) : l \in top}

-----------------------------------------------------------------------------
(* Stage 5D                                                                *)

sum(S) == FoldSet(LAMBDA x, total : Amount[x] + total, 0, S)

\* The whole candidate set when it sums within tolerance, else every subset
\* that drops exactly one member and does.
find_summing_grouping(cands, target) ==
    IF Within(sum(cands), target) THEN {cands}
    ELSE {S \in {cands \ {c} : c \in cands} : Cardinality(S) >= 2 /\ Within(sum(S), target)}

\* Mutant: a single grouping is accepted at once.
group_for_Accepted(r, kind, anchor, groupings) ==
    {[run |-> r, kind |-> kind, rows |-> S \union {anchor}, tier |-> "group",
      status |-> IF Cardinality(groupings) = 1 THEN "ACCEPTED" ELSE "AMBIGUOUS"] : S \in groupings}

\* One grouping is proposed; several are all stored, none selected.
group_for(r, kind, anchor, groupings) ==
    {[run |-> r, kind |-> kind, rows |-> S \union {anchor}, tier |-> "group",
      status |-> IF Cardinality(groupings) = 1 THEN "PENDING" ELSE "AMBIGUOUS"] : S \in groupings}

Taken(groups) == UNION {g.rows : g \in {h \in groups : h.status = "PENDING"}}

\* A choice is an anchor row with its groupings; what a detector has found is
\* a set of choices.
Choice == (BankRows \union LedgerRows) \X SUBSET SUBSET (BankRows \union LedgerRows)
groups_of(r, kind, choices) == UNION {group_for(r, kind, c[1], c[2]) : c \in choices}

\* A detector visits its anchor rows in their order: detect[x][found] is what
\* it has found after row x, having found `found' before.
visited(detect) ==
    LET found[T \in SUBSET DOMAIN detect] ==
            IF T = {} THEN {} ELSE detect[last(T)][found[T \ {last(T)}]]
    IN  found[DOMAIN detect]

choices_one_to_many(r, unmatched, excluded) ==
    visited([b \in unmatched |-> [found \in SUBSET Choice |->
        LET cands == limit({l \in LedgerRows \ (excluded \union Taken(groups_of(r, "ONE_TO_MANY", found))) :
                               /\ <<b, l>> \in Compatible /\ Near(b, l)
                               /\ Refs[b] \intersect Refs[l] # {}})
        IN  IF Cardinality(cands) < 2 THEN found
            ELSE found \union {<<b, find_summing_grouping(cands, Amount[b])>>}]])

detect_one_to_many(r, unmatched, excluded) ==
    groups_of(r, "ONE_TO_MANY", choices_one_to_many(r, unmatched, excluded))

\* References that at least two bank rows of the run's scope carry.
shared_refs(inScope) ==
    {ref \in UNION {Refs[b] : b \in inScope} : Cardinality({b \in inScope : ref \in Refs[b]}) >= 2}

\* Bank rows are drawn from the ledger row's date window, not from the run's
\* scope, and a row that Stage 5C matched is not left out.
choices_many_to_one(r, inScope, known, ledgers, excluded) ==
    visited([l \in {m \in ledgers \ excluded : Refs[m] \intersect shared_refs(inScope) # {}} |->
                [found \in SUBSET Choice |->
        LET cands == limit({b \in known \ (excluded \union Taken(groups_of(r, "MANY_TO_ONE", found))) :
                               /\ <<b, l>> \in Compatible /\ Near(b, l)
                               /\ Refs[b] \intersect Refs[l] # {}})
        IN  IF Cardinality(cands) < 2 THEN found
            ELSE found \union {<<l, find_summing_grouping(cands, Amount[l])>>}]])

detect_many_to_one(r, inScope, known, ledgers, excluded) ==
    groups_of(r, "MANY_TO_ONE", choices_many_to_one(r, inScope, known, ledgers, excluded))

detect_internal_transfers(r, matched) ==
    {[run |-> r, kind |-> "INTERNAL_TRANSFER", rows |-> pair, tier |-> "group", status |-> "PENDING"] :
        pair \in {q \in TransferPair : q \intersect matched # {}}}

\* At most one pairing per bank row.  The candidate query states no order:
\* rank is the order in which it happens to return the rows.
choices_fx(r, unmatched, excluded, rank) ==
    visited([b \in unmatched |-> [found \in SUBSET Choice |->
        LET cands == {l \in LedgerRows \ (excluded \union Taken(groups_of(r, "FX_MATCH", found))) :
                        <<b, l>> \in FxMatches /\ Near(b, l)}
        IN  IF cands = {} THEN found
            ELSE found \union {<<b, {{CHOOSE l \in cands : \A m \in cands : rank[l] <= rank[m]}}>>}]])

detect_fx_matches(r, unmatched, excluded, rank) ==
    groups_of(r, "FX_MATCH", choices_fx(r, unmatched, excluded, rank))
=============================================================================
