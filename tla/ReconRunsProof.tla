--------------------------- MODULE ReconRunsProof ---------------------------
(***************************************************************************)
(* Theorems about reconciliation runs, for any rows, runs, periods,        *)
(* handlers and tolerances: a run is executed once, unfinished runs leave  *)
(* nothing, runs of one scope do not suggest one ledger row twice, and a   *)
(* completed run accounts for every row it counted.                        *)
(***************************************************************************)
EXTENDS ReconRuns, FiniteSums, TLAPS

-----------------------------------------------------------------------------
(* What the engines return                                                 *)

\* Stage 5C suggests unclaimed ledger rows, or leaves a placeholder.
LEMMA Suggested ==
    ASSUME NEW r, NEW b \in BankRows, NEW excluded
    PROVE  \A p \in run_matching_for_bank_transaction(r, b, excluded) :
               /\ IsSuggestion(p) /\ Formed(p) /\ p.run = r
               /\ p.rows \intersect LedgerRows \intersect excluded = {}
<1> DEFINE top == tied(b, excluded)
           found == run_matching_for_bank_transaction(r, b, excluded)
           suggestion(l) == [run |-> r, kind |-> "ONE_TO_ONE", rows |-> {b, l},
                             tier |-> IF Cardinality(top) > 1 THEN "tie" ELSE Tier(b, l), status |-> "PENDING"]
           placeholder == [run |-> r, kind |-> "ONE_TO_ONE", rows |-> {b}, tier |-> "none", status |-> "PENDING"]
<1>1. b \notin LedgerRows
  BY RowAssumption
<1>2. top \subseteq LedgerRows \ excluded
  BY DEF tied, scored, generate_candidates
<1>3. CASE top = {}
  <2>1. found = {placeholder}
    BY <1>3 DEF run_matching_for_bank_transaction
  <2>2. IsSuggestion(placeholder) /\ Formed(placeholder) /\ placeholder.run = r
        /\ placeholder.rows \intersect LedgerRows = {}
    BY <1>1 DEF IsSuggestion, Formed
  <2> QED BY <2>1, <2>2
<1>4. CASE top # {}
  <2>1. found = {suggestion(l) : l \in top}
    BY <1>4 DEF run_matching_for_bank_transaction
  <2>2. ASSUME NEW l \in top
        PROVE  /\ IsSuggestion(suggestion(l)) /\ Formed(suggestion(l)) /\ suggestion(l).run = r
               /\ suggestion(l).rows \intersect LedgerRows \intersect excluded = {}
    <3>1. suggestion(l).rows \intersect LedgerRows = {l}
      BY <1>1, <1>2
    <3>2. suggestion(l).tier \in {"auto", "review", "tie"}
      BY DEF Tier
    <3>3. IsSuggestion(suggestion(l)) /\ suggestion(l).status = "PENDING" /\ suggestion(l).run = r
      BY DEF IsSuggestion
    <3>4. Formed(suggestion(l))
      BY <3>1, <3>2, <3>3 DEF Formed
    <3> HIDE DEF suggestion
    <3> QED BY <1>2, <3>1, <3>3, <3>4
  <2> HIDE DEF suggestion
  <2> QED BY <2>1, <2>2
<1> QED BY <1>3, <1>4

\* Stage 5D adds groups of the run.
LEMMA Grouping ==
    ASSUME NEW r, NEW kind \in {"ONE_TO_MANY", "MANY_TO_ONE", "FX_MATCH"}, NEW choices,
           NEW p \in groups_of(r, kind, choices)
    PROVE  ~IsSuggestion(p) /\ Formed(p) /\ p.run = r
<1>1. PICK c \in choices : p \in group_for(r, kind, c[1], c[2])
  BY DEF groups_of
<1>2. /\ p.run = r /\ p.kind = kind /\ p.tier = "group" /\ p.status \in {"PENDING", "AMBIGUOUS"}
  BY <1>1 DEF group_for
<1> QED BY <1>2 DEF IsSuggestion, Formed

-----------------------------------------------------------------------------
(* What the synchronization derives                                        *)

\* Every row in the scope of a run has a proposal or gets an item.
LEMMA Derived ==
    ASSUME NEW ps, AllFormed(ps), NEW r \in Runs, NEW x, imported \subseteq BankRows,
           x \in Statement(r) \union (LedgerRows \intersect InPeriod(r))
    PROVE  \/ ProposedBy(ps, x)
           \/ \E i \in Derivation(ps)!derive_open_item_specs([p \in ps |-> p.status], r) : x \in i.rows
<1> DEFINE view == [p \in ps |-> p.status]
           suggestions == {p \in ps : IsSuggestion(p)}
<1> SUFFICES ASSUME ~ProposedBy(ps, x)
             PROVE  \E i \in Derivation(ps)!derive_open_item_specs(view, r) : x \in i.rows
  OBVIOUS
<1>0. \A p \in ps : view[p] = p.status /\ Formed(p)
  BY DEF AllFormed
<1>1. \A p \in ps : x \in p.rows => IsSuggestion(p) /\ p.tier = "none" /\ p.rows \intersect LedgerRows = {}
  BY <1>0 DEF ProposedBy, Formed
<1>2. CASE x \in LedgerRows
  <2>1. x \in InPeriod(r)
    BY <1>2 DEF Statement
  <2>2. ~Derivation(ps)!LedgerCovered(view, r, x)
    BY <1>1, <1>2 DEF Derivation!LedgerCovered
  <2>3. [run |-> r, category |-> "LEDGER_ONLY", rows |-> {x}] \in Derivation(ps)!LedgerItems(view, r)
    BY <1>2, <2>1, <2>2 DEF Derivation!LedgerItems
  <2> QED BY <2>3 DEF Derivation!derive_open_item_specs
<1>3. CASE x \notin LedgerRows
  <2>1. x \in BankRows /\ x \in imported /\ x \in InPeriod(r)
    BY <1>3 DEF Statement
  <2>2. ~Derivation(ps)!bank_in_group(view, r, x)
    BY <1>1 DEF Derivation!bank_in_group, Derivation!Groups
  <2>3. ~Derivation(ps)!covered_elsewhere(view, r, x)
    BY <1>1 DEF Derivation!covered_elsewhere, Derivation!Live, Derivation!Placeholder
  <2>4. x \in Derivation(ps)!OpenBankRows(view, r)
    BY <2>1, <2>2, <2>3 DEF Derivation!OpenBankRows
  <2>5. Derivation(ps)!real_by_bank(view, r, x) = {}
    BY <1>1 DEF Derivation!real_by_bank, Derivation!Live, Derivation!Placeholder
  <2>6. [run |-> r, category |-> "BANK_ONLY", rows |-> {x}] \in Derivation(ps)!BankOnlyItems(view, r)
    BY <2>4, <2>5 DEF Derivation!BankOnlyItems
  <2> QED BY <2>6 DEF Derivation!derive_open_item_specs, Derivation!BankItems
<1> QED BY <1>2, <1>3

\* An item belongs to the run it is derived for.
LEMMA DerivedForRun ==
    ASSUME NEW ps, NEW view, NEW r, NEW i \in Derivation(ps)!derive_open_item_specs(view, r)
    PROVE  i.run = r
<1>1. ASSUME i \in Derivation(ps)!AmbiguousItems(view, r) PROVE i.run = r
  <2>1. PICK g : i = [run |-> r, category |-> "AMBIGUOUS_GROUP", rows |-> Derivation(ps)!Anchor(r, g)]
    BY <1>1, Zenon DEF Derivation!AmbiguousItems
  <2> QED BY <2>1
<1>2. i \in Derivation(ps)!BankOnlyItems(view, r) => i.run = r
  BY DEF Derivation!BankOnlyItems
<1>3. i \in Derivation(ps)!AmbiguousMatchItems(view, r) => i.run = r
  BY DEF Derivation!AmbiguousMatchItems
<1>4. i \in Derivation(ps)!ReviewItems(view, r) => i.run = r
  BY DEF Derivation!ReviewItems
<1>5. ASSUME i \in Derivation(ps)!LedgerItems(view, r) PROVE i.run = r
  <2>1. PICK l : i = [run |-> r, category |-> "LEDGER_ONLY", rows |-> {l}]
    BY <1>5, Zenon DEF Derivation!LedgerItems
  <2> QED BY <2>1
<1> QED BY <1>1, <1>2, <1>3, <1>4, <1>5 DEF Derivation!derive_open_item_specs, Derivation!BankItems

-----------------------------------------------------------------------------
(* The invariant                                                           *)

LEMMA InvInit == Init => IndInv
<1> SUFFICES ASSUME Init PROVE IndInv
  OBVIOUS
<1> USE DEF Init
<1>1. HandlersAreTyped
  BY RunAssumption DEF HandlersAreTyped, RunStatus, Phase, Executing
<1>2. LocksExclude
  BY DEF LocksExclude
<1>3. AllFormed(proposals) /\ NothingFromUnfinishedRuns /\ SameScopeSuggestionsDisjoint
  BY DEF AllFormed, NothingFromUnfinishedRuns, SameScopeSuggestionsDisjoint
<1>4. ASSUME NEW h \in Handlers PROVE HandlerInv(h)
  BY DEF HandlerInv, SessionIsOwn, Session, AllFormed, ClaimsAreCurrent, SyncIsWhole, Executing
<1>5. ExecutedOnce /\ CompletedRunAccountsForAll
  BY DEF ExecutedOnce, CompletedRunAccountsForAll
<1> QED BY <1>1, <1>2, <1>3, <1>4, <1>5 DEF IndInv

\* What a handler's invariant says does not change with the other handlers.
Untouched(g) ==
    /\ phase'[g] = phase[g] /\ job'[g] = job[g] /\ eligible'[g] = eligible[g] /\ claimed'[g] = claimed[g]
    /\ added'[g] = added[g] /\ flushed'[g] = flushed[g] /\ specs'[g] = specs[g]

LEMMA OtherHandler ==
    ASSUME NEW g \in Handlers, HandlerInv(g), Untouched(g), imported \subseteq imported',
           UNCHANGED <<run, proposals>>
    PROVE  HandlerInv(g)'
<1> USE DEF Untouched
<1>1. SessionIsOwn(g)'
  BY DEF HandlerInv, SessionIsOwn, Session, Statement, InPeriod
<1>2. AllFormed(Session(g))'
  BY DEF HandlerInv, AllFormed, Session, Formed, IsSuggestion
<1>3. ClaimsAreCurrent(g)'
  BY DEF HandlerInv, ClaimsAreCurrent, Session, IsSuggestion
<1>4. SyncIsWhole(g)'
  BY DEF HandlerInv, SyncIsWhole, Seen, ProposedBy, InPeriod
<1> QED BY <1>1, <1>2, <1>3, <1>4 DEF HandlerInv

\* One handler moves on: only its own variables and claims change. The rest of
\* the invariant is about committed state.
Moves(h) ==
    /\ UNCHANGED db
    /\ \A g \in Handlers \ {h} : Untouched(g)

LEMMA Moved ==
    ASSUME IndInv, NEW h \in Handlers, Moves(h), HandlersAreTyped', LocksExclude', HandlerInv(h)'
    PROVE  IndInv'
<1>1. \A g \in Handlers : HandlerInv(g)'
  <2> SUFFICES ASSUME NEW g \in Handlers, g # h PROVE HandlerInv(g)'
    OBVIOUS
  <2> QED BY OtherHandler DEF IndInv, Moves, db
<1>2. AllFormed(proposals)'
  BY DEF IndInv, AllFormed, Moves, db, Formed, IsSuggestion
<1>3. ExecutedOnce' /\ NothingFromUnfinishedRuns'
  BY DEF IndInv, Moves, db, ExecutedOnce, NothingFromUnfinishedRuns
<1>4. SameScopeSuggestionsDisjoint'
  BY DEF IndInv, Moves, db, SameScopeSuggestionsDisjoint, IsSuggestion
<1>5. CompletedRunAccountsForAll'
  BY DEF IndInv, Moves, db, CompletedRunAccountsForAll, ProposedBy, HasItem, InPeriod
<1> QED BY <1>1, <1>2, <1>3, <1>4, <1>5 DEF IndInv

-----------------------------------------------------------------------------
(* The steps of a pass                                                     *)

LEMMA ExecuteStep == ASSUME IndInv, NEW h \in Handlers, NEW r \in Runs, Execute(h, r) PROVE IndInv'
<1> USE DEF Execute, session
<1>0. HandlersAreTyped /\ LocksExclude /\ HandlerInv(h) /\ SessionIsOwn(h)
  BY DEF IndInv, HandlerInv
<1>1. HandlersAreTyped'
  BY <1>0 DEF HandlersAreTyped, db, Phase
<1>2. phase'[h] = "scope" /\ job'[h] = r /\ "scope" \notin Executing
  BY <1>0 DEF HandlersAreTyped, Executing
<1>3. \A g \in Handlers \ {h} : Untouched(g)
  BY <1>0 DEF HandlersAreTyped, Untouched
<1>4. LocksExclude'
  BY <1>0, <1>2, <1>3 DEF LocksExclude, Untouched, RowLocked
<1>5. HandlerInv(h)'
  <2>1. Session(h) = {} /\ eligible[h] = {} /\ specs[h] = {} /\ added[h] = {} /\ flushed[h] = {}
    BY <1>0 DEF SessionIsOwn, Executing, Session
  <2>2. SessionIsOwn(h)'
    BY <1>2, <2>1 DEF SessionIsOwn, Session, db
  <2>3. AllFormed(Session(h))' /\ ClaimsAreCurrent(h)' /\ SyncIsWhole(h)'
    BY <1>2, <2>1 DEF AllFormed, ClaimsAreCurrent, SyncIsWhole, Session
  <2> QED BY <2>2, <2>3 DEF HandlerInv
<1> QED BY <1>1, <1>3, <1>4, <1>5, Moved DEF Moves

LEMMA StartMatchingStep == ASSUME IndInv, NEW h \in Handlers, StartMatching(h) PROVE IndInv'
<1> USE DEF StartMatching
<1>0. HandlersAreTyped /\ LocksExclude /\ HandlerInv(h) /\ SessionIsOwn(h)
  BY DEF IndInv, HandlerInv
<1>1. HandlersAreTyped'
  BY <1>0 DEF HandlersAreTyped, db, Phase, Executing, Statement
<1>2. /\ phase'[h] = "match" /\ job'[h] = job[h] /\ "match" \in Executing
      /\ eligible'[h] = Statement(job[h]) /\ claimed'[h] = already_claimed(proposals)
  BY <1>0 DEF HandlersAreTyped, Executing
<1>3. \A g \in Handlers \ {h} : Untouched(g)
  BY <1>0 DEF HandlersAreTyped, Untouched
<1>4. LocksExclude'
  <2> SUFFICES ASSUME NEW g \in Handlers, NEW k \in Handlers, g # k, phase'[g] # "idle", phase'[k] # "idle"
               PROVE  /\ job'[g] # job'[k]
                      /\ phase'[g] \in Executing /\ phase'[k] \in Executing => Period[job'[g]] # Period[job'[k]]
    BY DEF LocksExclude
  <2>1. phase[g] # "idle" /\ phase[k] # "idle" /\ job'[g] = job[g] /\ job'[k] = job[k]
    BY <1>3 DEF Untouched
  <2>2. \A j \in Handlers : phase[j] \in Executing => Period[job[j]] # Period[job[h]]
    BY DEF ScopeLocked
  <2> QED BY <1>0, <1>3, <2>1, <2>2 DEF LocksExclude, Untouched
<1>5. HandlerInv(h)'
  <2>1. /\ Session(h) = {} /\ Session(h)' = {} /\ specs'[h] = {}
    BY <1>0 DEF SessionIsOwn, Executing, Session
  <2>2. SessionIsOwn(h)'
    <3>1. phase[h] # "idle" /\ phase[h] # "match" /\ phase[h] # "commit"
      OBVIOUS
    <3> QED BY <1>0, <1>2, <2>1, <3>1 DEF SessionIsOwn, Session, db, Statement, InPeriod
  <2>3. ClaimsAreCurrent(h)'
    BY <1>2, <2>1 DEF ClaimsAreCurrent, db, already_claimed, IsSuggestion
  <2>4. AllFormed(Session(h))' /\ SyncIsWhole(h)'
    BY <1>2, <2>1 DEF AllFormed, SyncIsWhole
  <2> QED BY <2>2, <2>3, <2>4 DEF HandlerInv
<1> QED BY <1>1, <1>3, <1>4, <1>5, Moved DEF Moves

\* The steps that move on within a pass keep the locks.
LEMMA StillLocked ==
    ASSUME LocksExclude, HandlersAreTyped, NEW h \in Handlers, phase[h] \in Executing, phase'[h] \in Executing,
           job' = job, \A g \in Handlers \ {h} : Untouched(g)
    PROVE  LocksExclude'
<1>1. \A g \in Handlers : phase'[g] # "idle" => phase[g] # "idle"
  BY DEF Untouched, Executing
<1>2. \A g \in Handlers : phase'[g] \in Executing => phase[g] \in Executing
  BY DEF Untouched
<1> QED BY <1>1, <1>2 DEF LocksExclude

LEMMA MatchBankRowStep == ASSUME IndInv, NEW h \in Handlers, MatchBankRow(h) PROVE IndInv'
<1>0. HandlersAreTyped /\ LocksExclude /\ HandlerInv(h) /\ SessionIsOwn(h)
  BY DEF IndInv, HandlerInv
<1> PICK b \in todo[h] :
        /\ phase[h] = "match"
        /\ added' = [added EXCEPT ![h] =
                        @ \union run_matching_for_bank_transaction(job[h], b, claimed[h])]
        /\ claimed' = [claimed EXCEPT ![h] = @ \union newly_claimed(h, b)]
        /\ todo' = [todo EXCEPT ![h] = @ \ {b}]
        /\ UNCHANGED <<db, phase, job, eligible, flushed, base, specs>>
  BY DEF MatchBankRow
<1> DEFINE found == run_matching_for_bank_transaction(job[h], b, claimed[h])
<1>1. HandlersAreTyped'
  BY <1>0 DEF HandlersAreTyped, db
<1>2. /\ phase'[h] = phase[h] /\ job'[h] = job[h] /\ "match" \in Executing
      /\ added'[h] = added[h] \union found /\ claimed[h] \subseteq claimed'[h]
  BY <1>0 DEF HandlersAreTyped, Executing
<1>3. \A g \in Handlers \ {h} : Untouched(g)
  BY <1>0 DEF HandlersAreTyped, Untouched
<1>4. LocksExclude'
  BY <1>0, <1>2, <1>3, StillLocked
<1>5. \A p \in found : IsSuggestion(p) /\ Formed(p) /\ p.run = job[h] /\ p.rows \intersect LedgerRows \intersect claimed[h] = {}
  <2>1. b \in BankRows
    BY <1>0 DEF HandlersAreTyped
  <2> QED BY <2>1, Suggested
<1>6. HandlerInv(h)'
  <2> HIDE DEF found
  <2>1. Session(h)' = Session(h) \union found
    BY <1>2 DEF Session
  <2>2. SessionIsOwn(h)'
    <3>1. \A p \in added'[h] : IsSuggestion(p)'
      BY <1>0, <1>2, <1>5 DEF SessionIsOwn, IsSuggestion
    <3>2. \A p \in Session(h)' : p.run = job[h]
      BY <1>0, <1>5, <2>1 DEF SessionIsOwn
    <3> QED BY <1>0, <1>2, <3>1, <3>2 DEF SessionIsOwn, db, Statement, InPeriod
  <2>3. AllFormed(Session(h))'
    BY <1>0, <1>5, <2>1 DEF HandlerInv, AllFormed, Formed, IsSuggestion
  <2>4. ClaimsAreCurrent(h)'
    <3> SUFFICES ASSUME NEW p \in proposals, IsSuggestion(p), Period[p.run] = Period[job[h]]
                 PROVE  /\ p.rows \intersect LedgerRows \subseteq claimed'[h]
                        /\ \A q \in Session(h)' : IsSuggestion(q) => p.rows \intersect q.rows \intersect LedgerRows = {}
      BY <1>2 DEF ClaimsAreCurrent, db, IsSuggestion
    <3>1. /\ p.rows \intersect LedgerRows \subseteq claimed[h]
          /\ \A q \in Session(h) : IsSuggestion(q) => p.rows \intersect q.rows \intersect LedgerRows = {}
      BY <1>0, <1>2 DEF HandlerInv, ClaimsAreCurrent
    <3> QED BY <1>2, <1>5, <2>1, <3>1
  <2>5. SyncIsWhole(h)'
    BY <1>2 DEF SyncIsWhole
  <2> QED BY <2>2, <2>3, <2>4, <2>5 DEF HandlerInv
<1> QED BY <1>1, <1>3, <1>4, <1>6, Moved DEF Moves

LEMMA FlushStep == ASSUME IndInv, NEW h \in Handlers, FlushSuggestions(h) PROVE IndInv'
<1> USE DEF FlushSuggestions
<1>0. HandlersAreTyped /\ LocksExclude /\ HandlerInv(h) /\ SessionIsOwn(h)
  BY DEF IndInv, HandlerInv
<1>1. HandlersAreTyped'
  BY <1>0 DEF HandlersAreTyped, db, Phase, Executing
<1>2. /\ phase[h] \in Executing /\ phase'[h] = "one_to_many" /\ "one_to_many" \in Executing /\ job'[h] = job[h]
      /\ added'[h] = {} /\ flushed'[h] = flushed[h] \union added[h]
  BY <1>0 DEF HandlersAreTyped, Executing
<1>3. \A g \in Handlers \ {h} : Untouched(g)
  BY <1>0 DEF HandlersAreTyped, Untouched
<1>4. LocksExclude'
  BY <1>0, <1>2, <1>3, StillLocked
<1>5. Session(h)' = Session(h)
  BY <1>2 DEF Session
<1>6. SessionIsOwn(h)'
  <2>1. phase[h] # "commit"
    OBVIOUS
  <2> QED BY <1>0, <1>2, <1>5, <2>1 DEF SessionIsOwn, db, Statement, InPeriod
<1>7. AllFormed(Session(h))' /\ ClaimsAreCurrent(h)' /\ SyncIsWhole(h)'
  BY <1>0, <1>2, <1>5 DEF HandlerInv, AllFormed, Formed, IsSuggestion, ClaimsAreCurrent, SyncIsWhole, db
<1> QED BY <1>1, <1>3, <1>4, <1>6, <1>7, Moved DEF Moves, HandlerInv

\* Each detector adds groups of the run, which are no suggestions.
LEMMA AddGroupsStep ==
    ASSUME IndInv, NEW h \in Handlers, NEW groups, NEW next \in Executing \ {"match", "commit"},
           phase[h] \in Executing \ {"match", "commit"}, AddGroups(h, groups, next),
           \A p \in groups : ~IsSuggestion(p) /\ Formed(p) /\ p.run = job[h]
    PROVE  IndInv'
<1> USE DEF AddGroups
<1>0. HandlersAreTyped /\ LocksExclude /\ HandlerInv(h) /\ SessionIsOwn(h)
  BY DEF IndInv, HandlerInv
<1>1. HandlersAreTyped'
  BY <1>0 DEF HandlersAreTyped, db, Phase
<1>2. /\ phase'[h] = next /\ next # "idle" /\ job'[h] = job[h]
      /\ added'[h] = added[h] /\ flushed'[h] = flushed[h] \union groups
  BY <1>0 DEF HandlersAreTyped, Executing
<1>3. \A g \in Handlers \ {h} : Untouched(g)
  BY <1>0 DEF HandlersAreTyped, Untouched
<1>4. LocksExclude'
  BY <1>0, <1>2, <1>3, StillLocked
<1>5. Session(h)' = Session(h) \union groups
  BY <1>2 DEF Session
<1>6. SessionIsOwn(h)'
  <2>1. phase[h] # "idle"
    BY DEF Executing
  <2>2. \A p \in Session(h)' : p.run = job[h]
    BY <1>0, <1>5 DEF SessionIsOwn
  <2> QED BY <1>0, <1>2, <2>1, <2>2 DEF SessionIsOwn, db, Statement, InPeriod, IsSuggestion
<1>7. AllFormed(Session(h))'
  BY <1>0, <1>5 DEF HandlerInv, AllFormed, Formed, IsSuggestion
<1>8. ClaimsAreCurrent(h)' /\ SyncIsWhole(h)'
  BY <1>0, <1>2, <1>5 DEF HandlerInv, IsSuggestion, ClaimsAreCurrent, SyncIsWhole, db
<1> QED BY <1>1, <1>3, <1>4, <1>6, <1>7, <1>8, Moved DEF Moves, HandlerInv

LEMMA DetectStep ==
    ASSUME IndInv, NEW h \in Handlers, OneToMany(h) \/ ManyToOne(h) \/ Transfers(h) \/ Fx(h)
    PROVE  IndInv'
<1> DEFINE Good(groups) == \A p \in groups : ~IsSuggestion(p) /\ Formed(p) /\ p.run = job[h]
<1>1. ASSUME NEW kind \in {"ONE_TO_MANY", "MANY_TO_ONE", "FX_MATCH"}, NEW choices
      PROVE  Good(IfAdvanced(h, groups_of(job[h], kind, choices)))
  BY Grouping DEF IfAdvanced
<1>2. CASE OneToMany(h)
  <2> DEFINE groups == IfAdvanced(h, detect_one_to_many(job[h], Unmatched(h), Excluded(h)))
  <2>1. Good(groups)
    BY <1>1 DEF detect_one_to_many
  <2>2. phase[h] = "one_to_many" /\ AddGroups(h, groups, "many_to_one")
    BY <1>2 DEF OneToMany
  <2> HIDE DEF groups
  <2> QED BY <2>1, <2>2, AddGroupsStep DEF Executing
<1>3. CASE ManyToOne(h)
  <2> DEFINE groups == IfAdvanced(h, detect_many_to_one(job[h], Statement(job[h]), imported,
                                                        LedgerWindow(job[h]), Excluded(h)))
  <2>1. Good(groups)
    BY <1>1 DEF detect_many_to_one
  <2>2. phase[h] = "many_to_one" /\ AddGroups(h, groups, "transfers")
    BY <1>3 DEF ManyToOne
  <2> HIDE DEF groups
  <2> QED BY <2>1, <2>2, AddGroupsStep DEF Executing
<1>4. CASE Transfers(h)
  <2> DEFINE groups == detect_internal_transfers(job[h], already_claimed(Own(h)))
  <2>1. Good(groups)
    BY DEF detect_internal_transfers, IsSuggestion, Formed
  <2>2. phase[h] = "transfers" /\ AddGroups(h, groups, "fx")
    BY <1>4 DEF Transfers
  <2> HIDE DEF groups
  <2> QED BY <2>1, <2>2, AddGroupsStep DEF Executing
<1>5. CASE Fx(h)
  <2> DEFINE Groups(rank) == IfAdvanced(h, detect_fx_matches(job[h], Unmatched(h) \ Grouped(h), Excluded(h), rank))
  <2>1. PICK rank : phase[h] = "fx" /\ AddGroups(h, Groups(rank), "sync")
    BY <1>5 DEF Fx
  <2>2. Good(Groups(rank))
    BY <1>1 DEF detect_fx_matches
  <2> HIDE DEF Groups
  <2> QED BY <2>1, <2>2, AddGroupsStep DEF Executing
<1> QED BY <1>2, <1>3, <1>4, <1>5

\* The items make up for what the proposals leave.
LEMMA SyncStep == ASSUME IndInv, NEW h \in Handlers, SyncOpenItems(h) PROVE IndInv'
<1> DEFINE derived == Derivation(Seen(h))!derive_open_item_specs([p \in Seen(h) |-> p.status], job[h])
<1>0. HandlersAreTyped /\ LocksExclude /\ HandlerInv(h) /\ SessionIsOwn(h)
  BY DEF IndInv, HandlerInv
<1>a. /\ phase[h] = "sync" /\ phase' = [phase EXCEPT ![h] = "commit"] /\ specs' = [specs EXCEPT ![h] = derived]
      /\ UNCHANGED <<db, job, eligible, todo, claimed, added, flushed, base>>
  BY DEF SyncOpenItems
<1> HIDE DEF derived
<1>1. HandlersAreTyped'
  BY <1>0, <1>a DEF HandlersAreTyped, db, Phase, Executing
<1>2. /\ phase[h] \in Executing /\ phase'[h] = "commit" /\ "commit" \in Executing
      /\ job'[h] = job[h] /\ job[h] \in Runs /\ specs'[h] = derived
  BY <1>0, <1>a DEF HandlersAreTyped, SessionIsOwn, Executing
<1>3. \A g \in Handlers \ {h} : Untouched(g)
  BY <1>0, <1>a DEF HandlersAreTyped, Untouched
<1>4. LocksExclude'
  BY <1>0, <1>2, <1>3, <1>a, StillLocked
<1>5. Session(h)' = Session(h) /\ Seen(h)' = Seen(h)
  BY <1>a DEF Session, Seen, db
<1>6. \A i \in derived : i.run = job[h]
  BY DerivedForRun DEF derived
<1>7. SessionIsOwn(h)'
  BY <1>0, <1>2, <1>5, <1>6, <1>a DEF SessionIsOwn, db, Statement, InPeriod
<1>8. AllFormed(Session(h))' /\ ClaimsAreCurrent(h)'
  BY <1>0, <1>2, <1>5, <1>a DEF HandlerInv, AllFormed, Formed, IsSuggestion, ClaimsAreCurrent, db
<1>9. SyncIsWhole(h)'
  <2>1. AllFormed(Seen(h))
    BY DEF IndInv, HandlerInv, AllFormed, Seen, Session
  <2>2. eligible[h] \subseteq Statement(job[h]) /\ imported \subseteq BankRows
    BY <1>0, <1>2 DEF SessionIsOwn, HandlersAreTyped
  <2>3. \A x \in eligible[h] \union (LedgerRows \intersect InPeriod(job[h])) :
            ProposedBy(Seen(h), x) \/ \E i \in derived : x \in i.rows
    BY <1>2, <2>1, <2>2, Derived DEF derived
  <2> QED BY <1>2, <1>5, <1>a, <2>3 DEF SyncIsWhole, ProposedBy, InPeriod
<1> QED BY <1>1, <1>3, <1>4, <1>7, <1>8, <1>9, <1>a, Moved DEF Moves, HandlerInv

-----------------------------------------------------------------------------
(* The ends of a transaction                                               *)

\* A handler that is done holds nothing.
LEMMA Ended ==
    ASSUME HandlersAreTyped, LocksExclude, NEW h \in Handlers, End(h), HandlersAreTyped'
    PROVE  /\ LocksExclude' /\ HandlerInv(h)' /\ \A g \in Handlers \ {h} : Untouched(g)
<1>1. /\ phase'[h] = "idle" /\ "idle" \notin Executing
      /\ added'[h] = {} /\ flushed'[h] = {} /\ specs'[h] = {} /\ eligible'[h] = {}
  BY DEF HandlersAreTyped, End, Executing
<1>2. \A g \in Handlers \ {h} : Untouched(g)
  BY DEF HandlersAreTyped, Untouched, End
<1>3. LocksExclude'
  BY <1>1, <1>2 DEF LocksExclude, Untouched
<1>4. HandlerInv(h)'
  BY <1>1 DEF HandlerInv, SessionIsOwn, Session, AllFormed, ClaimsAreCurrent, SyncIsWhole
<1> QED BY <1>2, <1>3, <1>4

LEMMA CrashStep == ASSUME IndInv, NEW h \in Handlers, Crash(h) PROVE IndInv'
<1>1. HandlersAreTyped'
  BY DEF IndInv, HandlersAreTyped, Crash, End, db, Phase
<1>2. LocksExclude' /\ HandlerInv(h)' /\ \A g \in Handlers \ {h} : Untouched(g)
  BY <1>1, Ended DEF IndInv, Crash
<1> QED BY <1>1, <1>2, Moved DEF Moves, Crash

\* A transaction that commits adds what its session has.
Commits(h) ==
    /\ phase[h] \in Executing /\ End(h)
    /\ \E status \in {"COMPLETED", "FAILED"} : run' = [run EXCEPT ![job[h]] = status]
    /\ proposals' = proposals \union Session(h)
    /\ UNCHANGED imported

LEMMA Committed ==
    ASSUME IndInv, NEW h \in Handlers, Commits(h), HandlersAreTyped'
    PROVE  /\ LocksExclude' /\ AllFormed(proposals)' /\ SameScopeSuggestionsDisjoint'
           /\ \A g \in Handlers : HandlerInv(g)'
           /\ job[h] \in Runs /\ run[job[h]] = "READY"
           /\ \A r \in Runs \ {job[h]} : run'[r] = run[r]
<1>0. /\ HandlersAreTyped /\ LocksExclude /\ HandlerInv(h) /\ SessionIsOwn(h) /\ ClaimsAreCurrent(h)
      /\ \A g \in Handlers : HandlerInv(g)
  BY DEF IndInv, HandlerInv
<1>1. LocksExclude' /\ HandlerInv(h)' /\ \A g \in Handlers \ {h} : Untouched(g)
  BY <1>0, Ended DEF Commits
<1>2. job[h] \in Runs /\ run[job[h]] = "READY"
  BY <1>0 DEF SessionIsOwn, Commits, Executing
<1>3. \A r \in Runs \ {job[h]} : run'[r] = run[r]
  BY <1>0 DEF HandlersAreTyped, Commits
<1>4. AllFormed(proposals)'
  BY <1>0 DEF IndInv, HandlerInv, AllFormed, Formed, IsSuggestion, Commits
<1>5. \A q \in Session(h) : q.run = job[h]
  BY <1>0 DEF SessionIsOwn
<1>6. SameScopeSuggestionsDisjoint'
  <2>1. ASSUME NEW p \in proposals, NEW q \in Session(h), IsSuggestion(p), IsSuggestion(q), Period[p.run] = Period[q.run]
        PROVE  p.rows \intersect q.rows \intersect LedgerRows = {}
    BY <1>0, <1>5, <2>1 DEF ClaimsAreCurrent, Commits
  <2>2. SameScopeSuggestionsDisjoint
    BY DEF IndInv
  <2> SUFFICES ASSUME NEW p \in proposals', NEW q \in proposals', IsSuggestion(p), IsSuggestion(q),
                      p.run # q.run, Period[p.run] = Period[q.run]
               PROVE  p.rows \intersect q.rows \intersect LedgerRows = {}
    BY DEF SameScopeSuggestionsDisjoint, IsSuggestion
  <2>3. p \in proposals \union Session(h) /\ q \in proposals \union Session(h)
    BY DEF Commits
  <2> QED BY <1>5, <2>1, <2>2, <2>3 DEF SameScopeSuggestionsDisjoint
<1>7. ASSUME NEW g \in Handlers \ {h} PROVE HandlerInv(g)'
  <2> USE <1>1 DEF Untouched
  <2>1. Untouched(g) /\ HandlerInv(g) /\ SessionIsOwn(g) /\ ClaimsAreCurrent(g)
    BY <1>0, <1>1 DEF HandlerInv
  <2>2. phase[g] # "idle" => job[g] # job[h]
    BY <1>0 DEF LocksExclude, Commits, Executing
  <2>3. SessionIsOwn(g)'
    BY <1>3, <2>1, <2>2 DEF SessionIsOwn, Session, Commits, Statement, InPeriod
  <2>4. AllFormed(Session(g))' /\ SyncIsWhole(g)'
    BY <2>1 DEF HandlerInv, AllFormed, Session, Formed, IsSuggestion, Commits, SyncIsWhole, Seen, ProposedBy, InPeriod
  <2>5. ClaimsAreCurrent(g)'
    <3>1. phase[g] \in Executing => Period[job[g]] # Period[job[h]]
      BY <1>0 DEF LocksExclude, Commits, Executing
    <3>2. Session(g)' = Session(g)
      BY <2>1 DEF Session
    <3> QED BY <1>5, <2>1, <3>1, <3>2 DEF ClaimsAreCurrent, Commits, IsSuggestion
  <2> QED BY <2>3, <2>4, <2>5 DEF HandlerInv
<1> QED BY <1>1, <1>2, <1>3, <1>4, <1>6, <1>7

LEMMA CompleteStep == ASSUME IndInv, NEW h \in Handlers, Complete(h) PROVE IndInv'
<1> USE DEF Complete
<1>0. HandlersAreTyped /\ SessionIsOwn(h) /\ SyncIsWhole(h)
  BY DEF IndInv, HandlerInv
<1>1. added[h] = {} /\ Session(h) = flushed[h] /\ job[h] \in Runs /\ \A i \in specs[h] : i.run = job[h]
  BY <1>0 DEF SessionIsOwn, Session
<1>2. HandlersAreTyped'
  <2>1. \A p \in proposals' : p.run \in Runs
    BY <1>0, <1>1 DEF HandlersAreTyped, SessionIsOwn
  <2>2. \A i \in items' : i.run \in Runs
    BY <1>0, <1>1 DEF HandlersAreTyped
  <2> QED BY <1>0, <1>1, <2>1, <2>2 DEF HandlersAreTyped, End, RunStatus, Phase
<1>3. Commits(h)
  BY <1>1 DEF Commits, Executing
<1>4. /\ LocksExclude' /\ AllFormed(proposals)' /\ SameScopeSuggestionsDisjoint'
      /\ \A g \in Handlers : HandlerInv(g)'
      /\ run[job[h]] = "READY" /\ \A r \in Runs \ {job[h]} : run'[r] = run[r]
  BY <1>2, <1>3, Committed
<1>5. ExecutedOnce'
  <2>1. audit[job[h]] = <<>>
    BY <1>1, <1>4 DEF IndInv, ExecutedOnce
  <2>2. audit'[job[h]] = <<"EXECUTE_START", "EXECUTE_COMPLETE">> /\ run'[job[h]] = "COMPLETED"
    BY <1>0, <1>1, <2>1 DEF HandlersAreTyped
  <2>3. \A r \in Runs \ {job[h]} : audit'[r] = audit[r]
    BY <1>0 DEF HandlersAreTyped
  <2> QED BY <1>4, <2>2, <2>3 DEF IndInv, ExecutedOnce
<1>6. NothingFromUnfinishedRuns'
  <2>1. run'[job[h]] = "COMPLETED"
    BY <1>0, <1>1 DEF HandlersAreTyped
  <2>2. \A p \in proposals : p.run \in Runs \ {job[h]} /\ run[p.run] \in {"COMPLETED", "FAILED"}
    BY <1>0, <1>4 DEF IndInv, NothingFromUnfinishedRuns, HandlersAreTyped
  <2>3. \A i \in items : i.run \in Runs \ {job[h]} /\ run[i.run] = "COMPLETED"
    BY <1>0, <1>4 DEF IndInv, NothingFromUnfinishedRuns, HandlersAreTyped
  <2>4. \A p \in flushed[h] : p.run = job[h]
    BY <1>0, <1>1 DEF SessionIsOwn
  <2> QED BY <1>1, <1>4, <2>1, <2>2, <2>3, <2>4 DEF NothingFromUnfinishedRuns
<1>7. CompletedRunAccountsForAll'
  <2> SUFFICES ASSUME NEW r \in Runs, run'[r] = "COMPLETED",
                      NEW x \in counted'[r] \union (LedgerRows \intersect InPeriod(r))
               PROVE  ProposedBy(proposals', x) \/ \E i \in items' : x \in i.rows
    BY DEF CompletedRunAccountsForAll, ProposedBy, HasItem, InPeriod
  <2>1. CASE r = job[h]
    <3>1. x \in eligible[h] \union (LedgerRows \intersect InPeriod(job[h]))
      BY <1>0, <2>1 DEF HandlersAreTyped
    <3> QED BY <1>0, <3>1 DEF SyncIsWhole, Seen, ProposedBy
  <2>2. CASE r # job[h]
    <3>1. run[r] = "COMPLETED" /\ x \in counted[r] \union (LedgerRows \intersect InPeriod(r))
      BY <1>0, <1>4, <2>2 DEF HandlersAreTyped
    <3> QED BY <3>1 DEF IndInv, CompletedRunAccountsForAll, ProposedBy, HasItem
  <2> QED BY <2>1, <2>2
<1> QED BY <1>2, <1>4, <1>5, <1>6, <1>7 DEF IndInv

LEMMA FailStep == ASSUME IndInv, NEW h \in Handlers, Fail(h) PROVE IndInv'
<1> USE DEF Fail
<1>0. HandlersAreTyped /\ SessionIsOwn(h)
  BY DEF IndInv, HandlerInv
<1>1. job[h] \in Runs /\ \A p \in Session(h) : p.run = job[h]
  BY <1>0 DEF SessionIsOwn, Executing
<1>2. HandlersAreTyped'
  <2>1. \A p \in proposals' : p.run \in Runs
    BY <1>0, <1>1 DEF HandlersAreTyped, Session
  <2> QED BY <1>0, <1>1, <2>1 DEF HandlersAreTyped, End, RunStatus, Phase
<1>3. Commits(h)
  BY DEF Commits, Session
<1>4. /\ LocksExclude' /\ AllFormed(proposals)' /\ SameScopeSuggestionsDisjoint'
      /\ \A g \in Handlers : HandlerInv(g)'
      /\ run[job[h]] = "READY" /\ \A r \in Runs \ {job[h]} : run'[r] = run[r]
  BY <1>2, <1>3, Committed
<1>5. run'[job[h]] = "FAILED"
  BY <1>0, <1>1 DEF HandlersAreTyped
<1>6. ExecutedOnce'
  <2>1. audit[job[h]] = <<>>
    BY <1>1, <1>4 DEF IndInv, ExecutedOnce
  <2>2. audit'[job[h]] = <<"EXECUTE_START">>
    BY <1>0, <1>1, <2>1 DEF HandlersAreTyped
  <2>3. \A r \in Runs \ {job[h]} : audit'[r] = audit[r]
    BY <1>0 DEF HandlersAreTyped
  <2> QED BY <1>4, <1>5, <2>2, <2>3 DEF IndInv, ExecutedOnce
<1>7. NothingFromUnfinishedRuns'
  <2>1. \A p \in proposals : p.run \in Runs \ {job[h]} /\ run[p.run] \in {"COMPLETED", "FAILED"}
    BY <1>0, <1>4 DEF IndInv, NothingFromUnfinishedRuns, HandlersAreTyped
  <2>2. \A i \in items : i.run \in Runs \ {job[h]} /\ run[i.run] = "COMPLETED"
    BY <1>0, <1>4 DEF IndInv, NothingFromUnfinishedRuns, HandlersAreTyped
  <2> QED BY <1>1, <1>4, <1>5, <2>1, <2>2 DEF NothingFromUnfinishedRuns, Session
<1>8. CompletedRunAccountsForAll'
  <2> SUFFICES ASSUME NEW r \in Runs, run'[r] = "COMPLETED",
                      NEW x \in counted[r] \union (LedgerRows \intersect InPeriod(r))
               PROVE  ProposedBy(proposals', x) \/ \E i \in items : x \in i.rows
    BY DEF CompletedRunAccountsForAll, ProposedBy, HasItem, InPeriod
  <2>1. run[r] = "COMPLETED"
    BY <1>4, <1>5
  <2> QED BY <2>1 DEF IndInv, CompletedRunAccountsForAll, ProposedBy, HasItem
<1> QED BY <1>2, <1>4, <1>6, <1>7, <1>8 DEF IndInv

-----------------------------------------------------------------------------
(* The other steps                                                         *)

LEMMA ImportStep == ASSUME IndInv, NEW b \in BankRows, Import(b) PROVE IndInv'
<1> USE DEF Import, session
<1>1. HandlersAreTyped'
  BY DEF IndInv, HandlersAreTyped
<1>2. \A g \in Handlers : HandlerInv(g)'
  BY OtherHandler DEF IndInv, Untouched
<1>3. LocksExclude' /\ AllFormed(proposals)'
  BY DEF IndInv, LocksExclude, AllFormed, Formed, IsSuggestion
<1>4. ExecutedOnce' /\ NothingFromUnfinishedRuns'
  BY DEF IndInv, ExecutedOnce, NothingFromUnfinishedRuns
<1>5. SameScopeSuggestionsDisjoint' /\ CompletedRunAccountsForAll'
  BY DEF IndInv, SameScopeSuggestionsDisjoint, IsSuggestion, CompletedRunAccountsForAll, ProposedBy, HasItem, InPeriod
<1> QED BY <1>1, <1>2, <1>3, <1>4, <1>5 DEF IndInv

\* A run that no handler executes gets its last status.
LEMMA DisposeStep ==
    ASSUME IndInv, NEW r \in Runs, Cancel(r) \/ ExecuteInvalid(r)
    PROVE  IndInv'
<1> USE DEF Cancel, ExecuteInvalid, session
<1>0. HandlersAreTyped /\ run[r] = "READY" /\ audit[r] = <<>>
  BY DEF IndInv, ExecutedOnce
<1>1. /\ run'[r] \in {"CANCELLED", "FAILED"} /\ \A q \in Runs \ {r} : run'[q] = run[q] /\ audit'[q] = audit[q]
      /\ run'[r] = "CANCELLED" => audit'[r] = <<"CANCEL">>
      /\ run'[r] = "FAILED" => audit'[r] = <<>>
  <2>1. CASE Cancel(r)
    BY <1>0, <2>1 DEF HandlersAreTyped
  <2>2. CASE ExecuteInvalid(r)
    BY <1>0, <2>2 DEF HandlersAreTyped
  <2> QED BY <2>1, <2>2
<1>2. HandlersAreTyped'
  BY <1>0 DEF HandlersAreTyped, RunStatus
<1>3. \A h \in Handlers : phase[h] # "idle" => job[h] # r
  BY DEF RowLocked
<1>4. ASSUME NEW g \in Handlers PROVE HandlerInv(g)'
  <2> USE DEF IndInv
  <2>0. UNCHANGED <<imported, proposals, phase, job, eligible, added, flushed, specs>> /\ SessionIsOwn(g)
    BY DEF HandlerInv
  <2>1. SessionIsOwn(g)'
    <3>1. phase[g] # "idle" => job[g] \in Runs \ {r} /\ run[job[g]] = "READY"
      BY <1>3, <2>0 DEF SessionIsOwn
    <3>2. phase[g] # "idle" => run'[job[g]] = "READY"
      BY <1>1, <3>1
    <3> HIDE DEF Cancel, ExecuteInvalid, IndInv
    <3> QED BY <2>0, <3>1, <3>2 DEF SessionIsOwn, Session, Statement, InPeriod
  <2>2. AllFormed(Session(g))' /\ ClaimsAreCurrent(g)'
    BY DEF HandlerInv, AllFormed, Session, Formed, IsSuggestion, ClaimsAreCurrent
  <2>3. SyncIsWhole(g)'
    BY DEF HandlerInv, SyncIsWhole, Seen, ProposedBy, InPeriod
  <2> QED BY <2>1, <2>2, <2>3 DEF HandlerInv
<1>5. LocksExclude' /\ AllFormed(proposals)'
  BY DEF IndInv, LocksExclude, AllFormed, Formed, IsSuggestion
<1>6. ExecutedOnce'
  BY <1>1 DEF IndInv, ExecutedOnce
<1>7. NothingFromUnfinishedRuns'
  <2>1. \A p \in proposals : p.run \in Runs \ {r}
    BY <1>0 DEF IndInv, NothingFromUnfinishedRuns, HandlersAreTyped
  <2>2. \A i \in items : i.run \in Runs \ {r}
    BY <1>0 DEF IndInv, NothingFromUnfinishedRuns, HandlersAreTyped
  <2> QED BY <1>1, <2>1, <2>2 DEF IndInv, NothingFromUnfinishedRuns
<1>8. SameScopeSuggestionsDisjoint'
  BY DEF IndInv, SameScopeSuggestionsDisjoint, IsSuggestion
<1>9. CompletedRunAccountsForAll'
  BY <1>1 DEF IndInv, CompletedRunAccountsForAll, ProposedBy, HasItem, InPeriod
<1> QED BY <1>2, <1>4, <1>5, <1>6, <1>7, <1>8, <1>9 DEF IndInv

LEMMA Stutter == IndInv /\ UNCHANGED vars => IndInv'
<1> SUFFICES ASSUME IndInv, UNCHANGED vars PROVE IndInv'
  OBVIOUS
<1> USE DEF vars, db, session
<1>1. HandlersAreTyped' /\ LocksExclude' /\ AllFormed(proposals)'
  BY DEF IndInv, HandlersAreTyped, LocksExclude, AllFormed, Formed, IsSuggestion
<1>2. \A g \in Handlers : HandlerInv(g)'
  BY OtherHandler DEF IndInv, Untouched
<1>3. ExecutedOnce' /\ NothingFromUnfinishedRuns'
  BY DEF IndInv, ExecutedOnce, NothingFromUnfinishedRuns
<1>4. SameScopeSuggestionsDisjoint' /\ CompletedRunAccountsForAll'
  BY DEF IndInv, SameScopeSuggestionsDisjoint, IsSuggestion, CompletedRunAccountsForAll, ProposedBy, HasItem, InPeriod
<1> QED BY <1>1, <1>2, <1>3, <1>4 DEF IndInv

LEMMA InvStep == IndInv /\ [Next]_vars => IndInv'
<1> SUFFICES ASSUME IndInv, [Next]_vars PROVE IndInv'
  OBVIOUS
<1>1. ASSUME NEW b \in BankRows, Import(b) PROVE IndInv'
  BY <1>1, ImportStep
<1>2. ASSUME NEW r \in Runs, Cancel(r) \/ ExecuteInvalid(r) PROVE IndInv'
  BY <1>2, DisposeStep
<1>3. ASSUME NEW h \in Handlers, NEW r \in Runs, Execute(h, r) PROVE IndInv'
  BY <1>3, ExecuteStep
<1>4. ASSUME NEW h \in Handlers, Step(h) PROVE IndInv'
  BY <1>4, StartMatchingStep, MatchBankRowStep, FlushStep, DetectStep, SyncStep, CompleteStep DEF Step
<1>5. ASSUME NEW h \in Handlers, Fail(h) \/ Crash(h) PROVE IndInv'
  BY <1>5, FailStep, CrashStep
<1> QED BY <1>1, <1>2, <1>3, <1>4, <1>5, Stutter DEF Next

-----------------------------------------------------------------------------
(* The theorems                                                            *)

\* In every reachable state the locks of handlers exclude each other, and what
\* a session holds is of its run, current, and complete before it commits.
THEOREM Invariance == Spec => []IndInv
<1> QED BY InvInit, InvStep, PTL DEF Spec

\* A run is executed at most once, however executions, cancellations and
\* failures interleave, and its audit events tell which of them it was.
THEOREM ExecutedOnceHolds == Spec => []ExecutedOnce
<1>1. IndInv => ExecutedOnce
  BY DEF IndInv
<1> QED BY <1>1, Invariance, PTL

\* A run that has not executed to an end left no proposal and no item: a crash
\* in any phase of the pass undoes it.
THEOREM NothingFromUnfinishedRunsHolds == Spec => []NothingFromUnfinishedRuns
<1>1. IndInv => NothingFromUnfinishedRuns
  BY DEF IndInv
<1> QED BY <1>1, Invariance, PTL

\* Two runs of one scope never suggest one ledger row: the advisory lock lets
\* the second see what the first has committed.
THEOREM SameScopeSuggestionsDisjointHolds == Spec => []SameScopeSuggestionsDisjoint
<1>1. IndInv => SameScopeSuggestionsDisjoint
  BY DEF IndInv
<1> QED BY <1>1, Invariance, PTL

\* Every bank row a completed run counted and every ledger row of its period
\* has a proposal or an open item, whatever is imported or committed meanwhile.
THEOREM CompletedRunAccountsForAllHolds == Spec => []CompletedRunAccountsForAll
<1>1. IndInv => CompletedRunAccountsForAll
  BY DEF IndInv
<1> QED BY <1>1, Invariance, PTL

-----------------------------------------------------------------------------
(* What a detector visits                                                  *)

\* A finite set that is not empty has an element with the highest key.
LEMMA Highest ==
    ASSUME NEW key, NEW S, IsFiniteSet(S), S # {}, \A x \in S : key[x] \in Int
    PROVE  \E x \in S : \A y \in S : key[y] <= key[x]
<1> DEFINE Has(n) == \A T \in SUBSET S :
                         Cardinality(T) = n + 1 => \E x \in T : \A y \in T : key[y] <= key[x]
           N == {n \in Nat : Has(n)}
<1>1. \A T \in SUBSET S : IsFiniteSet(T) /\ Cardinality(T) \in Nat
  BY FS_Subset, FS_CardinalityType
<1>2. Has(0)
  <2> SUFFICES ASSUME NEW T \in SUBSET S, Cardinality(T) = 1
               PROVE  \E x \in T : \A y \in T : key[y] <= key[x]
    OBVIOUS
  <2>1. PICK x : T = {x}
    BY <1>1, FS_Singleton
  <2>. QED  BY <2>1
<1>3. ASSUME NEW n \in Nat, Has(n) PROVE Has(n + 1)
  <2> SUFFICES ASSUME NEW T \in SUBSET S, Cardinality(T) = n + 2
               PROVE  \E x \in T : \A y \in T : key[y] <= key[x]
    OBVIOUS
  <2>1. T # {}
    BY FS_EmptySet, n + 2 # 0
  <2>2. PICK t \in T : TRUE
    BY <2>1
  <2>3. Cardinality(T \ {t}) = n + 1
    BY <1>1, <2>2, FS_RemoveElement
  <2>4. PICK u \in T \ {t} : \A y \in T \ {t} : key[y] <= key[u]
    BY <1>3, <2>3
  <2>5. key[t] \in Int /\ key[u] \in Int /\ \A y \in T : key[y] \in Int
    OBVIOUS
  <2>6. CASE key[t] <= key[u]
    BY <2>4, <2>5, <2>6
  <2>7. CASE key[u] <= key[t]
    BY <2>4, <2>5, <2>7
  <2>. QED  BY <2>5, <2>6, <2>7
<1>4. Nat \subseteq N
  <2>1. 0 \in N
    BY <1>2
  <2>2. ASSUME NEW n \in Nat, n \in N PROVE n + 1 \in N
    <3>1. Has(n + 1) /\ n + 1 \in Nat
      BY <2>2, <1>3
    <3> HIDE DEF Has
    <3>. QED  BY <3>1
  <2> HIDE DEF N
  <2>. QED  BY <2>1, <2>2, NaturalsFromZero
<1>5. Cardinality(S) # 0 /\ Cardinality(S) \in Nat
  BY <1>1, FS_EmptySet
<1>6. Cardinality(S) - 1 \in N
  BY <1>4, <1>5
<1>7. Has(Cardinality(S) - 1)
  BY <1>6
<1>. QED  BY <1>5, <1>7

\* Rows are finitely many, so a set of them has a last one.
LEMMA LastRow ==
    ASSUME NEW S \in SUBSET Rows
    PROVE  /\ IsFiniteSet(S) /\ Cardinality(S) \in Nat
           /\ S # {} => /\ last(S) \in S
                        /\ Cardinality(S \ {last(S)}) = Cardinality(S) - 1
<1>1. IsFiniteSet(S) /\ Cardinality(S) \in Nat
  BY OrderAssumption, FS_Subset, FS_CardinalityType DEF Rows
<1>2. ASSUME S # {} PROVE last(S) \in S
  <2>1. \E x \in S : \A y \in S : Ord[y] <= Ord[x]
    BY <1>1, <1>2, OrderAssumption, Highest DEF Rows
  <2>. QED  BY <2>1 DEF last
<1>. QED  BY <1>1, <1>2, FS_RemoveElement

\* What visited is worth at T, given what it is worth at smaller sets.
Visit(detect, g, T) == IF T = {} THEN {} ELSE detect[last(T)][g[T \ {last(T)}]]

LEMMA VisitFunction ==
    ASSUME NEW detect, DOMAIN detect \subseteq Rows
    PROVE  \E g : g = [T \in SUBSET DOMAIN detect |-> Visit(detect, g, T)]
<1> DEFINE S == DOMAIN detect
           Upto(n) == \E g : /\ g = [s \in SUBSET S |-> g[s]]
                             /\ \A s \in SUBSET S : Cardinality(s) <= n => g[s] = Visit(detect, g, s)
           T == {n \in Nat : Upto(n)}
<1>1. \A s \in SUBSET S : IsFiniteSet(s) /\ Cardinality(s) \in Nat
  BY LastRow
<1>2. Upto(0)
  <2> DEFINE g == [s \in SUBSET S |-> {}]
  <2>1. \A s \in SUBSET S : Cardinality(s) <= 0 => s = {}
    BY <1>1, FS_EmptySet
  <2>2. \A s \in SUBSET S : Cardinality(s) <= 0 => g[s] = Visit(detect, g, s)
    BY <2>1 DEF Visit
  <2>. QED  BY <2>2
<1>3. ASSUME NEW n \in Nat, Upto(n) PROVE Upto(n + 1)
  <2>1. PICK g : /\ g = [s \in SUBSET S |-> g[s]]
                 /\ \A s \in SUBSET S : Cardinality(s) <= n => g[s] = Visit(detect, g, s)
    BY <1>3
  <2> DEFINE h == [s \in SUBSET S |-> IF Cardinality(s) <= n THEN g[s] ELSE Visit(detect, g, s)]
  <2>2. ASSUME NEW s \in SUBSET S, Cardinality(s) <= n + 1
        PROVE  h[s] = Visit(detect, h, s)
    <3>1. h[s] = Visit(detect, g, s)
      BY <2>1
    <3>2. CASE s = {}
      BY <3>1, <3>2 DEF Visit
    <3>3. CASE s # {}
      <4>1. s \ {last(s)} \in SUBSET S /\ Cardinality(s \ {last(s)}) = Cardinality(s) - 1
        BY <3>3, LastRow
      <4>2. Cardinality(s \ {last(s)}) <= n
        BY <1>1, <2>2, <4>1
      <4>3. h[s \ {last(s)}] = g[s \ {last(s)}]
        BY <4>1, <4>2
      <4>. QED  BY <3>1, <3>3, <4>3 DEF Visit
    <3>. QED  BY <3>2, <3>3
  <2>3. h = [s \in SUBSET S |-> h[s]]
    OBVIOUS
  <2> HIDE DEF h
  <2>. QED  BY <2>2, <2>3
<1>4. Nat \subseteq T
  <2>1. 0 \in T
    BY <1>2
  <2>2. ASSUME NEW n \in Nat, n \in T PROVE n + 1 \in T
    <3>1. Upto(n)
      BY <2>2
    <3>2. n + 1 \in Nat
      OBVIOUS
    <3> HIDE DEF Upto
    <3>. QED  BY <3>1, <3>2, <1>3
  <2> HIDE DEF T
  <2>. QED  BY <2>1, <2>2, NaturalsFromZero
<1>5. Upto(Cardinality(S))
  BY <1>1, <1>4
<1>6. \A s \in SUBSET S : Cardinality(s) <= Cardinality(S)
  BY <1>1, FS_Subset
<1>7. PICK g : /\ g = [s \in SUBSET S |-> g[s]]
               /\ \A s \in SUBSET S : Cardinality(s) <= Cardinality(S) => g[s] = Visit(detect, g, s)
  BY <1>5
<1>. QED  BY <1>6, <1>7

\* A detector adds one row's groupings at a time.
LEMMA VisitsOneByOne ==
    ASSUME NEW detect, DOMAIN detect \subseteq Rows
    PROVE  \E g : /\ visited(detect) = g[DOMAIN detect]
                  /\ \A T \in SUBSET DOMAIN detect : g[T] = Visit(detect, g, T)
<1>1. visited(detect) =
          (CHOOSE g : g = [T \in SUBSET DOMAIN detect |-> Visit(detect, g, T)])[DOMAIN detect]
  BY Zenon DEF visited, Visit
<1>2. PICK g : g = CHOOSE h : h = [T \in SUBSET DOMAIN detect |-> Visit(detect, h, T)]
  OBVIOUS
<1>3. g = [T \in SUBSET DOMAIN detect |-> Visit(detect, g, T)]
  BY <1>2, VisitFunction
<1>4. visited(detect) = g[DOMAIN detect]
  BY <1>1, <1>2
<1>. QED  BY <1>3, <1>4

-----------------------------------------------------------------------------
(* Groups found by one detector are apart                                  *)

Selected(p) == p.status = "PENDING"

\* Whatever is found in T: choices, whose groups are made of rows of T and of
\* others, and the selected ones of which share no row.
Apart(r, kind, found, T, others) ==
    /\ found \in SUBSET Choice
    /\ \A p \in groups_of(r, kind, found) : p.rows \subseteq T \union others
    /\ \A p, q \in groups_of(r, kind, found) : Selected(p) /\ Selected(q) /\ p # q => p.rows \intersect q.rows = {}

\* One more anchor, whose groupings leave the selected groups alone, keeps
\* them apart: of several groupings none is selected.
LEMMA OneMoreAnchor ==
    ASSUME NEW r, NEW kind, NEW others \in SUBSET Rows, NEW T \in SUBSET (Rows \ others),
           NEW a \in Rows \ others, a \notin T,
           NEW found, Apart(r, kind, found, T, others),
           NEW G \in SUBSET SUBSET others,
           \A S \in G : S \intersect Taken(groups_of(r, kind, found)) = {}
    PROVE  Apart(r, kind, found \union {<<a, G>>}, T \union {a}, others)
<1> DEFINE more == found \union {<<a, G>>}
<1>1. more \in SUBSET Choice
  BY DEF Apart, Choice, Rows
<1>2. \A p : p \in groups_of(r, kind, more) <=> p \in groups_of(r, kind, found) \/ p \in group_for(r, kind, a, G)
  <2>1. \A X, p : p \in groups_of(r, kind, X) <=> \E c \in X : p \in group_for(r, kind, c[1], c[2])
    BY DEF groups_of
  <2>2. <<a, G>>[1] = a /\ <<a, G>>[2] = G
    OBVIOUS
  <2>3. \A c : c \in more <=> c \in found \/ c = <<a, G>>
    OBVIOUS
  <2> HIDE DEF more
  <2>4. ASSUME NEW p
        PROVE  (\E c \in more : p \in group_for(r, kind, c[1], c[2]))
                   <=> (\E c \in found : p \in group_for(r, kind, c[1], c[2])) \/ p \in group_for(r, kind, a, G)
    BY <2>2, <2>3
  <2>. QED  BY <2>1, <2>4
<1>3. ASSUME NEW p \in group_for(r, kind, a, G)
      PROVE  \E S \in G : /\ p.rows = S \union {a}
                          /\ p = [run |-> r, kind |-> kind, rows |-> S \union {a}, tier |-> "group",
                                  status |-> IF Cardinality(G) = 1 THEN "PENDING" ELSE "AMBIGUOUS"]
  BY <1>3 DEF group_for
<1>4. \A p \in groups_of(r, kind, more) : p.rows \subseteq (T \union {a}) \union others
  BY <1>2, <1>3 DEF Apart
<1>5. ASSUME NEW p \in group_for(r, kind, a, G), NEW q \in groups_of(r, kind, found), Selected(p), Selected(q)
      PROVE  p.rows \intersect q.rows = {}
  <2>1. PICK S \in G : p.rows = S \union {a}
    BY <1>3, <1>5
  <2>2. q.rows \subseteq Taken(groups_of(r, kind, found)) /\ q.rows \subseteq T \union others
    BY <1>5 DEF Taken, Apart, Selected
  <2>. QED  BY <2>1, <2>2
<1>6. ASSUME NEW p \in group_for(r, kind, a, G), NEW q \in group_for(r, kind, a, G), Selected(p)
      PROVE  p = q
  <2>1. Cardinality(G) = 1
    BY <1>3, <1>6 DEF Selected
  <2>2. IsFiniteSet(G)
    <3>1. IsFiniteSet(SUBSET others)
      BY LastRow, FS_SUBSET
    <3>. QED  BY <3>1, FS_Subset
  <2>3. \E S : G = {S}
    BY <2>1, <2>2, FS_Singleton
  <2>. QED  BY <1>3, <2>3
<1>7. \A p, q \in groups_of(r, kind, more) : Selected(p) /\ Selected(q) /\ p # q => p.rows \intersect q.rows = {}
  BY <1>2, <1>5, <1>6 DEF Apart
<1>. QED  BY <1>1, <1>4, <1>7 DEF Apart

\* For each row, a detector finds nothing or groupings of rows not yet taken.
Finds(r, kind, others, a, found, after) ==
    \/ after = found
    \/ \E G \in SUBSET SUBSET others :
          /\ after = found \union {<<a, G>>}
          /\ \A S \in G : S \intersect Taken(groups_of(r, kind, found)) = {}

\* So it keeps all its selected groups apart.
LEMMA VisitedAreApart ==
    ASSUME NEW r, NEW kind, NEW others \in SUBSET Rows, NEW detect, DOMAIN detect \in SUBSET (Rows \ others),
           \A a \in DOMAIN detect, found \in SUBSET Choice : Finds(r, kind, others, a, found, detect[a][found])
    PROVE  Apart(r, kind, visited(detect), DOMAIN detect, others)
<1> DEFINE A == DOMAIN detect
<1>1. PICK g : visited(detect) = g[A] /\ \A T \in SUBSET A : g[T] = Visit(detect, g, T)
  BY VisitsOneByOne
<1> DEFINE Good(n) == \A T \in SUBSET A : Cardinality(T) = n => Apart(r, kind, g[T], T, others)
           N == {n \in Nat : Good(n)}
<1>2. Good(0)
  <2> SUFFICES ASSUME NEW T \in SUBSET A, Cardinality(T) = 0
               PROVE  Apart(r, kind, g[T], T, others)
    OBVIOUS
  <2>1. T = {}
    BY LastRow, FS_EmptySet
  <2>2. g[T] = {}
    BY <1>1, <2>1 DEF Visit
  <2>3. groups_of(r, kind, {}) = {}
    BY DEF groups_of
  <2>. QED  BY <2>2, <2>3 DEF Apart
<1>3. ASSUME NEW n \in Nat, Good(n) PROVE Good(n + 1)
  <2> SUFFICES ASSUME NEW T \in SUBSET A, Cardinality(T) = n + 1
               PROVE  Apart(r, kind, g[T], T, others)
    OBVIOUS
  <2>1. T # {}
    BY FS_EmptySet, n + 1 # 0
  <2> DEFINE a == last(T)
             U == T \ {a}
  <2>2. a \in T /\ U \in SUBSET A /\ Cardinality(U) = n
    BY <2>1, LastRow
  <2>3. Apart(r, kind, g[U], U, others)
    BY <1>3, <2>2
  <2>4. g[T] = detect[a][g[U]]
    BY <1>1, <2>1 DEF Visit
  <2>5. T = U \union {a} /\ a \notin U /\ a \in Rows \ others /\ U \in SUBSET (Rows \ others)
    BY <2>2
  <2>6. g[U] \in SUBSET Choice
    BY <2>3 DEF Apart
  <2> HIDE DEF a, U
  <2>7. Finds(r, kind, others, a, g[U], g[T])
    BY <2>2, <2>4, <2>6
  <2>8. CASE g[T] = g[U]
    BY <2>3, <2>5, <2>8 DEF Apart
  <2>9. CASE g[T] # g[U]
    <3>1. PICK G \in SUBSET SUBSET others : /\ g[T] = g[U] \union {<<a, G>>}
                                            /\ \A S \in G : S \intersect Taken(groups_of(r, kind, g[U])) = {}
      BY <2>7, <2>9 DEF Finds
    <3>2. Apart(r, kind, g[U] \union {<<a, G>>}, U \union {a}, others)
      BY <2>3, <2>5, <3>1, OneMoreAnchor
    <3>. QED  BY <2>5, <3>1, <3>2
  <2>. QED  BY <2>8, <2>9
<1>4. Nat \subseteq N
  <2>1. 0 \in N
    BY <1>2
  <2>2. ASSUME NEW n \in Nat, n \in N PROVE n + 1 \in N
    <3>1. Good(n)
      BY <2>2
    <3>2. n + 1 \in Nat
      OBVIOUS
    <3> HIDE DEF Good
    <3>. QED  BY <3>1, <3>2, <1>3
  <2> HIDE DEF N
  <2>. QED  BY <2>1, <2>2, NaturalsFromZero
<1>5. Good(Cardinality(A))
  BY <1>4, LastRow
<1>. QED  BY <1>1, <1>5

\* The groupings of a candidate set are parts of it.
LEMMA GroupingsArePart ==
    ASSUME NEW cands, NEW target, NEW S \in find_summing_grouping(cands, target)
    PROVE  S \subseteq cands
BY DEF find_summing_grouping

\* One-to-many: bank rows as anchors, ledger rows not excluded.
LEMMA OneToManyApart ==
    ASSUME NEW r, NEW unmatched \in SUBSET BankRows, NEW excluded
    PROVE  Apart(r, "ONE_TO_MANY", choices_one_to_many(r, unmatched, excluded), unmatched, LedgerRows \ excluded)
<1> DEFINE taken(found) == Taken(groups_of(r, "ONE_TO_MANY", found))
           cands(b, found) == limit({l \in LedgerRows \ (excluded \union taken(found)) :
                                 /\ <<b, l>> \in Compatible /\ Near(b, l)
                                 /\ Refs[b] \intersect Refs[l] # {}})
           next(b, found) == IF Cardinality(cands(b, found)) < 2 THEN found
                             ELSE found \union {<<b, find_summing_grouping(cands(b, found), Amount[b])>>}
           detect == [b \in unmatched |-> [found \in SUBSET Choice |-> next(b, found)]]
<1>1. choices_one_to_many(r, unmatched, excluded) = visited(detect)
  BY DEF choices_one_to_many
<1>2. \A b, found : cands(b, found) \subseteq LedgerRows \ (excluded \union taken(found))
  BY DEF limit
<1> HIDE DEF cands
<1>3. ASSUME NEW b \in unmatched, NEW found \in SUBSET Choice
      PROVE  Finds(r, "ONE_TO_MANY", LedgerRows \ excluded, b, found, detect[b][found])
  <2>1. detect[b][found] = next(b, found)
    OBVIOUS
  <2> DEFINE G == find_summing_grouping(cands(b, found), Amount[b])
  <2>2. \A S \in G : S \subseteq LedgerRows \ (excluded \union taken(found))
    BY <1>2, GroupingsArePart
  <2>3. G \in SUBSET SUBSET (LedgerRows \ excluded) /\ \A S \in G : S \intersect taken(found) = {}
    BY <2>2
  <2> HIDE DEF G
  <2>. QED  BY <2>1, <2>3 DEF G, Finds
<1>4. DOMAIN detect = unmatched
  OBVIOUS
<1>5. unmatched \in SUBSET (Rows \ (LedgerRows \ excluded)) /\ (LedgerRows \ excluded) \in SUBSET Rows
  BY RowAssumption DEF Rows
<1> HIDE DEF detect
<1>6. \A b \in DOMAIN detect, found \in SUBSET Choice :
          Finds(r, "ONE_TO_MANY", LedgerRows \ excluded, b, found, detect[b][found])
  BY <1>3, <1>4
<1>7. Apart(r, "ONE_TO_MANY", visited(detect), DOMAIN detect, LedgerRows \ excluded)
  BY <1>4, <1>5, <1>6, VisitedAreApart
<1>. QED  BY <1>1, <1>4, <1>7

\* Many-to-one: ledger rows not excluded as anchors, bank rows not excluded.
LEMMA ManyToOneApart ==
    ASSUME NEW r, NEW inScope, NEW known \in SUBSET BankRows, NEW ledgers \in SUBSET LedgerRows, NEW excluded
    PROVE  Apart(r, "MANY_TO_ONE", choices_many_to_one(r, inScope, known, ledgers, excluded),
                 {l \in ledgers \ excluded : Refs[l] \intersect shared_refs(inScope) # {}}, known \ excluded)
<1> DEFINE anchors == {l \in ledgers \ excluded : Refs[l] \intersect shared_refs(inScope) # {}}
           taken(found) == Taken(groups_of(r, "MANY_TO_ONE", found))
           cands(l, found) == limit({b \in known \ (excluded \union taken(found)) :
                                 /\ <<b, l>> \in Compatible /\ Near(b, l)
                                 /\ Refs[b] \intersect Refs[l] # {}})
           next(l, found) == IF Cardinality(cands(l, found)) < 2 THEN found
                             ELSE found \union {<<l, find_summing_grouping(cands(l, found), Amount[l])>>}
           detect == [l \in anchors |-> [found \in SUBSET Choice |-> next(l, found)]]
<1>1. choices_many_to_one(r, inScope, known, ledgers, excluded) = visited(detect)
  BY DEF choices_many_to_one
<1>2. \A l, found : cands(l, found) \subseteq known \ (excluded \union taken(found))
  BY DEF limit
<1> HIDE DEF cands
<1>3. ASSUME NEW l \in anchors, NEW found \in SUBSET Choice
      PROVE  Finds(r, "MANY_TO_ONE", known \ excluded, l, found, detect[l][found])
  <2>1. detect[l][found] = next(l, found)
    OBVIOUS
  <2> DEFINE G == find_summing_grouping(cands(l, found), Amount[l])
  <2>2. \A S \in G : S \subseteq known \ (excluded \union taken(found))
    BY <1>2, GroupingsArePart
  <2>3. G \in SUBSET SUBSET (known \ excluded) /\ \A S \in G : S \intersect taken(found) = {}
    BY <2>2
  <2> HIDE DEF G
  <2>. QED  BY <2>1, <2>3 DEF G, Finds
<1>4. DOMAIN detect = anchors
  OBVIOUS
<1>5. anchors \in SUBSET (Rows \ (known \ excluded)) /\ (known \ excluded) \in SUBSET Rows
  BY RowAssumption DEF Rows
<1> HIDE DEF detect
<1>6. \A l \in DOMAIN detect, found \in SUBSET Choice :
          Finds(r, "MANY_TO_ONE", known \ excluded, l, found, detect[l][found])
  BY <1>3, <1>4
<1>7. Apart(r, "MANY_TO_ONE", visited(detect), DOMAIN detect, known \ excluded)
  BY <1>4, <1>5, <1>6, VisitedAreApart
<1>. QED  BY <1>1, <1>4, <1>7

\* Cross-currency: one ledger row, in whatever order the query lists them.
LEMMA FxApart ==
    ASSUME NEW r, NEW unmatched \in SUBSET BankRows, NEW excluded,
           NEW rank, \A x \in Rows : rank[x] \in Int
    PROVE  Apart(r, "FX_MATCH", choices_fx(r, unmatched, excluded, rank), unmatched, LedgerRows \ excluded)
<1> DEFINE taken(found) == Taken(groups_of(r, "FX_MATCH", found))
           cands(b, found) == {l \in LedgerRows \ (excluded \union taken(found)) : <<b, l>> \in FxMatches /\ Near(b, l)}
           first(b, found) == CHOOSE l \in cands(b, found) : \A m \in cands(b, found) : rank[l] <= rank[m]
           next(b, found) == IF cands(b, found) = {} THEN found
                             ELSE found \union {<<b, {{first(b, found)}}>>}
           detect == [b \in unmatched |-> [found \in SUBSET Choice |-> next(b, found)]]
<1>1. choices_fx(r, unmatched, excluded, rank) = visited(detect)
  BY DEF choices_fx
<1>2. \A b, found : cands(b, found) \subseteq LedgerRows \ (excluded \union taken(found))
  OBVIOUS
<1> HIDE DEF cands
<1>3. ASSUME NEW b, NEW found, cands(b, found) # {}
      PROVE  first(b, found) \in cands(b, found)
  <2> DEFINE key == [x \in Rows |-> 0 - rank[x]]
             S == cands(b, found)
  <2>1. S \in SUBSET Rows
    BY <1>2 DEF Rows
  <2>2. IsFiniteSet(S)
    BY <2>1, LastRow
  <2>3. \A x \in S : rank[x] \in Int
    BY <2>1
  <2>4. \A x \in S : key[x] = 0 - rank[x]
    BY <2>1
  <2>5. \A x \in S : key[x] \in Int
    BY <2>3, <2>4
  <2> HIDE DEF key
  <2>6. \E x \in S : \A y \in S : key[y] <= key[x]
    BY <1>3, <2>2, <2>5, Highest
  <2>7. \E x \in S : \A y \in S : rank[x] <= rank[y]
    BY <2>3, <2>4, <2>6
  <2>. QED  BY <2>7
<1> HIDE DEF first
<1>4. ASSUME NEW b \in unmatched, NEW found \in SUBSET Choice
      PROVE  Finds(r, "FX_MATCH", LedgerRows \ excluded, b, found, detect[b][found])
  <2>1. detect[b][found] = next(b, found)
    OBVIOUS
  <2>2. CASE cands(b, found) = {}
    BY <2>1, <2>2 DEF Finds
  <2>3. CASE cands(b, found) # {}
    <3> DEFINE G == {{first(b, found)}}
    <3>1. first(b, found) \in LedgerRows \ (excluded \union taken(found))
      BY <1>2, <1>3, <2>3
    <3>2. G \in SUBSET SUBSET (LedgerRows \ excluded) /\ \A S \in G : S \intersect taken(found) = {}
      BY <3>1
    <3>3. detect[b][found] = found \union {<<b, G>>}
      BY <2>1, <2>3
    <3> HIDE DEF G, detect
    <3>. QED  BY <3>2, <3>3 DEF Finds
  <2>. QED  BY <2>2, <2>3
<1>5. DOMAIN detect = unmatched
  OBVIOUS
<1>6. unmatched \in SUBSET (Rows \ (LedgerRows \ excluded)) /\ (LedgerRows \ excluded) \in SUBSET Rows
  BY RowAssumption DEF Rows
<1> HIDE DEF detect
<1>7. \A b \in DOMAIN detect, found \in SUBSET Choice :
          Finds(r, "FX_MATCH", LedgerRows \ excluded, b, found, detect[b][found])
  BY <1>4, <1>5
<1>8. Apart(r, "FX_MATCH", visited(detect), DOMAIN detect, LedgerRows \ excluded)
  BY <1>5, <1>6, <1>7, VisitedAreApart
<1>. QED  BY <1>1, <1>5, <1>8

-----------------------------------------------------------------------------
(* What is stored is typed                                                 *)

LEMMA SuggestedTyped ==
    ASSUME NEW r \in Runs, NEW b \in BankRows, NEW excluded
    PROVE  run_matching_for_bank_transaction(r, b, excluded) \subseteq Proposal
<1> DEFINE top == tied(b, excluded)
           suggestion(l) == [run |-> r, kind |-> "ONE_TO_ONE", rows |-> {b, l},
                             tier |-> IF Cardinality(top) > 1 THEN "tie" ELSE Tier(b, l), status |-> "PENDING"]
<1>1. top \subseteq LedgerRows
  BY DEF tied, scored, generate_candidates
<1>2. ASSUME NEW l \in top PROVE suggestion(l) \in Proposal
  <2>1. {b, l} \in SUBSET Rows
    BY <1>1 DEF Rows
  <2>2. (IF Cardinality(top) > 1 THEN "tie" ELSE Tier(b, l)) \in {"auto", "review", "tie"}
    BY DEF Tier
  <2> HIDE DEF top
  <2>. QED  BY <2>1, <2>2 DEF Proposal
<1>3. [run |-> r, kind |-> "ONE_TO_ONE", rows |-> {b}, tier |-> "none", status |-> "PENDING"] \in Proposal
  BY DEF Proposal, Rows
<1>4. \A p \in run_matching_for_bank_transaction(r, b, excluded) :
          \/ p = [run |-> r, kind |-> "ONE_TO_ONE", rows |-> {b}, tier |-> "none", status |-> "PENDING"]
          \/ \E l \in top : p = suggestion(l)
  BY DEF run_matching_for_bank_transaction
<1> HIDE DEF suggestion, top
<1>. QED  BY <1>2, <1>3, <1>4

LEMMA GroupsTyped ==
    ASSUME NEW r \in Runs, NEW kind \in {"ONE_TO_MANY", "MANY_TO_ONE", "FX_MATCH"}, NEW choices,
           NEW T \in SUBSET Rows, NEW others \in SUBSET Rows, Apart(r, kind, choices, T, others)
    PROVE  groups_of(r, kind, choices) \subseteq Proposal
<1> SUFFICES ASSUME NEW p \in groups_of(r, kind, choices) PROVE p \in Proposal
  OBVIOUS
<1>1. PICK c \in choices : p \in group_for(r, kind, c[1], c[2])
  BY DEF groups_of
<1>2. PICK S : p = [run |-> r, kind |-> kind, rows |-> S \union {c[1]}, tier |-> "group",
                    status |-> IF Cardinality(c[2]) = 1 THEN "PENDING" ELSE "AMBIGUOUS"]
  BY <1>1 DEF group_for
<1>3. p.rows \in SUBSET Rows /\ p.rows = S \union {c[1]}
  BY <1>2 DEF Apart
<1>. QED  BY <1>2, <1>3 DEF Proposal

LEMMA DerivedTyped ==
    ASSUME NEW ps \in SUBSET Proposal, NEW view, NEW r \in Runs,
           NEW i \in Derivation(ps)!derive_open_item_specs(view, r)
    PROVE  i.run \in Runs /\ i.rows \subseteq Rows
<1>0. \A p \in ps : p.rows \subseteq Rows
  BY DEF Proposal
<1>1. i.run = r
  BY DerivedForRun
<1>2. ASSUME i \in Derivation(ps)!AmbiguousItems(view, r) PROVE i.rows \subseteq Rows
  <2>1. PICK g \in Derivation(ps)!Groups :
            i = [run |-> r, category |-> "AMBIGUOUS_GROUP", rows |-> Derivation(ps)!Anchor(r, g)]
    BY <1>2, Zenon DEF Derivation!AmbiguousItems
  <2>2. g \in ps
    BY <2>1 DEF Derivation!Groups
  <2>3. Derivation(ps)!Anchor(r, g) \subseteq Rows
    BY <1>0, <2>2 DEF Derivation!Anchor
  <2>4. i.rows = Derivation(ps)!Anchor(r, g)
    BY <2>1
  <2>. QED  BY <2>3, <2>4
<1>3. ASSUME i \in Derivation(ps)!BankOnlyItems(view, r) \union Derivation(ps)!AmbiguousMatchItems(view, r)
      PROVE  i.rows \subseteq Rows
  BY <1>3 DEF Derivation!BankOnlyItems, Derivation!AmbiguousMatchItems, Derivation!OpenBankRows, Rows
<1>4. ASSUME i \in Derivation(ps)!ReviewItems(view, r) PROVE i.rows \subseteq Rows
  BY <1>0, <1>4 DEF Derivation!ReviewItems
<1>5. ASSUME i \in Derivation(ps)!LedgerItems(view, r) PROVE i.rows \subseteq Rows
  <2>1. PICK l \in LedgerRows : i = [run |-> r, category |-> "LEDGER_ONLY", rows |-> {l}]
    BY <1>5, Zenon DEF Derivation!LedgerItems
  <2>. QED  BY <2>1 DEF Rows
<1>. QED  BY <1>1, <1>2, <1>3, <1>4, <1>5 DEF Derivation!derive_open_item_specs, Derivation!BankItems

-----------------------------------------------------------------------------
(* Groups are apart                                                        *)

\* New groups of a pass that leave its earlier ones, and what it may not
\* take, alone.
Fresh(h, groups) ==
    /\ groups \subseteq Proposal
    /\ \A p \in groups : ~IsSuggestion(p)
    /\ \A p \in {g \in groups : IsMatchGroup(g)} :
          /\ p.rows \intersect base[h] = {}
          /\ \A q \in flushed[h] :
                /\ IsSuggestion(q) => p.rows \intersect q.rows \intersect LedgerRows = {}
                /\ IsMatchGroup(q) => p.rows \intersect q.rows = {}
          /\ \A q \in groups : IsMatchGroup(q) /\ p # q => p.rows \intersect q.rows = {}

\* Anchors and other rows that neither are taken nor may be.
Available(h, T, others) ==
    /\ T \in SUBSET Rows /\ others \in SUBSET Rows
    /\ T \intersect (base[h] \union Grouped(h)) = {}
    /\ T \intersect LedgerRows \intersect Excluded(h) = {}
    /\ others \intersect Excluded(h) = {}

\* What a pass excludes is what other groups hold, what it has grouped and
\* what it has suggested.
LEMMA ApartIsFresh ==
    ASSUME IndInv, NEW h \in Handlers, phase[h] \in Executing, job[h] \in Runs,
           NEW kind \in {"ONE_TO_MANY", "MANY_TO_ONE", "FX_MATCH"}, NEW choices,
           NEW T, NEW others, Available(h, T, others), Apart(job[h], kind, choices, T, others)
    PROVE  Fresh(h, IfAdvanced(h, groups_of(job[h], kind, choices)))
<1> DEFINE groups == groups_of(job[h], kind, choices)
<1> USE DEF Available
<1>1. groups \subseteq Proposal
  BY GroupsTyped
<1>2. \A p \in groups : ~IsSuggestion(p)
  BY Grouping
<1>3. \A q \in flushed[h] : q.run = job[h]
  BY DEF IndInv, HandlerInv, SessionIsOwn, Session
<1>4. ASSUME NEW p \in groups, IsMatchGroup(p), NEW q \in flushed[h], IsSuggestion(q)
      PROVE  p.rows \intersect q.rows \intersect LedgerRows = {}
  <2>1. q.rows \intersect LedgerRows \subseteq Excluded(h)
    BY <1>4 DEF Excluded, already_claimed, Seen
  <2>2. p.rows \subseteq T \union others
    BY DEF Apart
  <2>. QED  BY <2>1, <2>2
<1>5. ASSUME NEW p \in groups, NEW q \in flushed[h], IsMatchGroup(q)
      PROVE  p.rows \intersect q.rows = {}
  <2>1. q.rows \subseteq Grouped(h) /\ Grouped(h) \subseteq Excluded(h)
    BY <1>3, <1>5 DEF Grouped, Excluded, Taken, Own, IsMatchGroup
  <2>2. p.rows \subseteq T \union others
    BY DEF Apart
  <2>. QED  BY <2>1, <2>2
<1>6. ASSUME NEW p \in groups PROVE p.rows \intersect base[h] = {}
  BY DEF Apart, Excluded
<1>7. ASSUME NEW p \in groups, NEW q \in groups, IsMatchGroup(p), IsMatchGroup(q), p # q
      PROVE  p.rows \intersect q.rows = {}
  BY <1>7 DEF Apart, Selected, IsMatchGroup
<1> HIDE DEF groups
<1>8. Fresh(h, groups) /\ Fresh(h, {})
  BY <1>1, <1>2, <1>4, <1>5, <1>6, <1>7 DEF Fresh
<1>. QED  BY <1>8 DEF groups, IfAdvanced

\* The rows a pass has left unmatched are bank rows.
LEMMA UnmatchedAreBank ==
    ASSUME IndInv, TypeOK, NEW h \in Handlers
    PROVE  Unmatched(h) \subseteq BankRows /\ Unmatched(h) \intersect base[h] = {}
<1> SUFFICES ASSUME NEW p \in Own(h), p.tier = "none" PROVE p.rows \subseteq BankRows
  BY DEF Unmatched
<1>1. p \in flushed[h] /\ Formed(p) /\ p \in Proposal
  BY DEF Own, IndInv, HandlerInv, AllFormed, Session, TypeOK
<1>2. p.rows \subseteq Rows /\ p.rows \intersect LedgerRows = {}
  BY <1>1 DEF Formed, Proposal
<1>. QED  BY <1>2 DEF Rows

LEMMA Detected ==
    ASSUME IndInv, TypeOK, NEW h \in Handlers, GroupsAreApart(h),
           OneToMany(h) \/ ManyToOne(h) \/ Transfers(h) \/ Fx(h)
    PROVE  \E groups, next : /\ AddGroups(h, groups, next) /\ Fresh(h, groups)
                             /\ phase[h] \in Executing \ {"match", "commit"}
                             /\ next \in Executing \ {"match", "one_to_many"}
<1>0. phase[h] \in Executing \ {"match", "commit"}
  BY DEF OneToMany, ManyToOne, Transfers, Fx, Executing
<1>1. job[h] \in Runs
  BY <1>0 DEF TypeOK, Executing
<1>2. imported \subseteq BankRows
  BY DEF TypeOK
<1>3. CASE OneToMany(h)
  <2> DEFINE found == choices_one_to_many(job[h], Unmatched(h), Excluded(h))
             groups == IfAdvanced(h, groups_of(job[h], "ONE_TO_MANY", found))
  <2>1. Apart(job[h], "ONE_TO_MANY", found, Unmatched(h), LedgerRows \ Excluded(h))
    BY UnmatchedAreBank, OneToManyApart
  <2>2. Grouped(h) = {}
    <3>1. \A p \in Own(h) : p.kind = "ONE_TO_ONE"
      BY <1>3 DEF OneToMany, GroupsAreApart, Own, IsSuggestion
    <3>. QED  BY <3>1 DEF Grouped, Taken
  <2>3. Available(h, Unmatched(h), LedgerRows \ Excluded(h))
    BY <2>2, UnmatchedAreBank, RowAssumption DEF Rows, Available
  <2> HIDE DEF found
  <2>4. Fresh(h, groups)
    BY <1>0, <1>1, <2>1, <2>3, ApartIsFresh
  <2>5. AddGroups(h, groups, "many_to_one")
    BY <1>3 DEF OneToMany, detect_one_to_many, found
  <2> HIDE DEF groups
  <2>. QED  BY <1>0, <2>4, <2>5 DEF Executing
<1>4. CASE ManyToOne(h)
  <2> DEFINE found == choices_many_to_one(job[h], Statement(job[h]), imported, LedgerWindow(job[h]), Excluded(h))
             groups == IfAdvanced(h, groups_of(job[h], "MANY_TO_ONE", found))
             anchors == {l \in LedgerWindow(job[h]) \ Excluded(h) :
                             Refs[l] \intersect shared_refs(Statement(job[h])) # {}}
  <2>1. LedgerWindow(job[h]) \subseteq LedgerRows
    BY DEF LedgerWindow
  <2>2. Apart(job[h], "MANY_TO_ONE", found, anchors, imported \ Excluded(h))
    BY <1>2, <2>1, ManyToOneApart
  <2>3. Available(h, anchors, imported \ Excluded(h))
    <3>1. base[h] \union Grouped(h) \subseteq Excluded(h)
      BY DEF Excluded
    <3>. QED  BY <1>2, <2>1, <3>1 DEF Rows, Available
  <2> HIDE DEF found, anchors
  <2>4. Fresh(h, groups)
    BY <1>0, <1>1, <2>2, <2>3, ApartIsFresh
  <2>5. AddGroups(h, groups, "transfers")
    BY <1>4 DEF ManyToOne, detect_many_to_one, found
  <2> HIDE DEF groups
  <2>. QED  BY <1>0, <2>4, <2>5 DEF Executing
<1>5. CASE Transfers(h)
  <2> DEFINE groups == detect_internal_transfers(job[h], already_claimed(Own(h)))
  <2>1. \A p \in groups : \E q \in TransferPair :
            p = [run |-> job[h], kind |-> "INTERNAL_TRANSFER", rows |-> q, tier |-> "group", status |-> "PENDING"]
    BY DEF detect_internal_transfers
  <2>2. \A p \in groups : p \in Proposal /\ ~IsSuggestion(p) /\ ~IsMatchGroup(p)
    BY <1>1, <2>1, PairAssumption DEF Proposal, Rows, IsSuggestion, IsMatchGroup
  <2>3. AddGroups(h, groups, "fx")
    BY <1>5 DEF Transfers
  <2> HIDE DEF groups
  <2>4. Fresh(h, groups)
    BY <2>2 DEF Fresh
  <2>. QED  BY <1>0, <2>3, <2>4 DEF Executing
<1>6. CASE Fx(h)
  <2> DEFINE left == Unmatched(h) \ Grouped(h)
             found(rank) == choices_fx(job[h], left, Excluded(h), rank)
             groups(rank) == IfAdvanced(h, groups_of(job[h], "FX_MATCH", found(rank)))
  <2>1. PICK rank \in {Ord, [x \in Rows |-> 0 - Ord[x]]} : AddGroups(h, groups(rank), "sync")
    BY <1>6 DEF Fx, detect_fx_matches
  <2>2. \A x \in Rows : rank[x] \in Int
    BY OrderAssumption DEF Rows
  <2>3. left \in SUBSET BankRows
    BY UnmatchedAreBank
  <2>4. Apart(job[h], "FX_MATCH", found(rank), left, LedgerRows \ Excluded(h))
    BY <2>2, <2>3, FxApart
  <2>5. Available(h, left, LedgerRows \ Excluded(h))
    BY <2>3, UnmatchedAreBank, RowAssumption DEF Rows, Available
  <2> HIDE DEF found, left
  <2>6. Fresh(h, groups(rank))
    BY <1>0, <1>1, <2>4, <2>5, ApartIsFresh
  <2> HIDE DEF groups
  <2>. QED  BY <1>0, <2>1, <2>6 DEF Executing
<1>. QED  BY <1>3, <1>4, <1>5, <1>6

\* What the groups' part of the invariant says of a handler depends on its own
\* variables and on the committed groups of its scope.
LEMMA OthersStayApart ==
    ASSUME NEW g \in Handlers, GroupsAreApart(g), Untouched(g), base'[g] = base[g],
           \A p \in proposals' \ proposals : phase[g] \in Executing => Period[p.run] # Period[job[g]]
    PROVE  GroupsAreApart(g)'
BY DEF GroupsAreApart, Untouched, IsSuggestion, IsMatchGroup

\* A step in which one handler moves on within its pass.
LEMMA OneMovesApart ==
    ASSUME GroupsInv, IndInv', NEW h \in Handlers, UNCHANGED db,
           \A g \in Handlers \ {h} : Untouched(g) /\ base'[g] = base[g],
           \A i \in specs'[h] : i.run \in Runs /\ i.rows \subseteq Rows,
           flushed'[h] \union added'[h] \subseteq Proposal,
           GroupsAreApart(h)'
    PROVE  GroupsInv'
<1>1. \A g \in Handlers : GroupsAreApart(g)'
  BY OthersStayApart DEF GroupsInv, db
<1>2. TypeOK'
  <2>1. \A g \in Handlers : flushed'[g] \union added'[g] \subseteq Proposal
    BY DEF Untouched, GroupsInv, TypeOK
  <2>2. \A g \in Handlers : \A i \in specs'[g] : i.run \in Runs /\ i.rows \subseteq Rows
    BY DEF Untouched, GroupsInv, TypeOK
  <2>3. \A g \in Handlers : phase'[g] # "idle" => job'[g] \in Runs
    BY DEF IndInv, HandlerInv, SessionIsOwn
  <2>. QED  BY <2>1, <2>2, <2>3 DEF GroupsInv, TypeOK, IndInv, HandlersAreTyped, db
<1>3. SelectedGroupsDisjoint' /\ GroupsLeaveMatchedLedgerRows'
  BY DEF GroupsInv, SelectedGroupsDisjoint, GroupsLeaveMatchedLedgerRows, db, IsMatchGroup, IsSuggestion
<1>. QED  BY <1>1, <1>2, <1>3 DEF GroupsInv

LEMMA StartsApart ==
    ASSUME GroupsInv, IndInv', NEW h \in Handlers,
           (\E r \in Runs : Execute(h, r)) \/ StartMatching(h)
    PROVE  GroupsInv'
<1>1. HandlersAreTyped /\ SessionIsOwn(h) /\ phase[h] \notin Executing
  BY DEF GroupsInv, IndInv, HandlerInv, Execute, StartMatching, Executing
<1>2. /\ phase'[h] \in {"scope", "match"} /\ UNCHANGED <<db, flushed, added, base, specs>>
      /\ \A g \in Handlers \ {h} : Untouched(g)
  BY <1>1 DEF HandlersAreTyped, Execute, StartMatching, session, Untouched
<1>3. flushed[h] = {} /\ specs[h] = {} /\ added[h] = {}
  BY <1>1 DEF SessionIsOwn, Session, Executing
<1>4. GroupsAreApart(h)'
  BY <1>2, <1>3 DEF GroupsAreApart, Executing
<1>. QED  BY <1>2, <1>3, <1>4, OneMovesApart

LEMMA MatchBankRowApart ==
    ASSUME GroupsInv, IndInv', NEW h \in Handlers, MatchBankRow(h)
    PROVE  GroupsInv'
<1>1. PICK b \in todo[h] :
          /\ phase[h] = "match" /\ UNCHANGED <<db, phase, job, flushed, base, specs>>
          /\ added' = [added EXCEPT ![h] = @ \union run_matching_for_bank_transaction(job[h], b, claimed[h])]
          /\ claimed' = [claimed EXCEPT ![h] = @ \union newly_claimed(h, b)]
          /\ UNCHANGED eligible
  BY DEF MatchBankRow
<1>2. HandlersAreTyped /\ TypeOK
  BY DEF GroupsInv, IndInv
<1>3. \A g \in Handlers \ {h} : Untouched(g)
  BY <1>1, <1>2 DEF HandlersAreTyped, Untouched
<1>4. b \in BankRows /\ job[h] \in Runs
  BY <1>1, <1>2 DEF HandlersAreTyped, TypeOK
<1>5. added'[h] \subseteq Proposal
  BY <1>1, <1>2, <1>4, SuggestedTyped DEF HandlersAreTyped, TypeOK
<1>6. GroupsAreApart(h)'
  BY <1>1 DEF GroupsInv, GroupsAreApart
<1>7. \A i \in specs'[h] : i.run \in Runs /\ i.rows \subseteq Rows
  BY <1>1, <1>2 DEF TypeOK
<1>8. flushed'[h] \union added'[h] \subseteq Proposal
  BY <1>1, <1>2, <1>5 DEF TypeOK
<1>. QED  BY <1>1, <1>3, <1>6, <1>7, <1>8, OneMovesApart

LEMMA FlushApart ==
    ASSUME GroupsInv, IndInv', NEW h \in Handlers, FlushSuggestions(h)
    PROVE  GroupsInv'
<1>1. HandlersAreTyped /\ TypeOK /\ SessionIsOwn(h) /\ GroupsAreApart(h)
  BY DEF GroupsInv, IndInv, HandlerInv
<1>2. /\ phase[h] = "match" /\ phase'[h] = "one_to_many" /\ UNCHANGED <<db, job, specs>>
      /\ flushed'[h] = added[h] /\ added'[h] = {} /\ base'[h] = claimed_by_groups(proposals)
  BY <1>1 DEF HandlersAreTyped, FlushSuggestions, GroupsAreApart
<1>3. \A g \in Handlers \ {h} : Untouched(g) /\ base'[g] = base[g]
  BY <1>1 DEF HandlersAreTyped, FlushSuggestions, Untouched
<1>4. \A p \in flushed'[h] : IsSuggestion(p) /\ ~IsMatchGroup(p)
  BY <1>1, <1>2 DEF SessionIsOwn, IsSuggestion, IsMatchGroup
<1>5. \A p \in proposals : IsMatchGroup(p) => p.rows \subseteq base'[h]
  BY <1>2 DEF claimed_by_groups, Taken, IsMatchGroup, IsSuggestion
<1>6. GroupsAreApart(h)'
  BY <1>2, <1>4, <1>5 DEF GroupsAreApart, Executing, db, IsMatchGroup, IsSuggestion
<1>7. flushed'[h] \union added'[h] \subseteq Proposal
  BY <1>1, <1>2 DEF TypeOK
<1>8. \A i \in specs'[h] : i.run \in Runs /\ i.rows \subseteq Rows
  BY <1>1, <1>2 DEF TypeOK
<1>. QED  BY <1>2, <1>3, <1>6, <1>7, <1>8, OneMovesApart

LEMMA DetectApart ==
    ASSUME GroupsInv, IndInv', NEW h \in Handlers, OneToMany(h) \/ ManyToOne(h) \/ Transfers(h) \/ Fx(h)
    PROVE  GroupsInv'
<1>1. IndInv /\ HandlersAreTyped /\ TypeOK /\ GroupsAreApart(h)
  BY DEF GroupsInv, IndInv
<1>2. PICK groups, next : /\ AddGroups(h, groups, next) /\ Fresh(h, groups)
                          /\ phase[h] \in Executing \ {"match", "commit"}
                          /\ next \in Executing \ {"match", "one_to_many"}
  BY <1>1, Detected
<1>3. /\ phase'[h] = next /\ flushed'[h] = flushed[h] \union groups
      /\ UNCHANGED <<db, job, added, base, specs>>
      /\ \A g \in Handlers \ {h} : Untouched(g)
  BY <1>1, <1>2 DEF HandlersAreTyped, AddGroups, Untouched
<1>4. GroupsAreApart(h)'
  <2>1. \A p \in proposals : IsMatchGroup(p) /\ Period[p.run] = Period[job[h]] => p.rows \subseteq base[h]
    BY <1>1, <1>2 DEF GroupsAreApart
  <2>2. ASSUME NEW p \in flushed[h] \union groups, IsMatchGroup(p)
        PROVE  p.rows \intersect base[h] = {}
    BY <1>1, <1>2, <2>2 DEF GroupsAreApart, Fresh
  <2>3. ASSUME NEW p \in flushed[h] \union groups, IsMatchGroup(p),
               NEW q \in flushed[h] \union groups, IsSuggestion(q)
        PROVE  p.rows \intersect q.rows \intersect LedgerRows = {}
    <3>1. q \in flushed[h]
      BY <1>2, <2>3 DEF Fresh
    <3>. QED  BY <1>1, <1>2, <2>3, <3>1 DEF GroupsAreApart, Fresh
  <2>4. ASSUME NEW p \in flushed[h] \union groups, IsMatchGroup(p),
               NEW q \in flushed[h] \union groups, IsMatchGroup(q), p # q
        PROVE  p.rows \intersect q.rows = {}
    <3>1. CASE p \in flushed[h] /\ q \in flushed[h]
      BY <1>1, <2>4, <3>1 DEF GroupsAreApart
    <3>2. CASE p \in groups
      BY <1>2, <2>4, <3>2 DEF Fresh
    <3>3. CASE p \in flushed[h] /\ q \in groups
      <4>1. q.rows \intersect p.rows = {}
        BY <1>2, <2>4, <3>3 DEF Fresh
      <4>. QED  BY <4>1
    <3>. QED  BY <3>1, <3>2, <3>3
  <2>. QED  BY <1>2, <1>3, <2>1, <2>2, <2>3, <2>4 DEF GroupsAreApart, db, IsMatchGroup, IsSuggestion
<1>5. flushed'[h] \union added'[h] \subseteq Proposal
  BY <1>1, <1>2, <1>3 DEF TypeOK, Fresh
<1>6. \A i \in specs'[h] : i.run \in Runs /\ i.rows \subseteq Rows
  BY <1>1, <1>3 DEF TypeOK
<1>. QED  BY <1>3, <1>4, <1>5, <1>6, OneMovesApart

LEMMA SyncApart ==
    ASSUME GroupsInv, IndInv', NEW h \in Handlers, SyncOpenItems(h)
    PROVE  GroupsInv'
<1>1. HandlersAreTyped /\ TypeOK /\ GroupsAreApart(h)
  BY DEF GroupsInv, IndInv
<1>2. /\ phase[h] = "sync" /\ phase'[h] = "commit" /\ UNCHANGED <<db, job, flushed, added, base>>
      /\ specs'[h] = Derivation(Seen(h))!derive_open_item_specs([p \in Seen(h) |-> p.status], job[h])
      /\ \A g \in Handlers \ {h} : Untouched(g)
  BY <1>1 DEF HandlersAreTyped, SyncOpenItems, Untouched
<1>3. GroupsAreApart(h)'
  BY <1>1, <1>2 DEF GroupsAreApart, Executing, db, IsMatchGroup, IsSuggestion
<1>4. \A i \in specs'[h] : i.run \in Runs /\ i.rows \subseteq Rows
  <2>1. Seen(h) \in SUBSET Proposal /\ job[h] \in Runs
    BY <1>1, <1>2 DEF TypeOK, Seen
  <2>. QED  BY <1>2, <2>1, DerivedTyped
<1>5. flushed'[h] \union added'[h] \subseteq Proposal
  BY <1>1, <1>2 DEF TypeOK
<1>. QED  BY <1>2, <1>3, <1>4, <1>5, OneMovesApart

\* A commit, of a whole pass or of a failed one, stores what it has kept apart.
LEMMA CommitApart ==
    ASSUME GroupsInv, IndInv', NEW h \in Handlers, Complete(h) \/ Fail(h)
    PROVE  GroupsInv'
<1>1. HandlersAreTyped /\ LocksExclude /\ TypeOK /\ SessionIsOwn(h) /\ GroupsAreApart(h) /\ NothingFromUnfinishedRuns
  BY DEF GroupsInv, IndInv, HandlerInv
<1>2. phase[h] \in Executing /\ End(h) /\ phase'[h] = "idle" /\ flushed'[h] = {}
  BY <1>1 DEF HandlersAreTyped, Complete, Fail, End, Executing
<1>3. proposals' \subseteq proposals \union Session(h) /\ items' \subseteq items \union specs[h]
  BY DEF Complete, Fail, Session
<1>4. \A g \in Handlers \ {h} : Untouched(g) /\ base'[g] = base[g]
  BY <1>1, <1>2 DEF HandlersAreTyped, End, Untouched
<1>5. \A p \in Session(h) : p.run = job[h] /\ job[h] \in Runs
  BY <1>1, <1>2 DEF SessionIsOwn, Executing
<1>6. \A p \in proposals : p.run # job[h]
  BY <1>1, <1>2 DEF SessionIsOwn, NothingFromUnfinishedRuns, Executing
<1>7. \A p \in Session(h) : IsMatchGroup(p) => p \in flushed[h] /\ phase[h] # "match"
  BY <1>1 DEF SessionIsOwn, Session, GroupsAreApart, IsSuggestion, IsMatchGroup
<1>8. \A p \in Session(h) : phase[h] # "match" => p \in flushed[h]
  BY <1>1 DEF SessionIsOwn, Session
<1>9. \A g \in Handlers : GroupsAreApart(g)'
  <2>1. GroupsAreApart(h)'
    BY <1>2 DEF GroupsAreApart, Executing
  <2>2. ASSUME NEW g \in Handlers \ {h} PROVE GroupsAreApart(g)'
    <3>1. phase[g] \in Executing => Period[job[g]] # Period[job[h]]
      BY <1>1, <1>2 DEF LocksExclude, Executing
    <3>2. \A p \in proposals' \ proposals : phase[g] \in Executing => Period[p.run] # Period[job[g]]
      BY <1>3, <1>5, <3>1
    <3>. QED  BY <1>4, <3>2, OthersStayApart DEF GroupsInv
  <2>. QED  BY <2>1, <2>2
<1>10. TypeOK'
  <2>1. \A g \in Handlers : flushed'[g] \union added'[g] \subseteq Proposal /\ specs'[g] \subseteq specs[g]
    BY <1>1, <1>2, <1>4 DEF Untouched, TypeOK, HandlersAreTyped, End
  <2>2. \A g \in Handlers : phase'[g] # "idle" => job'[g] \in Runs
    BY DEF IndInv, HandlerInv, SessionIsOwn
  <2>3. \A i \in items' \union UNION {specs'[g] : g \in Handlers} : i.run \in Runs /\ i.rows \subseteq Rows
    BY <1>1, <1>3, <2>1 DEF TypeOK
  <2>4. proposals' \subseteq Proposal
    BY <1>1, <1>3 DEF TypeOK, Session
  <2>. QED  BY <2>1, <2>2, <2>3, <2>4 DEF TypeOK, IndInv, HandlersAreTyped
<1>11. SelectedGroupsDisjoint'
  <2>1. ASSUME NEW p \in proposals, NEW q \in Session(h), IsMatchGroup(p), IsMatchGroup(q), Period[p.run] = Period[q.run]
        PROVE  p.rows \intersect q.rows = {}
    <3>1. p.rows \subseteq base[h] /\ q.rows \intersect base[h] = {}
      BY <1>1, <1>2, <1>5, <1>7, <2>1 DEF GroupsAreApart
    <3>. QED  BY <3>1
  <2>2. ASSUME NEW p \in Session(h), NEW q \in Session(h), IsMatchGroup(p), IsMatchGroup(q), p # q
        PROVE  p.rows \intersect q.rows = {}
    BY <1>1, <1>7, <2>2 DEF GroupsAreApart
  <2> SUFFICES ASSUME NEW p \in proposals', NEW q \in proposals', IsMatchGroup(p), IsMatchGroup(q), p # q,
                      Period[p.run] = Period[q.run]
               PROVE  p.rows \intersect q.rows = {}
    BY DEF SelectedGroupsDisjoint, IsMatchGroup
  <2>3. CASE p \in proposals /\ q \in proposals
    BY <2>3 DEF GroupsInv, SelectedGroupsDisjoint
  <2>4. CASE p \in Session(h) /\ q \in proposals
    <3>1. q.rows \intersect p.rows = {}
      BY <2>1, <2>4
    <3>. QED  BY <3>1
  <2>. QED  BY <1>3, <2>1, <2>2, <2>3, <2>4
<1>12. GroupsLeaveMatchedLedgerRows'
  <2> SUFFICES ASSUME NEW p \in proposals', NEW q \in proposals', IsMatchGroup(p), IsSuggestion(q), p.run = q.run
               PROVE  p.rows \intersect q.rows \intersect LedgerRows = {}
    BY DEF GroupsLeaveMatchedLedgerRows, IsMatchGroup, IsSuggestion
  <2>1. CASE p \in proposals /\ q \in proposals
    BY <2>1 DEF GroupsInv, GroupsLeaveMatchedLedgerRows
  <2>2. CASE p \in Session(h) /\ q \in Session(h)
    BY <1>1, <1>7, <1>8, <2>2 DEF GroupsAreApart
  <2>. QED  BY <1>3, <1>5, <1>6, <2>1, <2>2
<1>. QED  BY <1>9, <1>10, <1>11, <1>12 DEF GroupsInv

LEMMA CrashApart ==
    ASSUME GroupsInv, IndInv', NEW h \in Handlers, Crash(h)
    PROVE  GroupsInv'
<1>1. HandlersAreTyped
  BY DEF GroupsInv, IndInv
<1>2. /\ UNCHANGED db /\ phase'[h] = "idle" /\ flushed'[h] = {} /\ added'[h] = {} /\ specs'[h] = {}
      /\ \A g \in Handlers \ {h} : Untouched(g) /\ base'[g] = base[g]
  BY <1>1 DEF HandlersAreTyped, Crash, End, Untouched
<1>3. GroupsAreApart(h)'
  BY <1>2 DEF GroupsAreApart, Executing
<1>. QED  BY <1>2, <1>3, OneMovesApart

\* The steps between passes add no proposal and no item.
LEMMA DisposeApart ==
    ASSUME GroupsInv, IndInv', UNCHANGED <<proposals, items, phase, job, flushed, added, base, specs>>
    PROVE  GroupsInv'
<1>1. \A h \in Handlers : GroupsAreApart(h)'
  BY DEF GroupsInv, GroupsAreApart, IsMatchGroup, IsSuggestion
<1>2. TypeOK'
  BY DEF GroupsInv, TypeOK, IndInv, HandlersAreTyped
<1>3. SelectedGroupsDisjoint' /\ GroupsLeaveMatchedLedgerRows'
  BY DEF GroupsInv, SelectedGroupsDisjoint, GroupsLeaveMatchedLedgerRows, IsMatchGroup, IsSuggestion
<1>. QED  BY <1>1, <1>2, <1>3 DEF GroupsInv

LEMMA GroupsInit == Init => GroupsInv
<1> SUFFICES ASSUME Init PROVE GroupsInv
  OBVIOUS
<1>1. IndInv
  BY InvInit
<1>2. TypeOK
  BY <1>1 DEF Init, TypeOK, IndInv, HandlersAreTyped
<1>3. (\A h \in Handlers : GroupsAreApart(h)) /\ SelectedGroupsDisjoint /\ GroupsLeaveMatchedLedgerRows
  BY DEF Init, GroupsAreApart, Executing, SelectedGroupsDisjoint, GroupsLeaveMatchedLedgerRows
<1>. QED  BY <1>1, <1>2, <1>3 DEF GroupsInv

LEMMA GroupsStep == GroupsInv /\ [Next]_vars => GroupsInv'
<1> SUFFICES ASSUME GroupsInv, [Next]_vars PROVE GroupsInv'
  OBVIOUS
<1>1. IndInv'
  BY InvStep DEF GroupsInv
<1>2. CASE UNCHANGED vars
  BY <1>1, <1>2, DisposeApart DEF vars, db, session
<1>3. CASE \/ \E b \in BankRows : Import(b)
           \/ \E r \in Runs : Cancel(r) \/ ExecuteInvalid(r)
  BY <1>1, <1>3, DisposeApart DEF Import, Cancel, ExecuteInvalid, session
<1>4. ASSUME NEW h \in Handlers, (\E r \in Runs : Execute(h, r)) \/ Step(h) \/ Fail(h) \/ Crash(h)
      PROVE  GroupsInv'
  BY <1>1, <1>4, StartsApart, MatchBankRowApart, FlushApart, DetectApart, SyncApart, CommitApart, CrashApart DEF Step
<1>. QED  BY <1>2, <1>3, <1>4 DEF Next

\* In every reachable state the sessions' groups are apart from each other and
\* from what the committed ones of their scope hold.
THEOREM GroupsInvariance == Spec => []GroupsInv
  BY GroupsInit, GroupsStep, PTL DEF Spec

\* Every row, proposal, item and handler variable is what the schema allows.
THEOREM TypeCorrect == Spec => []TypeOK
<1>1. GroupsInv => TypeOK
  BY DEF GroupsInv
<1>. QED  BY <1>1, GroupsInvariance, PTL

\* However passes of one scope interleave with others and with failures, no
\* row is ever part of two selected groups of that scope.
THEOREM SelectedGroupsDisjointHolds == Spec => []SelectedGroupsDisjoint
<1>1. GroupsInv => SelectedGroupsDisjoint
  BY DEF GroupsInv
<1>. QED  BY <1>1, GroupsInvariance, PTL

\* A grouped match never names a ledger row its run has suggested one-to-one.
THEOREM GroupsLeaveMatchedLedgerRowsHolds == Spec => []GroupsLeaveMatchedLedgerRows
<1>1. GroupsInv => GroupsLeaveMatchedLedgerRows
  BY DEF GroupsInv
<1>. QED  BY <1>1, GroupsInvariance, PTL
=============================================================================
