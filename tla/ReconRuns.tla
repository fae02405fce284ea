----------------------------- MODULE ReconRuns ------------------------------
(***************************************************************************)
(* Reconciliation runs: their lifecycle, and their execution by concurrent *)
(* request handlers - one transaction per execution, holding the run's row *)
(* lock and an advisory lock on the exact scope, in which Stage 5C, the    *)
(* phases of Stage 5D and the derivation of open items follow each other.  *)
(*                                                                         *)
(* Source: api/v1/reconciliation.py, services/reconciliation_service.py,   *)
(* services/reconciliation_matching_engine.py and                          *)
(* services/reconciliation_advanced_matching.py.                           *)
(*                                                                         *)
(* The session does not autoflush: a suggestion added by Stage 5C is       *)
(* invisible to every query, this transaction's own included, until the    *)
(* flush that ends the pass.                                               *)
(***************************************************************************)
EXTENDS Matching

CONSTANTS
    Handlers,   \* request handlers
    Runs,
    Period,     \* Period[r]: the set of dates r covers
    OneAccount, \* the rows of the bank account the runs reconcile
    Advanced,   \* the runs whose configuration enables grouped matching
    Early,      \* the bank rows imported before the first run
    NoRun       \* an idle handler executes no run

ASSUME RunAssumption == Early \subseteq BankRows /\ NoRun \notin Runs

VARIABLES
    imported,   \* bank statement rows in the database
    run,        \* committed status of each run
    proposals,  \* committed suggestions and groups
    items,      \* committed open items
    audit,      \* committed audit events of each run, in order
    counted,    \* the bank rows each completed run counted as eligible
    phase, job, \* what each handler executes
    eligible,   \* the bank rows in scope when its pass began
    todo,       \* those its Stage 5C loop has yet to visit
    claimed,    \* the ledger rows its loop regards as claimed
    added,      \* suggestions added to the session, not flushed
    flushed,    \* proposals its transaction has flushed
    base,       \* rows that other live groups had claimed
    specs       \* the items it has inserted

db == <<imported, run, proposals, items, audit, counted>>
session == <<eligible, todo, claimed, added, flushed, base, specs>>
vars == <<db, phase, job, session>>

Rows == BankRows \union LedgerRows
RunStatus == {"READY", "COMPLETED", "FAILED", "CANCELLED"}
Executing == {"match", "one_to_many", "many_to_one", "transfers", "fx", "sync", "commit"}
Phase == {"idle", "scope"} \union Executing
Proposal == [run : Runs, kind : {"ONE_TO_ONE", "ONE_TO_MANY", "MANY_TO_ONE", "INTERNAL_TRANSFER", "FX_MATCH"},
             rows : SUBSET Rows, tier : {"auto", "review", "tie", "none", "group"},
             status : {"PENDING", "AMBIGUOUS"}]

-----------------------------------------------------------------------------
InPeriod(r) == {x \in OneAccount : Date[x] \in Period[r]}
Statement(r) == {b \in imported : b \in InPeriod(r)}
IsSuggestion(p) == p.kind = "ONE_TO_ONE"

\* Open items of a run, from a set of proposals whose statuses they carry.
Derivation(ps) == INSTANCE OpenItemDerivation WITH
    Scope <- [r \in Runs |-> InPeriod(r)],
    Active <- imported \union LedgerRows,
    Proposals <- ps,
    Suggestions <- {p \in ps : IsSuggestion(p)},
    AutoTier <- {p \in ps : p.tier = "auto"},
    RunOf <- [p \in ps |-> p.run],
    RowsOf <- [p \in ps |-> p.rows]

\* What the transaction of h sees: the committed proposals and its own.
Seen(h) == proposals \union flushed[h]

\* Ledger rows named by a live suggestion of any run, ties included.
already_claimed(ps) ==
    UNION {p.rows \intersect LedgerRows : p \in {q \in ps : IsSuggestion(q)}}

\* Mutant: the groups of earlier runs are not looked at.
claimed_by_groups_None(ps) == {}

\* Rows of the live groups, transfers included.
claimed_by_groups(ps) == Taken({p \in ps : ~IsSuggestion(p)})

Own(h) == {p \in flushed[h] : p.run = job[h]}
Unmatched(h) ==
    (UNION {p.rows : p \in {q \in Own(h) : q.tier = "none"}}) \ base[h]

\* Rows this pass has put in a group already.
Grouped(h) == Taken({p \in Own(h) : p.kind \in {"ONE_TO_MANY", "MANY_TO_ONE", "FX_MATCH"}})

\* Mutant: ledger rows that one-to-one suggestions name stay available.
Excluded_GroupsOnly(h) == base[h] \union Grouped(h)

Excluded(h) == already_claimed(Seen(h)) \union base[h] \union Grouped(h)

\* Mutant: the run is read without FOR UPDATE.
RowLocked_Never(r) == FALSE

RowLocked(r) == \E h \in Handlers : phase[h] # "idle" /\ job[h] = r

\* Mutant: no advisory lock.
ScopeLocked_Never(r) == FALSE

\* Mutant: a session-level advisory lock, which no commit releases.
ScopeLocked_Session(r) ==
    \/ \E h \in Handlers : phase[h] \in Executing /\ Period[job[h]] = Period[r]
    \/ \E q \in Runs : run[q] = "COMPLETED" /\ Period[q] = Period[r]

\* The advisory lock is on exactly (entity, account, period).
ScopeLocked(r) == \E h \in Handlers : phase[h] \in Executing /\ Period[job[h]] = Period[r]

-----------------------------------------------------------------------------
Init ==
    /\ imported = Early
    /\ run = [r \in Runs |-> "READY"]
    /\ proposals = {}
    /\ items = {}
    /\ audit = [r \in Runs |-> <<>>]
    /\ counted = [r \in Runs |-> {}]
    /\ phase = [h \in Handlers |-> "idle"]
    /\ job = [h \in Handlers |-> NoRun]
    /\ eligible = [h \in Handlers |-> {}]
    /\ todo = [h \in Handlers |-> {}]
    /\ claimed = [h \in Handlers |-> {}]
    /\ added = [h \in Handlers |-> {}]
    /\ flushed = [h \in Handlers |-> {}]
    /\ base = [h \in Handlers |-> {}]
    /\ specs = [h \in Handlers |-> {}]

\* A bank statement import confirmed meanwhile.
Import(b) ==
    /\ b \notin imported
    /\ imported' = imported \union {b}
    /\ UNCHANGED <<run, proposals, items, audit, counted, phase, job, session>>

Cancel(r) ==
    /\ ~RowLocked(r)
    /\ run[r] = "READY"
    /\ run' = [run EXCEPT ![r] = "CANCELLED"]
    /\ audit' = [audit EXCEPT ![r] = Append(@, "CANCEL")]
    /\ UNCHANGED <<imported, proposals, items, counted, phase, job, session>>

\* The account left the entity, or the configuration is gone.
ExecuteInvalid(r) ==
    /\ ~RowLocked(r)
    /\ run[r] = "READY"
    /\ run' = [run EXCEPT ![r] = "FAILED"]
    /\ UNCHANGED <<imported, proposals, items, audit, counted, phase, job, session>>

\* The run's row is locked and it is READY: it becomes RUNNING inside the
\* transaction, which no other transaction sees.
Execute(h, r) ==
    /\ phase[h] = "idle"
    /\ ~RowLocked(r)
    /\ run[r] = "READY"
    /\ phase' = [phase EXCEPT ![h] = "scope"]
    /\ job' = [job EXCEPT ![h] = r]
    /\ UNCHANGED <<db, session>>

\* Scope lock granted; the statement rows and the claimed ledger rows are
\* read once, before the loop.
StartMatching(h) ==
    /\ phase[h] = "scope"
    /\ ~ScopeLocked(job[h])
    /\ phase' = [phase EXCEPT ![h] = "match"]
    /\ eligible' = [eligible EXCEPT ![h] = Statement(job[h])]
    /\ todo' = [todo EXCEPT ![h] = Statement(job[h])]
    /\ claimed' = [claimed EXCEPT ![h] = already_claimed(proposals)]
    /\ UNCHANGED <<db, job, added, flushed, base, specs>>

\* The query for what this bank row has just claimed sees flushed rows only.
newly_claimed(h, b) ==
    LET seen == UNION {p.rows \intersect LedgerRows : p \in {q \in flushed[h] : b \in q.rows}}
    IN  IF Cardinality(seen) = 1 THEN seen ELSE {}

\* The rows are visited in their order.
MatchBankRow(h) ==
    \E b \in todo[h] :
        /\ phase[h] = "match"
        /\ \A c \in todo[h] : Ord[b] <= Ord[c]
        /\ added' = [added EXCEPT ![h] =
                        @ \union run_matching_for_bank_transaction(job[h], b, claimed[h])]
        /\ claimed' = [claimed EXCEPT ![h] = @ \union newly_claimed(h, b)]
        /\ todo' = [todo EXCEPT ![h] = @ \ {b}]
        /\ UNCHANGED <<db, phase, job, eligible, flushed, base, specs>>

\* The pass ends with a flush; Stage 5D then reads the other live groups.
FlushSuggestions(h) ==
    /\ phase[h] = "match"
    /\ todo[h] = {}
    /\ phase' = [phase EXCEPT ![h] = "one_to_many"]
    /\ flushed' = [flushed EXCEPT ![h] = @ \union added[h]]
    /\ added' = [added EXCEPT ![h] = {}]
    /\ base' = [base EXCEPT ![h] = claimed_by_groups(proposals)]
    /\ UNCHANGED <<db, job, eligible, todo, claimed, specs>>

AddGroups(h, groups, next) ==
    /\ flushed' = [flushed EXCEPT ![h] = @ \union groups]
    /\ phase' = [phase EXCEPT ![h] = next]
    /\ UNCHANGED <<db, job, eligible, todo, claimed, added, base, specs>>

IfAdvanced(h, groups) == IF job[h] \in Advanced THEN groups ELSE {}

OneToMany(h) ==
    /\ phase[h] = "one_to_many"
    /\ AddGroups(h, IfAdvanced(h, detect_one_to_many(job[h], Unmatched(h), Excluded(h))), "many_to_one")

\* Ledger rows within the date tolerance of the run's period.
LedgerWindow(r) ==
    {l \in LedgerRows \intersect OneAccount : \E d \in Period[r] : AbsDiff(Date[l], d) <= DateTolerance}

ManyToOne(h) ==
    /\ phase[h] = "many_to_one"
    /\ AddGroups(h, IfAdvanced(h, detect_many_to_one(job[h], Statement(job[h]), imported,
                                                     LedgerWindow(job[h]), Excluded(h))), "transfers")

\* Not subject to the configuration's switch.
Transfers(h) ==
    /\ phase[h] = "transfers"
    /\ AddGroups(h, detect_internal_transfers(job[h], already_claimed(Own(h))), "fx")

Fx(h) ==
    /\ phase[h] = "fx"
    /\ \E rank \in {Ord, [x \in Rows |-> 0 - Ord[x]]} :
          AddGroups(h, IfAdvanced(h, detect_fx_matches(job[h], Unmatched(h) \ Grouped(h), Excluded(h), rank)), "sync")

SyncOpenItems(h) ==
    /\ phase[h] = "sync"
    /\ specs' = [specs EXCEPT ![h] =
                    Derivation(Seen(h))!derive_open_item_specs([p \in Seen(h) |-> p.status], job[h])]
    /\ phase' = [phase EXCEPT ![h] = "commit"]
    /\ UNCHANGED <<db, job, eligible, todo, claimed, added, flushed, base>>

\* The transaction ends: its locks go and its session is dropped.
End(h) ==
    /\ phase' = [phase EXCEPT ![h] = "idle"]
    /\ job' = [job EXCEPT ![h] = NoRun]
    /\ eligible' = [eligible EXCEPT ![h] = {}]
    /\ todo' = [todo EXCEPT ![h] = {}]
    /\ claimed' = [claimed EXCEPT ![h] = {}]
    /\ added' = [added EXCEPT ![h] = {}]
    /\ flushed' = [flushed EXCEPT ![h] = {}]
    /\ base' = [base EXCEPT ![h] = {}]
    /\ specs' = [specs EXCEPT ![h] = {}]

Complete(h) ==
    /\ phase[h] = "commit"
    /\ run' = [run EXCEPT ![job[h]] = "COMPLETED"]
    /\ proposals' = proposals \union flushed[h]
    /\ items' = items \union specs[h]
    /\ audit' = [audit EXCEPT ![job[h]] = @ \o <<"EXECUTE_START", "EXECUTE_COMPLETE">>]
    /\ counted' = [counted EXCEPT ![job[h]] = eligible[h]]
    /\ End(h)
    /\ UNCHANGED imported

\* An unexpected error: the run becomes FAILED and everything the session
\* has added so far is flushed and committed with it, except the items of
\* the sync's savepoint.  The EXECUTE_FAILED event is flushed after that
\* commit, and the session closes without another.
Fail(h) ==
    /\ phase[h] \in Executing \ {"commit"}
    /\ run' = [run EXCEPT ![job[h]] = "FAILED"]
    /\ proposals' = proposals \union flushed[h] \union added[h]
    /\ audit' = [audit EXCEPT ![job[h]] = Append(@, "EXECUTE_START")]
    /\ End(h)
    /\ UNCHANGED <<imported, items, counted>>

\* Mutant: each phase commits what it has found.
Crash_KeepsFlushed(h) ==
    /\ phase[h] # "idle"
    /\ proposals' = proposals \union flushed[h]
    /\ End(h)
    /\ UNCHANGED <<imported, run, items, audit, counted>>

\* The process or the connection dies: the transaction rolls back.
Crash(h) ==
    /\ phase[h] # "idle"
    /\ End(h)
    /\ UNCHANGED db

Step(h) ==
    \/ StartMatching(h) \/ MatchBankRow(h) \/ FlushSuggestions(h)
    \/ OneToMany(h) \/ ManyToOne(h) \/ Transfers(h) \/ Fx(h)
    \/ SyncOpenItems(h) \/ Complete(h)

Next ==
    \/ \E b \in BankRows : Import(b)
    \/ \E r \in Runs : Cancel(r) \/ ExecuteInvalid(r)
    \/ \E h \in Handlers :
          \/ \E r \in Runs : Execute(h, r)
          \/ Step(h) \/ Fail(h) \/ Crash(h)

Spec == Init /\ [][Next]_vars
FairSpec == Spec /\ \A h \in Handlers : SF_vars(Step(h))

-----------------------------------------------------------------------------
(* Properties                                                              *)

\* Every variable holds a value the schema and the engines give it.
TypeOK ==
    /\ imported \subseteq BankRows
    /\ run \in [Runs -> RunStatus]
    /\ proposals \subseteq Proposal
    /\ \A i \in items \union UNION {specs[h] : h \in Handlers} : i.run \in Runs /\ i.rows \subseteq Rows
    /\ counted \in [Runs -> SUBSET BankRows]
    /\ phase \in [Handlers -> Phase]
    /\ \A h \in Handlers : phase[h] # "idle" => job[h] \in Runs
    /\ \A h \in Handlers : flushed[h] \union added[h] \subseteq Proposal

\* A run is picked up by at most one execution, whatever else happens to it
\* meanwhile: its audit trail tells one of four stories, and the right one.
ExecutedOnce ==
    \A r \in Runs :
        /\ run[r] = "READY" => audit[r] = <<>>
        /\ run[r] = "CANCELLED" => audit[r] = <<"CANCEL">>
        /\ run[r] = "COMPLETED" => audit[r] = <<"EXECUTE_START", "EXECUTE_COMPLETE">>
        /\ run[r] = "FAILED" => audit[r] \in {<<>>, <<"EXECUTE_START">>}

\* A run that did not execute to an end left nothing behind: a crash in any
\* phase of the pass undoes it.
NothingFromUnfinishedRuns ==
    /\ \A p \in proposals : run[p.run] \in {"COMPLETED", "FAILED"}
    /\ \A i \in items : run[i.run] = "COMPLETED"

HasItem(x) == \E i \in items : x \in i.rows
ProposedBy(ps, x) == \E p \in ps : x \in p.rows /\ p.tier # "none"

\* Whatever a completed run counted, it accounted for: each bank row has a
\* proposal or an item, and so has each ledger row of its period.
CompletedRunAccountsForAll ==
    \A r \in Runs : run[r] = "COMPLETED" =>
        \A x \in counted[r] \union (LedgerRows \intersect InPeriod(r)) :
            ProposedBy(proposals, x) \/ HasItem(x)

\* Two runs of one scope never both suggest one ledger row, however their
\* executions interleave: the scope lock makes the second see the first.
SameScopeSuggestionsDisjoint ==
    \A p, q \in proposals :
        IsSuggestion(p) /\ IsSuggestion(q) /\ p.run # q.run /\ Period[p.run] = Period[q.run] =>
            p.rows \intersect q.rows \intersect LedgerRows = {}

IsMatchGroup(p) == p.kind \in {"ONE_TO_MANY", "MANY_TO_ONE", "FX_MATCH"} /\ p.status = "PENDING"

\* The selected groups of one scope never share a row, across the phases of
\* one pass and across passes.
SelectedGroupsDisjoint ==
    \A p, q \in proposals :
        IsMatchGroup(p) /\ IsMatchGroup(q) /\ p # q /\ Period[p.run] = Period[q.run] =>
            p.rows \intersect q.rows = {}

\* A grouped match never takes a ledger row its own run matched one-to-one.
GroupsLeaveMatchedLedgerRows ==
    \A p, q \in proposals :
        IsMatchGroup(p) /\ IsSuggestion(q) /\ p.run = q.run =>
            p.rows \intersect q.rows \intersect LedgerRows = {}

\* The invariant that four of these rest on. What the variables of a handler
\* are; one handler at a time executes a run, and one at a time a scope.
HandlersAreTyped ==
    /\ run \in [Runs -> RunStatus] /\ DOMAIN audit = Runs
    /\ imported \subseteq BankRows /\ counted \in [Runs -> SUBSET BankRows]
    /\ phase \in [Handlers -> Phase] /\ job \in [Handlers -> Runs \union {NoRun}]
    /\ eligible \in [Handlers -> SUBSET BankRows] /\ todo \in [Handlers -> SUBSET BankRows]
    /\ DOMAIN claimed = Handlers /\ DOMAIN added = Handlers /\ DOMAIN flushed = Handlers
    /\ DOMAIN base = Handlers /\ DOMAIN specs = Handlers
    /\ (\A p \in proposals : p.run \in Runs) /\ \A i \in items : i.run \in Runs
LocksExclude ==
    \A g, h \in Handlers :
        \/ g = h \/ phase[g] = "idle" \/ phase[h] = "idle"
        \/ /\ job[g] # job[h]
           /\ phase[g] \in Executing /\ phase[h] \in Executing => Period[job[g]] # Period[job[h]]

\* A suggestion has a ledger row or is a placeholder; a group is neither.
Formed(p) ==
    IF IsSuggestion(p)
    THEN /\ p.status = "PENDING" /\ p.tier \in {"auto", "review", "tie", "none"}
         /\ p.tier = "none" <=> p.rows \intersect LedgerRows = {}
    ELSE p.tier = "group" /\ p.status \in {"PENDING", "AMBIGUOUS"}
AllFormed(ps) == \A p \in ps : Formed(p)

Session(h) == added[h] \union flushed[h]
SessionIsOwn(h) ==
    /\ phase[h] # "idle" => job[h] \in Runs /\ run[job[h]] = "READY"
    /\ phase[h] \notin Executing => Session(h) = {} /\ eligible[h] = {}
    /\ phase[h] \in Executing => eligible[h] \subseteq Statement(job[h])
    /\ phase[h] # "match" => added[h] = {}
    /\ \A p \in added[h] : IsSuggestion(p)
    /\ \A p \in Session(h) : p.run = job[h]
    /\ \A i \in specs[h] : i.run = job[h]
    /\ phase[h] # "commit" => specs[h] = {}

\* What is suggested in a pass is not suggested by a committed run of its scope.
ClaimsAreCurrent(h) ==
    \A p \in proposals :
        IsSuggestion(p) /\ phase[h] \in Executing /\ Period[p.run] = Period[job[h]] =>
            /\ phase[h] = "match" => p.rows \intersect LedgerRows \subseteq claimed[h]
            /\ \A q \in Session(h) : IsSuggestion(q) => p.rows \intersect q.rows \intersect LedgerRows = {}

\* What is about to be committed accounts for the rows in scope.
SyncIsWhole(h) ==
    phase[h] = "commit" =>
        \A x \in eligible[h] \union (LedgerRows \intersect InPeriod(job[h])) :
            ProposedBy(Seen(h), x) \/ \E i \in specs[h] : x \in i.rows

HandlerInv(h) == SessionIsOwn(h) /\ AllFormed(Session(h)) /\ ClaimsAreCurrent(h) /\ SyncIsWhole(h)
IndInv ==
    /\ HandlersAreTyped /\ LocksExclude /\ AllFormed(proposals)
    /\ \A h \in Handlers : HandlerInv(h)
    /\ ExecutedOnce /\ NothingFromUnfinishedRuns
    /\ SameScopeSuggestionsDisjoint /\ CompletedRunAccountsForAll

\* The invariant that the disjointness of groups rests on.  A pass starts its
\* groups from what the groups of its scope hold, which no other pass changes
\* meanwhile, and keeps them apart from that, from one another and from the
\* ledger rows it has suggested.
GroupsAreApart(h) ==
    /\ phase[h] = "match" => flushed[h] = {}
    /\ phase[h] = "one_to_many" => \A p \in flushed[h] : IsSuggestion(p)
    /\ phase[h] \in Executing \ {"match"} =>
          \A p \in proposals : IsMatchGroup(p) /\ Period[p.run] = Period[job[h]] => p.rows \subseteq base[h]
    /\ \A p \in {q \in flushed[h] : IsMatchGroup(q)} :
          /\ p.rows \intersect base[h] = {}
          /\ \A q \in flushed[h] :
                /\ IsSuggestion(q) => p.rows \intersect q.rows \intersect LedgerRows = {}
                /\ IsMatchGroup(q) /\ p # q => p.rows \intersect q.rows = {}

GroupsInv ==
    /\ IndInv /\ TypeOK /\ \A h \in Handlers : GroupsAreApart(h)
    /\ SelectedGroupsDisjoint /\ GroupsLeaveMatchedLedgerRows

\* An execution, once begun, ends: no phase and no lock holds it for ever.
ExecutionsEnd == \A h \in Handlers : (phase[h] # "idle") ~> (phase[h] = "idle")

Clear(p) == p.tier \in {"auto", "review"}

\* "two bank transactions in the SAME run can never both claim the same
\* TreasuryTransaction as their top candidate" (run_matching_for_run).
SameRunClaimsDiffer ==
    \A p, q \in proposals :
        Clear(p) /\ Clear(q) /\ p # q /\ p.run = q.run =>
            p.rows \intersect q.rows \intersect LedgerRows = {}

\* Stage 5D operates "only on bank/ledger transactions Stage 5C left
\* unmatched" (reconciliation_advanced_matching).
GroupsLeaveMatchedBankRows ==
    \A p, q \in proposals :
        IsMatchGroup(p) /\ Clear(q) /\ p.run = q.run => p.rows \intersect q.rows = {}

\* The scope lock prevents "any TreasuryTransaction from being consumed by
\* two competing runs" (acquire_reconciliation_scope_lock).
ConsumedByOneRun ==
    \A p, q \in proposals :
        (Clear(p) \/ IsMatchGroup(p)) /\ (Clear(q) \/ IsMatchGroup(q))
            /\ p.run # q.run /\ Period[p.run] = Period[q.run] =>
                p.rows \intersect q.rows \intersect LedgerRows = {}

\* "execution start/complete/fail ... are all audited" (STAGE_5B).
FailureIsAudited ==
    \A r \in Runs : run[r] = "FAILED" /\ audit[r] # <<>> => audit[r] = <<"EXECUTE_START", "EXECUTE_FAILED">>

\* A row a completed run leaves to a proposal can be decided through it, so
\* that "nothing is hidden": decisions need a COMPLETED run.
NothingHidden ==
    \A r \in Runs : run[r] = "COMPLETED" =>
        \A x \in counted[r] \union (LedgerRows \intersect InPeriod(r)) :
            HasItem(x) \/ ProposedBy({p \in proposals : run[p.run] = "COMPLETED"}, x)
=============================================================================
