# A TLA+ model of the treasury back end

The repository is a treasury application: a FastAPI service over PostgreSQL
(`src/backend/app`) with a React frontend. Its core is bookkeeping that several
people do at the same time: statements are imported, reconciled against the
ledger, exceptions worked off, facilities drawn and repaid, forecasts made and
published. This directory models that core in TLA+, checks it with TLC on small
instances and proves its central safety properties with TLAPS.

Contents: [1 The system](#1-the-system) · [2 Modules](#2-modules) ·
[3 Runs](#3-runs-and-bounds) · [4 Fairness](#4-fairness) ·
[5 Proofs](#5-proofs) · [6 Disagreements](#6-where-the-code-and-what-is-said-of-it-disagree) ·
[7 Abstractions](#7-abstractions-and-limits) · [8 What is left](#8-what-is-left)

Run a model with `tlc -config X.cfg MCModule`, a proof with `tlapm Module.tla`.

## 1 The system

Every request is one handler with one database session (`db/session.py`). The
session is made with `autoflush=False`: what a handler adds is invisible, to its
own queries too, until it flushes; what it flushes is invisible to others until
it commits. PostgreSQL runs at READ COMMITTED: every statement sees what was
committed when the statement began. A handler that raises, or whose client goes
away, rolls back. Hence every hard behaviour of this system is one of these:
two handlers whose statements interleave; a value read before a lock is granted
and used after it; a handler that dies or fails half way; a legal sequence of
requests nobody thought of.

| Component | State | Operations | Interacts with | Hard behaviour | What makes it correct | Model |
|---|---|---|---|---|---|---|
| Reconciliation runs (`reconciliation_service.py`, `api/v1/reconciliation.py`) | run rows READY / RUNNING / COMPLETED / FAILED / CANCELLED, versioned configurations | create, execute, cancel, sync | calls both matching engines and the derivation in one transaction; a scope lock is shared between runs | concurrent executions and cancellations, failure in any phase, crash | executed once; nothing of an unfinished run remains; all rows accounted for | `ReconRuns` |
| Stage 5C matching (`reconciliation_matching_engine.py`, `_candidate_generation`, `_scoring`) | suggestions | one pass over a run's bank rows | reads suggestions of all runs | rows not yet flushed, suggestions of other runs | no ledger row is suggested twice | `Matching`, `ReconRuns` |
| Stage 5D matching (`reconciliation_advanced_matching.py`) | groups and members | five detections in order | reads 5C's suggestions and other groups | order of the phases, exclusions between them | groups disjoint from each other and from 5C | `Matching`, `ReconRuns` |
| Open-item derivation (`reconciliation_open_item_service.py`) | open items | derive and insert | after execution, rejection, sync | coverage that changes while it is read | a row with no live proposal has an item; none is raised for a row whose proposal was there to be read | `OpenItemDerivation` |
| Match decisions (`reconciliation_match_decision_service.py`) | decisions, accepted claims | accept, reject, beside executions and syncs | row lock on the proposal, unique indexes on claims, re-derivation | overlapping acceptances, index waits, deadlock, lost reply, crash; coverage that an execution adds meanwhile | no transaction accepted twice; decisions whole and final | `MatchDecisions`, `AcceptedClaims` |
| Open-item workflow (same service, `api/v1/reconciliation_open_items.py`) | item status, assignee, disposition, events | assign, investigate, resolve, close, reject, reopen, comment, evidence | items come from the derivation | two people act on one item; reopening | history is a chain; disposition is current | `OpenItems` |
| Facilities (`facility_service.py`, `api/v1/facilities.py`, `drawdown_validation_service.py`) | limits, drawn amounts, versions, drawdowns, repayments | create, import, update, change status, draw, execute, pay | drawdown, facility and sub-limit rows locked in this order | executions racing for headroom, terms that change, unlocked reads | no execution overdraws; every movement of a drawn amount accounted for; terms versioned | `Facilities` |
| Funding actions (`api/v1/funding.py`, `funding_action_validation.py`) | workflow status, link to a transaction | create, seven moves | reads drawdowns and repayments | no locks at all: moves cross | executed means really executed; one action per transaction | `FundingActions` |
| Investments (`investment_service.py`, `investment_engine.py`, `api/v1/investments.py`) | status, principal, versions, transactions, cash movements | create, update, change status, place, terminate, settle, roll over, rebook | reads the cash position, writes the ledger it is derived from | placements racing for cash, retries with idempotency keys, status moves without cash, stored projections | principal is paid out once; terms are those of the last version; retries change nothing | `Investments`, `InvestmentEngine` |
| Cash position (`cash_position_service.py`) | none of its own | derive | placements, rebookings, forecasts | date boundary of the anchor balance | nothing counted twice or lost | `CashPosition` |
| Forecasts (`forecast_engine.py`, `forecast_lifecycle_service.py`, `forecast_views_service.py`, `forecast_variance_service.py`, `api/v1/forecast.py`) | forecasts, weeks, lines, alerts, adjustments | create, calculate, adjust, publish, archive, roll, what-if, view | reads facilities, investments, balances, rates, the ledger | no locks: calculations cross publication and each other; several views of one stored output | views, weeks and alerts agree; a published forecast has its weeks | `Forecasts`, `ForecastEngine`, `ForecastEvents` |
| Excel data hub and bank statements (`excel_service.py`, `excel_templates.py`, `bank_statement_service.py` and the template modules) | batch status, rows, issues | upload, confirm | creates rows of every other component | confirmed twice, duplicates in a file, between batches and in a race | no strong duplicate twice; a whole import is final | `Imports`, `ExcelTemplates` |
| FX rates (`api/v1/currencies.py`, `fx_conversion_service.py`) | versions, one of them current | correct, import, convert | cross-currency matching, forecasts | two corrections at once | one current version, numbers without a gap | `Imports`, `ForecastEngine` |
| Access control (`auth/`), audit (`audit_service.py`) | roles, scopes; append-only events | authorize, record | every handler | event lost when its transaction is not committed | scope resolution; one event per change | inside the models that depend on it |
| Funding capacity (`funding_capacity_service.py`) | none | derive | reads facilities, forecasts, balances | - | - | not modelled |
| Master data, seeds, migrations, frontend | plain rows | create, list, display | - | - | - | not modelled |

## 2 Modules

One module per component; `MC…` modules hold the instances TLC checks, and a
definition whose name ends in a suffix after `_` and whose comment begins with
`Mutant:` is a plausible bug, used to show that a property can fail.

```
OpenItemDerivation  <--EXTENDS--  MatchDecisions  --INSTANCE-->  AcceptedClaims
        ^                              ^
        | INSTANCE                     +--EXTENDS-- MCMatchDecisions, MatchDecisionsProof
   ReconRuns  --EXTENDS-->  Matching
        ^
        +--EXTENDS-- MCReconRuns, ReconRunsProof

OpenItems       <--EXTENDS--  MCOpenItems, OpenItemsProof
Facilities      <--EXTENDS--  MCFacilities, FacilitiesProof
FundingActions  <--EXTENDS--  MCFundingActions, FacilitiesProof

InvestmentEngine  <--EXTENDS--+-- Investments  <-- MCInvestments, InvestmentsProof
CashPosition      <--EXTENDS--+
        ^   (and InvestmentEngine, through ForecastEvents)
        +--EXTENDS-- ForecastEngine  <-- Forecasts  <-- MCForecasts, ForecastsProof

ExcelTemplates  <--EXTENDS--  Imports  <-- MCImports, ImportsProof

FiniteSums  <--EXTENDS--  ReconRunsProof, FacilitiesProof, InvestmentsProof, ImportsProof,
                          ForecastsProof
```

**OpenItemDerivation** is `derive_open_item_specs` as operators over a status
function: which rows a live proposal covers, in the run or in another
(`covered_elsewhere`), and which of the item categories every other row falls
into. `_LIVE_SUGGESTION` and `_LIVE_GROUP` become `LIVE`, ambiguous groups are
handled as the code does: items of their own, at their anchor row. It holds no
state, since the code holds none: it is instantiated by both modules below.

**MatchDecisions** follows `decide_proposal` statement by statement. A worker is
one request. `lock` is `load_proposal(lock=True)`; `check` is the eligibility
test and `find_acceptance_conflict`; `claim` inserts the accepted claims, one
unique-index entry at a time and in any order, waiting for whoever holds an
equal entry; `bank_side`, `ledger_side` and `persist` are the three database
steps of the re-derivation after a rejection; `commit` writes status, decision,
audit event and items at once, as a commit does. The same steps, from
`bank_side` on, are a `Sync` and the end of an execution (`Execute`), which
commits its run's proposals with its items and shares no lock with a decision; a
run that fails commits its proposals alone. `known` is the runs whose proposals
were committed when a derivation read the coverage. `Finish`, `Abort` and `Crash`
are a deadlock's victim, a refusal and a dead connection. The endpoint loads the
proposal once without a lock, before the locked read returns the same object;
the lookup of an existing decision, which follows the lock, makes that harmless,
so that first read is not a step.

**AcceptedClaims** is what the decisions promise, with no request, lock or
index in it: a proposal is decided once, a transaction has one owner in each
namespace (`MATCH`, `TRANSFER`). `MatchDecisions` implements it under
`outcome <- OutcomeBar, owner <- OwnerBar`, read off the committed rows.

**Matching** has both engines as pure operators: candidates, scores (the
weights and thresholds of `reconciliation_scoring.py`), ties, and the Stage 5D
detections: what each may choose around an anchor row (`choices_…`), and the
greedy selection over the anchors in the order of their keys (`groups_of`), in
which a later anchor does without what an earlier one has taken.

**ReconRuns** executes them. `Execute` locks the run's row, `StartMatching` gets
the advisory lock of the scope, `MatchBankRow` is one turn of the loop over bank
rows, `FlushSuggestions` ends it; then one action per phase, `SyncOpenItems` and
`Complete`. `added` is what the session holds, `flushed` what its transaction
has written, `proposals` what is committed: the distinction carries several of
the findings. `Fail` is the endpoint's `except` branch, which commits what has
been flushed together with the FAILED status, and `Crash` a dead process.

**OpenItems** models the workflow of items. A request begins (`Send`, which
fixes the time its events will carry), waits for the row lock and checks the
item's status (`Load`), and commits the item and its event (`Save`).

**Facilities** models executions and payments as the chains of row locks they
are (request row, facility, sub-limit), the amounts they compute from what they
read, of either sign since nothing bounds them, and around them the one-step changes of status, terms, drawdowns and
repayments, by API and by Excel import.

**FundingActions** models the moves of a funding action as an unlocked read, a
check of the linked transaction and an overwrite, and its creation as a check
and an insert under partial unique indexes.

**InvestmentEngine** is the arithmetic of `investment_engine.py`: interest by
day-count convention, early termination with its penalties, the comparison of a
rollover, the schedule of periodic interest. **CashPosition** is the choice of
each account's latest balance and of the movements that balance does not yet
contain.

**Investments** has one action for the locked read with the checks of the
endpoint (`load_investment_for_update`), one for the unlocked look at the cash
in the account (`CheckCash`), and `Save`, which is one of the seven operations
with every row it writes: the investment, its version, its transactions, its
event and the movement in the cash ledger. `import_balance` is the bank
reporting a day.

**ForecastEvents** turns facilities and investments into the events a forecast
reads. **ForecastEngine** is `calculate_forecast` as an operator from the tables
to lines, weeks and alerts: sources, recurring dates, scenario assumptions,
conversion, the waterfall of weeks, and the views, the summary and the variance
that other endpoints compute from the stored lines later. **Forecasts** runs
these as requests without a lock: `load_forecast` reads and decides,
`delete_output` and `fill_output` are the two ends of a calculation, and
publishing, adjusting and adding an assumption write by what was read.

**ExcelTemplates** says what makes a row of each template valid, what its
duplicate key is, and what the unique indexes refuse. **Imports** uploads files
and confirms batches: the lock of the batch, one action for the validation of
each row and one for its insertion, and the commit of everything. Rates are
versioned by both roads that lead to them, the file and the endpoint; a version
the transaction has just superseded may be found current once more, because its
flag is flushed with the next insertion (`Unflushed`).

**MatchDecisionsProof**, **ReconRunsProof**, **OpenItemsProof**,
**FacilitiesProof**, **InvestmentsProof**, **ImportsProof** and
**ForecastsProof** hold the theorems; those about funding actions are in
`FacilitiesProof`, which extends both modules, so their specification is named
`FASpec`, its parts `FAInit`, `FANext`, `FATypeOK`. **FiniteSums** holds lemmas
that five of them share: induction over the naturals in a first-order form, what
a sum over a finite set becomes when an element is added, removed or changed or
its elements are sorted into classes, and that a recursion over sets or naturals
defines a function.

## 3 Runs and bounds

Passing runs (states are distinct states):

| Run | Question | Instance | States |
|---|---|---|---|
| `MatchDecisionsOverlap` | Are decisions safe when requests overlap? | 3 runs, one of which fails, 2 handlers that execute, decide and sync, proposals competing for rows | 789,953 |
| `MatchDecisionsAlone` | Does a rejected row surface when requests do not overlap? | 1 handler, 2 runs, every kind of proposal | 20,750 |
| `MatchDecisionsLive` | Is every request answered, and is the abstract ownership implemented? | the same multi-row group in two runs | 26,297 |
| `ReconRuns` | Is an execution safe among executions, cancellations, imports, errors, crashes? | 3 runs (2 of one scope), 2 handlers, 5 bank and 6 ledger rows | 121,941 |
| `ReconRunsLive` | Do executions end? | one one-to-many group | 6,096 |
| `OpenItems` | Does concurrency, or a life with closures and reopenings, break an item's history or its disposition? | 2 users, 7 events | 65,339 |
| `Facilities` | Can interleaving overdraw a facility or lose debt or terms? | limit 3 or 4, sub-limit 4, drawdowns of 2, 2 and -1, a repayment of 1, payments of 2 and -1, 2 users | 826,543 |
| `FundingActions` | What survives crossing moves? | 3 actions, 2 of one repayment, 2 users | 9,839 |
| `Investments` | Do principal, terms and cash stay accounted for when requests overlap, are refused or are retried? | 2 references, 2 users, an account that cannot fund two placements, a rebooking that takes principal out | 248,900 |
| `Forecasts` | Do the views of a stored forecast agree, and does publication survive calculations? | 3 weeks of 2 days, 2 entities, 3 currencies, 2 forecasts, 2 users | 70,243 |
| `Imports` | What do duplicates, repeated and simultaneous confirmations leave behind? | 2 batches, 2 users, twelve files of 7 templates | 92,740 |

What they show, property by property:

- *Decisions.* `NoDoubleAcceptance`: no row is in two accepted proposals of a
  namespace. `DecisionIsWhole`: status, decision record, audit event and claims
  agree always. `DecisionIsFinal`: none is reversed. `AnswersAreTrue`: what a
  client was told is so, although replies are lost and requests repeated.
  `NoFalseException`: no exception is raised for a row that a proposal covers at
  that moment, whatever was decided while the exception was derived, if the
  proposal's run was executed before the derivation read the coverage. An
  execution that commits between that reading and the commit of the items is
  exempt, and must be: it shares no lock with a decision or a sync, and raises
  coverage that the derivation does not see (`ExceptionsAreTrue`, section 6).
  `RejectedRowsSurface`: without overlap, a rejected row has a proposal or an
  item. The invariants the proofs use are checked too where the state space allows
  it: `HandlersInv` here, `AccountsInv` in `Facilities`, `FAInv` in
  `FundingActions`. They contain the type invariants. `IndInv` of `Forecasts`
  holds on the instance of its run as well.
- *Runs.* `ExecutedOnce`, `NothingFromUnfinishedRuns`,
  `CompletedRunAccountsForAll` (each row counted has a proposal or an item),
  `SameScopeSuggestionsDisjoint`, `SelectedGroupsDisjoint`,
  `GroupsLeaveMatchedLedgerRows`, and `ExecutionsEnd`.
- *Items.* `HistoryIsAChain`: each event follows from the one before it, and the
  last ones agree with the item's status and assignee. `HistoryIsAppendOnly`,
  `DispositionIsCurrent`, `ClosedUntilReopened`.
- *Facilities.* `NeverOverdrawn`: no execution draws past the limit or on an
  inactive facility. What else raises a drawn amount is a payment of a negative
  amount, which the code compares with neither (section 6), or one that cuts off
  an amount below zero. `DebtIsAccounted`: the drawn amount moves by one
  execution, executed for the first time, or by one payment, from what it then
  is, and by what it says; none is lost, doubled or computed from what has been
  overwritten. `SubLimitsAreAccounted` says so of sub-limits, whose own limit no
  execution passes. `AccountsInv` contains the sums this amounts to
  (`DebtIsCovered`, `SubLimitsAreCovered`). `TermsAreVersioned`.
- *Funding actions.* `ExecutedIsBacked`, although moves overwrite each other,
  since a linked transaction once done stays done; `OneActionPerTransaction`.
- *Investments.* `PrincipalIsAccounted`: what was put in is what is outstanding
  and what was taken out, so no two requests pay out the same principal. A
  rebooking may take principal out: nothing bounds its amount from below.
  `TermsAreCurrent`: the row agrees with its last version, its stored projection
  with its terms. `CashIsCountedOnce`: every movement is in the reported balance
  or beside it. `RetriesAreRecognized`: a retry meets its event before it would
  violate a unique index.
- *Forecasts.* `OutputAddsUp`: the weeks equal the sum of the entities' views,
  the summary and both variances agree with them. `AlertsMatchViews`: alerts are
  raised in exactly the weeks that have a gap, consolidated or in one currency,
  as long as nothing entered is `NON_CASH` (section 6).
  `SchedulesAreWhole`: no occurrence of a recurring flow that begins in the
  horizon (of others see section 6) and no interest period is lost, moved or
  doubled. `PublishedHasWeeks`, while calculations delete and
  refill.
- *Imports.* `StrongIdentityOnce`: a transaction with a bank reference is
  imported once, whatever batches are confirmed at the same time.
  `WholeImportsAreFinal`; `OneCurrentRate`: the versions of a rate have no gap
  and one current version, the last.

- *Types.* `TypeOK` of `ReconRuns`. In `MatchDecisions`, `Facilities` and
  `FundingActions` it is part of the invariants above; of `OpenItems`,
  `Investments` and `Forecasts` it is proved.

Every property has a mutant under which its run fails.

**Why the bounds are enough.** The hazards are races of two requests for one
row, so two handlers and two competing rows exhibit them; a third handler adds
interleavings of the same pairs. Two runs of one scope and one overlapping run
give every relation two runs can have. The matching instance has exactly one
occasion for each phase (listed in `MCReconRuns`): a tie, a one-to-many, a
many-to-one, a transfer and a cross-currency match, and a statement row that
arrives late. `MaxEvents` bounds an item's history: seven events let two users
cross on every pair of moves and let an item be created, investigated, resolved,
closed and reopened, and be resolved again after another investigation;
`MaxNotes` bounds the assignments, comments and evidence among them, which
change no status. The view `WithoutTimes` leaves out the times of
events, which no guard and no property of that run reads. `MaxVersions` bounds the
changes of a facility's terms: two, or one where the run is about something
else. Amounts are the smallest that fit alone and not together, with a negative
drawdown, which makes room for the others, and a negative payment; `LeastPaid`
bounds what such payments take a repayment below zero. Handlers, users and twin actions are symmetric.

In `Investments` the account holds 4 and a deposit costs 3, and months have
three and two days, so that interest and maturities fall on different days;
`MaxCash` is the length of the cash ledger (three: a placement, a partial
termination or a rebooking, and an end), `MaxVersions` is that of a DRAFT's
terms. In `Forecasts` a horizon of three weeks has a first, a middle and a last
week, months shorter than the horizon make recurring dates meet a month's end,
a monthly flow ends inside it, on the last day of a month too short for it, one of three currencies has no rate; the tables hold one row of each kind a
calculation tells apart, among them rows outside the horizon and of statuses
that are passed over. `MaxOutputs` bounds what calculations that overlap leave
side by side: with one, a calculation that overlaps another ends before it or
gives up, and the doubled weeks of section 6 do not hide what else might go
wrong. `MaxEntries` bounds the adjustments and assumptions of a forecast,
`MaxAcknowledged` the alerts someone has seen. In `Imports` the files are chosen so that two of them share a line
whose direction is spelled differently, one has its own duplicate, an invalid
row or a row of an entity the user may not import for, and one names what an
earlier row of it creates; `MaxConfirms` lets a batch that was imported in part
be confirmed again, `MaxVersions` lets three rows and a correction meet.

Deadlock is checked except where the modelled world has an end: a cancelled
facility, actions that have all been completed, investments, forecasts and
batches when every request would be refused.

## 4 Fairness

`FairSpec` of `MatchDecisions` and `ReconRuns` gives strong fairness to the
steps of each handler, and none to clients, failures or crashes. A handler runs
to its end on the server's event loop whatever its client does, which is
fairness of its steps; it is strong because a handler waits for a row lock, an
advisory lock or an index entry that is free again and again, and PostgreSQL
grants these in the order of their queues and breaks wait cycles by aborting a
waiter (`deadlock_timeout`). No other module claims liveness: the other handlers
hold one lock, or a fixed order of locks, and have no loop over other people's
work.

## 5 Proofs

The theorems hold for any number of runs, rows, proposals, facilities,
investments, forecasts, files, actions, handlers and users, and for any amounts:

| Module (obligations) | Theorem | States |
|---|---|---|
| `MatchDecisionsProof` (1314) | `TypeCorrect` | `Spec => []TypeOK` |
| | `Invariance` | `Spec => []IndInv` |
| | `NoDoubleAcceptanceHolds` | `Spec => []NoDoubleAcceptance` |
| | `DecisionIsWholeHolds` | `Spec => []DecisionIsWhole` |
| | `DecisionIsFinalHolds` | `Spec => DecisionIsFinal` |
| | `OwnershipRefined` | `Spec => RefinesOwnership` |
| | `HandlersInvariance` | `Spec => []HandlersInv` |
| | `AnswersAreTrueHolds` | `Spec => []AnswersAreTrue` |
| | `NoFalseExceptionHolds` | `Spec => NoFalseException` |
| | `RejectedRowsSurfaceAlone` | `OneAtATime`, `SharedRowsAreInScope` imply `Spec => []RejectedRowsSurface` |
| `ReconRunsProof` (1642) | `Invariance` | `Spec => []IndInv` |
| | `ExecutedOnceHolds` | `Spec => []ExecutedOnce` |
| | `NothingFromUnfinishedRunsHolds` | `Spec => []NothingFromUnfinishedRuns` |
| | `SameScopeSuggestionsDisjointHolds` | `Spec => []SameScopeSuggestionsDisjoint` |
| | `CompletedRunAccountsForAllHolds` | `Spec => []CompletedRunAccountsForAll` |
| | `GroupsInvariance` | `Spec => []GroupsInv` |
| | `TypeCorrect` | `Spec => []TypeOK` |
| | `SelectedGroupsDisjointHolds` | `Spec => []SelectedGroupsDisjoint` |
| | `GroupsLeaveMatchedLedgerRowsHolds` | `Spec => []GroupsLeaveMatchedLedgerRows` |
| `OpenItemsProof` (576) | `Invariance` | `Spec => []IndInv` |
| | `TypeCorrect` | `Spec => []TypeOK` |
| | `HistoryIsAChainHolds` | `Spec => []HistoryIsAChain` |
| | `DispositionIsCurrentHolds` | `Spec => []DispositionIsCurrent` |
| | `HistoryIsAppendOnlyHolds` | `Spec => HistoryIsAppendOnly` |
| | `ClosedUntilReopenedHolds` | `Spec => ClosedUntilReopened` |
| `FacilitiesProof` (1431) | `Invariance` | `Spec => []IndInv` |
| | `NeverOverdrawnHolds` | `Spec => NeverOverdrawn` |
| | `TermsAreVersionedHolds` | `Spec => []TermsAreVersioned` |
| | `AccountsInvariance` | `Spec => []AccountsInv` |
| | `DebtIsAccountedHolds` | `Spec => DebtIsAccounted` |
| | `SubLimitsAreAccountedHolds` | `RepaymentsStayAtTheirFacility` implies `Spec => SubLimitsAreAccounted` |
| | `FundingActionsInvariance` | `FASpec => []FAInv` |
| | `ExecutedIsBackedHolds` | `FASpec => []ExecutedIsBacked` |
| | `OneActionPerTransactionHolds` | `FASpec => []OneActionPerTransaction` |
| `InvestmentsProof` (1753) | `InvestmentsInvariance` | `Spec => []InvestmentsInv` |
| | `TypeCorrect` | `Spec => []TypeOK` |
| | `PrincipalIsAccountedHolds` | `Spec => []PrincipalIsAccounted` |
| | `TermsAreCurrentHolds` | `Spec => []TermsAreCurrent` |
| | `CashIsCountedOnceHolds` | `Spec => []CashIsCountedOnce` |
| | `RetriesAreRecognizedHolds` | `Spec => []RetriesAreRecognized` |
| `ImportsProof` (1795) | `BatchesInvariance` | `Spec => []BatchesInv` |
| | `WholeImportsAreFinalHolds` | `Spec => []WholeImportsAreFinal` |
| | `StrongIdentityOnceHolds` | `Spec => []StrongIdentityOnce` |
| | `ImportsInvariance` | `Spec => []ImportsInv` |
| | `OneCurrentRateHolds` | `Spec => []OneCurrentRate` |
| `ForecastsProof` (3189) | `Invariance` | `Spec => []IndInv` |
| | `PublishedHasWeeksHolds` | `Spec => []PublishedHasWeeks` |
| | `OutputAddsUpHolds` | `Spec => []OutputAddsUp` |
| | `AlertsCountNonCashHolds` | `Spec => []AlertsCountNonCash` |
| | `AlertsMatchViewsHolds` | `EntriesMoveCash` implies `Spec => []AlertsMatchViews` |
| | `SchedulesAreWholeHolds` | `Spec => []SchedulesAreWhole` |
| `FiniteSums` (800) | lemmas only | |

**Match decisions.** Assumptions: `StructureAssumption` (types of the constants;
a suggestion has one bank row and at most one ledger row; a group has rows), and
that `NoKey` and `Nobody` are not keys or proposals.

The argument. `NoDoubleAcceptance` is not inductive: a handler about to commit
might hold claims that another has committed since its pre-check. It rests on
the claims, so `DecisionIsWhole` ties status to claims, and `KeysAreUnique` says
that no two index entries, committed or inserted, are equal. That in turn is
preserved by an insertion only because the insertion waits, and by a commit only
because `HeldByAcceptors` says a committing handler holds exactly its proposal's
keys. That one proposal is not committed twice rests on `LocksExclude`.
`IndInv` is the conjunction; each action preserves it conjunct by conjunct. The
refinement then follows step by step: a commit of an acceptance is `Accept`, of
a rejection `Reject`, every other step a stutter.

`HandlersInv` adds what handlers hold beside their locks. An answer stays true
because decisions are final. `NoFalseException` rests on `SpecsAreUncovered`: an
item derived for later names no row that, as the handler sees the statuses, a
live proposal of the runs it knows covers; and a proposal of these that it sees
as no longer live never becomes live again, since only the execution of its run,
which is past, makes a proposal live. Of a run it does not know nothing is said,
in the invariant or in the theorem.

`RejectedRowsSurface` holds under two hypotheses, and neither can be dropped.
`OneAtATime` says requests do not overlap: the run `MatchDecisionsRace` shows
what happens otherwise. `SharedRowsAreInScope` says that a row of two proposals
is in the scope of both runs or of neither: the configuration
`MatchDecisionsReach` has one that is not. Under them `SurfaceInv` says that a
rejected row is represented between requests, and that what a rejection has
derived so far is whole for the side of the books it has passed
(`DerivationsAreWhole`).

**Reconciliation runs.** From `RowAssumption` (a bank row is no ledger row),
`PairAssumption` (transfers pair ledger rows), `OrderAssumption` (finitely many
rows, integer keys) and `RunAssumption` (types; idle is no run). `ExecutedOnce`
rests on the row lock: a handler holds the row of the run it executes, which
therefore stays READY until that handler commits. `SameScopeSuggestionsDisjoint`
needs the scope lock: `ClaimsAreCurrent` says that what a session takes to be
claimed by earlier runs of its scope still is all there is, since nobody else of
that scope can commit before it. `SyncIsWhole` says that the items a session has
derived cover every row that its own proposals and those committed leave over;
it comes from a lemma about the derivation (`Derived`), and survives other
handlers' steps because these only add proposals or, failing, keep what covers.
What engines return is used only through the lemmas that say which runs and rows
its proposals have (`Formed`), for any scores and tolerances.

`SelectedGroupsDisjoint` compares groups of different passes, so `GroupsInv`
says of each pass (`GroupsAreApart`) that the rows it starts from contain those
of every committed group of its scope, which the scope lock keeps true, and that
its own groups are apart from these, from one another, and from the ledger rows
it has suggested. Within one detection this is an induction on the number of
anchors visited: what is taken grows, and a new group avoids it.

**Open items.** From `UserAssumption` and `BoundAssumption`. What a handler has
read is the committed row, because it holds the lock (`SeenIsCurrent`,
`LocksExclude`), so the event it writes continues the chain; each action is
examined at the item it touches, every other item keeps row and history.
`HistoryIsAChain` says whom an item was assigned to before and after each
assignment, which needs `FirstAssignmentIsKnown`.

**Facilities.** From `RowAssumption` (the kinds of rows are disjoint),
`ColumnAssumption` (types of the columns: every amount, limit and payment is an
integer of any sign) and `FiniteAssumption` (tables have finitely many rows).
`NeverOverdrawn` is about steps: an execution writes a sum it computed from what
it read, so the proof needs `SeenIsCurrent`, that a facility read under its lock
has not changed since. That rests on every other change of a facility asking for
its lock (`Free`) or for the facility not to exist yet, hence `RequestsExist`,
and, for two executions, on `LocksExclude`. An execution raises what is drawn
only if its amount is positive, and then what is available bounds it, although
what is available is never reported below zero. A payment that raises it is of a
negative amount or meets one below zero (`ReducedBound`). `TermsAreVersioned`
needs `VersionsAreCounted`, that a facility nobody has created has no versions.

`DebtIsAccounted` needs, besides, that a request is served once: that is
`HeldRequestsWait`, a request somebody holds is still to be served. Summed over
all steps it says that what was executed is still drawn or has been repaid
(`DebtIsCovered`), a comparison with sums over the executed drawdowns and the
paid repayments, which change by one row at a time; the sum is a lower bound,
because a payment that exceeds the debt is cut off at zero.
`SubLimitsAreAccounted` has a hypothesis of its own,
`RepaymentsStayAtTheirFacility`: a handler locks the facility of its request and
takes the sub-limit that goes with it to be safe (`SeenSubLimitIsCurrent`). The
code does not ensure it, as the crossed payment of section 6 shows, which
breaks this property and no other: the facility's own amount stays right.

**Funding actions.** From `LinkAssumption`. Moves hold no lock, so what a handler
read of the action's status may be stale when it writes. `ExecutedIsBacked` holds
all the same because the check of the transaction is stable, which is
`ChecksLast`: what was found executed or paid stays so. `OneActionPerTransaction`
rests on the unique indexes alone, not on the check before the insert.

**Investments.** From `CalendarAssumption`, `RowAssumption` (a created row is a
DRAFT whose original is its principal) and `RequestAssumption` (types; amounts
may have any sign). `InvestmentsInv` has three parts. `HistoriesAgree` relates
each row to its versions, transactions and keys: principal is original less what
was moved out, the row carries the terms of its last version, every key of a
transaction is the key of an event. `HandlersHold` says that a handler's copy of
a row it has locked is the row, so what the copy was accepted for the row still
accepts. `LedgerIsCounted` says that a reported balance is what its account
opened with and the movements it contains (`known`), of which the derived
position adds exactly the rest. Two facts are less obvious. A settlement leaves
no principal and an investment that is no longer outstanding (`SettlementEnds`),
without which a later penalty could be computed from an original of zero; and
while principal is left the original is positive (`OriginalIsPositive`), so the
flat penalty's division is defined.

**Imports.** From `FileAssumption` (a file has finitely many rows) and
`SourceAssumption` (a user is no row of a file). `WholeImportsAreFinal` rests on
the lock of the batch: `BatchesInv` says that a batch that can be confirmed has
been confirmed in part at most (`HistoryIsOpen`), and that a transaction has at
most one row for each row of the file it has passed (`RowsHaveSources`), from
which the commit leaves one for each (`RowsAreAccounted`). `StrongIdentityOnce`
is stated of the committed rows and is not inductive; `IdentityInv` says it of
these and of every transaction's own together, which is what waiting for a
unique index comes to. `OneCurrentRate` needs to know what a correction in
flight has read: `ReadsAreCurrent` says it is still the current version or that
its successor is committed already, or among the transaction's own, in which
case the index refuses the insertion; `VersionsFollow` says a transaction's own versions continue the
committed ones and nobody else's do, so that its commit moves the current flag
from the last version to the new last one (`Chains`).

**Forecasts.** From `ForecastsAssumption` (a horizon and weeks of at least one
day), `EntriesAssumption` (what the schemas let users enter; amounts of any sign,
any of the four directions), `TablesAssumption` (types of what a calculation
reads; flows recur after at least one day or month, see section 6) and
`CalendarCoversData` (the calendar, which is a constant, does not end before the
dates that are computed). The four properties need one fact each about the
output of a calculation, or of a schedule, and the requests are needed to keep it.

`Whole` is what an output has to be: finitely many lines, each of an entity, a
week and an integer amount, the weeks a balance that runs through these lines
from an integer one, the alerts those that `generate_alerts` raises, whatever
their status. `OutputsAreWhole` is inductive because a calculation leaves a whole
output (`CalculatedIsWhole`) and somebody who has seen an alert changes its
status only (`WholeWhenSeen`). The first is most of the proof: the tables are
finite and so are the lines made of them, of recurring flows and of the open
periods of investments; scenario assumptions keep them typed, which is a
recursion over the assumptions; a rate, direct or inverse, is a fraction with a
positive denominator, so rounding is defined; opening balances and the converted
sum of them are integers.

`OutputAddsUp` then says that a sum over lines may be taken by week, by entity or
by neither. The net flow of some lines is the sum of what each moves
(`NetOfAmounts`), a balance that runs through the weeks moves by the sum of their
flows (`BalanceMoves`), and a sum is the sum over the classes of any key
(`SumOfClasses`). `AlertsMatchViews` compares two computations of one balance:
the view's runs week by week, the alert's adds up all lines until then
(`BalanceOfLines`). They agree up to lines that are `NON_CASH`, which the alert
counts as money coming in and the view does not count:
`AlertsCountNonCash` says so without a hypothesis, and `AlertsMatchViews` follows
where there is no such line (`EntriesMoveCash`). The code does not ensure that
(section 6).

`SchedulesAreWhole` is about the calendar. Every day belongs to one month,
and so many months on there is one day, that of the first date or the month's
last (`MonthsOn`), so the days that are in step with a flow are those it names
(`OccurrencesAreDue`). The ends of an investment's periods
are a recursion over the naturals that grows until it meets the maturity
(`EndsGrow`, `EndsArrive`), which makes the schedule finite, its periods adjacent
and different (`PeriodsAreWhole`). `PublishedHasWeeks` is preserved by a
publication because of what its handler saw, `PublishersSawWeeks`; a calculation
replaces weeks in the transaction in which it computes their successors, and
nobody else removes any.

**How induction is done.** The library's induction theorems take an operator and
cannot be used by the provers at hand. `FiniteSums` derives from the
well-foundedness of < on the naturals that a set of naturals containing 0 and
closed under successor is all of them (`NaturalsFromZero`); every proof above
that follows a recursion (a fold over a set, the anchors of a detection, the
length of a ledger, the weeks of a balance) instantiates it with a set. That the
functions such recursions define exist is shown once for sums, once for functions
of sets and once for functions of naturals (`SetRecursion`, `NaturalRecursion`),
and each recursive definition of the model is an instance.

Only model-checked:

- liveness (`RequestsAreAnswered`, `ExecutionsEnd`), since fairness and ENABLED
  are out of the prover's reach;
- `RejectedRowsSurface`, `SubLimitsAreAccounted` and `AlertsMatchViews` where
  their hypotheses fail: there they do not hold, as section 6 shows of the first
  two and `AlertsCountNonCash` of the third.

## 6 Where the code and what is said of it disagree

Each is a configuration under which TLC finds a property violated that is worded
after the documentation, or after another part of this project. One of them,
a race of two requests of the central workflow, is a run of the project:

| Run | What happens |
|---|---|
| `MatchDecisionsRace` | Two proposals cover a row and are rejected by overlapping requests: each re-derivation sees the other's proposal still pending, and the row ends with neither proposal nor item (`RejectedRowsSurface`). |

The others have configurations that reproduce them. A configuration with two
rows below violates both properties; TLC stops at the first and shows the other
with `-continue`.

| Configuration | What happens | What is said |
|---|---|---|
| `MatchDecisionsReach` | A many-to-one group reaches rows outside its run's period; after its rejection the derivation reads the period only (`RejectedRowsSurface`). | `reconciliation_open_item_service.py:155-156` |
| `MatchDecisionsReach` | A second run, of another scope, is executed while a handler derives items from a coverage read before; it commits a proposal, then the handler an exception for a row of it (`ExceptionsAreTrue`). Any two derivations that overlap an execution may do so. | `reconciliation_open_item_service.py:155-158`, a derivation that overlooks other runs "would raise false BANK_ONLY exceptions" |
| `ReconRunsOneRun` | Two bank rows of one pass claim one ledger row: the query for what was just claimed runs before the flush (`SameRunClaimsDiffer`). | `reconciliation_matching_engine.py:238-240`, "can never both claim" |
| `ReconRunsOneRun` | A many-to-one group takes bank rows that Stage 5C has just matched (`GroupsLeaveMatchedBankRows`). | `reconciliation_advanced_matching.py:8-9`, "left unmatched" |
| `ReconRunsCompeting` | Stage 5C of a second run looks at the suggestions of the first, not at its groups (`ConsumedByOneRun`). | `reconciliation_service.py:221-225` |
| `ReconRunsFailed` | EXECUTE_FAILED is added after the commit of the FAILED run and lost (`FailureIsAudited`). | `docs/STAGE_5B_RECONCILIATION_DATA_MODEL.md:245-248` |
| `ReconRunsFailed` | What a FAILED run leaves pending covers rows of later runs, and cannot be decided (`NothingHidden`). | `reconciliation_open_item_service.py:286-288`, "nothing is hidden" |
| `OpenItemsListed` | The history is ordered by the start of transactions: a request that waited for the lock may be listed before what was done ahead of it (`ListedInOrder`). | `docs/STAGE_5E_OPEN_ITEM_WORKFLOW.md:208`, "Chronological history" |
| `FacilitiesImported` | An imported facility has no version 1: its first change erases the terms it had (`EarlierTermsAreKept`). | `models/facility.py:6-8` |
| `FacilitiesCrossed` | A repayment may name a drawdown of another facility; its payment then reads that facility's sub-limit beside an execution that holds it, and is lost from it or overwrites the execution's addition (`SubLimitsAreAccounted`). | the run `Facilities` |
| `FacilitiesImported` | `paid_amount` has no bound (`schemas/facility.py:205`) and is compared with what remains of the repayment only: a negative one raises the drawn amount of a facility that is suspended, or past its limit (`NeverPastLimit`). | `facility_service.py:202-207`, the check; the run `Facilities`, which exempts such payments |
| `FundingActionsCrossed` | A cancellation overwrites an execution committed since it read the action (`NotCancelledOnceExecuted`). | `models/facility.py:226`: EXECUTED has no move to CANCELLED |
| `InvestmentsOverdrawn` | Two placements are checked against the same cash, each under the lock of its own investment (`AccountsAreCovered`). | `api/v1/investments.py:253`, the check |
| `InvestmentsUnplaced` | The status endpoint makes an investment ACTIVE without a placement, and no cash has moved (`OutstandingWasPlaced`). | the run `Investments` |
| `InvestmentsRolledTwice` | A partly rolled over investment is rolled over again; its link to the first successor is overwritten (`OneReplacement`). | `investment_service.py:413-419`, "can never create two replacement investments from one origin" |
| `ImportsStatements` | A statement imported in part is confirmed again: its rows are now duplicates, none is imported, and the batch says FAILED with 0 rows (`CountsAgree`). | `docs/STAGE_5A_BANK_STATEMENT_INGESTION.md:117-119`, "always consistent with what was actually persisted" |
| `ImportsDoubled` | A ledger file imported in part is confirmed again and its rows are there twice (`ConfirmedOnce`). | `bank_statement_service.py:34-37`, "it can never also import" |
| `ImportsRetyped` | A reissued statement writes 100.00 for 100 and is imported again: the text is compared (`AmountsAreNumbers`). | `docs/STAGE_5A_BANK_STATEMENT_INGESTION.md`, section 7 |
| `ImportsStatements` | Two overlapping statements are uploaded before either is imported; neither is told of the other (`OverlapIsAnnounced`). | `bank_statement_service.py:51`, "the second import should identify the overlap" |

Seen while reading, without a configuration.

Decisions about money:

- `record_repayment_payment` says that a payment "cannot exceed the outstanding
  principal" (`facility_service.py:197`); it compares with the repayment, which
  may be larger than the debt, and cuts the surplus off at zero.
- `approve_funding_action` says "SUBMITTED or UNDER_REVIEW -> APPROVED"
  (`api/v1/funding.py:549`), while the table has no move from SUBMITTED to
  APPROVED (`models/facility.py:219`).
- A rebooking that is retried after its commit may be refused, by the check of
  the status or of the cash the first one has spent, before its key is looked up
  (`api/v1/investments.py:450-475`).
- `expected_interest` is "always the CURRENT projection"
  (`investment_service.py:71`); a settlement sets the principal to zero and
  keeps it.
- A `RATE_REDUCTION` penalty is taken from the interest and once more from the
  proceeds (`investment_engine.py:97-110`).
- `additional_principal` has no lower bound (`schemas/investment.py:138`): a
  negative one skips the check of the cash (`api/v1/investments.py:453`) and is
  booked as an outflow of a negative amount (`investment_service.py:540-552`);
  it may leave an investment with negative principal.
- Placements and terminations imported from Excel move no cash and write neither
  a version nor a new projection.

Forecasts (`FORECAST_METHODOLOGY.md`):

- "a published forecast should be immutable" (`forecast_engine.py:10-12`):
  archiving has no guard, and what is ARCHIVED may be calculated again. Two
  calculations of one forecast that overlap leave every week twice.
- "everything else carries over" (`forecast_lifecycle_service.py:16`): manual
  adjustments are not copied.
- Recurring flows are said to keep their day of the month (section 6); the first
  occurrence of one that began before the horizon is on the horizon's first day,
  whatever its day is.
- One alert for the first week a currency goes negative is announced (section
  12); every negative week gets one.
- A second `COLLECTION_DELAY_WEEKS` moves a collection that the first one
  excluded, from week -1 back into the horizon or to week 0, which no week is
  (`forecast_engine.py:345-357`). `UNEXPECTED_OUTFLOW_AMOUNT` is passed over if
  there are no lines.
- The adjustments of a what-if are not checked against the scope of the
  forecast, and its result is compared with a base that may be out of date.
- An adjustment or a recurring flow may be `NON_CASH` (`schemas/forecast.py:143`,
  `:163`), an event "that isn't itself a cash movement" (`TREASURY_DATA_MODEL.md:94`). The waterfall
  and the views ignore it (`forecast_engine.py:549-557`), shortfall alerts
  (`:640`) and the variance (`forecast_variance_service.py:78`) count it as an
  inflow, so that a shortfall may go without an alert.
- `custom_interval_days` has no lower bound (`schemas/forecast.py:167`): with a
  negative one the occurrences run back from the horizon to the first date there
  is, and the calculation fails (`forecast_engine.py:191-194`).
- Collections that are RECEIVED are still counted beside the ledger's actuals.

Imports: two statement lines without a reference may share a duplicate key and
are both imported; the lookup that validates the next such line then finds two
rows and fails its file.

## 7 Abstractions and limits

- Rows are model values; amounts, dates and references are kept where a rule
  compares them. Texts, reasons, evidence and labels are left out. A permission
  that is missing is a refusal, `GiveUp` or `Abort`.
- A statement is atomic and sees one committed state, as at READ COMMITTED; a
  handler whose statements cannot be told apart by others is one step. So the
  requests of `Facilities` that end with one insert or one locked update are
  single steps; the unlocked validation of a new drawdown is one too, because
  its execution repeats it under locks.
- Amounts in `Facilities` may be negative, as the schemas allow
  (`schemas/facility.py:167`, `:198`, `:205`).
  `covenant_restricted_amount` is always zero: nothing in the code sets it.
  Drawdowns and repayments have no endpoint that rejects or cancels them, so
  those statuses do not occur.
- No endpoint makes a statement or ledger row ineligible, so eligibility is a
  constant; statement rows do arrive while runs execute.
- The calendar is a constant, long enough for the dates computed from the tables
  (`CalendarCoversData`), and flows recur after at least one day or month.
- Text normalization is given by its result (equal and contained references);
  the choice of an exchange rate is the relation `FxMatches`; batch matches are
  one-to-many groups under another label.
- The tables a forecast reads are fixed while forecasts are worked on:
  what changes is the forecast, its adjustments and its outputs. A forecast is
  for one entity or for all; the filter by
  group and inactive entities are left out, and so are the currency and the
  category that an `UNEXPECTED_OUTFLOW_AMOUNT` may name
  (`forecast_engine.py:378`): it is in the currency of the line it follows.
- `delete_output` is one step for the three DELETEs of a calculation
  (`forecast_engine.py:428-430`). One that waits in the first of them may delete,
  in the later ones, weeks or alerts that another calculation has committed
  since; no property is about two calculations that overlap so, of which
  section 6 says what they leave.
- In `MatchDecisions` what an execution finds is a constant of its run: which
  rows two runs may propose at the same time is left open, and the scope lock,
  which keeps executions of one scope apart, is left out. That allows more than
  the code does; `ReconRuns` has the lock and the search.
- A bank reports balances from one source, once a day for each account
  (`models/balance.py:42-44` keeps sources apart). In statements, Reference
  stands for the pair of the bank's reference and its external transaction id,
  and an account is of one currency, which the duplicate key adds
  (`bank_statement_excel_template.py:148-151`): that one reference with two
  external ids is two transactions to the code is not shown.
- In `Imports` an account number names one account, and a batch imports for the
  entities of its user (`allows_entity`); the effects that rows of the
  investment and facility sheets have on an investment or a facility are in
  `Facilities` where it imports, and otherwise left out. `valid` stands for
  cells that only have to parse.
- Not modelled: funding capacity and the grouped cash report, which are
  read-only sums nothing is decided upon; fees, covenants, collateral and
  interest of facilities; interest receipts entered by hand; creation of runs
  and the versions of their configurations; parsing of workbooks, rendering,
  reports and exports; user management, roles and tokens; master data; seeds and
  migrations other than the indexes that properties rest on; and the frontend.

## 8 What is left

1. **Forecast tables with `NON_CASH` entries.** The instance has none, since the
   alerts are known to differ then; it could have them with `AlertsCountNonCash`
   as the property in place of `AlertsMatchViews`.
2. **Reconciliation configurations.** `create_configuration_version`
   (`reconciliation_service.py:150`) reads the current version unlocked, as the
   correction of a rate does: the same module with other names.
3. **Sources that change during a calculation.** A calculation reads its tables
   in a dozen statements; rows that are committed in between are seen by some.
