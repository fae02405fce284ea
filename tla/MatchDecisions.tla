--------------------------- MODULE MatchDecisions ---------------------------
(***************************************************************************)
(* Stage 5E decisions: request handlers that accept or reject the match    *)
(* proposals of reconciliation runs, and the re-derivation of open items   *)
(* that a rejection or the sync endpoint performs, while other handlers    *)
(* execute runs, whose proposals and items are there when they commit.     *)
(*                                                                         *)
(* Source: services/reconciliation_match_decision_service.py, the sync of  *)
(* services/reconciliation_open_item_service.py, and the decide, sync and  *)
(* execute endpoints of api/v1; ReconRuns has the phases of an execution.  *)
(*                                                                         *)
(* The committed database is executed, status, decisions, claims, audit    *)
(* and items.                                                              *)
(* Each worker is one request in one transaction at READ COMMITTED: what   *)
(* it has flushed but not committed lives in its own variables and is      *)
(* seen by others only through row locks and unique indexes.               *)
(***************************************************************************)
EXTENDS OpenItemDerivation

CONSTANTS
    Workers,      \* request handlers
    Completed,    \* the runs whose execution ends COMPLETED; the others end FAILED
    Transfers,    \* the INTERNAL_TRANSFER groups
    Ambiguous,    \* the groups stored AMBIGUOUS
    NoKey,        \* no unique-index entry is being inserted
    Nobody        \* no proposal owns the key

ASSUME StructureAssumption ==
    /\ Completed \subseteq Runs
    /\ Scope \in [Runs -> SUBSET Rows]
    /\ BankRows \intersect LedgerRows = {}
    /\ Active \subseteq Rows
    /\ Suggestions \subseteq Proposals
    /\ Transfers \subseteq Groups
    /\ Ambiguous \subseteq Groups
    /\ AutoTier \subseteq Suggestions
    /\ RunOf \in [Proposals -> Runs]
    /\ RowsOf \in [Proposals -> SUBSET Rows]
    /\ \A p \in Suggestions : Cardinality(RowsOf[p] \intersect BankRows) = 1
    /\ \A p \in Suggestions : Cardinality(RowsOf[p] \intersect LedgerRows) <= 1
    /\ \A p \in Groups : RowsOf[p] # {}

Namespace(p) == IF p \in Transfers THEN "TRANSFER" ELSE "MATCH"
Keys == {"MATCH", "TRANSFER"} \X Rows

ASSUME NoKeyAssumption == NoKey \notin Keys
ASSUME NobodyAssumption == Nobody \notin Proposals

\* The accepted-claim rows an acceptance of p inserts.
proposal_claims(p) == {Namespace(p)} \X RowsOf[p]

Decision == {"ACCEPTED", "REJECTED"}
Request == [op : Decision, on : Proposals] \union [op : {"SYNC", "EXECUTE"}, on : Runs]
Phase == {"idle", "lock", "check", "claim", "bank_side", "ledger_side", "persist", "commit"}
Answer == {"none", "ok", "conflict"}

VARIABLES
    executed,   \* the runs whose execution has committed
    status,     \* committed status of each proposal, ABSENT before that
    decisions,  \* committed decision records, <<proposal, decision>>
    claims,     \* committed accepted-claim rows, <<proposal, key>>
    audit,      \* committed MATCH_* audit events per proposal
    items,      \* committed open items
    phase, req, answer,   \* the request each worker serves
    held,       \* index entries inserted by an open transaction
    cursor,     \* the index entry it is inserting
    specs,      \* items it has derived, then inserted
    known       \* the runs whose proposals its derivation reads; no guard looks at it

db == <<executed, status, decisions, claims, audit, items>>
session == <<held, cursor, specs, known>>
vars == <<db, phase, req, answer, session>>

-----------------------------------------------------------------------------
StoredStatus == [p \in Proposals |-> IF p \in Ambiguous THEN "AMBIGUOUS" ELSE "PENDING"]

NoRequest == [op |-> "NONE"]

Init ==
    /\ executed = {}
    /\ status = [p \in Proposals |-> "ABSENT"]
    /\ decisions = {}
    /\ claims = {}
    /\ audit = [p \in Proposals |-> 0]
    /\ items = {}
    /\ phase = [w \in Workers |-> "idle"]
    /\ req = [w \in Workers |-> NoRequest]
    /\ answer = [w \in Workers |-> "none"]
    /\ held = [w \in Workers |-> {}]
    /\ cursor = [w \in Workers |-> NoKey]
    /\ specs = [w \in Workers |-> {}]
    /\ known = [w \in Workers |-> {}]

-----------------------------------------------------------------------------
(* Locks, views and index entries                                          *)

\* w's transaction holds the FOR UPDATE lock on proposal p.
Locks(w, p) ==
    /\ phase[w] \notin {"idle", "lock"}
    /\ req[w].op \in Decision
    /\ req[w].on = p

\* Mutant: the proposal is read without FOR UPDATE.
Locked_Never(p) == FALSE

Locked(p) == \E w \in Workers : Locks(w, p)

\* w's transaction holds the FOR UPDATE lock on run r, which it executes.
Executes(w, r) == phase[w] # "idle" /\ req[w].op = "EXECUTE" /\ req[w].on = r

\* The run whose items w derives.
SyncRun(w) == IF req[w].op \in Decision THEN RunOf[req[w].on] ELSE req[w].on

\* The statuses w's transaction writes.
Outcome(w) ==
    [p \in Proposals |->
        IF req[w].op \in Decision /\ p = req[w].on THEN req[w].op
        ELSE IF req[w].op = "EXECUTE" /\ RunOf[p] = req[w].on THEN StoredStatus[p]
        ELSE status[p]]

\* Mutant: the rejection is not flushed before the re-derivation.
View_Committed(w) == IF req[w].op \in Decision THEN status ELSE Outcome(w)

\* A derivation reads the committed statuses and what w has flushed.
View(w) == Outcome(w)

\* Mutant: accepted claims of other runs are not looked at.
CommittedKeys_None == {}

CommittedKeys == {c[2] : c \in claims}
\* Mutant: the index on accepted claims is not unique.
HeldByOther_Never(w, k) == FALSE

HeldByOther(w, k) == \E v \in Workers \ {w} : k \in held[v]

\* find_acceptance_conflict: some key of p is in a committed claim.
find_acceptance_conflict(p) == proposal_claims(p) \intersect CommittedKeys # {}

\* A suggestion inserts its bank claim before its ledger claim; a group's
\* members come in no stated order.
MayInsertNext(p, done, k) ==
    /\ k \in proposal_claims(p) \ done
    /\ p \in Suggestions /\ k[2] \in LedgerRows =>
          \A j \in proposal_claims(p) \ done : j[2] \in LedgerRows

WaitsFor(w, v) == phase[w] = "claim" /\ v # w /\ cursor[w] \in held[v]

has_other_live_candidate(p) ==
    \E q \in Suggestions \ {p} :
        /\ RunOf[q] = RunOf[p]
        /\ RowsOf[q] \intersect RowsOf[p] \intersect BankRows # {}
        /\ Live(status, q)

suggestion_not_decidable(p) ==
    Placeholder(p) \/ has_other_live_candidate(p) \/ p \notin AutoTier

Decided(p) == \E d \in Decision : <<p, d>> \in decisions

Decidable(p) ==
    /\ RunOf[p] \in Completed
    /\ status[p] = "PENDING"
    /\ p \in Suggestions => ~suggestion_not_decidable(p)

\* Every transaction the proposal names is still eligible.
eligible(p) == RowsOf[p] \subseteq Active

\* Mutant: the session is left open when a request ends.
Finish_NoRollback(w, a) ==
    /\ phase' = [phase EXCEPT ![w] = "idle"]
    /\ answer' = [answer EXCEPT ![w] = a]
    /\ req' = IF a \in {"ok", "conflict"} THEN req ELSE [req EXCEPT ![w] = NoRequest]
    /\ cursor' = [cursor EXCEPT ![w] = NoKey]
    /\ specs' = [specs EXCEPT ![w] = {}]
    /\ known' = [known EXCEPT ![w] = {}]
    /\ UNCHANGED held

\* The transaction ends.  Only an answer that claims something about the
\* proposal is remembered, with the request it answers.
Finish(w, a) ==
    /\ phase' = [phase EXCEPT ![w] = "idle"]
    /\ answer' = [answer EXCEPT ![w] = a]
    /\ req' = IF a \in {"ok", "conflict"} THEN req ELSE [req EXCEPT ![w] = NoRequest]
    /\ held' = [held EXCEPT ![w] = {}]
    /\ cursor' = [cursor EXCEPT ![w] = NoKey]
    /\ specs' = [specs EXCEPT ![w] = {}]
    /\ known' = [known EXCEPT ![w] = {}]

Goto(w, ph) == phase' = [phase EXCEPT ![w] = ph]

-----------------------------------------------------------------------------
(* Requests                                                                *)

Decide(w, p, d) ==
    /\ phase[w] = "idle"
    /\ status[p] # "ABSENT"
    /\ Goto(w, "lock")
    /\ req' = [req EXCEPT ![w] = [op |-> d, on |-> p]]
    /\ answer' = [answer EXCEPT ![w] = "none"]
    /\ UNCHANGED <<db, session>>

\* The sync endpoint: no lock on the run, only its COMPLETED status.
Sync(w, r) ==
    /\ phase[w] = "idle"
    /\ r \in Completed \intersect executed
    /\ Goto(w, "bank_side")
    /\ req' = [req EXCEPT ![w] = [op |-> "SYNC", on |-> r]]
    /\ answer' = [answer EXCEPT ![w] = "none"]
    /\ UNCHANGED <<db, session>>

\* A run that is READY is locked and matched, which gives it its proposals.
\* An execution that fails commits them, and derives no items.
Execute(w, r) ==
    /\ phase[w] = "idle"
    /\ r \notin executed
    /\ \A v \in Workers : ~Executes(v, r)
    /\ Goto(w, IF r \in Completed THEN "bank_side" ELSE "commit")
    /\ req' = [req EXCEPT ![w] = [op |-> "EXECUTE", on |-> r]]
    /\ answer' = [answer EXCEPT ![w] = "none"]
    /\ UNCHANGED <<db, session>>

\* Mutant: any recorded decision is reported as success.
LockDecided_AnyDecision(w) ==
    /\ phase[w] = "lock"
    /\ ~Locked(req[w].on)
    /\ Decided(req[w].on)
    /\ Finish(w, "ok")
    /\ UNCHANGED db

\* The lock is granted and a decision is already recorded: the same one is
\* an idempotent success, another a conflict.
LockDecided(w) ==
    /\ phase[w] = "lock"
    /\ ~Locked(req[w].on)
    /\ Decided(req[w].on)
    /\ Finish(w, IF <<req[w].on, req[w].op>> \in decisions THEN "ok" ELSE "conflict")
    /\ UNCHANGED db

\* Not decidable here, or the reason is missing or too long.
LockRefused(w) ==
    /\ phase[w] = "lock"
    /\ ~Locked(req[w].on)
    /\ ~Decided(req[w].on)
    /\ Finish(w, "none")
    /\ UNCHANGED db

\* Mutant: an acceptance is sent to its inserts without naming a claim.
LockGranted_NoCheck(w) ==
    /\ phase[w] = "lock"
    /\ ~Locked(req[w].on)
    /\ ~Decided(req[w].on)
    /\ Decidable(req[w].on)
    /\ Goto(w, IF req[w].op = "ACCEPTED" THEN "claim" ELSE "bank_side")
    /\ UNCHANGED <<db, req, answer, session>>

LockGranted(w) ==
    /\ phase[w] = "lock"
    /\ ~Locked(req[w].on)
    /\ ~Decided(req[w].on)
    /\ Decidable(req[w].on)
    /\ Goto(w, IF req[w].op = "ACCEPTED" THEN "check" ELSE "bank_side")
    /\ UNCHANGED <<db, req, answer, session>>

CheckBlocked(w) ==
    /\ phase[w] = "check"
    /\ ~eligible(req[w].on) \/ find_acceptance_conflict(req[w].on)
    /\ Finish(w, "conflict")
    /\ UNCHANGED db

CheckPassed(w) ==
    /\ phase[w] = "check"
    /\ eligible(req[w].on)
    /\ ~find_acceptance_conflict(req[w].on)
    /\ Goto(w, "claim")
    /\ \E k \in proposal_claims(req[w].on) :
          /\ MayInsertNext(req[w].on, {}, k)
          /\ cursor' = [cursor EXCEPT ![w] = k]
    /\ UNCHANGED <<db, req, answer, held, specs, known>>

\* One INSERT into reconciliation_accepted_claims: it succeeds when no
\* committed or in-flight row has the key, and waits on an in-flight one.
InsertClaim(w) ==
    LET p == req[w].on
        done == held[w] \union {cursor[w]}
    IN  /\ phase[w] = "claim"
        /\ cursor[w] \notin CommittedKeys
        /\ ~HeldByOther(w, cursor[w])
        /\ held' = [held EXCEPT ![w] = done]
        /\ \/ /\ proposal_claims(p) \subseteq done
              /\ cursor' = [cursor EXCEPT ![w] = NoKey]
              /\ Goto(w, "commit")
           \/ /\ \E k \in proposal_claims(p) :
                    MayInsertNext(p, done, k) /\ cursor' = [cursor EXCEPT ![w] = k]
              /\ UNCHANGED phase
        /\ UNCHANGED <<db, req, answer, specs, known>>

\* The unique index reports a committed duplicate: nothing is written.
ClaimConflict(w) ==
    /\ phase[w] = "claim"
    /\ cursor[w] \in CommittedKeys
    /\ Finish(w, "conflict")
    /\ UNCHANGED db

\* PostgreSQL ends one transaction of a cycle of waits.
DeadlockAbort(w) ==
    /\ \E C \in SUBSET Workers :
          /\ w \in C
          /\ \A v \in C : (\E u \in C : WaitsFor(v, u)) /\ (\E u \in C : WaitsFor(u, v))
    /\ Finish(w, "none")
    /\ UNCHANGED db

DeriveBankSide(w) ==
    /\ phase[w] = "bank_side"
    /\ specs' = [specs EXCEPT ![w] = AmbiguousItems(View(w), SyncRun(w)) \union BankItems(View(w), SyncRun(w))]
    /\ known' = [known EXCEPT ![w] = executed \union {SyncRun(w)}]
    /\ Goto(w, "ledger_side")
    /\ UNCHANGED <<db, req, answer, held, cursor>>

DeriveLedgerSide(w) ==
    /\ phase[w] = "ledger_side"
    /\ specs' = [specs EXCEPT ![w] = @ \union LedgerItems(View(w), SyncRun(w))]
    /\ Goto(w, "persist")
    /\ UNCHANGED <<db, req, answer, held, cursor, known>>

\* INSERT .. ON CONFLICT DO NOTHING waits for in-flight inserts of its keys.
PersistSpecs(w) ==
    /\ phase[w] = "persist"
    /\ \A v \in Workers \ {w} : phase[v] = "commit" => specs[v] \intersect specs[w] = {}
    /\ specs' = [specs EXCEPT ![w] = @ \ items]
    /\ Goto(w, "commit")
    /\ UNCHANGED <<db, req, answer, held, cursor, known>>

\* The caller commits what the transaction wrote as a whole: decision, claims,
\* status, audit event and items, or the proposals and items of a run. The
\* reply may still be lost on its way.
Commit(w) ==
    LET p == req[w].on IN
    /\ phase[w] = "commit"
    /\ status' = Outcome(w)
    /\ items' = items \union specs[w]
    /\ \/ /\ req[w].op \in Decision
          /\ decisions' = decisions \union {<<p, req[w].op>>}
          /\ claims' = claims \union ({p} \X held[w])
          /\ audit' = [audit EXCEPT ![p] = @ + 1]
          /\ UNCHANGED executed
          /\ \E a \in {"ok", "none"} : Finish(w, a)
       \/ /\ req[w].op \notin Decision
          /\ executed' = IF req[w].op = "EXECUTE" THEN executed \union {p} ELSE executed
          /\ UNCHANGED <<decisions, claims, audit>>
          /\ Finish(w, "none")

\* Mutant: the claims are written in a transaction of their own.
Crash_KeepsClaims(w) ==
    /\ phase[w] = "commit"
    /\ req[w].op = "ACCEPTED"
    /\ claims' = claims \union ({req[w].on} \X held[w])
    /\ Finish(w, "none")
    /\ UNCHANGED <<executed, status, decisions, audit, items>>

\* The process or the connection dies: the transaction rolls back.
Crash(w) ==
    /\ phase[w] # "idle"
    /\ Finish(w, "none")
    /\ UNCHANGED db

Serve(w) ==
    \/ LockDecided(w) \/ LockRefused(w) \/ LockGranted(w)
    \/ CheckBlocked(w) \/ CheckPassed(w)
    \/ InsertClaim(w) \/ ClaimConflict(w) \/ DeadlockAbort(w)
    \/ DeriveBankSide(w) \/ DeriveLedgerSide(w) \/ PersistSpecs(w)
    \/ Commit(w)

Next == \E w \in Workers :
    \/ \E p \in Proposals, d \in Decision : Decide(w, p, d)
    \/ \E r \in Runs : Sync(w, r) \/ Execute(w, r)
    \/ Serve(w)
    \/ Crash(w)

Spec == Init /\ [][Next]_vars

\* PostgreSQL grants a lock or an index wait in FIFO order, so a handler
\* that is runnable again and again does run.
FairSpec == Spec /\ \A w \in Workers : SF_vars(Serve(w))

-----------------------------------------------------------------------------
(* Properties                                                              *)

\* Every variable holds a value the schema and the handlers give it.
TypeOK ==
    /\ executed \subseteq Runs
    /\ status \in [Proposals -> Status \union {"ABSENT"}]
    /\ decisions \subseteq Proposals \X Decision
    /\ claims \subseteq Proposals \X Keys
    /\ audit \in [Proposals -> Nat]
    /\ items \subseteq Item
    /\ phase \in [Workers -> Phase]
    /\ req \in [Workers -> Request \union {NoRequest}]
    /\ \A w \in Workers : phase[w] # "idle" => req[w] \in Request
    /\ \A w \in Workers : phase[w] \in {"lock", "check", "claim"} => req[w].op \in Decision
    /\ answer \in [Workers -> Answer]
    /\ held \in [Workers -> SUBSET Keys]
    /\ cursor \in [Workers -> Keys \union {NoKey}]
    /\ \A w \in Workers : phase[w] = "claim" => cursor[w] \in Keys
    /\ specs \in [Workers -> SUBSET Item]
    /\ known \in [Workers -> SUBSET Runs]

\* The strengthening that makes the safety properties inductive.

\* One handler at a time holds a proposal's lock, and only while the
\* proposal is undecided.
LocksExclude ==
    /\ \A v, w \in Workers, p \in Proposals : Locks(v, p) /\ Locks(w, p) => v = w
    /\ \A w \in Workers, p \in Proposals : Locks(w, p) => status[p] = "PENDING" /\ ~Decided(p)

\* A run is executed once, by one handler at a time, and has its proposals
\* from then on; a decision is about one of them.
ExecutionsExclude ==
    /\ \A v, w \in Workers, r \in Runs : Executes(v, r) /\ Executes(w, r) => v = w
    /\ \A w \in Workers, r \in Runs : Executes(w, r) => r \notin executed
    /\ \A p \in Proposals : status[p] = "ABSENT" <=> RunOf[p] \notin executed
    /\ \A w \in Workers : phase[w] # "idle" /\ req[w].op # "EXECUTE" => SyncRun(w) \in executed

\* Index entries belong to accepting handlers, which insert no key but their
\* proposal's and reach the commit with all of them.
HeldByAcceptors ==
    \A w \in Workers :
        /\ held[w] # {} => phase[w] \in {"claim", "commit"} /\ req[w].op = "ACCEPTED"
        /\ phase[w] \in {"check", "claim"} => req[w].op = "ACCEPTED"
        /\ phase[w] = "claim" => held[w] \union {cursor[w]} \subseteq proposal_claims(req[w].on)
        /\ phase[w] \in {"bank_side", "ledger_side", "persist"} => req[w].op # "ACCEPTED"
        /\ phase[w] = "commit" /\ req[w].op = "ACCEPTED" => held[w] = proposal_claims(req[w].on)

\* The unique indexes: no key is inserted twice, committed or not.
KeysAreUnique ==
    /\ \A c, d \in claims : c[2] = d[2] => c[1] = d[1]
    /\ \A w \in Workers : held[w] \intersect CommittedKeys = {}
    /\ \A v, w \in Workers : v # w => held[v] \intersect held[w] = {}

Accepted(p) == status[p] = "ACCEPTED"
Rejected(p) == status[p] = "REJECTED"

\* No transaction is part of two accepted proposals of one namespace, in
\* whatever runs the proposals are and however their acceptances interleave
\* ("A transaction cannot be accepted twice").
NoDoubleAcceptance ==
    \A p, q \in Proposals :
        p # q /\ Accepted(p) /\ Accepted(q) =>
            proposal_claims(p) \intersect proposal_claims(q) = {}

\* A decision is all or nothing across crashes, aborts and retries: status,
\* the one decision record, the one audit event and the claims agree.
DecisionIsWhole ==
    \A p \in Proposals :
        /\ \A d \in Decision : <<p, d>> \in decisions <=> status[p] = d
        /\ audit[p] = IF Accepted(p) \/ Rejected(p) THEN 1 ELSE 0
        /\ \A k \in Keys : <<p, k>> \in claims <=> Accepted(p) /\ k \in proposal_claims(p)

\* Locks, index entries and decisions agree at every point of every request;
\* inductive, it implies NoDoubleAcceptance.
IndInv == TypeOK /\ LocksExclude /\ ExecutionsExclude /\ HeldByAcceptors /\ KeysAreUnique /\ DecisionIsWhole

\* A recorded decision is never reversed, replaced or removed.
DecisionIsFinal ==
    [][/\ decisions \subseteq decisions'
       /\ claims \subseteq claims'
       /\ \A p \in Proposals : Decided(p) => status'[p] = status[p]]_vars

\* What a handler tells its client is true in the database: success means
\* the decision asked for is recorded, 409 that another one is or that the
\* proposal cannot be accepted any more.
AnswersAreTrue ==
    \A w \in Workers : phase[w] = "idle" /\ req[w].op \in Decision =>
        LET p == req[w].on IN
        /\ answer[w] = "ok" => <<p, req[w].op>> \in decisions
        /\ answer[w] = "conflict" =>
              \/ Decided(p) /\ <<p, req[w].op>> \notin decisions
              \/ req[w].op = "ACCEPTED" /\ ~eligible(p)
              \/ req[w].op = "ACCEPTED" /\ find_acceptance_conflict(p)

CoveredByLive(row) == \E p \in Proposals : row \in RowsOf[p] /\ Live(status, p)
HasItem(row) == \E i \in items : row \in i.rows
Represented(row) ==
    \/ CoveredByLive(row)
    \/ HasItem(row)
    \/ \E g \in Proposals : row \in RowsOf[g] /\ status[g] = "AMBIGUOUS"

IsException(i) == i.category \in {"BANK_ONLY", "LEDGER_ONLY"}

\* An exception a handler raises contradicts no proposal that covers the row
\* when it is raised ("it would raise false BANK_ONLY exceptions"), whatever
\* was decided while it was derived, but one of a run that was executed
\* meanwhile: an execution and a decision share no lock.
NoFalseException ==
    [][\A w \in Workers : \A i \in items' \ items :
          phase[w] = "commit" /\ phase'[w] = "idle" /\ IsException(i) =>
              \A row \in i.rows, p \in Proposals :
                  row \in RowsOf[p] /\ RunOf[p] \in known[w] => ~Live(status', p)]_vars

\* The same without the exemption.
ExceptionsAreTrue ==
    [][\A i \in items' \ items : IsException(i) => \A row \in i.rows : ~CoveredByLive(row)']_vars

\* What a handler is about to raise as an exception, no proposal of the runs
\* it knows that is live in its view covers; what it knows are the runs
\* executed so far; and it has nothing to raise unless it derives items.
SpecsAreUncovered ==
    \A w \in Workers :
        /\ phase[w] \notin {"ledger_side", "persist", "commit"} => specs[w] = {} /\ known[w] = {}
        /\ phase[w] # "idle" => known[w] \subseteq executed \union {SyncRun(w)}
        /\ \A i \in specs[w] : IsException(i) =>
              \A row \in i.rows, p \in Proposals :
                  row \in RowsOf[p] /\ RunOf[p] \in known[w] => ~Live(View(w), p)

\* The invariant about what handlers tell their clients and raise.
HandlersInv == IndInv /\ AnswersAreTrue /\ SpecsAreUncovered

\* Once a proposal is rejected and no request is open, each of its eligible
\* rows in the run's scope is covered by a live proposal or has an item
\* ("nothing is hidden").
RejectedRowsSurface ==
    (\A w \in Workers : phase[w] = "idle") =>
        \A p \in Proposals : Rejected(p) =>
            \A row \in RowsOf[p] \intersect Active \intersect Scope[RunOf[p]] : Represented(row)

\* The invariant behind it.  One handler at a time, a rejected row is never
\* left unrepresented, because what the rejection derives from its own view
\* of the statuses is in its specs until the commit adds it to the items.
OneAtATime == \A v, w \in Workers : v = w

\* A row of two proposals that one run has in scope, the other has too.
SharedRowsAreInScope ==
    \A p, q \in Proposals : RowsOf[p] \intersect RowsOf[q] \intersect Active \intersect Scope[RunOf[p]] \subseteq Scope[RunOf[q]]

RejectedRowsAreRepresented ==
    \A p \in Proposals : Rejected(p) =>
        \A row \in RowsOf[p] \intersect Active \intersect Scope[RunOf[p]] : Represented(row)

DerivationsAreWhole ==
    \A w \in Workers :
        /\ phase[w] = "ledger_side" =>
              AmbiguousItems(View(w), SyncRun(w)) \union BankItems(View(w), SyncRun(w)) \subseteq specs[w]
        /\ phase[w] = "persist" => derive_open_item_specs(View(w), SyncRun(w)) \subseteq specs[w]
        /\ phase[w] = "commit" /\ req[w].op = "REJECTED" =>
              derive_open_item_specs(View(w), SyncRun(w)) \subseteq items \union specs[w]

SurfaceInv ==
    IndInv /\ (OneAtATime /\ SharedRowsAreInScope => RejectedRowsAreRepresented /\ DerivationsAreWhole)

\* Every request is eventually answered: no lock, index wait or cycle of
\* waits holds a handler for ever.
RequestsAreAnswered == \A w \in Workers : (phase[w] # "idle") ~> (phase[w] = "idle")
-----------------------------------------------------------------------------
(* The abstract ownership of transactions, read off the committed claims   *)

OutcomeBar == [p \in Proposals |-> IF status[p] \in Decision THEN status[p] ELSE "OPEN"]

OwnerBar == [k \in Keys |->
    IF \E p \in Proposals : <<p, k>> \in claims
    THEN CHOOSE p \in Proposals : <<p, k>> \in claims
    ELSE Nobody]

KeysOf == [p \in Proposals |-> proposal_claims(p)]

A == INSTANCE AcceptedClaims WITH outcome <- OutcomeBar, owner <- OwnerBar

\* The handlers, with all their locks, waits and aborts, do nothing to the
\* committed claims but accept or reject one open proposal at a time.
RefinesOwnership == A!ASpec
=============================================================================
