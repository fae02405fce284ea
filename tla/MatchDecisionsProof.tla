------------------------ MODULE MatchDecisionsProof -------------------------
(***************************************************************************)
(* Proofs about MatchDecisions, for any number of handlers, runs, rows and *)
(* proposals.                                                              *)
(***************************************************************************)
EXTENDS MatchDecisions, TLAPS

USE DEF Decision

\* The items derived for a run are open items of that run.
LEMMA DerivedAreItems ==
    ASSUME NEW view, NEW r \in Runs
    PROVE  /\ AmbiguousItems(view, r) \subseteq Item
           /\ BankItems(view, r) \subseteq Item
           /\ LedgerItems(view, r) \subseteq Item
<1>1. \A p \in Proposals : RowsOf[p] \subseteq Rows
  BY StructureAssumption
<1>2. AmbiguousItems(view, r) \subseteq Item
  <2>1. \A g \in Groups : Anchor(r, g) \subseteq Rows
    BY <1>1 DEF Anchor, Rows, Groups
  <2>2. QED
    BY <2>1 DEF AmbiguousItems, Item, Category
<1>3. BankItems(view, r) \subseteq Item
  <2>1. \A b \in OpenBankRows(view, r) : {b} \in SUBSET Rows
    BY DEF OpenBankRows, Rows
  <2>2. BankOnlyItems(view, r) \subseteq Item
    BY <2>1 DEF BankOnlyItems, Item, Category
  <2>3. AmbiguousMatchItems(view, r) \subseteq Item
    BY <2>1 DEF AmbiguousMatchItems, Item, Category
  <2>4. ReviewItems(view, r) \subseteq Item
    BY <1>1, StructureAssumption DEF ReviewItems, Item, Category
  <2>5. QED
    BY <2>2, <2>3, <2>4 DEF BankItems
<1>4. LedgerItems(view, r) \subseteq Item
  <2>1. \A l \in LedgerRows : {l} \in SUBSET Rows
    BY DEF Rows
  <2>2. QED
    BY <2>1 DEF LedgerItems, Item, Category
<1>5. QED
  BY <1>2, <1>3, <1>4

\* The end of a transaction keeps the worker's own variables well typed.
LEMMA FinishTyped ==
    ASSUME TypeOK, NEW w \in Workers, NEW a \in Answer, Finish(w, a)
    PROVE  /\ phase' \in [Workers -> Phase]
           /\ req' \in [Workers -> Request \union {NoRequest}]
           /\ \A v \in Workers : phase'[v] # "idle" => req'[v] \in Request
           /\ \A v \in Workers : phase'[v] \in {"lock", "check", "claim"} => req'[v].op \in Decision
           /\ answer' \in [Workers -> Answer]
           /\ held' \in [Workers -> SUBSET Keys]
           /\ cursor' \in [Workers -> Keys \union {NoKey}]
           /\ \A v \in Workers : phase'[v] = "claim" => cursor'[v] \in Keys
           /\ specs' \in [Workers -> SUBSET Item]
           /\ known' \in [Workers -> SUBSET Runs]
  BY DEF TypeOK, Finish, Phase, Answer

\* Initially every variable is well typed.
LEMMA TypeInit == Init => TypeOK
  BY DEF Init, TypeOK, Phase, Answer

\* The statuses a commit writes are statuses.
LEMMA OutcomeTyped ==
    ASSUME TypeOK, NEW w \in Workers
    PROVE  Outcome(w) \in [Proposals -> Status \union {"ABSENT"}]
<1>1. StoredStatus \in [Proposals -> Status]
  BY DEF StoredStatus, Status
<1>2. status \in [Proposals -> Status \union {"ABSENT"}] /\ Decision \subseteq Status
  BY DEF TypeOK, Status
<1>. QED  BY <1>1, <1>2 DEF Outcome

\* Requests name a proposal or, for the sync and execute endpoints, a run.
LEMMA RequestShape ==
    ASSUME TypeOK, NEW w \in Workers, phase[w] # "idle"
    PROVE  /\ req[w].op \in Decision \union {"SYNC", "EXECUTE"}
           /\ req[w].op \notin Decision => req[w].on \in Runs
           /\ req[w].op \in Decision => req[w].on \in Proposals
           /\ SyncRun(w) \in Runs
<1>1. req[w] \in Request
  BY DEF TypeOK
<1>2. /\ req[w].op \in Decision \union {"SYNC", "EXECUTE"}
      /\ req[w].op \notin Decision => req[w].on \in Runs
      /\ req[w].op \in Decision => req[w].on \in Proposals
  BY <1>1 DEF Request
<1>3. QED
  BY <1>2, StructureAssumption DEF SyncRun

\* Every step of a handler, a rollback included, keeps the types.
LEMMA TypeStep == TypeOK /\ [Next]_vars => TypeOK'
<1> SUFFICES ASSUME TypeOK, [Next]_vars PROVE TypeOK'
  OBVIOUS
<1>1. ASSUME NEW w \in Workers, NEW p \in Proposals, NEW d \in Decision, Decide(w, p, d)
      PROVE  TypeOK'
  <2>1. [op |-> d, on |-> p] \in Request
    BY DEF Request
  <2>2. QED
    BY <1>1, <2>1 DEF TypeOK, Decide, Goto, db, session, Phase, Answer
<1>2. ASSUME NEW w \in Workers, NEW r \in Runs, Sync(w, r)
      PROVE  TypeOK'
  <2>1. [op |-> "SYNC", on |-> r] \in Request
    BY DEF Request
  <2>2. QED
    BY <1>2, <2>1 DEF TypeOK, Sync, Goto, db, session, Phase, Answer
<1>a. ASSUME NEW w \in Workers, NEW r \in Runs, Execute(w, r)
      PROVE  TypeOK'
  <2>1. [op |-> "EXECUTE", on |-> r] \in Request
    BY DEF Request
  <2>2. PICK ph \in {"bank_side", "commit"} : phase' = [phase EXCEPT ![w] = ph]
    BY <1>a DEF Execute, Goto
  <2>3. QED
    BY <1>a, <2>1, <2>2 DEF TypeOK, Execute, db, session, Phase, Answer
<1>3. ASSUME NEW w \in Workers, NEW a \in Answer, Finish(w, a), UNCHANGED db
      PROVE  TypeOK'
  BY <1>3, FinishTyped DEF TypeOK, db
<1>4. ASSUME NEW w \in Workers, LockGranted(w)
      PROVE  TypeOK'
  <2>1. req[w].op = "REJECTED" \/ req[w].op = "ACCEPTED"
    BY <1>4, RequestShape DEF TypeOK, LockGranted
  <2>2. QED
    BY <1>4, <2>1 DEF TypeOK, LockGranted, Goto, db, session, Phase
<1>5. ASSUME NEW w \in Workers, CheckPassed(w)
      PROVE  TypeOK'
  <2>1. req[w].on \in Proposals
    BY <1>5, RequestShape DEF CheckPassed, TypeOK
  <2>2. proposal_claims(req[w].on) \subseteq Keys
    BY <2>1, StructureAssumption DEF proposal_claims, Keys, Namespace
  <2>3. QED
    BY <1>5, <2>2 DEF TypeOK, CheckPassed, Goto, db, Phase
<1>6. ASSUME NEW w \in Workers, InsertClaim(w)
      PROVE  TypeOK'
  <2>1. req[w].on \in Proposals
    BY <1>6, RequestShape DEF InsertClaim, TypeOK
  <2>2. proposal_claims(req[w].on) \subseteq Keys
    BY <2>1, StructureAssumption DEF proposal_claims, Keys, Namespace
  <2>3. cursor[w] \in Keys
    BY <1>6 DEF TypeOK, InsertClaim
  <2>4. CASE /\ cursor' = [cursor EXCEPT ![w] = NoKey]
             /\ Goto(w, "commit")
    BY <1>6, <2>3, <2>4 DEF TypeOK, InsertClaim, Goto, db, Phase
  <2>5. CASE /\ \E k \in proposal_claims(req[w].on) : cursor' = [cursor EXCEPT ![w] = k]
             /\ UNCHANGED phase
    BY <1>6, <2>2, <2>3, <2>5 DEF TypeOK, InsertClaim, db
  <2>6. QED
    BY <1>6, <2>4, <2>5 DEF InsertClaim
<1>7. ASSUME NEW w \in Workers, DeriveBankSide(w)
      PROVE  TypeOK'
  <2>1. SyncRun(w) \in Runs
    BY <1>7, RequestShape DEF DeriveBankSide
  <2>2. QED
    BY <1>7, <2>1, DerivedAreItems DEF TypeOK, DeriveBankSide, Goto, db, Phase
<1>8. ASSUME NEW w \in Workers, DeriveLedgerSide(w)
      PROVE  TypeOK'
  <2>1. SyncRun(w) \in Runs
    BY <1>8, RequestShape DEF DeriveLedgerSide
  <2>2. QED
    BY <1>8, <2>1, DerivedAreItems DEF TypeOK, DeriveLedgerSide, Goto, db, Phase
<1>9. ASSUME NEW w \in Workers, PersistSpecs(w)
      PROVE  TypeOK'
  BY <1>9 DEF TypeOK, PersistSpecs, Goto, db, Phase
<1>10. ASSUME NEW w \in Workers, Commit(w)
       PROVE  TypeOK'
  <2>1. PICK a \in {"ok", "none"} : Finish(w, a)
    BY <1>10 DEF Commit
  <2>2. /\ executed' \subseteq Runs
        /\ status' \in [Proposals -> Status \union {"ABSENT"}]
        /\ decisions' \subseteq Proposals \X Decision
        /\ claims' \subseteq Proposals \X Keys
        /\ audit' \in [Proposals -> Nat]
    <3>1. status' \in [Proposals -> Status \union {"ABSENT"}]
      BY <1>10, OutcomeTyped DEF Commit
    <3>2. CASE req[w].op \notin Decision
      <4>1. req[w].on \in Runs
        BY <1>10, <3>2, RequestShape DEF Commit
      <4>2. QED
        BY <1>10, <3>1, <3>2, <4>1 DEF TypeOK, Commit
    <3>3. CASE req[w].op \in Decision
      <4>1. req[w].on \in Proposals
        BY <1>10, <3>3, RequestShape DEF Commit
      <4>2. held[w] \subseteq Keys
        BY DEF TypeOK
      <4>3. QED
        BY <1>10, <3>1, <3>3, <4>1, <4>2 DEF TypeOK, Commit
    <3>4. QED
      BY <3>2, <3>3
  <2>3. items' \subseteq Item
    BY <1>10 DEF TypeOK, Commit
  <2>4. a \in Answer
    BY DEF Answer
  <2>5. QED
    BY <2>1, <2>2, <2>3, <2>4, FinishTyped DEF TypeOK
<1>11. CASE UNCHANGED vars
  BY <1>11 DEF TypeOK, vars, db, session
<1>12. ASSUME NEW w \in Workers, Serve(w)
       PROVE  TypeOK'
  <2>1. {"ok", "conflict", "none"} \subseteq Answer
    BY DEF Answer
  <2>2. CASE LockDecided(w)
    BY <2>1, <2>2, <1>3 DEF LockDecided
  <2>3. CASE LockRefused(w)
    BY <2>1, <2>3, <1>3 DEF LockRefused
  <2>4. CASE CheckBlocked(w)
    BY <2>1, <2>4, <1>3 DEF CheckBlocked
  <2>5. CASE ClaimConflict(w)
    BY <2>1, <2>5, <1>3 DEF ClaimConflict
  <2>6. CASE DeadlockAbort(w)
    BY <2>1, <2>6, <1>3 DEF DeadlockAbort
  <2>7. QED
    BY <1>4, <1>5, <1>6, <1>7, <1>8, <1>9, <1>10, <1>12,
       <2>2, <2>3, <2>4, <2>5, <2>6 DEF Serve
<1>13. ASSUME NEW w \in Workers, Crash(w)
       PROVE  TypeOK'
  BY <1>3, <1>13 DEF Crash, Answer
<1>14. QED
  BY <1>1, <1>2, <1>a, <1>11, <1>12, <1>13 DEF Next

\* Every reachable state is well typed: statuses, claims, items and the
\* handlers' own variables stay in the sets the schema gives them.
THEOREM TypeCorrect == Spec => []TypeOK
  BY TypeInit, TypeStep, PTL DEF Spec

-----------------------------------------------------------------------------
(* The safety of acceptance                                                *)

\* Before the first request no lock, key or decision exists.
LEMMA IndInit == Init => IndInv
<1> SUFFICES ASSUME Init PROVE IndInv
  OBVIOUS
<1>1. TypeOK
  BY TypeInit
<1>2. LocksExclude
  BY DEF Init, LocksExclude, Locks
<1>a. ExecutionsExclude
  BY DEF Init, ExecutionsExclude, Executes
<1>3. HeldByAcceptors
  BY DEF Init, HeldByAcceptors
<1>4. KeysAreUnique
  BY DEF Init, KeysAreUnique, CommittedKeys
<1>5. DecisionIsWhole
  BY DEF Init, DecisionIsWhole, Accepted, Rejected
<1>6. QED
  BY <1>1, <1>2, <1>a, <1>3, <1>4, <1>5 DEF IndInv

\* A step that leaves the database alone leaves decisions whole.
LEMMA DatabaseUnchanged ==
    ASSUME DecisionIsWhole, UNCHANGED db
    PROVE  DecisionIsWhole'
  BY DEF DecisionIsWhole, db, Accepted, Rejected

\* A transaction that ends without a commit only gives up locks and keys.
LEMMA RollbackKeepsInv ==
    ASSUME IndInv, NEW w \in Workers, NEW a \in Answer, Finish(w, a), UNCHANGED db
    PROVE  LocksExclude' /\ HeldByAcceptors' /\ KeysAreUnique' /\ DecisionIsWhole'
<1> USE DEF IndInv
<1>1. /\ phase'[w] = "idle" /\ held'[w] = {}
      /\ \A v \in Workers \ {w} :
            phase'[v] = phase[v] /\ req'[v] = req[v] /\ held'[v] = held[v] /\ cursor'[v] = cursor[v]
  BY DEF Finish, TypeOK
<1>2. LocksExclude'
  BY <1>1 DEF LocksExclude, Locks, Decided, db
<1>3. HeldByAcceptors'
  BY <1>1 DEF HeldByAcceptors
<1>4. KeysAreUnique'
  BY <1>1 DEF KeysAreUnique, CommittedKeys, db
<1>5. QED
  BY <1>2, <1>3, <1>4, DatabaseUnchanged

\* Moving on without a lock, a key or a commit.
LEMMA MoveKeepsInv ==
    ASSUME IndInv, NEW w \in Workers,
           \/ \E p \in Proposals, d \in Decision : Decide(w, p, d)
           \/ \E r \in Runs : Sync(w, r) \/ Execute(w, r)
           \/ LockGranted(w) \/ CheckPassed(w)
           \/ DeriveBankSide(w) \/ DeriveLedgerSide(w) \/ PersistSpecs(w)
    PROVE  LocksExclude' /\ HeldByAcceptors' /\ KeysAreUnique' /\ DecisionIsWhole'
<1> USE DEF IndInv
<1>1. KeysAreUnique' /\ DecisionIsWhole'
  <2>1. UNCHANGED <<db, held>>
    BY DEF Decide, Sync, Execute, LockGranted, CheckPassed, DeriveBankSide, DeriveLedgerSide, PersistSpecs, session
  <2>2. QED
    BY <2>1, DatabaseUnchanged DEF KeysAreUnique, CommittedKeys, db
<1>2. CASE \E p \in Proposals, d \in Decision : Decide(w, p, d)
  <2>1. LocksExclude'
    BY <1>2 DEF Decide, Goto, LocksExclude, Locks, Decided, TypeOK, db, session
  <2>2. HeldByAcceptors'
    BY <1>2 DEF Decide, Goto, HeldByAcceptors, TypeOK, session
  <2>3. QED
    BY <1>1, <2>1, <2>2
<1>3. CASE \E r \in Runs : Sync(w, r) \/ Execute(w, r)
  <2>1. /\ phase[w] = "idle" /\ phase'[w] \in {"bank_side", "commit"}
        /\ req'[w].op \in {"SYNC", "EXECUTE"}
        /\ \A v \in Workers \ {w} : phase'[v] = phase[v] /\ req'[v] = req[v]
        /\ UNCHANGED <<db, held, cursor>>
    BY <1>3 DEF Sync, Execute, Goto, TypeOK, session
  <2>2. LocksExclude'
    BY <2>1 DEF LocksExclude, Locks, Decided, db
  <2>3. HeldByAcceptors'
    BY <2>1 DEF HeldByAcceptors
  <2>4. QED
    BY <1>1, <2>2, <2>3
<1>4. CASE LockGranted(w)
  <2>1. req[w].op \in Decision /\ req[w].on \in Proposals
    <3>1. req[w].op \in Decision
      BY <1>4 DEF LockGranted, TypeOK
    <3>2. phase[w] # "idle" /\ TypeOK
      BY <1>4 DEF LockGranted
    <3>3. QED
      BY <3>1, <3>2, RequestShape
  <2>2. LocksExclude'
    <3>1. /\ UNCHANGED <<db, req>> /\ \A v \in Workers \ {w} : phase'[v] = phase[v]
          /\ status[req[w].on] = "PENDING" /\ ~Decided(req[w].on)
          /\ \A v \in Workers : ~Locks(v, req[w].on)
      BY <1>4 DEF LockGranted, Decidable, Goto, Locked, TypeOK
    <3>2. \A v \in Workers, p \in Proposals : Locks(v, p)' => Locks(v, p) \/ (v = w /\ p = req[w].on)
      BY <3>1 DEF Locks
    <3>3. QED
      BY <2>1, <3>1, <3>2 DEF LocksExclude, Decided, db
  <2>3. HeldByAcceptors'
    BY <1>4, <2>1 DEF LockGranted, Goto, HeldByAcceptors, TypeOK, session
  <2>4. QED
    BY <1>1, <2>2, <2>3
<1>5. CASE CheckPassed(w)
  <2>1. LocksExclude'
    BY <1>5 DEF CheckPassed, Goto, LocksExclude, Locks, Decided, TypeOK, db
  <2>2. HeldByAcceptors'
    BY <1>5 DEF CheckPassed, Goto, HeldByAcceptors, TypeOK
  <2>3. QED
    BY <1>1, <2>1, <2>2
<1>6. CASE DeriveBankSide(w) \/ DeriveLedgerSide(w) \/ PersistSpecs(w)
  <2>1. /\ phase[w] \in {"bank_side", "ledger_side", "persist"}
        /\ phase'[w] \in {"ledger_side", "persist", "commit"}
        /\ \A v \in Workers \ {w} : phase'[v] = phase[v]
        /\ UNCHANGED <<db, req, held, cursor>>
    BY <1>6 DEF DeriveBankSide, DeriveLedgerSide, PersistSpecs, Goto, TypeOK
  <2>2. LocksExclude'
    BY <2>1 DEF LocksExclude, Locks, Decided, db
  <2>3. HeldByAcceptors'
    BY <2>1 DEF HeldByAcceptors
  <2>4. QED
    BY <1>1, <2>2, <2>3
<1>7. QED
  BY <1>2, <1>3, <1>4, <1>5, <1>6

\* An index insert adds a key that no one, committed or not, has.
LEMMA InsertKeepsInv ==
    ASSUME IndInv, NEW w \in Workers, InsertClaim(w)
    PROVE  LocksExclude' /\ HeldByAcceptors' /\ KeysAreUnique' /\ DecisionIsWhole'
<1> USE DEF IndInv
<1>1. /\ phase[w] = "claim"
      /\ UNCHANGED <<db, req>>
      /\ held' = [held EXCEPT ![w] = held[w] \union {cursor[w]}]
      /\ cursor[w] \notin CommittedKeys
      /\ ~HeldByOther(w, cursor[w])
  BY DEF InsertClaim
<1>2. \A v \in Workers \ {w} :
          phase'[v] = phase[v] /\ held'[v] = held[v] /\ cursor'[v] = cursor[v]
  BY <1>1 DEF InsertClaim, Goto, TypeOK
<1>3. \/ /\ phase'[w] = "commit"
         /\ proposal_claims(req[w].on) \subseteq held'[w]
      \/ /\ phase'[w] = "claim"
         /\ cursor'[w] \in proposal_claims(req[w].on)
  BY <1>1 DEF InsertClaim, Goto, TypeOK
<1>4. req[w].op = "ACCEPTED" /\ held'[w] \subseteq proposal_claims(req[w].on)
  BY <1>1 DEF HeldByAcceptors, TypeOK
<1>5. LocksExclude'
  BY <1>1, <1>2, <1>3 DEF LocksExclude, Locks, Decided, db
<1>6. HeldByAcceptors'
  <2>1. /\ phase'[w] = "claim" => held'[w] \union {cursor'[w]} \subseteq proposal_claims(req[w].on)
        /\ phase'[w] = "commit" => held'[w] = proposal_claims(req[w].on)
        /\ phase'[w] \in {"claim", "commit"}
    BY <1>3, <1>4
  <2>2. \A v \in Workers \ {w} :
            phase'[v] = phase[v] /\ held'[v] = held[v] /\ cursor'[v] = cursor[v] /\ req'[v] = req[v]
    BY <1>1, <1>2
  <2>3. QED
    BY <1>1, <1>4, <2>1, <2>2 DEF HeldByAcceptors
<1>7. KeysAreUnique'
  <2>1. \A v \in Workers \ {w} : cursor[w] \notin held[v]
    BY <1>1 DEF HeldByOther
  <2>2. held'[w] = held[w] \union {cursor[w]}
    BY <1>1 DEF TypeOK
  <2>3. QED
    BY <1>1, <1>2, <2>1, <2>2 DEF KeysAreUnique, CommittedKeys, db
<1>8. QED
  BY <1>1, <1>5, <1>6, <1>7, DatabaseUnchanged

\* The effect of a sync's commit, an execution's and a decision's on the
\* database.
LEMMA CommitEffect ==
    ASSUME IndInv, NEW w \in Workers, Commit(w)
    PROVE  \/ /\ req[w].op = "SYNC"
              /\ UNCHANGED <<executed, status, decisions, claims, audit>>
           \/ \E r \in Runs :
                 /\ req[w].op = "EXECUTE" /\ Executes(w, r)
                 /\ executed' = executed \union {r}
                 /\ \A p \in Proposals : RunOf[p] = r =>
                       status[p] = "ABSENT" /\ status'[p] \in {"PENDING", "AMBIGUOUS"}
                 /\ \A p \in Proposals : RunOf[p] # r => status'[p] = status[p]
                 /\ UNCHANGED <<decisions, claims, audit>>
           \/ \E p \in Proposals, d \in Decision :
                 /\ Locks(w, p) /\ req[w].op = d
                 /\ status[p] = "PENDING" /\ ~Decided(p)
                 /\ status' = [status EXCEPT ![p] = d]
                 /\ decisions' = decisions \union {<<p, d>>}
                 /\ claims' = claims \union ({p} \X held[w])
                 /\ audit' = [audit EXCEPT ![p] = @ + 1]
                 /\ held[w] = IF d = "ACCEPTED" THEN proposal_claims(p) ELSE {}
                 /\ UNCHANGED executed
<1> USE DEF IndInv
<1>1. phase[w] = "commit" /\ status' = Outcome(w) /\ status \in [Proposals -> Status \union {"ABSENT"}]
  BY DEF Commit, TypeOK
<1>2. CASE req[w].op = "SYNC"
  <2>1. status' = status
    BY <1>1, <1>2 DEF Outcome
  <2>. QED  BY <1>2, <2>1 DEF Commit
<1>3. CASE req[w].op = "EXECUTE"
  <2>1. Executes(w, req[w].on) /\ req[w].on \in Runs
    BY <1>1, <1>3, RequestShape DEF Executes
  <2>2. \A p \in Proposals : RunOf[p] = req[w].on => status[p] = "ABSENT"
    BY <2>1 DEF ExecutionsExclude
  <2>3. \A p \in Proposals : status'[p] = IF RunOf[p] = req[w].on THEN StoredStatus[p] ELSE status[p]
    BY <1>1, <1>3 DEF Outcome
  <2>4. \A p \in Proposals : StoredStatus[p] \in {"PENDING", "AMBIGUOUS"}
    BY DEF StoredStatus
  <2>. QED  BY <1>3, <2>1, <2>2, <2>3, <2>4 DEF Commit
<1>4. CASE req[w].op \in Decision
  <2>1. req[w].on \in Proposals
    BY <1>1, <1>4, RequestShape
  <2>2. Locks(w, req[w].on)
    BY <1>1, <1>4 DEF Locks
  <2>3. status[req[w].on] = "PENDING" /\ ~Decided(req[w].on)
    BY <2>1, <2>2 DEF LocksExclude
  <2>4. held[w] = IF req[w].op = "ACCEPTED" THEN proposal_claims(req[w].on) ELSE {}
    BY <1>1, <1>4, <2>1 DEF HeldByAcceptors
  <2>5. status' = [status EXCEPT ![req[w].on] = req[w].op]
    BY <1>1, <1>4 DEF Outcome
  <2>. QED  BY <1>4, <2>1, <2>2, <2>3, <2>4, <2>5 DEF Commit
<1>. QED  BY <1>1, <1>2, <1>3, <1>4, RequestShape

\* A commit publishes the keys its transaction held and gives up its lock.
LEMMA CommitKeepsInv ==
    ASSUME IndInv, NEW w \in Workers, Commit(w)
    PROVE  LocksExclude' /\ HeldByAcceptors' /\ KeysAreUnique' /\ DecisionIsWhole'
<1> USE DEF IndInv
<1>1. /\ phase'[w] = "idle" /\ held'[w] = {}
      /\ \A v \in Workers \ {w} :
            phase'[v] = phase[v] /\ req'[v] = req[v] /\ held'[v] = held[v] /\ cursor'[v] = cursor[v]
  BY DEF Commit, Finish, TypeOK
<1>2. HeldByAcceptors'
  BY <1>1 DEF HeldByAcceptors
<1>a. ASSUME NEW r \in Runs,
             \A p \in Proposals : RunOf[p] = r => status[p] = "ABSENT" /\ status'[p] \in {"PENDING", "AMBIGUOUS"},
             \A p \in Proposals : RunOf[p] # r => status'[p] = status[p],
             UNCHANGED <<decisions, claims, audit>>
      PROVE  LocksExclude' /\ KeysAreUnique' /\ DecisionIsWhole'
  <2>1. LocksExclude'
    <3>1. \A v \in Workers, p \in Proposals : Locks(v, p)' => Locks(v, p)
      BY <1>1 DEF Locks
    <3>2. \A p \in Proposals : status[p] = "PENDING" => status'[p] = "PENDING"
      BY <1>a
    <3>3. QED
      BY <1>a, <3>1, <3>2 DEF LocksExclude, Decided
  <2>2. KeysAreUnique'
    BY <1>1, <1>a DEF KeysAreUnique, CommittedKeys
  <2>3. DecisionIsWhole'
    <3>1. \A p \in Proposals, d \in Decision : status'[p] = d <=> status[p] = d
      BY <1>a
    <3>2. QED
      BY <1>a, <3>1 DEF DecisionIsWhole, Accepted, Rejected
  <2>4. QED
    BY <2>1, <2>2, <2>3
<1>3. CASE UNCHANGED <<status, decisions, claims, audit>>
  <2>1. LocksExclude'
    BY <1>1, <1>3 DEF LocksExclude, Locks, Decided
  <2>2. KeysAreUnique'
    BY <1>1, <1>3 DEF KeysAreUnique, CommittedKeys
  <2>3. DecisionIsWhole'
    BY <1>3 DEF DecisionIsWhole, Accepted, Rejected
  <2>4. QED
    BY <1>2, <2>1, <2>2, <2>3
<1>4. ASSUME NEW p \in Proposals, NEW d \in Decision,
             Locks(w, p), status[p] = "PENDING", ~Decided(p),
             status' = [status EXCEPT ![p] = d],
             decisions' = decisions \union {<<p, d>>},
             claims' = claims \union ({p} \X held[w]),
             audit' = [audit EXCEPT ![p] = @ + 1],
             held[w] = IF d = "ACCEPTED" THEN proposal_claims(p) ELSE {}
      PROVE  LocksExclude' /\ KeysAreUnique' /\ DecisionIsWhole'
  <2>1. LocksExclude'
    <3>1. \A v \in Workers, q \in Proposals : Locks(v, q)' => Locks(v, q) /\ v # w /\ q # p
      BY <1>1, <1>4 DEF LocksExclude, Locks
    <3>2. \A q \in Proposals \ {p} : status'[q] = status[q] /\ (Decided(q)' <=> Decided(q))
      BY <1>4 DEF Decided, TypeOK
    <3>3. QED
      BY <3>1, <3>2 DEF LocksExclude
  <2>2. KeysAreUnique'
    <3>1. CommittedKeys' \subseteq CommittedKeys \union held[w]
      <4>1. \A c \in claims' : c \in claims \/ c[2] \in held[w]
        BY <1>4
      <4>2. QED
        BY <4>1 DEF CommittedKeys
    <3>2. \A v \in Workers : held'[v] \intersect CommittedKeys' = {}
      BY <1>1, <3>1 DEF KeysAreUnique
    <3>3. \A u, v \in Workers : u # v => held'[u] \intersect held'[v] = {}
      BY <1>1 DEF KeysAreUnique
    <3>4. \A c, e \in claims' : c[2] = e[2] => c[1] = e[1]
      <4>1. \A c \in claims' : c \in claims \/ (c[1] = p /\ c[2] \in held[w])
        BY <1>4
      <4>2. \A c \in claims : c[2] \notin held[w]
        BY DEF KeysAreUnique, CommittedKeys
      <4>3. QED
        BY <4>1, <4>2 DEF KeysAreUnique
    <3>5. QED
      BY <3>2, <3>3, <3>4 DEF KeysAreUnique
  <2>3. DecisionIsWhole'
    <3>1. ASSUME NEW q \in Proposals, q # p
          PROVE  /\ \A e \in Decision : <<q, e>> \in decisions' <=> status'[q] = e
                 /\ audit'[q] = IF status'[q] \in {"ACCEPTED", "REJECTED"} THEN 1 ELSE 0
                 /\ \A k \in Keys : <<q, k>> \in claims' <=> status'[q] = "ACCEPTED" /\ k \in proposal_claims(q)
      BY <1>4, <3>1 DEF DecisionIsWhole, Accepted, Rejected, TypeOK
    <3>2. \A e \in Decision : <<p, e>> \in decisions' <=> status'[p] = e
      BY <1>4 DEF Decided, TypeOK
    <3>3. audit'[p] = 1
      <4>1. audit[p] = 0
        BY <1>4 DEF DecisionIsWhole, Accepted, Rejected
      <4>2. audit'[p] = audit[p] + 1
        BY <1>4 DEF TypeOK
      <4>3. QED
        BY <4>1, <4>2
    <3>4. \A k \in Keys : <<p, k>> \in claims' <=> status'[p] = "ACCEPTED" /\ k \in proposal_claims(p)
      BY <1>4 DEF DecisionIsWhole, Accepted, TypeOK
    <3>5. status'[p] = d
      BY <1>4 DEF TypeOK
    <3>6. QED
      BY <3>1, <3>2, <3>3, <3>4, <3>5 DEF DecisionIsWhole, Accepted, Rejected
  <2>4. QED
    BY <2>1, <2>2, <2>3
<1>5. QED
  BY <1>2, <1>a, <1>3, <1>4, CommitEffect

\* A request that ends or goes on was there before.
LEMMA Working ==
    ASSUME TypeOK, NEW w \in Workers, Serve(w) \/ Crash(w), NEW v \in Workers, phase'[v] # "idle"
    PROVE  phase[v] # "idle" /\ req'[v] = req[v]
<1>1. ASSUME NEW a \in Answer, Finish(w, a)
      PROVE  phase[v] # "idle" /\ req'[v] = req[v]
  BY <1>1 DEF Finish, TypeOK
<1>2. CASE \/ LockDecided(w) \/ LockRefused(w) \/ CheckBlocked(w) \/ ClaimConflict(w)
           \/ DeadlockAbort(w) \/ Crash(w) \/ Commit(w)
  BY <1>1, <1>2 DEF LockDecided, LockRefused, CheckBlocked, ClaimConflict, DeadlockAbort, Crash, Commit, Answer
<1>3. CASE \/ LockGranted(w) \/ CheckPassed(w) \/ InsertClaim(w)
           \/ DeriveBankSide(w) \/ DeriveLedgerSide(w) \/ PersistSpecs(w)
  <2>1. phase[w] # "idle" /\ req' = req /\ (v # w => phase'[v] = phase[v])
    BY <1>3 DEF LockGranted, CheckPassed, InsertClaim, DeriveBankSide, DeriveLedgerSide, PersistSpecs, Goto, TypeOK
  <2>. QED  BY <2>1
<1>. QED  BY <1>2, <1>3 DEF Serve

\* A run is executed by whoever locked it while it was not, and once.
LEMMA ExecutionsStep ==
    ASSUME IndInv, [Next]_vars
    PROVE  ExecutionsExclude'
<1> USE DEF IndInv
<1>1. ASSUME UNCHANGED <<executed, status>>,
             \A v \in Workers : phase'[v] # "idle" => phase[v] # "idle" /\ req'[v] = req[v]
      PROVE  ExecutionsExclude'
  <2>1. \A v \in Workers, r \in Runs : Executes(v, r)' => Executes(v, r)
    BY <1>1 DEF Executes
  <2>. QED  BY <1>1, <2>1 DEF ExecutionsExclude, SyncRun
<1>2. CASE UNCHANGED vars
  BY <1>1, <1>2 DEF vars, db
<1>3. ASSUME NEW w \in Workers, Serve(w) \/ Crash(w), UNCHANGED db PROVE ExecutionsExclude'
  BY <1>1, <1>3, Working DEF db
<1>4. ASSUME NEW w \in Workers, Commit(w) PROVE ExecutionsExclude'
  <2>1. \A v \in Workers : phase'[v] # "idle" => v # w /\ phase[v] # "idle" /\ req'[v] = req[v]
    BY <1>4 DEF Commit, Finish, TypeOK
  <2>2. \A v \in Workers, r \in Runs : Executes(v, r)' => v # w /\ Executes(v, r)
    BY <2>1 DEF Executes
  <2>3. CASE UNCHANGED <<executed, status, decisions, claims, audit>>
    BY <1>1, <2>1, <2>3
  <2>4. ASSUME NEW r \in Runs, Executes(w, r), executed' = executed \union {r},
               \A p \in Proposals : RunOf[p] = r => status[p] = "ABSENT" /\ status'[p] \in {"PENDING", "AMBIGUOUS"},
               \A p \in Proposals : RunOf[p] # r => status'[p] = status[p]
        PROVE  ExecutionsExclude'
    <3>1. \A v \in Workers, x \in Runs : Executes(v, x)' => x \notin executed'
      BY <2>2, <2>4 DEF ExecutionsExclude
    <3>2. \A p \in Proposals : status'[p] = "ABSENT" <=> RunOf[p] \notin executed'
      BY <2>4 DEF ExecutionsExclude
    <3>3. \A v \in Workers : phase'[v] # "idle" /\ req'[v].op # "EXECUTE" => SyncRun(v)' \in executed'
      BY <2>1, <2>4 DEF ExecutionsExclude, SyncRun
    <3>. QED  BY <2>2, <3>1, <3>2, <3>3 DEF ExecutionsExclude
  <2>5. ASSUME NEW p \in Proposals, NEW d \in Decision, status[p] = "PENDING",
               status' = [status EXCEPT ![p] = d], UNCHANGED executed
        PROVE  ExecutionsExclude'
    <3>1. \A q \in Proposals : status'[q] = "ABSENT" <=> status[q] = "ABSENT"
      BY <2>5 DEF TypeOK
    <3>2. \A v \in Workers : phase'[v] # "idle" /\ req'[v].op # "EXECUTE" => SyncRun(v)' \in executed'
      BY <2>1, <2>5 DEF ExecutionsExclude, SyncRun
    <3>. QED  BY <2>2, <2>5, <3>1, <3>2 DEF ExecutionsExclude
  <2>. QED  BY <1>4, <2>3, <2>4, <2>5, CommitEffect
<1>5. ASSUME NEW w \in Workers, NEW p \in Proposals, NEW d \in Decision, Decide(w, p, d)
      PROVE  ExecutionsExclude'
  <2>1. /\ RunOf[p] \in executed /\ UNCHANGED <<executed, status>>
        /\ req'[w].op = d /\ req'[w].on = p
        /\ \A v \in Workers \ {w} : phase'[v] = phase[v] /\ req'[v] = req[v]
    BY <1>5 DEF Decide, Goto, TypeOK, ExecutionsExclude, db
  <2>2. \A v \in Workers, r \in Runs : Executes(v, r)' => Executes(v, r)
    BY <2>1 DEF Executes
  <2>. QED  BY <2>1, <2>2 DEF ExecutionsExclude, SyncRun
<1>6. ASSUME NEW w \in Workers, NEW r \in Runs, Sync(w, r) PROVE ExecutionsExclude'
  <2>1. /\ r \in executed /\ UNCHANGED <<executed, status>>
        /\ req'[w].op = "SYNC" /\ req'[w].on = r
        /\ \A v \in Workers \ {w} : phase'[v] = phase[v] /\ req'[v] = req[v]
    BY <1>6 DEF Sync, Goto, TypeOK, db
  <2>2. \A v \in Workers, x \in Runs : Executes(v, x)' => Executes(v, x)
    BY <2>1 DEF Executes
  <2>. QED  BY <2>1, <2>2 DEF ExecutionsExclude, SyncRun
<1>7. ASSUME NEW w \in Workers, NEW r \in Runs, Execute(w, r) PROVE ExecutionsExclude'
  <2>1. /\ r \notin executed /\ UNCHANGED <<executed, status>>
        /\ \A v \in Workers : ~Executes(v, r)
        /\ req'[w].op = "EXECUTE" /\ req'[w].on = r
        /\ \A v \in Workers \ {w} : phase'[v] = phase[v] /\ req'[v] = req[v]
    BY <1>7 DEF Execute, Goto, TypeOK, db
  <2>2. \A v \in Workers, x \in Runs : Executes(v, x)' => (v = w /\ x = r) \/ (v # w /\ Executes(v, x))
    BY <2>1 DEF Executes
  <2>. QED  BY <2>1, <2>2 DEF ExecutionsExclude, SyncRun
<1>8. ASSUME NEW w \in Workers, Serve(w) \/ Crash(w) PROVE ExecutionsExclude'
  <2>1. UNCHANGED db \/ Commit(w)
    BY <1>8 DEF Serve, Crash, LockDecided, LockRefused, LockGranted, CheckBlocked, CheckPassed,
              InsertClaim, ClaimConflict, DeadlockAbort, DeriveBankSide, DeriveLedgerSide, PersistSpecs
  <2>. QED  BY <2>1, <1>3, <1>4, <1>8
<1>. QED  BY <1>2, <1>5, <1>6, <1>7, <1>8 DEF Next

\* The strengthened invariant is inductive.
LEMMA IndStep == IndInv /\ [Next]_vars => IndInv'
<1> SUFFICES ASSUME IndInv, [Next]_vars PROVE IndInv'
  OBVIOUS
<1>1. TypeOK' /\ ExecutionsExclude'
  BY TypeStep, ExecutionsStep DEF IndInv
<1>2. CASE UNCHANGED vars
  BY <1>1, <1>2 DEF IndInv, vars, db, session, LocksExclude, Locks, Decided, HeldByAcceptors,
                    KeysAreUnique, CommittedKeys, DecisionIsWhole, Accepted, Rejected
<1>3. ASSUME NEW w \in Workers,
             LockDecided(w) \/ LockRefused(w) \/ CheckBlocked(w) \/ ClaimConflict(w)
                 \/ DeadlockAbort(w) \/ Crash(w)
      PROVE  IndInv'
  <2>1. UNCHANGED db /\ \E a \in Answer : Finish(w, a)
    BY <1>3 DEF LockDecided, LockRefused, CheckBlocked, ClaimConflict, DeadlockAbort, Crash, Answer
  <2>2. QED
    BY <1>1, <2>1, RollbackKeepsInv DEF IndInv
<1>4. ASSUME NEW w \in Workers, InsertClaim(w)
      PROVE  IndInv'
  BY <1>1, <1>4, InsertKeepsInv DEF IndInv
<1>5. ASSUME NEW w \in Workers, Commit(w)
      PROVE  IndInv'
  BY <1>1, <1>5, CommitKeepsInv DEF IndInv
<1>6. ASSUME NEW w \in Workers,
             \/ \E p \in Proposals, d \in Decision : Decide(w, p, d)
             \/ \E r \in Runs : Sync(w, r) \/ Execute(w, r)
             \/ LockGranted(w) \/ CheckPassed(w)
             \/ DeriveBankSide(w) \/ DeriveLedgerSide(w) \/ PersistSpecs(w)
      PROVE  IndInv'
  BY <1>1, <1>6, MoveKeepsInv DEF IndInv
<1>7. QED
  BY <1>2, <1>3, <1>4, <1>5, <1>6 DEF Next, Serve

\* Unique keys and whole decisions leave no room for a shared transaction.
LEMMA IndImpliesSafety == IndInv => NoDoubleAcceptance
<1> SUFFICES ASSUME IndInv, NEW p \in Proposals, NEW q \in Proposals,
                    Accepted(p), Accepted(q),
                    NEW k \in proposal_claims(p), k \in proposal_claims(q)
             PROVE  p = q
  BY DEF NoDoubleAcceptance
<1>1. k \in Keys
  BY StructureAssumption DEF proposal_claims, Keys, Namespace
<1>2. <<p, k>> \in claims /\ <<q, k>> \in claims
  BY <1>1 DEF IndInv, DecisionIsWhole
<1>3. QED
  BY <1>2 DEF IndInv, KeysAreUnique

\* Locks exclude, index entries are unique and decisions are whole in every
\* reachable state, whatever the handlers, runs and proposals.
THEOREM Invariance == Spec => []IndInv
  BY IndInit, IndStep, PTL DEF Spec

\* However many handlers accept, over however many runs, no transaction is
\* ever part of two accepted proposals of one namespace.
THEOREM NoDoubleAcceptanceHolds == Spec => []NoDoubleAcceptance
  BY Invariance, IndImpliesSafety, PTL

\* A decision is written whole or not at all: record, status, one audit
\* event and exactly the proposal's claims.
THEOREM DecisionIsWholeHolds == Spec => []DecisionIsWhole
<1>1. IndInv => DecisionIsWhole
  BY DEF IndInv
<1>2. QED
  BY <1>1, Invariance, PTL

-----------------------------------------------------------------------------
(* Decisions are final                                                     *)

\* Only a commit changes the database.
LEMMA OnlyCommitWrites ==
    ASSUME [Next]_vars
    PROVE  UNCHANGED db \/ \E w \in Workers : Commit(w)
<1>1. ASSUME NEW w \in Workers, Serve(w) \/ Crash(w)
      PROVE  UNCHANGED db \/ Commit(w)
  BY <1>1 DEF Serve, Crash, LockDecided, LockRefused, LockGranted, CheckBlocked, CheckPassed,
              InsertClaim, ClaimConflict, DeadlockAbort, DeriveBankSide, DeriveLedgerSide, PersistSpecs
<1>2. ASSUME NEW w \in Workers,
             \/ \E p \in Proposals, d \in Decision : Decide(w, p, d)
             \/ \E r \in Runs : Sync(w, r) \/ Execute(w, r)
      PROVE  UNCHANGED db
  BY <1>2 DEF Decide, Sync, Execute
<1>3. CASE UNCHANGED vars
  BY <1>3 DEF vars
<1>4. QED
  BY <1>1, <1>2, <1>3 DEF Next

\* No step removes or changes what is recorded of a decision.
LEMMA FinalStep ==
    ASSUME IndInv, [Next]_vars
    PROVE  /\ decisions \subseteq decisions'
           /\ claims \subseteq claims'
           /\ \A p \in Proposals : Decided(p) => status'[p] = status[p]
<1>1. CASE UNCHANGED db
  BY <1>1 DEF db
<1>2. ASSUME NEW w \in Workers, Commit(w)
      PROVE  /\ decisions \subseteq decisions'
             /\ claims \subseteq claims'
             /\ \A p \in Proposals : Decided(p) => status'[p] = status[p]
  <2>1. CASE UNCHANGED <<status, decisions, claims, audit>>
    BY <2>1
  <2>a. ASSUME NEW r \in Runs,
               \A p \in Proposals : RunOf[p] = r => status[p] = "ABSENT",
               \A p \in Proposals : RunOf[p] # r => status'[p] = status[p],
               UNCHANGED <<decisions, claims, audit>>
        PROVE  /\ decisions \subseteq decisions'
               /\ claims \subseteq claims'
               /\ \A q \in Proposals : Decided(q) => status'[q] = status[q]
    <3>1. \A q \in Proposals : Decided(q) => status[q] # "ABSENT"
      BY DEF IndInv, DecisionIsWhole, Decided
    <3>. QED  BY <2>a, <3>1
  <2>2. ASSUME NEW p \in Proposals, NEW d \in Decision, ~Decided(p),
               status' = [status EXCEPT ![p] = d],
               decisions' = decisions \union {<<p, d>>},
               claims' = claims \union ({p} \X held[w])
        PROVE  /\ decisions \subseteq decisions'
               /\ claims \subseteq claims'
               /\ \A q \in Proposals : Decided(q) => status'[q] = status[q]
    BY <2>2 DEF IndInv, TypeOK
  <2>3. QED
    BY <1>2, <2>1, <2>a, <2>2, CommitEffect
<1>3. QED
  BY <1>1, <1>2, OnlyCommitWrites

\* No request, in whatever order it meets others, undoes a decision.
THEOREM DecisionIsFinalHolds == Spec => DecisionIsFinal
<1>1. IndInv /\ [Next]_vars =>
        [/\ decisions \subseteq decisions'
         /\ claims \subseteq claims'
         /\ \A p \in Proposals : Decided(p) => status'[p] = status[p]]_vars
  BY FinalStep
<1>2. QED
  BY <1>1, Invariance, PTL DEF Spec, DecisionIsFinal

-----------------------------------------------------------------------------
(* The handlers implement the abstract ownership of transactions           *)

\* The claims determine the owner of every key.
LEMMA OwnerOfKey ==
    KeysAreUnique =>
        \A k \in Keys :
            \/ \E q \in Proposals : <<q, k>> \in claims /\ OwnerBar[k] = q
            \/ (\A q \in Proposals : <<q, k>> \notin claims) /\ OwnerBar[k] = Nobody
<1> SUFFICES ASSUME KeysAreUnique, NEW k \in Keys
             PROVE  \/ \E q \in Proposals : <<q, k>> \in claims /\ OwnerBar[k] = q
                    \/ (\A q \in Proposals : <<q, k>> \notin claims) /\ OwnerBar[k] = Nobody
  OBVIOUS
<1>1. CASE \E p \in Proposals : <<p, k>> \in claims
  BY <1>1 DEF OwnerBar
<1>2. CASE \A p \in Proposals : <<p, k>> \notin claims
  BY <1>2 DEF OwnerBar
<1>3. QED
  BY <1>1, <1>2

\* Before any decision every proposal is open and no key is owned.
LEMMA OwnershipInit == Init => A!AInit
  BY DEF Init, A!AInit, OutcomeBar, OwnerBar

\* A step that writes neither statuses nor claims is a stutter of the
\* abstract specification.
LEMMA OwnershipUnchanged ==
    ASSUME UNCHANGED <<status, claims>>
    PROVE  UNCHANGED A!avars
  BY DEF A!avars, OutcomeBar, OwnerBar

\* A commit is an Accept or a Reject, and every other step a stutter.
LEMMA OwnershipStep == IndInv /\ IndInv' /\ [Next]_vars => [A!ANext]_(A!avars)
<1> SUFFICES ASSUME IndInv, IndInv', [Next]_vars PROVE [A!ANext]_(A!avars)
  OBVIOUS
<1>1. CASE UNCHANGED db
  BY <1>1, OwnershipUnchanged DEF db
<1>2. ASSUME NEW w \in Workers, NEW p \in Proposals, NEW d \in Decision,
             status[p] = "PENDING",
             status' = [status EXCEPT ![p] = d],
             claims' = claims \union ({p} \X held[w]),
             held[w] = IF d = "ACCEPTED" THEN proposal_claims(p) ELSE {}
      PROVE  A!ANext
  <2>1. /\ OutcomeBar[p] = "OPEN"
        /\ OutcomeBar' = [OutcomeBar EXCEPT ![p] = d]
    BY <1>2 DEF OutcomeBar, IndInv, TypeOK
  <2>2. CASE d = "REJECTED"
    <3>1. claims' = claims
      BY <1>2, <2>2
    <3>2. OwnerBar' = OwnerBar
      BY <3>1 DEF OwnerBar
    <3>3. A!Reject(p)
      BY <2>1, <2>2, <3>2 DEF A!Reject
    <3>4. QED
      BY <3>3 DEF A!ANext
  <2>3. CASE d = "ACCEPTED"
    <3>1. held[w] = proposal_claims(p) /\ KeysOf[p] = proposal_claims(p)
      BY <1>2, <2>3 DEF KeysOf
    <3>2. \A k \in KeysOf[p], q \in Proposals : <<q, k>> \notin claims
      BY <3>1 DEF IndInv, KeysAreUnique, CommittedKeys
    <3>3. KeysOf[p] \subseteq Keys
      BY <3>1, StructureAssumption DEF proposal_claims, Keys, Namespace
    <3>4. \A k \in KeysOf[p] : OwnerBar[k] = Nobody
      BY <3>2, <3>3, OwnerOfKey DEF IndInv
    <3>5. (KeysAreUnique =>
              \A k \in Keys :
                  \/ \E q \in Proposals : <<q, k>> \in claims /\ OwnerBar[k] = q
                  \/ (\A q \in Proposals : <<q, k>> \notin claims) /\ OwnerBar[k] = Nobody)'
      BY OwnerOfKey, PTL
    <3>6. KeysAreUnique' /\ KeysAreUnique
      BY DEF IndInv
    <3>7. ASSUME NEW k \in Keys
          PROVE  OwnerBar'[k] = IF k \in KeysOf[p] THEN p ELSE OwnerBar[k]
      <4>1. CASE k \in KeysOf[p]
        <5>1. <<p, k>> \in claims'
          BY <1>2, <3>1, <4>1
        <5>2. \A q \in Proposals : <<q, k>> \in claims' => q = p
          BY <1>2, <3>2, <4>1
        <5>3. QED
          BY <3>5, <3>6, <4>1, <5>1, <5>2
      <4>2. CASE k \notin KeysOf[p]
        <5>1. \A q \in Proposals : <<q, k>> \in claims' <=> <<q, k>> \in claims
          BY <1>2, <3>1, <4>2
        <5>2. \A q, u \in Proposals : <<q, k>> \in claims /\ <<u, k>> \in claims => q = u
          BY <3>6 DEF KeysAreUnique
        <5>3. QED
          BY <3>5, <3>6, <4>2, <5>1, <5>2, OwnerOfKey
      <4>3. QED
        BY <4>1, <4>2
    <3>8. OwnerBar' = [k \in Keys |-> IF k \in KeysOf[p] THEN p ELSE OwnerBar[k]]
      BY <3>7 DEF OwnerBar
    <3>9. A!Accept(p)
      BY <2>1, <2>3, <3>4, <3>8 DEF A!Accept
    <3>10. QED
      BY <3>9 DEF A!ANext
  <2>4. QED
    BY <2>2, <2>3
<1>3. ASSUME NEW w \in Workers, Commit(w)
      PROVE  [A!ANext]_(A!avars)
  <2>1. CASE UNCHANGED <<status, decisions, claims, audit>>
    BY <2>1, OwnershipUnchanged
  <2>2. ASSUME NEW r \in Runs,
               \A p \in Proposals : RunOf[p] = r => status[p] = "ABSENT" /\ status'[p] \in {"PENDING", "AMBIGUOUS"},
               \A p \in Proposals : RunOf[p] # r => status'[p] = status[p],
               UNCHANGED <<decisions, claims, audit>>
        PROVE  UNCHANGED A!avars
    <3>1. \A p \in Proposals :
              (IF status'[p] \in Decision THEN status'[p] ELSE "OPEN")
                  = (IF status[p] \in Decision THEN status[p] ELSE "OPEN")
      BY <2>2
    <3>. QED  BY <2>2, <3>1 DEF A!avars, OutcomeBar, OwnerBar
  <2>3. QED
    BY <1>2, <1>3, <2>1, <2>2, CommitEffect
<1>4. QED
  BY <1>1, <1>3, OnlyCommitWrites

\* Every behaviour of the handlers is one of AcceptedClaims.
THEOREM OwnershipRefined == Spec => RefinesOwnership
  BY OwnershipInit, OwnershipStep, Invariance, PTL DEF Spec, RefinesOwnership, A!ASpec

-----------------------------------------------------------------------------
(* Answers are true                                                        *)

\* What a remembered answer claims.
True(w, p) ==
    /\ answer[w] = "ok" => <<p, req[w].op>> \in decisions
    /\ answer[w] = "conflict" =>
          \/ Decided(p) /\ <<p, req[w].op>> \notin decisions
          \/ req[w].op = "ACCEPTED" /\ ~eligible(p)
          \/ req[w].op = "ACCEPTED" /\ find_acceptance_conflict(p)

LEMMA AnswersByWorker ==
    AnswersAreTrue <=>
        \A w \in Workers : phase[w] = "idle" /\ req[w].op \in Decision => True(w, req[w].on)
  BY DEF AnswersAreTrue, True

\* An answer that was true stays so: decisions are final and claims only
\* added to.
LEMMA TrueStays ==
    ASSUME IndInv, IndInv', NEW w \in Workers, NEW p \in Proposals, req[w].op \in Decision,
           req'[w] = req[w], answer'[w] = answer[w], True(w, p),
           decisions \subseteq decisions', claims \subseteq claims'
    PROVE  True(w, p)'
<1>1. CASE answer[w] = "ok"
  BY <1>1 DEF True
<1>2. CASE answer[w] = "conflict"
  <2>1. CASE Decided(p) /\ <<p, req[w].op>> \notin decisions
    <3>1. PICK d \in Decision : <<p, d>> \in decisions /\ d # req[w].op
      BY <2>1 DEF Decided
    <3>2. <<p, d>> \in decisions' /\ DecisionIsWhole'
      BY <3>1 DEF IndInv
    <3>3. <<p, req[w].op>> \notin decisions'
      BY <3>1, <3>2 DEF DecisionIsWhole
    <3>. QED  BY <1>2, <3>2, <3>3 DEF True, Decided
  <2>2. CASE req[w].op = "ACCEPTED" /\ ~eligible(p)
    BY <1>2, <2>2 DEF True, eligible
  <2>3. CASE req[w].op = "ACCEPTED" /\ find_acceptance_conflict(p)
    <3>1. CommittedKeys \subseteq CommittedKeys'
      BY DEF CommittedKeys
    <3>2. find_acceptance_conflict(p)'
      BY <2>3, <3>1 DEF find_acceptance_conflict, proposal_claims, Namespace
    <3>. QED  BY <1>2, <2>3, <3>2 DEF True
  <2>. QED  BY <1>2, <2>1, <2>2, <2>3 DEF True
<1>3. CASE answer[w] \notin {"ok", "conflict"}
  BY <1>3 DEF True
<1>. QED  BY <1>1, <1>2, <1>3

\* A transaction that ends without a commit answers what it has just seen.
LEMMA RollbackAnswers ==
    ASSUME IndInv, NEW w \in Workers,
           \/ LockDecided(w) \/ LockRefused(w) \/ CheckBlocked(w) \/ ClaimConflict(w)
           \/ DeadlockAbort(w) \/ Crash(w)
    PROVE  phase'[w] = "idle" /\ req'[w].op \in Decision => True(w, req[w].on)' /\ req'[w] = req[w]
<1>1. phase[w] # "idle"
  BY DEF LockDecided, LockRefused, CheckBlocked, ClaimConflict, DeadlockAbort, WaitsFor, Crash
<1>2. req[w].op \in Decision => req[w].on \in Proposals
  BY <1>1, RequestShape DEF IndInv
<1>3. ASSUME NEW a \in {"ok", "conflict"}, Finish(w, a)
      PROVE  req'[w] = req[w] /\ answer'[w] = a
  BY <1>3 DEF Finish, IndInv, TypeOK
<1>4. ASSUME Finish(w, "none")
      PROVE  req'[w].op = "NONE"
  BY <1>4 DEF Finish, NoRequest, IndInv, TypeOK
<1>5. CASE LockDecided(w)
  <2>1. UNCHANGED db /\ Decided(req[w].on)
    BY <1>5 DEF LockDecided
  <2>2. CASE <<req[w].on, req[w].op>> \in decisions
    <3>1. Finish(w, "ok")
      BY <1>5, <2>2 DEF LockDecided
    <3>2. req'[w] = req[w] /\ answer'[w] = "ok"
      BY <3>1, <1>3
    <3>. QED  BY <2>1, <2>2, <3>2 DEF True, db
  <2>3. CASE <<req[w].on, req[w].op>> \notin decisions
    <3>1. Finish(w, "conflict")
      BY <1>5, <2>3 DEF LockDecided
    <3>2. req'[w] = req[w] /\ answer'[w] = "conflict"
      BY <3>1, <1>3
    <3>. QED  BY <2>1, <2>3, <3>2 DEF True, Decided, db
  <2>. QED  BY <2>2, <2>3
<1>6. CASE CheckBlocked(w)
  <2>1. /\ UNCHANGED db /\ req[w].op = "ACCEPTED"
        /\ ~eligible(req[w].on) \/ find_acceptance_conflict(req[w].on)
    BY <1>6 DEF CheckBlocked, IndInv, HeldByAcceptors
  <2>2. req'[w] = req[w] /\ answer'[w] = "conflict"
    BY <1>3, <1>6 DEF CheckBlocked
  <2>. QED  BY <2>1, <2>2 DEF True, eligible, find_acceptance_conflict, proposal_claims, Namespace, CommittedKeys, db
<1>7. CASE ClaimConflict(w)
  <2>1. /\ UNCHANGED db /\ req[w].op = "ACCEPTED"
        /\ cursor[w] \in proposal_claims(req[w].on) /\ cursor[w] \in CommittedKeys
    BY <1>7 DEF ClaimConflict, IndInv, HeldByAcceptors
  <2>2. req'[w] = req[w] /\ answer'[w] = "conflict"
    BY <1>3, <1>7 DEF ClaimConflict
  <2>3. find_acceptance_conflict(req[w].on)
    BY <2>1 DEF find_acceptance_conflict
  <2>. QED  BY <2>1, <2>2, <2>3 DEF True, find_acceptance_conflict, proposal_claims, Namespace, CommittedKeys, db
<1>8. CASE LockRefused(w) \/ DeadlockAbort(w) \/ Crash(w)
  BY <1>4, <1>8 DEF LockRefused, DeadlockAbort, Crash
<1>. QED  BY <1>5, <1>6, <1>7, <1>8

\* A commit that is answered has recorded what was asked for.
LEMMA CommitAnswers ==
    ASSUME IndInv, NEW w \in Workers, Commit(w)
    PROVE  phase'[w] = "idle" /\ req'[w].op \in Decision => True(w, req[w].on)' /\ req'[w] = req[w]
<1>1. PICK a \in {"ok", "none"} : Finish(w, a)
  BY DEF Commit
<1>2. CASE a = "none"
  BY <1>1, <1>2 DEF Finish, NoRequest, IndInv, TypeOK
<1>3. CASE a = "ok"
  <2>1. req'[w] = req[w] /\ answer'[w] = "ok"
    BY <1>1, <1>3 DEF Finish, IndInv, TypeOK
  <2>2. req[w].op \in Decision => <<req[w].on, req[w].op>> \in decisions'
    BY DEF Commit
  <2>. QED  BY <2>1, <2>2 DEF True
<1>. QED  BY <1>1, <1>2, <1>3

LEMMA AnswersStep == IndInv /\ IndInv' /\ AnswersAreTrue /\ [Next]_vars => AnswersAreTrue'
<1> SUFFICES ASSUME IndInv, IndInv', AnswersAreTrue, [Next]_vars,
                    NEW w \in Workers, phase'[w] = "idle", req'[w].op \in Decision
             PROVE  True(w, req[w].on)' /\ req'[w] = req[w]
  BY DEF AnswersAreTrue, True
<1>1. decisions \subseteq decisions' /\ claims \subseteq claims'
  BY FinalStep
<1>2. ASSUME phase'[w] = phase[w], req'[w] = req[w], answer'[w] = answer[w]
      PROVE  True(w, req[w].on)' /\ req'[w] = req[w]
  <2>1. req[w].on \in Proposals
    <3>1. req[w] \in Request
      BY <1>2 DEF IndInv, TypeOK, NoRequest
    <3>. QED  BY <1>2, <3>1 DEF Request
  <2>2. True(w, req[w].on)
    BY <1>2, AnswersByWorker
  <2>. QED  BY <1>1, <1>2, <2>1, <2>2, TrueStays
<1>3. CASE UNCHANGED vars
  BY <1>2, <1>3 DEF vars
<1>4. ASSUME NEW v \in Workers,
             \/ \E p \in Proposals, d \in Decision : Decide(v, p, d)
             \/ \E r \in Runs : Sync(v, r) \/ Execute(v, r)
             \/ LockGranted(v) \/ CheckPassed(v) \/ InsertClaim(v)
             \/ DeriveBankSide(v) \/ DeriveLedgerSide(v) \/ PersistSpecs(v)
      PROVE  True(w, req[w].on)' /\ req'[w] = req[w]
  <2>1. phase'[v] # "idle"
    BY <1>4 DEF Decide, Sync, Execute, session, LockGranted, CheckPassed, InsertClaim, DeriveBankSide, DeriveLedgerSide,
                PersistSpecs, Goto, IndInv, TypeOK
  <2>2. v # w
    BY <2>1
  <2>3. phase'[w] = phase[w] /\ req'[w] = req[w] /\ answer'[w] = answer[w]
    BY <1>4, <2>2 DEF Decide, Sync, Execute, session, LockGranted, CheckPassed, InsertClaim, DeriveBankSide, DeriveLedgerSide,
                PersistSpecs, Goto, IndInv, TypeOK
  <2>. QED  BY <2>3, <1>2
<1>5. ASSUME NEW v \in Workers,
             \/ LockDecided(v) \/ LockRefused(v) \/ CheckBlocked(v) \/ ClaimConflict(v)
             \/ DeadlockAbort(v) \/ Crash(v) \/ Commit(v)
      PROVE  True(w, req[w].on)' /\ req'[w] = req[w]
  <2>1. CASE v = w
    BY <1>5, <2>1, RollbackAnswers, CommitAnswers
  <2>2. CASE v # w
    <3>1. PICK a \in Answer : Finish(v, a)
      BY <1>5 DEF LockDecided, LockRefused, CheckBlocked, ClaimConflict, DeadlockAbort, Crash, Commit, Answer
    <3>2. phase'[w] = phase[w] /\ req'[w] = req[w] /\ answer'[w] = answer[w]
      BY <2>2, <3>1 DEF Finish, IndInv, TypeOK
    <3>. QED  BY <3>2, <1>2
  <2>. QED  BY <2>1, <2>2
<1>. QED  BY <1>3, <1>4, <1>5 DEF Next, Serve

-----------------------------------------------------------------------------
(* Exceptions are not false                                                *)

\* A proposal that is there leaves the live statuses and never enters them,
\* and no proposal leaves or enters AMBIGUOUS.
LEMMA LiveOnlyEnds ==
    ASSUME IndInv, [Next]_vars, NEW q \in Proposals, RunOf[q] \in executed
    PROVE  status'[q] \in LIVE => status[q] \in LIVE
<1>1. CASE status' = status
  BY <1>1
<1>2. ASSUME NEW p \in Proposals, NEW d \in Decision,
             status[p] = "PENDING", status' = [status EXCEPT ![p] = d]
      PROVE  status'[q] \in LIVE => status[q] \in LIVE
  BY <1>2 DEF LIVE, IndInv, TypeOK
<1>3. ASSUME NEW r \in Runs,
             \A p \in Proposals : RunOf[p] = r => status[p] = "ABSENT",
             \A p \in Proposals : RunOf[p] # r => status'[p] = status[p]
      PROVE  status'[q] = status[q]
  BY <1>3 DEF IndInv, ExecutionsExclude
<1>. QED  BY <1>1, <1>2, <1>3, OnlyCommitWrites, CommitEffect DEF db

\* Neither does one of the runs a handler knows, in what it sees.
LEMMA ViewOnlyEnds ==
    ASSUME IndInv, [Next]_vars, NEW w \in Workers, phase[w] # "idle", req'[w] = req[w],
           NEW q \in Proposals, RunOf[q] \in executed \union {SyncRun(w)}
    PROVE  Live(View(w), q)' => Live(View(w), q)
<1>1. CASE RunOf[q] \in executed
  <2>1. status'[q] \in LIVE => status[q] \in LIVE
    BY <1>1, LiveOnlyEnds
  <2>2. \A r \in Runs : Executes(w, r) => r # RunOf[q]
    BY <1>1 DEF IndInv, ExecutionsExclude
  <2>3. req[w].op = "EXECUTE" => req[w].on # RunOf[q]
    BY <2>2, RequestShape DEF Executes, IndInv
  <2>. QED  BY <2>1, <2>3 DEF Live, View, Outcome, Placeholder
<1>2. CASE RunOf[q] \notin executed
  <2>1. req[w].op = "EXECUTE" /\ req[w].on = RunOf[q]
    BY <1>2 DEF IndInv, ExecutionsExclude, SyncRun
  <2>. QED  BY <2>1 DEF Live, View, Outcome, Placeholder
<1>. QED  BY <1>1, <1>2

\* A derived exception names a row that no live proposal covers.
LEMMA DerivedAreUncovered ==
    ASSUME NEW view, NEW r \in Runs,
           NEW i \in AmbiguousItems(view, r) \union BankItems(view, r) \union LedgerItems(view, r),
           i.category \in {"BANK_ONLY", "LEDGER_ONLY"}, NEW row \in i.rows,
           NEW p \in Proposals, row \in RowsOf[p]
    PROVE  ~Live(view, p)
<1>1. CASE i \in BankOnlyItems(view, r)
  <2>1. row \in OpenBankRows(view, r) /\ real_by_bank(view, r, row) = {}
    BY <1>1 DEF BankOnlyItems
  <2>2. CASE RunOf[p] # r
    BY <2>1, <2>2 DEF OpenBankRows, covered_elsewhere
  <2>3. CASE RunOf[p] = r /\ p \in Suggestions
    BY <2>1, <2>3 DEF real_by_bank
  <2>4. CASE RunOf[p] = r /\ p \in Groups
    BY <2>1, <2>4 DEF OpenBankRows, bank_in_group, Live
  <2>. QED  BY <2>2, <2>3, <2>4 DEF Groups
<1>2. CASE i \in LedgerItems(view, r)
  BY <1>2 DEF LedgerItems, LedgerCovered, Live
<1>3. CASE i \in AmbiguousItems(view, r) \union AmbiguousMatchItems(view, r) \union ReviewItems(view, r)
  BY <1>3 DEF AmbiguousItems, AmbiguousMatchItems, ReviewItems
<1>. QED  BY <1>1, <1>2, <1>3 DEF BankItems

\* What a handler is about to raise is uncovered, at each of its steps.
Uncovered(w) ==
    /\ phase[w] \notin {"ledger_side", "persist", "commit"} => specs[w] = {} /\ known[w] = {}
    /\ phase[w] # "idle" => known[w] \subseteq executed \union {SyncRun(w)}
    /\ \A i \in specs[w] : IsException(i) =>
          \A row \in i.rows, p \in Proposals :
              row \in RowsOf[p] /\ RunOf[p] \in known[w] => ~Live(View(w), p)

LEMMA UncoveredByWorker == SpecsAreUncovered <=> \A w \in Workers : Uncovered(w)
  BY DEF SpecsAreUncovered, Uncovered

\* Committed executions are not undone.
LEMMA ExecutedStays ==
    ASSUME [Next]_vars
    PROVE  executed \subseteq executed'
<1>1. \A w \in Workers : Commit(w) => executed \subseteq executed'
  BY DEF Commit
<1>. QED  BY <1>1, OnlyCommitWrites DEF db

\* A handler that moves on without deriving anything more.
LEMMA UncoveredStays ==
    ASSUME IndInv, [Next]_vars, NEW w \in Workers, Uncovered(w),
           req'[w] = req[w], specs'[w] \subseteq specs[w], known'[w] = known[w],
           phase'[w] # "idle" => phase[w] # "idle",
           phase'[w] \notin {"ledger_side", "persist", "commit"} =>
               phase[w] \notin {"ledger_side", "persist", "commit"}
    PROVE  Uncovered(w)'
<1>1. phase'[w] # "idle" => known'[w] \subseteq executed' \union {SyncRun(w)'}
  BY ExecutedStays DEF Uncovered, SyncRun
<1>2. ASSUME NEW i \in specs'[w], IsException(i)', NEW row \in i.rows,
             NEW p \in Proposals, row \in RowsOf[p], RunOf[p] \in known'[w]
      PROVE  ~Live(View(w), p)'
  <2>1. phase[w] # "idle" /\ RunOf[p] \in executed \union {SyncRun(w)} /\ ~Live(View(w), p)
    BY <1>2 DEF Uncovered, IsException
  <2>. QED  BY <2>1, ViewOnlyEnds
<1>. QED  BY <1>1, <1>2 DEF Uncovered

LEMMA SpecsStep == IndInv /\ IndInv' /\ SpecsAreUncovered /\ [Next]_vars => SpecsAreUncovered'
<1> SUFFICES ASSUME IndInv, IndInv', SpecsAreUncovered, [Next]_vars, NEW w \in Workers
             PROVE  Uncovered(w)'
  BY DEF SpecsAreUncovered, Uncovered
<1>a. TypeOK /\ Uncovered(w)
  BY UncoveredByWorker DEF IndInv
<1>1. ASSUME specs'[w] = {}, known'[w] = {} PROVE Uncovered(w)'
  BY <1>1 DEF Uncovered
<1>3. CASE UNCHANGED vars
  BY <1>a, <1>3, UncoveredStays DEF vars, session
<1>4. ASSUME NEW v \in Workers \ {w},
             \/ Serve(v) \/ Crash(v)
             \/ (\E p \in Proposals, d \in Decision : Decide(v, p, d))
             \/ (\E r \in Runs : Sync(v, r) \/ Execute(v, r))
      PROVE  Uncovered(w)'
  <2>1. phase'[w] = phase[w] /\ req'[w] = req[w] /\ specs'[w] = specs[w] /\ known'[w] = known[w]
    BY <1>4, <1>a DEF TypeOK, session, Serve, LockDecided, LockRefused, LockGranted, CheckBlocked, CheckPassed,
       InsertClaim, ClaimConflict, DeadlockAbort, DeriveBankSide, DeriveLedgerSide, PersistSpecs, Commit,
       Crash, Decide, Sync, Execute, Goto, Finish
  <2>. QED  BY <1>a, <2>1, UncoveredStays
<1>5. CASE \/ LockDecided(w) \/ LockRefused(w) \/ CheckBlocked(w) \/ ClaimConflict(w)
           \/ DeadlockAbort(w) \/ Crash(w) \/ Commit(w)
  <2>1. specs'[w] = {} /\ known'[w] = {}
    BY <1>5, <1>a DEF TypeOK, LockDecided, LockRefused, CheckBlocked, ClaimConflict, DeadlockAbort, Crash,
                      Commit, Finish
  <2>. QED  BY <2>1, <1>1
<1>6. CASE \/ \E p \in Proposals, d \in Decision : Decide(w, p, d)
           \/ \E r \in Runs : Sync(w, r) \/ Execute(w, r)
           \/ LockGranted(w) \/ CheckPassed(w) \/ InsertClaim(w)
  <2>1. specs'[w] = {} /\ known'[w] = {}
    BY <1>6, <1>a DEF Uncovered, session, Decide, Sync, Execute, LockGranted, CheckPassed, InsertClaim
  <2>. QED  BY <2>1, <1>1
<1>7. CASE DeriveBankSide(w)
  <2>1. /\ UNCHANGED <<db, req>> /\ phase[w] # "idle" /\ phase'[w] = "ledger_side"
        /\ specs'[w] = AmbiguousItems(View(w), SyncRun(w)) \union BankItems(View(w), SyncRun(w))
        /\ known'[w] = executed \union {SyncRun(w)}
    BY <1>7, <1>a DEF DeriveBankSide, Goto, TypeOK
  <2>2. View(w)' = View(w) /\ SyncRun(w)' = SyncRun(w) /\ SyncRun(w) \in Runs
    BY <2>1, <1>a, RequestShape DEF View, Outcome, SyncRun, db
  <2>3. \A i \in specs'[w] : IsException(i) =>
            \A row \in i.rows, p \in Proposals : row \in RowsOf[p] => ~Live(View(w), p)
    BY <2>1, <2>2, DerivedAreUncovered DEF IsException
  <2>. QED  BY <2>1, <2>2, <2>3 DEF Uncovered, IsException, Live, Placeholder, db
<1>8. CASE DeriveLedgerSide(w)
  <2>1. /\ UNCHANGED <<db, req>> /\ phase[w] # "idle" /\ phase'[w] = "persist"
        /\ specs'[w] = specs[w] \union LedgerItems(View(w), SyncRun(w))
        /\ known'[w] = known[w]
    BY <1>8, <1>a DEF DeriveLedgerSide, Goto, TypeOK
  <2>2. View(w)' = View(w) /\ SyncRun(w)' = SyncRun(w) /\ SyncRun(w) \in Runs
    BY <2>1, <1>a, RequestShape DEF View, Outcome, SyncRun, db
  <2>3. \A i \in LedgerItems(View(w), SyncRun(w)) : IsException(i) =>
            \A row \in i.rows, p \in Proposals : row \in RowsOf[p] => ~Live(View(w), p)
    BY <2>2, DerivedAreUncovered DEF IsException
  <2>. QED  BY <1>a, <2>1, <2>2, <2>3 DEF Uncovered, IsException, Live, Placeholder, db
<1>9. CASE PersistSpecs(w)
  <2>1. /\ phase[w] = "persist" /\ phase'[w] = "commit" /\ req'[w] = req[w]
        /\ specs'[w] \subseteq specs[w] /\ known'[w] = known[w]
    BY <1>9, <1>a DEF PersistSpecs, Goto, TypeOK
  <2>. QED  BY <1>a, <2>1, UncoveredStays
<1>. QED  BY <1>3, <1>4, <1>5, <1>6, <1>7, <1>8, <1>9 DEF Next, Serve

LEMMA HandlersInit == Init => HandlersInv
<1> SUFFICES ASSUME Init PROVE HandlersInv
  OBVIOUS
<1>1. AnswersAreTrue
  BY DEF Init, AnswersAreTrue, NoRequest
<1>2. SpecsAreUncovered
  BY DEF Init, SpecsAreUncovered
<1>. QED  BY <1>1, <1>2, IndInit DEF HandlersInv

\* In every reachable state the handlers' locks, keys and decisions agree,
\* what they have told their clients is true, and what they are about to
\* raise is uncovered.
THEOREM HandlersInvariance == Spec => []HandlersInv
<1>1. HandlersInv /\ [Next]_vars => HandlersInv'
  BY IndStep, AnswersStep, SpecsStep DEF HandlersInv
<1>. QED  BY <1>1, HandlersInit, PTL DEF Spec

\* However requests, crashes and retries interleave, no client is told of a
\* decision that is not in the database, nor of a conflict that is not one.
THEOREM AnswersAreTrueHolds == Spec => []AnswersAreTrue
<1>1. HandlersInv => AnswersAreTrue
  BY DEF HandlersInv
<1>. QED  BY <1>1, HandlersInvariance, PTL

\* A commit adds what its handler derived, which no live proposal of the
\* runs it knows covers in its view, the statuses it writes.
LEMMA NoFalseStep ==
    ASSUME HandlersInv, [Next]_vars, NEW w \in Workers, phase[w] = "commit", phase'[w] = "idle",
           NEW i \in items' \ items, IsException(i), NEW row \in i.rows,
           NEW p \in Proposals, row \in RowsOf[p], RunOf[p] \in known[w]
    PROVE  ~Live(status', p)
<1>a. IndInv /\ Uncovered(w)
  BY UncoveredByWorker DEF HandlersInv
<1>1. PICK v \in Workers : Commit(v)
  BY OnlyCommitWrites DEF db
<1>3. v = w
  BY <1>a, <1>1 DEF Commit, Finish, IndInv, TypeOK
<1>4. i \in specs[w]
  BY <1>1, <1>3 DEF Commit
<1>. QED  BY <1>a, <1>1, <1>3, <1>4 DEF Commit, View, Uncovered

\* A BANK_ONLY or LEDGER_ONLY item that a request adds never names a row a
\* live proposal still covers, however many requests it raced, unless the
\* proposal is of a run whose execution committed while the item was derived.
THEOREM NoFalseExceptionHolds == Spec => NoFalseException
<1>1. HandlersInv /\ [Next]_vars =>
        [\A w \in Workers : \A i \in items' \ items :
            phase[w] = "commit" /\ phase'[w] = "idle" /\ IsException(i) =>
                \A row \in i.rows, p \in Proposals :
                    row \in RowsOf[p] /\ RunOf[p] \in known[w] => ~Live(status', p)]_vars
  BY NoFalseStep
<1>. QED  BY <1>1, HandlersInvariance, PTL DEF Spec, NoFalseException

-----------------------------------------------------------------------------
(* Rejected rows surface                                                   *)

\* The derivation hides nothing: each row in scope is covered by a live
\* proposal, part of an ambiguous group, or in a derived item.
LEMMA DerivationHidesNothing ==
    ASSUME NEW view, NEW r \in Runs, NEW row \in Rows \intersect Active \intersect Scope[r]
    PROVE  \/ \E p \in Proposals : row \in RowsOf[p] /\ Live(view, p)
           \/ \E g \in Proposals : row \in RowsOf[g] /\ view[g] = "AMBIGUOUS"
           \/ \E i \in derive_open_item_specs(view, r) : row \in i.rows
<1>1. CASE row \in LedgerRows
  <2>1. CASE LedgerCovered(view, r, row)
    BY <1>1, <2>1 DEF LedgerCovered, Live, Placeholder
  <2>2. CASE ~LedgerCovered(view, r, row)
    <3>1. [run |-> r, category |-> "LEDGER_ONLY", rows |-> {row}] \in LedgerItems(view, r)
      BY <1>1, <2>2 DEF LedgerItems
    <3>. QED  BY <3>1 DEF derive_open_item_specs
  <2>. QED  BY <2>1, <2>2
<1>2. CASE row \in BankRows
  <2>1. CASE bank_in_group(view, r, row)
    BY <2>1 DEF bank_in_group, Groups, Live, Placeholder
  <2>2. CASE covered_elsewhere(view, r, row)
    BY <2>2 DEF covered_elsewhere
  <2>3. CASE real_by_bank(view, r, row) # {}
    BY <2>3, StructureAssumption DEF real_by_bank
  <2>4. CASE ~bank_in_group(view, r, row) /\ ~covered_elsewhere(view, r, row) /\ real_by_bank(view, r, row) = {}
    <3>1. [run |-> r, category |-> "BANK_ONLY", rows |-> {row}] \in BankOnlyItems(view, r)
      BY <1>2, <2>4 DEF OpenBankRows, BankOnlyItems
    <3>. QED  BY <3>1 DEF derive_open_item_specs, BankItems
  <2>. QED  BY <2>1, <2>2, <2>3, <2>4
<1>. QED  BY <1>1, <1>2 DEF Rows

LEMMA SurfaceInit == Init => SurfaceInv
<1> SUFFICES ASSUME Init PROVE SurfaceInv
  OBVIOUS
<1>1. RejectedRowsAreRepresented
  BY DEF Init, RejectedRowsAreRepresented, Rejected
<1>2. DerivationsAreWhole
  BY DEF Init, DerivationsAreWhole
<1>. QED  BY <1>1, <1>2, IndInit DEF SurfaceInv

\* With one handler no commit changes the statuses a derivation has read.
LEMMA WholeStep ==
    ASSUME IndInv, OneAtATime, DerivationsAreWhole, [Next]_vars
    PROVE  DerivationsAreWhole'
<1> SUFFICES ASSUME NEW w \in Workers
             PROVE  /\ phase'[w] = "ledger_side" =>
                          (AmbiguousItems(View(w), SyncRun(w)) \union BankItems(View(w), SyncRun(w)))' \subseteq specs'[w]
                    /\ phase'[w] = "persist" => derive_open_item_specs(View(w), SyncRun(w))' \subseteq specs'[w]
                    /\ phase'[w] = "commit" /\ req'[w].op = "REJECTED" =>
                          derive_open_item_specs(View(w), SyncRun(w))' \subseteq items' \union specs'[w]
  BY DEF DerivationsAreWhole
<1>a. TypeOK /\ \A v \in Workers : v = w
  BY DEF IndInv, OneAtATime
<1>1. ASSUME UNCHANGED <<status, req>>
      PROVE  View(w)' = View(w) /\ SyncRun(w)' = SyncRun(w)
  BY <1>1 DEF View, Outcome, SyncRun
<1>2. CASE UNCHANGED vars
  BY <1>1, <1>2 DEF DerivationsAreWhole, vars, db, session, derive_open_item_specs, AmbiguousItems, BankItems
<1>3. CASE \/ LockDecided(w) \/ LockRefused(w) \/ CheckBlocked(w) \/ ClaimConflict(w)
           \/ DeadlockAbort(w) \/ Crash(w) \/ Commit(w)
  <2>1. phase'[w] = "idle"
    BY <1>3, <1>a DEF TypeOK, LockDecided, LockRefused, CheckBlocked, ClaimConflict, DeadlockAbort, Crash,
                      Commit, Finish
  <2>. QED  BY <2>1
<1>4. CASE \/ \E p \in Proposals, d \in Decision : Decide(w, p, d)
           \/ \E r \in Runs : Sync(w, r)
           \/ LockGranted(w) \/ CheckPassed(w)
  <2>1. phase'[w] \in {"lock", "bank_side", "check", "claim"}
    BY <1>4, <1>a DEF TypeOK, Decide, Sync, LockGranted, CheckPassed, Goto
  <2>. QED  BY <2>1
<1>b. ASSUME NEW r \in Runs, Execute(w, r)
      PROVE  phase'[w] \in {"bank_side", "commit"} /\ req'[w].op = "EXECUTE"
  BY <1>b, <1>a DEF TypeOK, Execute, Goto
<1>5. CASE InsertClaim(w)
  <2>1. phase'[w] \in {"claim", "commit"} /\ req'[w].op = "ACCEPTED"
    BY <1>5, <1>a DEF TypeOK, InsertClaim, Goto, IndInv, HeldByAcceptors
  <2>. QED  BY <2>1
<1>6. CASE DeriveBankSide(w)
  <2>1. /\ phase'[w] = "ledger_side" /\ UNCHANGED <<status, req>>
        /\ specs'[w] = AmbiguousItems(View(w), SyncRun(w)) \union BankItems(View(w), SyncRun(w))
    BY <1>6, <1>a DEF TypeOK, DeriveBankSide, Goto, db
  <2>. QED  BY <2>1, <1>1
<1>7. CASE DeriveLedgerSide(w)
  <2>1. /\ phase'[w] = "persist" /\ UNCHANGED <<status, req>>
        /\ specs'[w] = specs[w] \union LedgerItems(View(w), SyncRun(w))
        /\ phase[w] = "ledger_side"
    BY <1>7, <1>a DEF TypeOK, DeriveLedgerSide, Goto, db
  <2>. QED  BY <2>1, <1>1 DEF DerivationsAreWhole, derive_open_item_specs
<1>8. CASE PersistSpecs(w)
  <2>1. /\ phase'[w] = "commit" /\ UNCHANGED <<status, req, items>>
        /\ specs'[w] = specs[w] \ items
        /\ phase[w] = "persist"
    BY <1>8, <1>a DEF TypeOK, PersistSpecs, Goto, db
  <2>. QED  BY <2>1, <1>1 DEF DerivationsAreWhole
<1>. QED  BY <1>a, <1>2, <1>3, <1>4, <1>b, <1>5, <1>6, <1>7, <1>8 DEF Next, Serve

\* A rejection adds the items of every row it uncovers; nothing else
\* uncovers one.
LEMMA RepresentedStep ==
    ASSUME IndInv, SharedRowsAreInScope, RejectedRowsAreRepresented, DerivationsAreWhole, [Next]_vars
    PROVE  RejectedRowsAreRepresented'
<1> SUFFICES ASSUME NEW p \in Proposals, Rejected(p)',
                    NEW row \in RowsOf[p] \intersect Active \intersect Scope[RunOf[p]]
             PROVE  Represented(row)'
  BY DEF RejectedRowsAreRepresented
<1>a. TypeOK
  BY DEF IndInv
<1>1. ASSUME UNCHANGED <<status>>, items \subseteq items' PROVE Represented(row)'
  <2>1. Represented(row)
    BY <1>1 DEF RejectedRowsAreRepresented, Rejected
  <2>. QED  BY <1>1, <2>1 DEF Represented, CoveredByLive, HasItem, Live
<1>2. ASSUME NEW w \in Workers, Commit(w), NEW q \in Proposals, req[w].op = "REJECTED", req[w].on = q
      PROVE  Represented(row)'
  <2>1. status' = View(w) /\ status' = [status EXCEPT ![q] = "REJECTED"]
    BY <1>2, <1>a DEF Commit, View, Outcome, TypeOK
  <2>2. items' = items \union specs[w] /\ phase[w] = "commit"
    BY <1>2 DEF Commit
  <2>3. CASE row \in RowsOf[q]
    <3>1. row \in Rows \intersect Active \intersect Scope[RunOf[q]] /\ RunOf[q] \in Runs
      BY <2>3, StructureAssumption DEF SharedRowsAreInScope
    <3>2. SyncRun(w) = RunOf[q]
      BY <1>2 DEF SyncRun
    <3>3. derive_open_item_specs(View(w), RunOf[q]) \subseteq items'
      BY <1>2, <2>2, <3>2 DEF DerivationsAreWhole
    <3>4. \/ \E u \in Proposals : row \in RowsOf[u] /\ Live(status', u)
          \/ \E g \in Proposals : row \in RowsOf[g] /\ status'[g] = "AMBIGUOUS"
          \/ \E i \in items' : row \in i.rows
      BY <2>1, <3>1, <3>3, DerivationHidesNothing
    <3>. QED  BY <3>4 DEF Represented, CoveredByLive, HasItem, Live
  <2>4. CASE row \notin RowsOf[q]
    <3>1. Rejected(p)
      BY <2>1, <2>4, <1>a DEF Rejected, TypeOK
    <3>2. Represented(row)
      BY <3>1 DEF RejectedRowsAreRepresented
    <3>3. \A u \in Proposals : row \in RowsOf[u] => status'[u] = status[u]
      BY <2>1, <2>4, <1>a DEF TypeOK
    <3>. QED  BY <2>2, <3>2, <3>3 DEF Represented, CoveredByLive, HasItem, Live
  <2>. QED  BY <2>3, <2>4
<1>3. ASSUME NEW w \in Workers, Commit(w), NEW q \in Proposals, status[q] = "PENDING",
             status' = [status EXCEPT ![q] = "ACCEPTED"]
      PROVE  Represented(row)'
  <2>1. Rejected(p)
    BY <1>3, <1>a DEF Rejected, TypeOK
  <2>2. Represented(row)
    BY <2>1 DEF RejectedRowsAreRepresented
  <2>3. /\ \A u \in Proposals : status[u] \in LIVE => status'[u] \in LIVE
        /\ \A u \in Proposals : status[u] = "AMBIGUOUS" => status'[u] = "AMBIGUOUS"
    BY <1>3, <1>a DEF TypeOK, LIVE
  <2>4. items \subseteq items'
    BY <1>3 DEF Commit
  <2>. QED  BY <2>2, <2>3, <2>4 DEF Represented, CoveredByLive, HasItem, Live, Placeholder
<1>4. CASE UNCHANGED db
  BY <1>1, <1>4 DEF db
<1>5. ASSUME NEW w \in Workers, Commit(w) PROVE Represented(row)'
  <2>1. items \subseteq items'
    BY <1>5 DEF Commit
  <2>2. CASE UNCHANGED <<status, decisions, claims, audit>>
    BY <1>1, <2>1, <2>2
  <2>a. ASSUME NEW r \in Runs,
               \A u \in Proposals : RunOf[u] = r => status[u] = "ABSENT" /\ status'[u] \in {"PENDING", "AMBIGUOUS"},
               \A u \in Proposals : RunOf[u] # r => status'[u] = status[u]
        PROVE  Represented(row)'
    <3>1. \A u \in Proposals : status[u] # "ABSENT" => status'[u] = status[u]
      BY <2>a
    <3>2. Rejected(p)
      BY <2>a DEF Rejected
    <3>3. Represented(row)
      BY <3>2 DEF RejectedRowsAreRepresented
    <3>. QED  BY <2>1, <3>1, <3>3 DEF Represented, CoveredByLive, HasItem, Live, Placeholder, LIVE
  <2>3. ASSUME NEW q \in Proposals, NEW d \in Decision,
               Locks(w, q), req[w].op = d, status[q] = "PENDING", status' = [status EXCEPT ![q] = d]
        PROVE  Represented(row)'
    BY <1>2, <1>3, <1>5, <2>3 DEF Locks
  <2>. QED  BY <1>5, <2>2, <2>a, <2>3, CommitEffect
<1>. QED  BY <1>4, <1>5, OnlyCommitWrites

LEMMA SurfaceInvariance == Spec => []SurfaceInv
<1>1. SurfaceInv /\ [Next]_vars => SurfaceInv'
  <2> SUFFICES ASSUME SurfaceInv, [Next]_vars PROVE SurfaceInv'
    OBVIOUS
  <2>1. IndInv'
    BY IndStep DEF SurfaceInv
  <2>2. OneAtATime /\ SharedRowsAreInScope => RejectedRowsAreRepresented' /\ DerivationsAreWhole'
    BY WholeStep, RepresentedStep DEF SurfaceInv
  <2>. QED  BY <2>1, <2>2 DEF SurfaceInv, OneAtATime, SharedRowsAreInScope
<1>. QED  BY <1>1, SurfaceInit, PTL DEF Spec

\* When requests are served one at a time and the runs that share a row both
\* have it in scope, a rejection hides nothing.  Neither hypothesis can be
\* dropped: the runs MatchDecisionsRace and MatchDecisionsReach show why.
THEOREM RejectedRowsSurfaceAlone ==
    ASSUME OneAtATime, SharedRowsAreInScope
    PROVE  Spec => []RejectedRowsSurface
<1>1. SurfaceInv => RejectedRowsSurface
  BY DEF SurfaceInv, RejectedRowsAreRepresented, RejectedRowsSurface
<1>. QED  BY <1>1, SurfaceInvariance, PTL
=============================================================================
