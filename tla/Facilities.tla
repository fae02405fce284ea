----------------------------- MODULE Facilities -----------------------------
(***************************************************************************)
(* Drawdowns and repayments of credit facilities: the requests that move   *)
(* current_drawn_amount and the drawn_amount of sub-limits, each one       *)
(* transaction that takes row locks in the order request row, facility,    *)
(* sub-limit, beside the changes of a facility's status and terms.         *)
(*                                                                         *)
(* Source: services/facility_service.py, drawdown_validation_service.py,   *)
(* facility_engine.py, api/v1/facilities.py, models/facility.py.           *)
(***************************************************************************)
EXTENDS Integers, Sequences, FiniteSets, Functions

CONSTANTS
    Facility, FacilitySubLimit, FacilityDrawdown, FacilityRepayment,
    Uncommitted,      \* the facilities whose limit is not guaranteed
    Users,            \* each sends one request at a time
    None,
    facility_id,      \* of each drawdown, repayment and sub-limit
    sub_limit_id,     \* of each drawdown, or None
    drawdown_id,      \* of each repayment, or None: any drawdown at all
    amount,           \* of each drawdown and repayment; limit_amount of each sub-limit
    Principal,        \* the repayments of type PRINCIPAL
    Limits,           \* the values committed_limit is given
    Payments,         \* the amounts paid at a time, negative ones too
    LeastPaid,        \* bound below on what is paid of a repayment
    MaxVersions       \* bound on the versions of a facility

Requested == FacilityDrawdown \union FacilityRepayment

ASSUME RowAssumption ==
    /\ FacilityDrawdown \intersect FacilityRepayment = {}
    /\ Facility \intersect Requested = {}
    /\ FacilitySubLimit \intersect (Facility \union Requested) = {}
    /\ None \notin Facility \union FacilitySubLimit \union Requested
\* No column and no schema bounds an amount: it may be zero or negative.
ASSUME ColumnAssumption ==
    /\ facility_id \in [Requested \union FacilitySubLimit -> Facility]
    /\ sub_limit_id \in [FacilityDrawdown -> FacilitySubLimit \union {None}]
    /\ \A d \in FacilityDrawdown :
          sub_limit_id[d] # None => facility_id[sub_limit_id[d]] = facility_id[d]
    /\ drawdown_id \in [FacilityRepayment -> FacilityDrawdown \union {None}]
    /\ amount \in [Requested \union FacilitySubLimit -> Int]
    /\ Principal \subseteq FacilityRepayment
    /\ Uncommitted \subseteq Facility
    /\ Limits \subseteq Int
    /\ Payments \subseteq Int
    /\ LeastPaid \in Int
    /\ MaxVersions \in Nat

\* Tables have finitely many rows.
ASSUME FiniteAssumption == IsFiniteSet(FacilityDrawdown) /\ IsFiniteSet(FacilityRepayment)

VARIABLES
    facility,     \* committed facility rows
    versions,     \* committed_limit in each FacilityVersion, oldest first
    sub_drawn,    \* drawn_amount of each sub-limit
    drawdown,     \* status of each drawdown
    repayment,    \* status and paid_amount of each repayment
    phase, on,    \* what each user's handler does next, and to which row
    pay,          \* the amount it pays
    seen          \* what it has read of the facility and the sub-limit

vars == <<facility, versions, sub_drawn, drawdown, repayment, phase, on, pay, seen>>
handlers == <<phase, on, pay, seen>>

FACILITY_STATUS_TRANSITIONS == [
    DRAFT           |-> {"ACTIVE", "CANCELLED"},
    ACTIVE          |-> {"SUSPENDED", "EXPIRED", "MATURED", "RENEWAL_PENDING", "CLOSED"},
    SUSPENDED       |-> {"ACTIVE", "CLOSED", "CANCELLED"},
    RENEWAL_PENDING |-> {"RENEWED", "EXPIRED", "CLOSED"},
    RENEWED         |-> {"ACTIVE"},
    MATURED         |-> {"CLOSED", "RENEWAL_PENDING"},
    EXPIRED         |-> {"CLOSED"},
    CLOSED          |-> {},
    CANCELLED       |-> {}]
FacilityStatus == DOMAIN FACILITY_STATUS_TRANSITIONS

FacilityRow == [status : FacilityStatus \union {"NONE"}, committed_limit : Int, current_drawn_amount : Int,
                version : Nat]
RepaymentRow == [status : {"NONE", "SCHEDULED", "PARTIALLY_PAID", "PAID"}, paid_amount : Int]
NoRow == [status |-> "NONE", committed_limit |-> 0, current_drawn_amount |-> 0, version |-> 0]
Nothing == [facility |-> NoRow, sub_limit |-> 0]

Init ==
    /\ facility = [f \in Facility |-> NoRow]
    /\ versions = [f \in Facility |-> <<>>]
    /\ sub_drawn = [s \in FacilitySubLimit |-> 0]
    /\ drawdown = [d \in FacilityDrawdown |-> "NONE"]
    /\ repayment = [r \in FacilityRepayment |-> [status |-> "NONE", paid_amount |-> 0]]
    /\ phase = [u \in Users |-> "idle"]
    /\ on = [u \in Users |-> None]
    /\ pay = [u \in Users |-> 0]
    /\ seen = [u \in Users |-> Nothing]

-----------------------------------------------------------------------------
(* Rows and their locks                                                    *)

\* The sub-limit a request touches: its drawdown's, or that of the drawdown
\* a principal repayment is tied to.
SubLimitOf(x) ==
    IF x \in FacilityDrawdown THEN sub_limit_id[x]
    ELSE IF x \in Principal /\ drawdown_id[x] # None THEN sub_limit_id[drawdown_id[x]]
    ELSE None

\* The rows u's transaction holds locked: its own row, its facility and, when
\* it executes a drawdown, the sub-limit.
Holds(u, row) ==
    \/ phase[u] \in {"facility", "sub_limit", "save"} /\ row = on[u]
    \/ phase[u] \in {"sub_limit", "save"} /\ row = facility_id[on[u]]
    \/ phase[u] = "save" /\ on[u] \in FacilityDrawdown /\ row = sub_limit_id[on[u]]

\* Mutant: no statement says FOR UPDATE.
Free_Always(row) == TRUE

Free(row) == \A u \in Users : ~Holds(u, row)

Undrawn(f) == f.committed_limit - f.current_drawn_amount

\* What may be drawn: of a committed facility at least nothing, so that an
\* amount that is not positive always fits. Nothing sets
\* covenant_restricted_amount.
Available(d, f) == IF facility_id[d] \in Uncommitted \/ Undrawn(f) > 0 THEN Undrawn(f) ELSE 0

\* Mutant: the sub-limit is not checked again.
validate_drawdown_FacilityOnly(d, f, drawn) == f.status = "ACTIVE" /\ amount[d] <= Available(d, f)

\* The amount fits the facility, which is ACTIVE, and the sub-limit; currency
\* and dates are as they must.
validate_drawdown(d, f, drawn) ==
    /\ f.status = "ACTIVE"
    /\ amount[d] <= Available(d, f)
    /\ sub_limit_id[d] # None => amount[d] <= amount[sub_limit_id[d]] - drawn

\* max(0, drawn - paid)
Reduced(drawn, paid) == IF drawn <= paid THEN 0 ELSE drawn - paid

-----------------------------------------------------------------------------
(* Facilities: creation, terms and status                                  *)

New(limit) == [status |-> "DRAFT", committed_limit |-> limit, current_drawn_amount |-> 0, version |-> 1]

Create(f, limit) ==
    /\ facility[f].status = "NONE"
    /\ facility' = [facility EXCEPT ![f] = New(limit)]
    /\ versions' = [versions EXCEPT ![f] = <<limit>>]
    /\ UNCHANGED <<sub_drawn, drawdown, repayment, handlers>>

\* The FACILITY_MASTER template adds the facility's row alone.
Import(f, limit) ==
    /\ facility[f].status = "NONE"
    /\ facility' = [facility EXCEPT ![f] = New(limit)]
    /\ UNCHANGED <<versions, sub_drawn, drawdown, repayment, handlers>>

\* Mutant: the terms are edited in place.
Update_InPlace(f, limit) ==
    /\ facility[f].status # "NONE"
    /\ Free(f)
    /\ facility[f].version < MaxVersions
    /\ facility' = [facility EXCEPT ![f].committed_limit = limit]
    /\ UNCHANGED <<versions, sub_drawn, drawdown, repayment, handlers>>

\* A change of terms, committed_limit among them: nothing compares the new
\* limit with what is drawn.
Update(f, limit) ==
    /\ facility[f].status # "NONE"
    /\ Free(f)
    /\ facility[f].version < MaxVersions
    /\ facility' = [facility EXCEPT ![f].committed_limit = limit, ![f].version = @ + 1]
    /\ versions' = [versions EXCEPT ![f] = Append(@, limit)]
    /\ UNCHANGED <<sub_drawn, drawdown, repayment, handlers>>

ChangeStatus(f, status) ==
    /\ facility[f].status # "NONE"
    /\ Free(f)
    /\ status \in FACILITY_STATUS_TRANSITIONS[facility[f].status]
    /\ facility' = [facility EXCEPT ![f].status = status]
    /\ UNCHANGED <<versions, sub_drawn, drawdown, repayment, handlers>>

-----------------------------------------------------------------------------
(* Requests, decided in one step                                           *)

\* A drawdown is validated against what is committed when it is asked for,
\* without a lock: its execution validates it again.
CreateDrawdown(d) ==
    LET f == facility_id[d] IN
    /\ drawdown[d] = "NONE"
    /\ validate_drawdown(d, facility[f], IF sub_limit_id[d] = None THEN 0 ELSE sub_drawn[sub_limit_id[d]])
    /\ drawdown' = [drawdown EXCEPT ![d] = "SUBMITTED"]
    /\ UNCHANGED <<facility, versions, sub_drawn, repayment, handlers>>

\* The FACILITY_DRAWDOWNS template only asks that the facility exists, and
\* names no sub-limit.
ImportDrawdown(d) ==
    /\ drawdown[d] = "NONE"
    /\ sub_limit_id[d] = None
    /\ facility[facility_id[d]].status # "NONE"
    /\ drawdown' = [drawdown EXCEPT ![d] = "SUBMITTED"]
    /\ UNCHANGED <<facility, versions, sub_drawn, repayment, handlers>>

ApproveDrawdown(d) ==
    /\ Free(d)
    /\ drawdown[d] = "SUBMITTED"
    /\ drawdown' = [drawdown EXCEPT ![d] = "APPROVED"]
    /\ UNCHANGED <<facility, versions, sub_drawn, repayment, handlers>>

\* Any existing drawdown may be named, of whatever facility.
CreateRepayment(r) ==
    /\ repayment[r].status = "NONE"
    /\ facility[facility_id[r]].status # "NONE"
    /\ drawdown_id[r] # None => drawdown[drawdown_id[r]] # "NONE"
    /\ repayment' = [repayment EXCEPT ![r].status = "SCHEDULED"]
    /\ UNCHANGED <<facility, versions, sub_drawn, drawdown, handlers>>

-----------------------------------------------------------------------------
(* Executions and payments, step by step                                   *)

rows == <<facility, versions, sub_drawn, drawdown, repayment>>

RequestExecution(u, d) ==
    /\ phase[u] = "idle"
    /\ drawdown[d] # "NONE"
    /\ phase' = [phase EXCEPT ![u] = "row"]
    /\ on' = [on EXCEPT ![u] = d]
    /\ UNCHANGED <<rows, pay, seen>>

RequestPayment(u, r, paid) ==
    /\ phase[u] = "idle"
    /\ repayment[r].status # "NONE"
    /\ phase' = [phase EXCEPT ![u] = "row"]
    /\ on' = [on EXCEPT ![u] = r]
    /\ pay' = [pay EXCEPT ![u] = paid]
    /\ UNCHANGED <<rows, seen>>

\* Mutant: the status of the locked drawdown is not looked at.
Eligible_Any(x) ==
    IF x \in FacilityDrawdown THEN drawdown[x] # "NONE"
    ELSE repayment[x].status \in {"SCHEDULED", "PARTIALLY_PAID"}

Eligible(x) ==
    IF x \in FacilityDrawdown THEN drawdown[x] = "APPROVED"
    ELSE repayment[x].status \in {"SCHEDULED", "PARTIALLY_PAID"}

LockRow(u) ==
    /\ phase[u] = "row"
    /\ Free(on[u])
    /\ Eligible(on[u])
    /\ phase' = [phase EXCEPT ![u] = "facility"]
    /\ UNCHANGED <<rows, on, pay, seen>>

LockFacility(u) ==
    LET f == facility_id[on[u]] IN
    /\ phase[u] = "facility"
    /\ Free(f)
    /\ seen' = [seen EXCEPT ![u].facility = facility[f]]
    /\ phase' = [phase EXCEPT ![u] = IF SubLimitOf(on[u]) = None THEN "save" ELSE "sub_limit"]
    /\ UNCHANGED <<rows, on, pay>>

\* Only an execution reads the sub-limit FOR UPDATE.
ReadSubLimit(u) ==
    LET s == SubLimitOf(on[u]) IN
    /\ phase[u] = "sub_limit"
    /\ on[u] \in FacilityDrawdown => Free(s)
    /\ seen' = [seen EXCEPT ![u].sub_limit = sub_drawn[s]]
    /\ phase' = [phase EXCEPT ![u] = "save"]
    /\ UNCHANGED <<rows, on, pay>>

End(u) ==
    /\ phase' = [phase EXCEPT ![u] = "idle"]
    /\ on' = [on EXCEPT ![u] = None]
    /\ pay' = [pay EXCEPT ![u] = 0]
    /\ seen' = [seen EXCEPT ![u] = Nothing]

\* The amounts written are those computed from what was read.
ExecuteDrawdown(u) ==
    LET d == on[u]
        f == facility_id[d]
    IN
    /\ phase[u] = "save" /\ d \in FacilityDrawdown
    /\ validate_drawdown(d, seen[u].facility, seen[u].sub_limit)
    /\ drawdown' = [drawdown EXCEPT ![d] = "EXECUTED"]
    /\ facility' = [facility EXCEPT ![f].current_drawn_amount =
                        seen[u].facility.current_drawn_amount + amount[d]]
    /\ sub_drawn' = [s \in FacilitySubLimit |->
                        IF s = sub_limit_id[d] THEN seen[u].sub_limit + amount[d] ELSE sub_drawn[s]]
    /\ UNCHANGED <<versions, repayment>>
    /\ End(u)

\* A payment is compared with what remains of its repayment and with nothing
\* else: a negative one adds to the drawn amounts. The UPDATE of a sub-limit,
\* if the payment leaves another amount than was read, waits for an
\* execution that holds it.
RecordPayment(u) ==
    LET r == on[u]
        f == facility_id[r]
        paid == repayment[r].paid_amount + pay[u]
        left == Reduced(seen[u].sub_limit, pay[u])
        writes == SubLimitOf(r) # None /\ left # seen[u].sub_limit
    IN
    /\ phase[u] = "save" /\ r \in FacilityRepayment
    /\ paid <= amount[r] /\ paid >= LeastPaid
    /\ writes => Free(SubLimitOf(r))
    /\ repayment' = [repayment EXCEPT ![r] =
                        [status |-> IF paid = amount[r] THEN "PAID" ELSE "PARTIALLY_PAID",
                         paid_amount |-> paid]]
    /\ facility' = [facility EXCEPT ![f].current_drawn_amount =
                        IF r \in Principal THEN Reduced(seen[u].facility.current_drawn_amount, pay[u]) ELSE @]
    /\ sub_drawn' = [s \in FacilitySubLimit |->
                        IF writes /\ s = SubLimitOf(r) THEN left ELSE sub_drawn[s]]
    /\ UNCHANGED <<versions, drawdown>>
    /\ End(u)

\* A refusal, an error or a lost connection: nothing is written.
GiveUp(u) ==
    /\ phase[u] # "idle"
    /\ UNCHANGED rows
    /\ End(u)

Next ==
    \/ \E f \in Facility :
          \/ \E limit \in Limits : Create(f, limit) \/ Import(f, limit) \/ Update(f, limit)
          \/ \E status \in FacilityStatus : ChangeStatus(f, status)
    \/ \E d \in FacilityDrawdown : CreateDrawdown(d) \/ ImportDrawdown(d) \/ ApproveDrawdown(d)
    \/ \E r \in FacilityRepayment : CreateRepayment(r)
    \/ \E u \in Users :
          \/ \E d \in FacilityDrawdown : RequestExecution(u, d)
          \/ \E r \in FacilityRepayment, paid \in Payments : RequestPayment(u, r, paid)
          \/ LockRow(u) \/ LockFacility(u) \/ ReadSubLimit(u)
          \/ ExecuteDrawdown(u) \/ RecordPayment(u) \/ GiveUp(u)

Spec == Init /\ [][Next]_vars

-----------------------------------------------------------------------------
(* Properties                                                              *)

\* Every variable holds a value the schema gives it.
TypeOK ==
    /\ facility \in [Facility -> FacilityRow]
    /\ versions \in [Facility -> Seq(Limits)]
    /\ sub_drawn \in [FacilitySubLimit -> Int]
    /\ drawdown \in [FacilityDrawdown -> {"NONE", "SUBMITTED", "APPROVED", "EXECUTED"}]
    /\ repayment \in [FacilityRepayment -> RepaymentRow]
    /\ phase \in [Users -> {"idle", "row", "facility", "sub_limit", "save"}]
    /\ on \in [Users -> Requested \union {None}]
    /\ \A u \in Users : on[u] = None <=> phase[u] = "idle"
    /\ pay \in [Users -> Int]
    /\ seen \in [Users -> [facility : FacilityRow, sub_limit : Int]]

Sum(f, S) == SumFunctionOnSet(f, S)
Executed(D) == Sum(amount, {d \in D : drawdown[d] = "EXECUTED"})
Paid(R) == Sum([r \in R |-> repayment[r].paid_amount], R)

DrawdownsOf(f) == {d \in FacilityDrawdown : facility_id[d] = f}
DrawdownsThrough(s) == {d \in FacilityDrawdown : sub_limit_id[d] = s}
PrincipalOf(f) == {r \in Principal : facility_id[r] = f}
PrincipalThrough(s) == {r \in FacilityRepayment : SubLimitOf(r) = s}

\* What a facility's executed drawdowns drew is still drawn or has been paid
\* back, however executions and payments interleave: no execution is lost.
DebtIsCovered ==
    \A f \in Facility : Executed(DrawdownsOf(f)) <= facility[f].current_drawn_amount + Paid(PrincipalOf(f))

\* So with a sub-limit.
SubLimitsAreCovered ==
    \A s \in FacilitySubLimit : Executed(DrawdownsThrough(s)) <= sub_drawn[s] + Paid(PrincipalThrough(s))

\* The drawdowns of D a step executes, the repayments of R it pays.
Executing(D) == {d \in D : drawdown[d] # "EXECUTED" /\ drawdown'[d] = "EXECUTED"}
Paying(R) == {r \in R : repayment'[r].paid_amount # repayment[r].paid_amount}

\* A drawn amount goes from before to after by one drawdown of D, executed for
\* the first time, or one payment of R, each from the amount it then has; a
\* payment of zero too cuts off an amount below zero.
Accounts(before, after, D, R) ==
    \/ Executing(D) = {} /\ Paying(R) = {} /\ after \in {before, Reduced(before, 0)}
    \/ \E d \in D : Executing(D) = {d} /\ Paying(R) = {} /\ after = before + amount[d]
    \/ \E r \in R :
          /\ Executing(D) = {} /\ Paying(R) = {r}
          /\ after = Reduced(before, repayment'[r].paid_amount - repayment[r].paid_amount)

\* A facility's drawn amount moves with its executions and its principal
\* payments alone, by what each says and by each once: none is lost,
\* doubled or computed from an amount another has changed.
DebtIsAccounted ==
    [][\A f \in Facility :
          Accounts(facility[f].current_drawn_amount, facility'[f].current_drawn_amount,
                   DrawdownsOf(f), PrincipalOf(f))]_vars

\* So with a sub-limit's, which no execution takes past its own limit.
SubLimitsAreAccounted ==
    [][\A s \in FacilitySubLimit :
          /\ Accounts(sub_drawn[s], sub_drawn'[s], DrawdownsThrough(s), PrincipalThrough(s))
          /\ Executing(DrawdownsThrough(s)) # {} => sub_drawn'[s] <= amount[s]]_vars

\* What is drawn rises by an execution at a facility that is then active, to
\* no more than the limit it then has: concurrent executions never overdraw
\* it. All else that raises it is a payment of a negative amount, or one
\* that cuts off an amount below zero.
NeverOverdrawn ==
    [][\A f \in Facility :
          facility'[f].current_drawn_amount > facility[f].current_drawn_amount =>
              \/ /\ facility'[f].status = "ACTIVE"
                 /\ facility'[f].current_drawn_amount <= facility'[f].committed_limit
              \/ /\ Executing(DrawdownsOf(f)) = {}
                 /\ \/ facility[f].current_drawn_amount < 0
                    \/ \E r \in PrincipalOf(f) : repayment'[r].paid_amount < repayment[r].paid_amount]_vars

\* Nothing but an execution at an active facility, within its limit, raises
\* what is drawn of it.
NeverPastLimit ==
    [][\A f \in Facility :
          facility'[f].current_drawn_amount > facility[f].current_drawn_amount =>
              /\ facility'[f].status = "ACTIVE"
              /\ facility'[f].current_drawn_amount <= facility'[f].committed_limit]_vars

\* The terms of a facility that was created with a first version are never
\* lost: its versions are numbered without a gap and end with its terms.
TermsAreVersioned ==
    \A f \in Facility :
        LET n == Len(versions[f]) IN
        n > 0 => versions[f][n] = facility[f].committed_limit /\ n \in {facility[f].version, facility[f].version - 1}

\* A request that is recorded or served has a facility, and a sub-limit
\* where its handler is about to read one.
RequestsExist ==
    /\ \A d \in FacilityDrawdown : drawdown[d] # "NONE" => facility[facility_id[d]].status # "NONE"
    /\ \A r \in FacilityRepayment : repayment[r].status # "NONE" => facility[facility_id[r]].status # "NONE"
    /\ \A u \in Users : phase[u] # "idle" => facility[facility_id[on[u]]].status # "NONE"
    /\ \A u \in Users : phase[u] = "sub_limit" => SubLimitOf(on[u]) \in FacilitySubLimit

HoldsFacility(u) == phase[u] \in {"sub_limit", "save"}

\* Two handlers never hold one facility.
LocksExclude ==
    \A u, v \in Users :
        u # v /\ HoldsFacility(u) /\ HoldsFacility(v) => facility_id[on[u]] # facility_id[on[v]]

\* What a handler has read of the facility it holds is still so.
SeenIsCurrent ==
    \A u \in Users : HoldsFacility(u) => seen[u].facility = facility[facility_id[on[u]]]

\* A facility has as many versions as its number says, or, when it was
\* imported, one less; one that does not exist has nothing at all.
VersionsAreCounted ==
    \A f \in Facility :
        /\ Len(versions[f]) \in {facility[f].version, facility[f].version - 1}
        /\ facility[f].status = "NONE" => facility[f] = NoRow

\* The invariant that holds without a look at the amounts.
IndInv == TypeOK /\ RequestsExist /\ LocksExclude /\ SeenIsCurrent /\ VersionsAreCounted /\ TermsAreVersioned

HoldsRow(u) == phase[u] \in {"facility", "sub_limit", "save"}

\* Nor do they hold one request, and a held request waits to be served: a
\* drawdown is executed once, a repayment paid from what was paid before.
HeldRequestsWait ==
    /\ \A u, v \in Users : u # v /\ HoldsRow(u) /\ HoldsRow(v) => on[u] # on[v]
    /\ \A u \in Users : HoldsRow(u) => Eligible(on[u])

\* What a handler has read of a sub-limit it is about to write is still so.
SeenSubLimitIsCurrent ==
    \A u \in Users :
        phase[u] = "save" /\ SubLimitOf(on[u]) # None => seen[u].sub_limit = sub_drawn[SubLimitOf(on[u])]

\* No principal repayment is recorded at one facility for a drawdown made
\* through a sub-limit of another.
RepaymentsStayAtTheirFacility ==
    \A r \in FacilityRepayment : SubLimitOf(r) # None => facility_id[SubLimitOf(r)] = facility_id[r]

\* The invariant the proofs rest on: the lock of its facility is all that
\* guards a sub-limit against a payment.
AccountsInv ==
    /\ IndInv
    /\ HeldRequestsWait
    /\ DebtIsCovered
    /\ RepaymentsStayAtTheirFacility => SeenSubLimitIsCurrent /\ SubLimitsAreCovered

\* A change of terms leaves the earlier terms in the facility's versions
\* ("never edited in place - a change creates a new FacilityVersion row").
EarlierTermsAreKept ==
    [][\A f \in Facility :
          facility[f].status # "NONE" /\ facility'[f].committed_limit # facility[f].committed_limit =>
              \E n \in 1 .. Len(versions'[f]) : versions'[f][n] = facility[f].committed_limit]_vars
=============================================================================
