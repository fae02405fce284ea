-------------------------- MODULE FacilitiesProof ---------------------------
(***************************************************************************)
(* Proofs about Facilities, for any number of facilities, sub-limits,      *)
(* drawdowns, repayments and users, and any amounts; and, at the end,      *)
(* about FundingActions, for any number of actions linked to drawdowns and *)
(* repayments.                                                             *)
(***************************************************************************)
EXTENDS Facilities, FundingActions, FiniteSums, TLAPS

\* max(0, drawn - paid) is an amount, and not less than the difference. Where
\* what is paid is not negative, nor is what was drawn, it is not more than
\* was drawn.
LEMMA ReducedBound ==
    ASSUME NEW drawn \in Int, NEW paid \in Int
    PROVE  /\ Reduced(drawn, paid) \in Int /\ drawn - paid <= Reduced(drawn, paid)
           /\ 0 <= drawn /\ 0 <= paid => Reduced(drawn, paid) <= drawn
  BY DEF Reduced

\* Initially nothing exists.
LEMMA InvInit == Init => IndInv
<1> SUFFICES ASSUME Init PROVE IndInv
  OBVIOUS
<1>1. NoRow \in FacilityRow /\ NoRow.status = "NONE" /\ NoRow.version = 0
  BY DEF NoRow, FacilityRow
<1>2. Nothing \in [facility : FacilityRow, sub_limit : Int]
  BY <1>1 DEF Nothing
<1>3. <<>> \in Seq(Limits) /\ Len(<<>>) = 0
  OBVIOUS
<1>4. TypeOK
  BY <1>1, <1>2, <1>3 DEF Init, TypeOK, RepaymentRow
<1>5. RequestsExist /\ LocksExclude /\ SeenIsCurrent
  BY DEF Init, RequestsExist, LocksExclude, SeenIsCurrent, HoldsFacility
<1>6. VersionsAreCounted /\ TermsAreVersioned
  BY <1>1, <1>3 DEF Init, VersionsAreCounted, TermsAreVersioned
<1>7. QED
  BY <1>4, <1>5, <1>6 DEF IndInv

-----------------------------------------------------------------------------
(* Changes of a facility's own row                                         *)

\* A facility nobody holds may get any row, if its versions go with it.
LEMMA FacilityChange ==
    ASSUME IndInv, NEW f \in Facility, NEW row \in FacilityRow, row.status # "NONE",
           \A u \in Users : HoldsFacility(u) => facility_id[on[u]] # f,
           facility' = [facility EXCEPT ![f] = row],
           versions' \in [Facility -> Seq(Limits)],
           \A g \in Facility \ {f} : versions'[g] = versions[g],
           Len(versions'[f]) \in {row.version, row.version - 1},
           Len(versions'[f]) > 0 => versions'[f][Len(versions'[f])] = row.committed_limit,
           UNCHANGED <<sub_drawn, drawdown, repayment, handlers>>
    PROVE  IndInv'
<1>1. facility'[f] = row /\ \A g \in Facility \ {f} : facility'[g] = facility[g]
  BY DEF IndInv, TypeOK
<1>2. TypeOK'
  BY DEF IndInv, TypeOK, handlers
<1>3. \A g \in Facility : facility[g].status # "NONE" => facility'[g].status # "NONE"
  BY <1>1
<1>4. RequestsExist'
  <2>1. \A u \in Users : phase[u] # "idle" => facility_id[on[u]] \in Facility
    BY ColumnAssumption DEF IndInv, TypeOK
  <2>2. \A x \in Requested : facility_id[x] \in Facility
    BY ColumnAssumption
  <2>3. QED
    BY <1>3, <2>1, <2>2 DEF IndInv, RequestsExist, handlers, Requested
<1>5. LocksExclude'
  BY DEF IndInv, LocksExclude, HoldsFacility, handlers
<1>6. SeenIsCurrent'
  <2>1. \A u \in Users : HoldsFacility(u) => facility_id[on[u]] \in Facility \ {f}
    BY ColumnAssumption DEF IndInv, TypeOK, HoldsFacility
  <2>2. QED
    BY <1>1, <2>1 DEF IndInv, SeenIsCurrent, HoldsFacility, handlers
<1>7. VersionsAreCounted' /\ TermsAreVersioned'
  <2>1. \A g \in Facility : g # f => facility'[g] = facility[g] /\ versions'[g] = versions[g]
    BY <1>1
  <2>2. VersionsAreCounted'
    BY <1>1, <2>1 DEF IndInv, VersionsAreCounted
  <2>3. TermsAreVersioned'
    BY <1>1, <2>1 DEF IndInv, TermsAreVersioned
  <2>4. QED
    BY <2>2, <2>3
<1>8. QED
  BY <1>2, <1>4, <1>5, <1>6, <1>7 DEF IndInv

\* A new facility is held by nobody: whoever serves a request of it would
\* have found it.
LEMMA NewIsUnheld ==
    ASSUME IndInv, NEW f \in Facility, facility[f].status = "NONE"
    PROVE  /\ \A u \in Users : HoldsFacility(u) => facility_id[on[u]] # f
           /\ versions[f] = <<>>
<1>1. \A u \in Users : HoldsFacility(u) => facility_id[on[u]] # f
  BY DEF IndInv, RequestsExist, HoldsFacility
<1>2. versions[f] = <<>>
  <2>1. versions[f] \in Seq(Limits) /\ Len(versions[f]) = 0
    BY DEF IndInv, TypeOK, VersionsAreCounted, NoRow
  <2>2. QED
    BY <2>1
<1>3. QED
  BY <1>1, <1>2

\* What nobody holds locked, no handler has read under its lock.
LEMMA FreeIsUnheld ==
    ASSUME NEW f \in Facility, Free(f)
    PROVE  \A u \in Users : HoldsFacility(u) => facility_id[on[u]] # f
  BY DEF Free, Holds, HoldsFacility

\* A limit makes a new row, of version 1.
LEMMA NewRow ==
    ASSUME NEW limit \in Limits
    PROVE  /\ New(limit) \in FacilityRow
           /\ New(limit).status = "DRAFT" /\ New(limit).version = 1
           /\ New(limit).committed_limit = limit
  BY ColumnAssumption DEF New, FacilityRow, FacilityStatus, FACILITY_STATUS_TRANSITIONS

\* A facility created through the API starts with one version.
LEMMA CreateStep ==
    ASSUME IndInv, NEW f \in Facility, NEW limit \in Limits, Create(f, limit)
    PROVE  IndInv'
<1>1. \A u \in Users : HoldsFacility(u) => facility_id[on[u]] # f
  BY NewIsUnheld DEF Create
<1>2. /\ versions' \in [Facility -> Seq(Limits)]
      /\ versions'[f] = <<limit>>
      /\ \A g \in Facility \ {f} : versions'[g] = versions[g]
  BY DEF Create, IndInv, TypeOK
<1>3. Len(versions'[f]) = 1 /\ versions'[f][1] = limit
  BY <1>2
<1> DEFINE row == New(limit)
<1>4. row \in FacilityRow /\ row.status # "NONE" /\ row.version = 1 /\ row.committed_limit = limit
  BY NewRow
<1>5. facility' = [facility EXCEPT ![f] = row] /\ UNCHANGED <<sub_drawn, drawdown, repayment, handlers>>
  BY DEF Create
<1> HIDE DEF row
<1>6. Len(versions'[f]) \in {row.version, row.version - 1}
  BY <1>3, <1>4
<1>7. versions'[f][Len(versions'[f])] = row.committed_limit
  BY <1>3, <1>4
<1>8. QED
  BY <1>1, <1>2, <1>4, <1>5, <1>6, <1>7, FacilityChange

\* An imported one starts with none.
LEMMA ImportStep ==
    ASSUME IndInv, NEW f \in Facility, NEW limit \in Limits, Import(f, limit)
    PROVE  IndInv'
<1>1. (\A u \in Users : HoldsFacility(u) => facility_id[on[u]] # f) /\ versions[f] = <<>>
  BY NewIsUnheld DEF Import
<1>2. versions' \in [Facility -> Seq(Limits)] /\ versions' = versions
  BY DEF Import, IndInv, TypeOK
<1>3. Len(versions'[f]) = 0
  BY <1>1, <1>2
<1> DEFINE row == New(limit)
<1>4. row \in FacilityRow /\ row.status # "NONE" /\ row.version = 1
  BY NewRow
<1>5. facility' = [facility EXCEPT ![f] = row] /\ UNCHANGED <<sub_drawn, drawdown, repayment, handlers>>
  BY DEF Import
<1> HIDE DEF row
<1>6. Len(versions'[f]) \in {row.version, row.version - 1}
  BY <1>3, <1>4
<1>7. Len(versions'[f]) > 0 => versions'[f][Len(versions'[f])] = row.committed_limit
  BY <1>3
<1>8. QED
  BY <1>1, <1>2, <1>4, <1>5, <1>6, <1>7, FacilityChange

\* New terms are appended to the versions as they are given to the row.
LEMMA UpdateStep ==
    ASSUME IndInv, NEW f \in Facility, NEW limit \in Limits, Update(f, limit)
    PROVE  IndInv'
<1> DEFINE row == [facility[f] EXCEPT !.committed_limit = limit, !.version = @ + 1]
<1>1. facility[f] \in FacilityRow /\ versions[f] \in Seq(Limits)
  BY DEF IndInv, TypeOK
<1>2. /\ row \in FacilityRow
      /\ row.status = facility[f].status
      /\ row.version = facility[f].version + 1
      /\ row.committed_limit = limit
  <2>1. facility[f].version + 1 \in Nat /\ limit \in Int
    BY <1>1, ColumnAssumption DEF FacilityRow
  <2>2. QED
    BY <1>1, <2>1 DEF FacilityRow
<1>3. facility' = [facility EXCEPT ![f] = row] /\ row.status # "NONE"
  BY <1>2 DEF Update
<1>4. /\ versions' \in [Facility -> Seq(Limits)]
      /\ versions'[f] = Append(versions[f], limit)
      /\ \A g \in Facility \ {f} : versions'[g] = versions[g]
  BY <1>1 DEF Update, IndInv, TypeOK
<1>5. Len(versions'[f]) = Len(versions[f]) + 1 /\ versions'[f][Len(versions'[f])] = limit
  BY <1>1, <1>4
<1>6. Len(versions'[f]) \in {row.version, row.version - 1}
  <2>1. Len(versions[f]) \in {facility[f].version, facility[f].version - 1}
    BY DEF IndInv, VersionsAreCounted
  <2>2. facility[f].version \in Nat
    BY <1>1 DEF FacilityRow
  <2>3. QED
    BY <2>1, <2>2, <1>2, <1>5
<1>7. \A u \in Users : HoldsFacility(u) => facility_id[on[u]] # f
  BY FreeIsUnheld DEF Update
<1> HIDE DEF row
<1>8. QED
  BY <1>2, <1>3, <1>4, <1>5, <1>6, <1>7, FacilityChange DEF Update

\* A change of status leaves the terms alone.
LEMMA ChangeStatusStep ==
    ASSUME IndInv, NEW f \in Facility, NEW new_status \in FacilityStatus, ChangeStatus(f, new_status)
    PROVE  IndInv'
<1> DEFINE row == [facility[f] EXCEPT !.status = new_status]
<1>1. facility[f] \in FacilityRow /\ versions \in [Facility -> Seq(Limits)]
  BY DEF IndInv, TypeOK
<1>2. /\ row \in FacilityRow
      /\ row.status = new_status
      /\ row.version = facility[f].version
      /\ row.committed_limit = facility[f].committed_limit
  BY <1>1 DEF FacilityRow
<1>3. row.status # "NONE"
  BY <1>2 DEF FacilityStatus, FACILITY_STATUS_TRANSITIONS
<1>4. facility' = [facility EXCEPT ![f] = row] /\ versions' = versions
  BY DEF ChangeStatus
<1>5. Len(versions[f]) \in {row.version, row.version - 1}
  BY <1>2 DEF IndInv, VersionsAreCounted
<1>6. Len(versions[f]) > 0 => versions[f][Len(versions[f])] = row.committed_limit
  BY <1>2 DEF IndInv, TermsAreVersioned
<1>7. \A u \in Users : HoldsFacility(u) => facility_id[on[u]] # f
  BY FreeIsUnheld DEF ChangeStatus
<1> HIDE DEF row
<1>8. QED
  BY <1>1, <1>2, <1>3, <1>4, <1>5, <1>6, <1>7, FacilityChange DEF ChangeStatus

-----------------------------------------------------------------------------
(* Requests                                                                *)

\* A request that is recorded or approved has a facility.
LEMMA RequestStep ==
    ASSUME IndInv,
           drawdown' \in [FacilityDrawdown -> {"NONE", "SUBMITTED", "APPROVED", "EXECUTED"}],
           repayment' \in [FacilityRepayment -> RepaymentRow],
           \A d \in FacilityDrawdown :
               drawdown'[d] # "NONE" => facility[facility_id[d]].status # "NONE",
           \A r \in FacilityRepayment :
               repayment'[r].status # "NONE" => facility[facility_id[r]].status # "NONE",
           UNCHANGED <<facility, versions, sub_drawn, handlers>>
    PROVE  IndInv'
<1>1. TypeOK'
  BY DEF IndInv, TypeOK, handlers
<1>2. RequestsExist'
  BY DEF IndInv, RequestsExist, handlers
<1>3. LocksExclude' /\ SeenIsCurrent'
  BY DEF IndInv, LocksExclude, SeenIsCurrent, HoldsFacility, handlers
<1>4. VersionsAreCounted' /\ TermsAreVersioned'
  BY DEF IndInv, VersionsAreCounted, TermsAreVersioned
<1>5. QED
  BY <1>1, <1>2, <1>3, <1>4 DEF IndInv

\* A drawdown is created, imported or approved.
LEMMA DrawdownStep ==
    ASSUME IndInv, NEW d \in FacilityDrawdown,
           CreateDrawdown(d) \/ ImportDrawdown(d) \/ ApproveDrawdown(d)
    PROVE  IndInv'
<1>1. /\ drawdown' \in [FacilityDrawdown -> {"NONE", "SUBMITTED", "APPROVED", "EXECUTED"}]
      /\ \A e \in FacilityDrawdown \ {d} : drawdown'[e] = drawdown[e]
      /\ UNCHANGED <<facility, versions, sub_drawn, repayment, handlers>>
  BY DEF IndInv, TypeOK, CreateDrawdown, ImportDrawdown, ApproveDrawdown
<1>2. facility[facility_id[d]].status # "NONE"
  BY DEF IndInv, RequestsExist, CreateDrawdown, validate_drawdown, ImportDrawdown, ApproveDrawdown
<1>3. \A e \in FacilityDrawdown : drawdown'[e] # "NONE" => facility[facility_id[e]].status # "NONE"
  BY <1>1, <1>2 DEF IndInv, RequestsExist
<1>4. QED
  BY <1>1, <1>3, RequestStep DEF IndInv, TypeOK, RequestsExist

\* A repayment is created.
LEMMA RepaymentStep ==
    ASSUME IndInv, NEW r \in FacilityRepayment, CreateRepayment(r)
    PROVE  IndInv'
<1>1. repayment[r] \in RepaymentRow
  BY DEF IndInv, TypeOK
<1>2. repayment' \in [FacilityRepayment -> RepaymentRow]
  BY <1>1 DEF IndInv, TypeOK, CreateRepayment, RepaymentRow
<1>3. \A s \in FacilityRepayment \ {r} : repayment'[s] = repayment[s]
  BY DEF IndInv, TypeOK, CreateRepayment
<1>4. facility[facility_id[r]].status # "NONE"
  BY DEF CreateRepayment
<1>5. \A s \in FacilityRepayment : repayment'[s].status # "NONE" => facility[facility_id[s]].status # "NONE"
  BY <1>3, <1>4 DEF IndInv, RequestsExist
<1>6. QED
  BY <1>2, <1>5, RequestStep DEF CreateRepayment, IndInv, TypeOK, RequestsExist

-----------------------------------------------------------------------------
(* Handlers                                                                *)

\* A handler may take up a request that exists, and go on with it while its
\* facility is not yet locked.
LEMMA TakenStep ==
    ASSUME IndInv, NEW u \in Users, NEW x \in Requested, NEW next \in {"row", "facility"},
           facility[facility_id[x]].status # "NONE",
           phase' = [phase EXCEPT ![u] = next], on' = [on EXCEPT ![u] = x],
           pay' \in [Users -> Int], UNCHANGED <<rows, seen>>
    PROVE  IndInv'
<1>1. x # None
  BY RowAssumption
<1>2. TypeOK'
  BY <1>1 DEF IndInv, TypeOK, rows
<1>3. RequestsExist'
  BY DEF IndInv, TypeOK, RequestsExist, rows
<1>4. \A v \in Users : HoldsFacility(v)' => v # u /\ HoldsFacility(v) /\ on'[v] = on[v]
  BY DEF IndInv, TypeOK, HoldsFacility
<1>5. LocksExclude'
  BY <1>4 DEF IndInv, LocksExclude
<1>6. SeenIsCurrent'
  BY <1>4 DEF IndInv, SeenIsCurrent, rows
<1>7. VersionsAreCounted' /\ TermsAreVersioned'
  BY DEF IndInv, VersionsAreCounted, TermsAreVersioned, rows
<1>8. QED
  BY <1>2, <1>3, <1>5, <1>6, <1>7 DEF IndInv

LEMMA RequestTaken ==
    ASSUME IndInv, NEW u \in Users
    PROVE  /\ \A d \in FacilityDrawdown : RequestExecution(u, d) => IndInv'
           /\ \A r \in FacilityRepayment, paid \in Payments : RequestPayment(u, r, paid) => IndInv'
           /\ LockRow(u) => IndInv'
<1>1. pay \in [Users -> Int] /\ on[u] \in Requested \union {None} /\ (on[u] = None <=> phase[u] = "idle")
  BY DEF IndInv, TypeOK
<1>2. ASSUME NEW d \in FacilityDrawdown, RequestExecution(u, d) PROVE IndInv'
  <2>1. d \in Requested /\ facility[facility_id[d]].status # "NONE"
    BY <1>2 DEF RequestExecution, IndInv, RequestsExist, Requested
  <2>2. QED
    BY <1>1, <1>2, <2>1, TakenStep DEF RequestExecution
<1>3. ASSUME NEW r \in FacilityRepayment, NEW paid \in Payments, RequestPayment(u, r, paid) PROVE IndInv'
  <2>1. r \in Requested /\ facility[facility_id[r]].status # "NONE"
    BY <1>3 DEF RequestPayment, IndInv, RequestsExist, Requested
  <2>2. pay' \in [Users -> Int]
    BY <1>1, <1>3, ColumnAssumption DEF RequestPayment
  <2>3. QED
    BY <1>3, <2>1, <2>2, TakenStep DEF RequestPayment
<1>4. ASSUME LockRow(u) PROVE IndInv'
  <2>1. on[u] \in Requested /\ facility[facility_id[on[u]]].status # "NONE"
    BY <1>1, <1>4 DEF LockRow, IndInv, RequestsExist
  <2>2. on' = [on EXCEPT ![u] = on[u]]
    BY <1>4 DEF LockRow, IndInv, TypeOK
  <2>3. QED
    BY <1>1, <1>4, <2>1, <2>2, TakenStep DEF LockRow
<1>5. QED
  BY <1>2, <1>3, <1>4

\* A handler locks a facility that no other holds, and reads it as it is.
LEMMA LockFacilityStep == ASSUME IndInv, NEW u \in Users, LockFacility(u) PROVE IndInv'
<1> DEFINE f == facility_id[on[u]]
<1>1. on[u] \in Requested /\ f \in Facility
  BY ColumnAssumption DEF LockFacility, IndInv, TypeOK
<1>2. facility[f] \in FacilityRow
  BY <1>1 DEF IndInv, TypeOK
<1>3. phase'[u] \in {"sub_limit", "save"} /\ \A v \in Users \ {u} : phase'[v] = phase[v]
  BY DEF LockFacility, IndInv, TypeOK
<1>4. seen'[u].facility = facility[f] /\ \A v \in Users \ {u} : seen'[v] = seen[v]
  BY DEF LockFacility, IndInv, TypeOK
<1>5. TypeOK'
  BY <1>2, <1>3 DEF LockFacility, IndInv, TypeOK, rows
<1>6. RequestsExist'
  <2>1. SubLimitOf(on[u]) \in FacilitySubLimit \union {None}
    BY <1>1, ColumnAssumption DEF SubLimitOf, Requested
  <2>2. phase'[u] = "sub_limit" => SubLimitOf(on[u]) # None
    BY DEF LockFacility, IndInv, TypeOK
  <2>3. QED
    BY <1>3, <2>1, <2>2 DEF LockFacility, IndInv, RequestsExist, rows
<1>7. \A v \in Users : HoldsFacility(v) => facility_id[on[v]] # f
  BY <1>1, FreeIsUnheld DEF LockFacility
<1>8. LocksExclude'
  BY <1>3, <1>7 DEF LockFacility, IndInv, LocksExclude, HoldsFacility
<1>9. SeenIsCurrent'
  BY <1>3, <1>4 DEF LockFacility, IndInv, SeenIsCurrent, HoldsFacility, rows
<1>10. VersionsAreCounted' /\ TermsAreVersioned'
  BY DEF LockFacility, IndInv, VersionsAreCounted, TermsAreVersioned, rows
<1>11. QED
  BY <1>5, <1>6, <1>8, <1>9, <1>10 DEF IndInv

\* Reading the sub-limit leaves what was read of the facility alone.
LEMMA ReadSubLimitStep ==
    ASSUME IndInv, NEW u \in Users, ReadSubLimit(u)
    PROVE  IndInv'
<1>0. SubLimitOf(on[u]) \in FacilitySubLimit
  BY DEF ReadSubLimit, IndInv, RequestsExist
<1>1. sub_drawn[SubLimitOf(on[u])] \in Int /\ seen[u] \in [facility : FacilityRow, sub_limit : Int]
  BY <1>0 DEF IndInv, TypeOK
<1>2. \A v \in Users : seen'[v].facility = seen[v].facility
  BY <1>1 DEF ReadSubLimit, IndInv, TypeOK
<1>3. \A v \in Users : HoldsFacility(v)' <=> HoldsFacility(v)
  BY DEF ReadSubLimit, IndInv, TypeOK, HoldsFacility
<1>4. TypeOK'
  BY <1>1 DEF ReadSubLimit, IndInv, TypeOK, rows
<1>5. RequestsExist'
  BY DEF ReadSubLimit, IndInv, TypeOK, RequestsExist, rows
<1>6. LocksExclude' /\ SeenIsCurrent'
  BY <1>2, <1>3 DEF ReadSubLimit, IndInv, LocksExclude, SeenIsCurrent, rows
<1>7. VersionsAreCounted' /\ TermsAreVersioned'
  BY DEF ReadSubLimit, IndInv, VersionsAreCounted, TermsAreVersioned, rows
<1>8. QED
  BY <1>4, <1>5, <1>6, <1>7 DEF IndInv

\* A transaction that ends lets its facility go, with whatever amount it
\* wrote to it.
LEMMA EndStep ==
    ASSUME IndInv, NEW u \in Users, End(u),
           facility' \in [Facility -> FacilityRow],
           \A f \in Facility : /\ facility'[f].status = facility[f].status
                               /\ facility'[f].version = facility[f].version
                               /\ facility'[f].committed_limit = facility[f].committed_limit,
           \A f \in Facility : facility'[f] # facility[f] => HoldsFacility(u) /\ f = facility_id[on[u]],
           sub_drawn' \in [FacilitySubLimit -> Int],
           drawdown' \in [FacilityDrawdown -> {"NONE", "SUBMITTED", "APPROVED", "EXECUTED"}],
           repayment' \in [FacilityRepayment -> RepaymentRow],
           \A d \in FacilityDrawdown : drawdown'[d] # drawdown[d] => d = on[u],
           \A r \in FacilityRepayment : repayment'[r] # repayment[r] => r = on[u],
           phase[u] # "idle",
           UNCHANGED versions
    PROVE  IndInv'
<1>1. Nothing \in [facility : FacilityRow, sub_limit : Int]
  BY DEF Nothing, NoRow, FacilityRow
<1>2. TypeOK'
  BY <1>1 DEF End, IndInv, TypeOK
<1>3. \A v \in Users : phase'[v] # "idle" => v # u /\ phase'[v] = phase[v] /\ on'[v] = on[v] /\ seen'[v] = seen[v]
  BY DEF End, IndInv, TypeOK
<1>4. \A v \in Users : phase[v] # "idle" => on[v] \in Requested /\ facility_id[on[v]] \in Facility
  BY ColumnAssumption DEF IndInv, TypeOK
<1>5. \A x \in Requested : facility_id[x] \in Facility
  BY ColumnAssumption
<1>6. RequestsExist'
  <2>1. ASSUME NEW d \in FacilityDrawdown, drawdown'[d] # "NONE"
        PROVE  facility'[facility_id[d]].status # "NONE"
    <3>1. facility[facility_id[d]].status # "NONE"
      BY <2>1 DEF IndInv, RequestsExist
    <3>2. QED
      BY <3>1, <1>5 DEF Requested
  <2>2. ASSUME NEW r \in FacilityRepayment, repayment'[r].status # "NONE"
        PROVE  facility'[facility_id[r]].status # "NONE"
    <3>1. facility[facility_id[r]].status # "NONE"
      BY <2>2 DEF IndInv, RequestsExist
    <3>2. QED
      BY <3>1, <1>5 DEF Requested
  <2>3. ASSUME NEW v \in Users, phase'[v] # "idle"
        PROVE  facility'[facility_id[on'[v]]].status # "NONE"
    BY <2>3, <1>3, <1>4 DEF IndInv, RequestsExist
  <2>4. ASSUME NEW v \in Users, phase'[v] = "sub_limit"
        PROVE  SubLimitOf(on'[v]) \in FacilitySubLimit
    BY <2>4, <1>3 DEF IndInv, RequestsExist
  <2>5. QED
    BY <2>1, <2>2, <2>3, <2>4 DEF RequestsExist, SubLimitOf
<1>7. LocksExclude'
  BY <1>3 DEF IndInv, LocksExclude, HoldsFacility
<1>8. SeenIsCurrent'
  <2> SUFFICES ASSUME NEW v \in Users, HoldsFacility(v)'
               PROVE  seen'[v].facility = facility'[facility_id[on'[v]]]
    BY DEF SeenIsCurrent
  <2>1. v # u /\ HoldsFacility(v) /\ on'[v] = on[v] /\ seen'[v] = seen[v]
    BY <1>3 DEF HoldsFacility
  <2>2. facility_id[on[v]] \in Facility
    BY <2>1, <1>4 DEF HoldsFacility
  <2>3. facility'[facility_id[on[v]]] = facility[facility_id[on[v]]]
    BY <2>1, <2>2 DEF IndInv, LocksExclude
  <2>4. QED
    BY <2>1, <2>3 DEF IndInv, SeenIsCurrent
<1>9. VersionsAreCounted'
  <2>1. \A f \in Facility : facility[f].status = "NONE" => facility'[f] = facility[f]
    BY DEF IndInv, RequestsExist
  <2>2. QED
    BY <2>1 DEF IndInv, VersionsAreCounted
<1>10. TermsAreVersioned'
  BY DEF IndInv, TermsAreVersioned
<1>11. QED
  BY <1>2, <1>6, <1>7, <1>8, <1>9, <1>10 DEF IndInv

\* Reading the amounts a handler at its end is about to compute with.
LEMMA ReadAmounts ==
    ASSUME IndInv, NEW u \in Users, phase[u] = "save"
    PROVE  /\ on[u] \in Requested /\ facility_id[on[u]] \in Facility /\ HoldsFacility(u)
           /\ facility[facility_id[on[u]]] \in FacilityRow
           /\ seen[u].facility = facility[facility_id[on[u]]]
           /\ seen[u].sub_limit \in Int /\ pay[u] \in Int
<1>1. on[u] \in Requested /\ HoldsFacility(u)
  BY DEF IndInv, TypeOK, HoldsFacility
<1>2. facility_id[on[u]] \in Facility
  BY <1>1, ColumnAssumption
<1>3. seen[u] \in [facility : FacilityRow, sub_limit : Int] /\ pay[u] \in Int
  BY DEF IndInv, TypeOK
<1>4. facility[facility_id[on[u]]] \in FacilityRow
  BY <1>2 DEF IndInv, TypeOK
<1>5. QED
  BY <1>1, <1>2, <1>3, <1>4 DEF IndInv, SeenIsCurrent

\* Writing an amount to a facility changes nothing else of it, and no other.
LEMMA AmountWritten ==
    ASSUME IndInv, NEW f \in Facility, NEW n \in Int,
           facility' = [facility EXCEPT ![f].current_drawn_amount = n]
    PROVE  /\ facility' \in [Facility -> FacilityRow]
           /\ \A g \in Facility : /\ facility'[g].status = facility[g].status
                                  /\ facility'[g].version = facility[g].version
                                  /\ facility'[g].committed_limit = facility[g].committed_limit
           /\ \A g \in Facility \ {f} : facility'[g] = facility[g]
           /\ facility'[f].current_drawn_amount = n
<1>1. facility \in [Facility -> FacilityRow]
  BY DEF IndInv, TypeOK
<1>2. QED
  BY <1>1 DEF FacilityRow

\* An execution writes the sums of what it read, which is current.
LEMMA ExecuteStep == ASSUME IndInv, NEW u \in Users, ExecuteDrawdown(u) PROVE IndInv'
<1> DEFINE d == on[u]
           f == facility_id[d]
           n == seen[u].facility.current_drawn_amount + amount[d]
<1>1. phase[u] = "save" /\ d \in FacilityDrawdown
  BY DEF ExecuteDrawdown
<1>2. /\ f \in Facility /\ HoldsFacility(u)
      /\ seen[u].facility \in FacilityRow /\ seen[u].sub_limit \in Int
  BY <1>1, ReadAmounts
<1>3. amount[d] \in Int
  BY <1>1, ColumnAssumption DEF Requested
<1>4. n \in Int
  BY <1>2, <1>3 DEF FacilityRow
<1>5. facility' = [facility EXCEPT ![f].current_drawn_amount = n]
  BY DEF ExecuteDrawdown
<1>6. sub_drawn' \in [FacilitySubLimit -> Int]
  BY <1>2, <1>3 DEF ExecuteDrawdown, IndInv, TypeOK
<1>7. /\ drawdown' \in [FacilityDrawdown -> {"NONE", "SUBMITTED", "APPROVED", "EXECUTED"}]
      /\ \A e \in FacilityDrawdown : drawdown'[e] # drawdown[e] => e = on[u]
  BY DEF ExecuteDrawdown, IndInv, TypeOK
<1> HIDE DEF n, f
<1>8. /\ facility' \in [Facility -> FacilityRow]
      /\ \A g \in Facility : /\ facility'[g].status = facility[g].status
                             /\ facility'[g].version = facility[g].version
                             /\ facility'[g].committed_limit = facility[g].committed_limit
      /\ \A g \in Facility : facility'[g] # facility[g] => g = f
  BY <1>2, <1>4, <1>5, AmountWritten
<1>9. \A g \in Facility : facility'[g] # facility[g] => HoldsFacility(u) /\ g = facility_id[on[u]]
  BY <1>2, <1>8 DEF f
<1>10. End(u) /\ UNCHANGED <<versions, repayment>> /\ phase[u] # "idle"
  BY DEF ExecuteDrawdown
<1>11. repayment' \in [FacilityRepayment -> RepaymentRow]
  BY <1>10 DEF IndInv, TypeOK
<1>12. QED
  BY <1>6, <1>7, <1>8, <1>9, <1>10, <1>11, EndStep

\* A payment writes what is left of the amounts it read.
LEMMA PaymentStep == ASSUME IndInv, NEW u \in Users, RecordPayment(u) PROVE IndInv'
<1> DEFINE r == on[u]
           f == facility_id[r]
           n == IF r \in Principal THEN Reduced(seen[u].facility.current_drawn_amount, pay[u])
                ELSE facility[f].current_drawn_amount
<1>1. phase[u] = "save" /\ r \in FacilityRepayment
  BY DEF RecordPayment
<1>2. /\ f \in Facility /\ HoldsFacility(u) /\ pay[u] \in Int
      /\ facility[f] \in FacilityRow /\ seen[u].facility \in FacilityRow /\ seen[u].sub_limit \in Int
  BY <1>1, ReadAmounts
<1>3. n \in Int
  BY <1>2, ReducedBound DEF FacilityRow
<1>4. facility' = [facility EXCEPT ![f].current_drawn_amount = n]
  BY DEF RecordPayment
<1>5. sub_drawn' \in [FacilitySubLimit -> Int]
  <2>1. Reduced(seen[u].sub_limit, pay[u]) \in Int
    BY <1>2, ReducedBound
  <2>2. QED
    BY <2>1 DEF RecordPayment, IndInv, TypeOK
<1>6. /\ repayment' \in [FacilityRepayment -> RepaymentRow]
      /\ \A q \in FacilityRepayment : repayment'[q] # repayment[q] => q = on[u]
  <2>1. repayment[r].paid_amount + pay[u] \in Int
    BY <1>1, <1>2 DEF IndInv, TypeOK, RepaymentRow
  <2>2. QED
    BY <2>1 DEF RecordPayment, IndInv, TypeOK, RepaymentRow
<1> HIDE DEF n, f
<1>7. /\ facility' \in [Facility -> FacilityRow]
      /\ \A g \in Facility : /\ facility'[g].status = facility[g].status
                             /\ facility'[g].version = facility[g].version
                             /\ facility'[g].committed_limit = facility[g].committed_limit
      /\ \A g \in Facility : facility'[g] # facility[g] => g = f
  BY <1>2, <1>3, <1>4, AmountWritten
<1>8. \A g \in Facility : facility'[g] # facility[g] => HoldsFacility(u) /\ g = facility_id[on[u]]
  BY <1>2, <1>7 DEF f
<1>9. End(u) /\ UNCHANGED <<versions, drawdown>> /\ phase[u] # "idle"
  BY DEF RecordPayment
<1>10. drawdown' \in [FacilityDrawdown -> {"NONE", "SUBMITTED", "APPROVED", "EXECUTED"}]
  BY <1>9 DEF IndInv, TypeOK
<1>11. QED
  BY <1>5, <1>6, <1>7, <1>8, <1>9, <1>10, EndStep

\* A refused request leaves every row alone.
LEMMA GiveUpStep == ASSUME IndInv, NEW u \in Users, GiveUp(u) PROVE IndInv'
<1>1. End(u) /\ phase[u] # "idle" /\ UNCHANGED <<facility, versions, sub_drawn, drawdown, repayment>>
  BY DEF GiveUp, rows
<1>2. /\ facility \in [Facility -> FacilityRow]
      /\ sub_drawn \in [FacilitySubLimit -> Int]
      /\ drawdown \in [FacilityDrawdown -> {"NONE", "SUBMITTED", "APPROVED", "EXECUTED"}]
      /\ repayment \in [FacilityRepayment -> RepaymentRow]
  BY DEF IndInv, TypeOK
<1>3. QED
  BY <1>1, <1>2, EndStep

\* Every step keeps the invariant.
LEMMA InvStep == IndInv /\ [Next]_vars => IndInv'
<1> SUFFICES ASSUME IndInv, [Next]_vars PROVE IndInv'
  OBVIOUS
<1>1. ASSUME NEW f \in Facility, NEW limit \in Limits, Create(f, limit) \/ Import(f, limit) \/ Update(f, limit)
      PROVE  IndInv'
  BY <1>1, CreateStep, ImportStep, UpdateStep
<1>2. ASSUME NEW f \in Facility, NEW new_status \in FacilityStatus, ChangeStatus(f, new_status) PROVE IndInv'
  BY <1>2, ChangeStatusStep
<1>3. ASSUME NEW d \in FacilityDrawdown, CreateDrawdown(d) \/ ImportDrawdown(d) \/ ApproveDrawdown(d)
      PROVE  IndInv'
  BY <1>3, DrawdownStep
<1>4. ASSUME NEW r \in FacilityRepayment, CreateRepayment(r) PROVE IndInv'
  BY <1>4, RepaymentStep
<1>5. ASSUME NEW u \in Users,
             \/ \E d \in FacilityDrawdown : RequestExecution(u, d)
             \/ \E r \in FacilityRepayment, paid \in Payments : RequestPayment(u, r, paid)
             \/ LockRow(u)
      PROVE  IndInv'
  BY <1>5, RequestTaken
<1>6. ASSUME NEW u \in Users, LockFacility(u) \/ ReadSubLimit(u) PROVE IndInv'
  BY <1>6, LockFacilityStep, ReadSubLimitStep
<1>7. ASSUME NEW u \in Users, ExecuteDrawdown(u) \/ RecordPayment(u) \/ GiveUp(u) PROVE IndInv'
  BY <1>7, ExecuteStep, PaymentStep, GiveUpStep
<1>8. CASE UNCHANGED vars
  <2>1. TypeOK'
    BY <1>8 DEF IndInv, TypeOK, vars
  <2>2. RequestsExist' /\ LocksExclude' /\ SeenIsCurrent'
    BY <1>8 DEF IndInv, RequestsExist, LocksExclude, SeenIsCurrent, HoldsFacility, SubLimitOf, vars
  <2>3. VersionsAreCounted' /\ TermsAreVersioned'
    BY <1>8 DEF IndInv, VersionsAreCounted, TermsAreVersioned, vars
  <2>4. QED
    BY <2>1, <2>2, <2>3 DEF IndInv
<1>9. QED
  BY <1>1, <1>2, <1>3, <1>4, <1>5, <1>6, <1>7, <1>8 DEF Next

-----------------------------------------------------------------------------
(* Theorems                                                                *)

\* Every reachable state is well typed; handlers never hold one facility
\* together and have read what they hold as it is: the inductive invariant.
THEOREM Invariance == Spec => []IndInv
<1>1. QED
  BY InvInit, InvStep, PTL DEF Spec

\* Terms are versioned without a gap: no update, however it crosses others,
\* loses those of a facility that was created with a version.
THEOREM TermsAreVersionedHolds == Spec => []TermsAreVersioned
<1>1. IndInv => TermsAreVersioned
  BY DEF IndInv
<1>2. QED
  BY <1>1, Invariance, PTL

-----------------------------------------------------------------------------
(* Requests are held by one handler at a time, and wait while they are     *)

\* A request nobody holds is held by nobody whatever the phase.
LEMMA FreeRequest ==
    ASSUME NEW x, Free(x)
    PROVE  \A u \in Users : HoldsRow(u) => on[u] # x
  BY DEF Free, Holds, HoldsRow

\* Handlers that stand where they stood, while no held request changes.
LEMMA WaitingStays ==
    ASSUME HeldRequestsWait,
           \A u \in Users : HoldsRow(u)' => HoldsRow(u) /\ on'[u] = on[u],
           \A u \in Users : HoldsRow(u)' => Eligible(on[u])'
    PROVE  HeldRequestsWait'
  BY DEF HeldRequestsWait, Eligible

LEMMA WaitingStep == IndInv /\ HeldRequestsWait /\ [Next]_vars => HeldRequestsWait'
<1> SUFFICES ASSUME IndInv, HeldRequestsWait, [Next]_vars PROVE HeldRequestsWait'
  OBVIOUS
<1>1. \A u \in Users : HoldsRow(u) => on[u] \in Requested /\ Eligible(on[u])
  BY DEF IndInv, TypeOK, HeldRequestsWait, HoldsRow
<1>2. ASSUME UNCHANGED <<phase, on>>,
             \A d \in FacilityDrawdown : drawdown[d] = "APPROVED" => drawdown'[d] = "APPROVED",
             \A r \in FacilityRepayment : repayment[r].status # "NONE" => repayment'[r] = repayment[r]
      PROVE  HeldRequestsWait'
  <2>1. \A x \in Requested : Eligible(x) => Eligible(x)'
    BY <1>2 DEF Eligible, Requested
  <2>2. \A u \in Users : HoldsRow(u)' => HoldsRow(u) /\ on'[u] = on[u]
    BY <1>2 DEF HoldsRow
  <2>. QED  BY <1>1, <2>1, <2>2, WaitingStays
<1>3. ASSUME NEW u \in Users, UNCHANGED <<drawdown, repayment>>,
             \A v \in Users \ {u} : phase'[v] = phase[v] /\ on'[v] = on[v],
             HoldsRow(u)' => HoldsRow(u) /\ on'[u] = on[u]
      PROVE  HeldRequestsWait'
  <2>1. \A x \in Requested : Eligible(x) => Eligible(x)'
    BY <1>3 DEF Eligible
  <2>2. \A v \in Users : HoldsRow(v)' => HoldsRow(v) /\ on'[v] = on[v]
    BY <1>3 DEF HoldsRow
  <2>. QED  BY <1>1, <2>1, <2>2, WaitingStays
<1>4. ASSUME NEW f \in Facility, NEW limit \in Limits, Create(f, limit) \/ Import(f, limit) \/ Update(f, limit)
      PROVE  HeldRequestsWait'
  BY <1>2, <1>4 DEF Create, Import, Update, handlers
<1>5. ASSUME NEW f \in Facility, NEW new_status \in FacilityStatus, ChangeStatus(f, new_status)
      PROVE  HeldRequestsWait'
  BY <1>2, <1>5 DEF ChangeStatus, handlers
<1>6. ASSUME NEW d \in FacilityDrawdown, CreateDrawdown(d) \/ ImportDrawdown(d) \/ ApproveDrawdown(d)
      PROVE  HeldRequestsWait'
  BY <1>2, <1>6 DEF CreateDrawdown, ImportDrawdown, ApproveDrawdown, handlers, IndInv, TypeOK
<1>7. ASSUME NEW r \in FacilityRepayment, CreateRepayment(r)
      PROVE  HeldRequestsWait'
  BY <1>2, <1>7 DEF CreateRepayment, handlers, IndInv, TypeOK
<1>8. ASSUME NEW u \in Users,
             \/ \E d \in FacilityDrawdown : RequestExecution(u, d)
             \/ \E r \in FacilityRepayment, paid \in Payments : RequestPayment(u, r, paid)
             \/ LockFacility(u) \/ ReadSubLimit(u) \/ GiveUp(u)
      PROVE  HeldRequestsWait'
  BY <1>3, <1>8 DEF RequestExecution, RequestPayment, LockFacility, ReadSubLimit, GiveUp, End, rows,
                    HoldsRow, IndInv, TypeOK
<1>9. ASSUME NEW u \in Users, LockRow(u)
      PROVE  HeldRequestsWait'
  <2>1. \A v \in Users : HoldsRow(v) => on[v] # on[u]
    BY <1>9, FreeRequest DEF LockRow
  <2>2. /\ \A v \in Users \ {u} : HoldsRow(v)' <=> HoldsRow(v)
        /\ UNCHANGED <<on, drawdown, repayment>>
    BY <1>9 DEF LockRow, HoldsRow, IndInv, TypeOK, rows
  <2>3. \A x : Eligible(x) => Eligible(x)'
    BY <2>2 DEF Eligible
  <2>4. Eligible(on[u])
    BY <1>9 DEF LockRow
  <2>. QED  BY <2>1, <2>2, <2>3, <2>4 DEF HeldRequestsWait, Eligible
<1>10. ASSUME NEW u \in Users, ExecuteDrawdown(u) \/ RecordPayment(u)
       PROVE  HeldRequestsWait'
  <2>1. HoldsRow(u) /\ on[u] \in Requested
    BY <1>1, <1>10 DEF ExecuteDrawdown, RecordPayment, HoldsRow
  <2>2. \A v \in Users : HoldsRow(v)' => v # u /\ HoldsRow(v) /\ on'[v] = on[v]
    BY <1>10 DEF ExecuteDrawdown, RecordPayment, End, HoldsRow, IndInv, TypeOK
  <2>3. \A x \in Requested : x # on[u] /\ Eligible(x) => Eligible(x)'
    BY <1>10 DEF ExecuteDrawdown, RecordPayment, Eligible, IndInv, TypeOK, Requested
  <2>4. \A v \in Users : HoldsRow(v)' => Eligible(on[v])'
    BY <1>1, <2>1, <2>2, <2>3 DEF HeldRequestsWait
  <2>. QED  BY <2>2, <2>4, WaitingStays
<1>11. CASE UNCHANGED vars
  BY <1>2, <1>11 DEF vars
<1>. QED
  BY <1>4, <1>5, <1>6, <1>7, <1>8, <1>9, <1>10, <1>11 DEF Next

-----------------------------------------------------------------------------
(* What is executed and what is paid                                       *)

LEMMA SumsAreIntegers ==
    ASSUME TypeOK, NEW D \in SUBSET FacilityDrawdown, NEW R \in SUBSET FacilityRepayment
    PROVE  Executed(D) \in Int /\ Paid(R) \in Int
<1>1. Executed(D) \in Int
  <2>1. IsFiniteSet({d \in D : drawdown[d] = "EXECUTED"})
    BY FiniteAssumption, FS_Subset
  <2>2. \A d \in {d \in D : drawdown[d] = "EXECUTED"} : amount[d] \in Int
    BY ColumnAssumption DEF Requested
  <2>. QED  BY <2>1, <2>2, SumOfIntegers DEF Executed, Sum
<1>2. Paid(R) \in Int
  <2> DEFINE paid == [r \in R |-> repayment[r].paid_amount]
  <2>1. IsFiniteSet(R)
    BY FiniteAssumption, FS_Subset
  <2>2. \A r \in R : paid[r] \in Int
    BY DEF TypeOK, RepaymentRow
  <2> HIDE DEF paid
  <2>3. SumFunctionOnSet(paid, R) \in Int
    BY <2>1, <2>2, SumOfIntegers
  <2>. QED  BY <2>3 DEF Paid, Sum, paid
<1>. QED  BY <1>1, <1>2

\* As long as the same drawdowns are executed, and the same amounts paid, the
\* sums stay.
LEMMA ExecutedStays ==
    ASSUME NEW D \in SUBSET FacilityDrawdown,
           \A d \in D : drawdown'[d] = "EXECUTED" <=> drawdown[d] = "EXECUTED"
    PROVE  Executed(D)' = Executed(D)
<1>1. {d \in D : drawdown'[d] = "EXECUTED"} = {d \in D : drawdown[d] = "EXECUTED"}
  OBVIOUS
<1>. QED  BY <1>1 DEF Executed

LEMMA PaidStays ==
    ASSUME NEW R \in SUBSET FacilityRepayment,
           \A r \in R : repayment'[r].paid_amount = repayment[r].paid_amount
    PROVE  Paid(R)' = Paid(R)
<1>1. [r \in R |-> repayment'[r].paid_amount] = [r \in R |-> repayment[r].paid_amount]
  OBVIOUS
<1>. QED  BY <1>1 DEF Paid

\* A drawdown executed for the first time adds its amount.
LEMMA ExecutedGrows ==
    ASSUME NEW D \in SUBSET FacilityDrawdown, NEW d \in FacilityDrawdown,
           drawdown[d] # "EXECUTED", drawdown'[d] = "EXECUTED",
           \A e \in FacilityDrawdown \ {d} : drawdown'[e] = drawdown[e]
    PROVE  Executed(D)' = IF d \in D THEN Executed(D) + amount[d] ELSE Executed(D)
<1>1. CASE d \notin D
  BY <1>1, ExecutedStays
<1>2. CASE d \in D
  <2> DEFINE before == {e \in D : drawdown[e] = "EXECUTED"}
  <2>1. {e \in D : drawdown'[e] = "EXECUTED"} = before \union {d} /\ d \notin before
    BY <1>2
  <2>2. IsFiniteSet(before)
    BY FiniteAssumption, FS_Subset
  <2>3. \A e \in before \union {d} : amount[e] \in Int
    BY ColumnAssumption DEF Requested
  <2> HIDE DEF before
  <2>4. /\ SumFunctionOnSet(amount, before \union {d}) = amount[d] + SumFunctionOnSet(amount, before)
        /\ SumFunctionOnSet(amount, before) \in Int
    BY <2>1, <2>2, <2>3, SumWith, SumOfIntegers
  <2>5. Executed(D) = SumFunctionOnSet(amount, before)
    BY DEF Executed, Sum, before
  <2>6. Executed(D)' = SumFunctionOnSet(amount, before \union {d})
    BY <2>1 DEF Executed, Sum
  <2>. QED  BY <1>2, <2>3, <2>4, <2>5, <2>6
<1>. QED  BY <1>1, <1>2

\* A payment adds what is paid.
LEMMA PaidGrows ==
    ASSUME TypeOK, NEW R \in SUBSET FacilityRepayment, NEW r \in FacilityRepayment, NEW n \in Int,
           repayment'[r].paid_amount = repayment[r].paid_amount + n,
           \A q \in FacilityRepayment \ {r} : repayment'[q] = repayment[q]
    PROVE  Paid(R)' = IF r \in R THEN Paid(R) + n ELSE Paid(R)
<1>1. CASE r \notin R
  BY <1>1, PaidStays
<1>2. CASE r \in R
  <2> DEFINE before == [q \in R |-> repayment[q].paid_amount]
             after == [q \in R |-> repayment'[q].paid_amount]
  <2>1. IsFiniteSet(R)
    BY FiniteAssumption, FS_Subset
  <2>2. /\ \A q \in R : before[q] \in Int /\ after[q] \in Int
        /\ \A q \in R \ {r} : after[q] = before[q]
        /\ after[r] = before[r] + n
    <3>1. \A q \in FacilityRepayment : repayment[q].paid_amount \in Int
      BY DEF TypeOK, RepaymentRow
    <3>2. repayment[r].paid_amount + n \in Int
      BY <3>1
    <3>. QED  BY <1>2, <3>1, <3>2
  <2>3. Paid(R) = SumFunctionOnSet(before, R) /\ Paid(R)' = SumFunctionOnSet(after, R)
    BY DEF Paid, Sum
  <2> HIDE DEF before, after
  <2>4. SumFunctionOnSet(after, R) = (SumFunctionOnSet(before, R) - before[r]) + after[r]
    <3>1. \A q \in R : before[q] \in Int /\ after[q] \in Int
      BY <2>2
    <3>2. \A q \in R \ {r} : after[q] = before[q]
      BY <2>2
    <3>. QED  BY <1>2, <2>1, <3>1, <3>2, SumOfOneChanged
  <2>5. SumFunctionOnSet(before, R) \in Int
    BY <2>1, <2>2, SumOfIntegers
  <2>. QED  BY <1>2, <2>2, <2>3, <2>4, <2>5
<1>. QED  BY <1>1, <1>2

-----------------------------------------------------------------------------
(* What an execution and a payment move                                    *)

\* An execution adds the amount of a drawdown not yet executed to what its
\* facility has drawn, all of it read under the locks.
LEMMA ExecutionMoves ==
    ASSUME IndInv, HeldRequestsWait, NEW u \in Users, ExecuteDrawdown(u)
    PROVE  /\ on[u] \in FacilityDrawdown /\ amount[on[u]] \in Int /\ facility_id[on[u]] \in Facility
           /\ drawdown[on[u]] # "EXECUTED" /\ drawdown'[on[u]] = "EXECUTED"
           /\ \A e \in FacilityDrawdown \ {on[u]} : drawdown'[e] = drawdown[e]
           /\ UNCHANGED repayment
           /\ validate_drawdown(on[u], facility[facility_id[on[u]]], seen[u].sub_limit)
           /\ \A g \in Facility :
                 /\ facility'[g].status = facility[g].status
                 /\ facility'[g].committed_limit = facility[g].committed_limit
                 /\ facility'[g].current_drawn_amount =
                        IF g = facility_id[on[u]] THEN facility[g].current_drawn_amount + amount[on[u]]
                        ELSE facility[g].current_drawn_amount
<1> DEFINE d == on[u]
           f == facility_id[d]
           n == facility[f].current_drawn_amount + amount[d]
<1>1. phase[u] = "save" /\ d \in FacilityDrawdown
  BY DEF ExecuteDrawdown
<1>2. /\ f \in Facility /\ facility[f] \in FacilityRow /\ seen[u].facility = facility[f]
      /\ amount[d] \in Int
  BY <1>1, ReadAmounts, ColumnAssumption DEF Requested
<1>3. n \in Int
  BY <1>2 DEF FacilityRow
<1>4. validate_drawdown(d, facility[f], seen[u].sub_limit)
  BY <1>2 DEF ExecuteDrawdown
<1>5. facility' = [facility EXCEPT ![f].current_drawn_amount = n]
  BY <1>2 DEF ExecuteDrawdown
<1>6. /\ drawdown[d] # "EXECUTED" /\ drawdown'[d] = "EXECUTED"
      /\ \A e \in FacilityDrawdown \ {d} : drawdown'[e] = drawdown[e]
      /\ UNCHANGED repayment
  BY <1>1 DEF HeldRequestsWait, HoldsRow, Eligible, ExecuteDrawdown, IndInv, TypeOK
<1>7. ASSUME NEW g \in Facility
      PROVE  /\ facility'[g].status = facility[g].status
             /\ facility'[g].committed_limit = facility[g].committed_limit
             /\ facility'[g].current_drawn_amount = IF g = f THEN n ELSE facility[g].current_drawn_amount
  <2> HIDE DEF n, f
  <2>1. /\ facility'[g].status = facility[g].status
        /\ facility'[g].committed_limit = facility[g].committed_limit
        /\ g # f => facility'[g] = facility[g]
        /\ facility'[f].current_drawn_amount = n
    BY <1>2, <1>3, <1>5, AmountWritten
  <2>. QED  BY <2>1
<1>. QED  BY <1>1, <1>2, <1>4, <1>6, <1>7

\* A principal payment takes from it what is paid, and not below zero.
LEMMA PaymentMoves ==
    ASSUME IndInv, NEW u \in Users, RecordPayment(u)
    PROVE  /\ on[u] \in FacilityRepayment /\ pay[u] \in Int
           /\ repayment[on[u]].paid_amount \in Int
           /\ repayment'[on[u]].paid_amount = repayment[on[u]].paid_amount + pay[u]
           /\ \A q \in FacilityRepayment \ {on[u]} : repayment'[q] = repayment[q]
           /\ UNCHANGED drawdown
           /\ \A g \in Facility :
                 facility'[g].current_drawn_amount =
                     IF on[u] \in PrincipalOf(g) THEN Reduced(facility[g].current_drawn_amount, pay[u])
                     ELSE facility[g].current_drawn_amount
<1> DEFINE r == on[u]
           f == facility_id[r]
           n == IF r \in Principal THEN Reduced(facility[f].current_drawn_amount, pay[u])
                ELSE facility[f].current_drawn_amount
<1>1. phase[u] = "save" /\ r \in FacilityRepayment
  BY DEF RecordPayment
<1>2. f \in Facility /\ facility[f] \in FacilityRow /\ seen[u].facility = facility[f] /\ pay[u] \in Int
  BY <1>1, ReadAmounts
<1>3. n \in Int
  BY <1>2, ReducedBound DEF FacilityRow
<1>4. facility' = [facility EXCEPT ![f].current_drawn_amount = n]
  BY <1>2 DEF RecordPayment
<1>5. /\ repayment[r].paid_amount \in Int
      /\ repayment'[r].paid_amount = repayment[r].paid_amount + pay[u]
      /\ \A q \in FacilityRepayment \ {r} : repayment'[q] = repayment[q]
      /\ UNCHANGED drawdown
  BY <1>1 DEF RecordPayment, IndInv, TypeOK, RepaymentRow
<1>6. ASSUME NEW g \in Facility
      PROVE  facility'[g].current_drawn_amount = IF g = f THEN n ELSE facility[g].current_drawn_amount
  <2> HIDE DEF n, f
  <2>1. /\ g # f => facility'[g] = facility[g]
        /\ facility'[f].current_drawn_amount = n
    BY <1>2, <1>3, <1>4, AmountWritten
  <2>. QED  BY <2>1
<1>. QED  BY <1>1, <1>2, <1>5, <1>6 DEF PrincipalOf

\* No amount moves.
Unmoved ==
    /\ \A d \in FacilityDrawdown : drawdown'[d] = "EXECUTED" <=> drawdown[d] = "EXECUTED"
    /\ \A r \in FacilityRepayment : repayment'[r].paid_amount = repayment[r].paid_amount

\* Every other step moves no amount.
LEMMA OthersMoveNothing ==
    ASSUME IndInv, [Next]_vars,
           ~\E u \in Users : ExecuteDrawdown(u) \/ RecordPayment(u)
    PROVE  /\ Unmoved
           /\ \A f \in Facility : facility'[f].current_drawn_amount = facility[f].current_drawn_amount
           /\ UNCHANGED sub_drawn
<1> DEFINE Goal == /\ Unmoved
                   /\ \A f \in Facility : facility'[f].current_drawn_amount = facility[f].current_drawn_amount
                   /\ UNCHANGED sub_drawn
<1>1. ASSUME UNCHANGED <<facility, sub_drawn, drawdown, repayment>>
      PROVE  Goal
  BY <1>1 DEF Unmoved
<1>2. ASSUME NEW f \in Facility, NEW row, facility' = [facility EXCEPT ![f] = row],
             row.current_drawn_amount = facility[f].current_drawn_amount,
             UNCHANGED <<sub_drawn, drawdown, repayment>>
      PROVE  Goal
  <2>1. \A g \in Facility : facility'[g] = IF g = f THEN row ELSE facility[g]
    BY <1>2 DEF IndInv, TypeOK
  <2>. QED  BY <1>2, <2>1 DEF Unmoved
<1>3. ASSUME NEW f \in Facility, NEW limit \in Limits, Create(f, limit) \/ Import(f, limit)
      PROVE  Goal
  <2>1. facility[f] = NoRow
    BY <1>3 DEF Create, Import, IndInv, VersionsAreCounted
  <2>2. New(limit).current_drawn_amount = facility[f].current_drawn_amount
    BY <2>1 DEF New, NoRow
  <2>3. /\ facility' = [facility EXCEPT ![f] = New(limit)]
        /\ UNCHANGED <<sub_drawn, drawdown, repayment>>
    BY <1>3 DEF Create, Import
  <2> HIDE DEF Goal
  <2>. QED  BY <1>2, <2>2, <2>3
<1>4. ASSUME NEW f \in Facility, NEW limit \in Limits, Update(f, limit)
      PROVE  Goal
  <2> DEFINE row == [facility[f] EXCEPT !.committed_limit = limit, !.version = @ + 1]
  <2>1. /\ facility' = [facility EXCEPT ![f] = row]
        /\ UNCHANGED <<sub_drawn, drawdown, repayment>>
    BY <1>4 DEF Update
  <2>2. row.current_drawn_amount = facility[f].current_drawn_amount
    BY DEF IndInv, TypeOK, FacilityRow
  <2> HIDE DEF Goal, row
  <2>. QED  BY <1>2, <2>1, <2>2
<1>5. ASSUME NEW f \in Facility, NEW new_status \in FacilityStatus, ChangeStatus(f, new_status)
      PROVE  Goal
  <2> DEFINE row == [facility[f] EXCEPT !.status = new_status]
  <2>1. /\ facility' = [facility EXCEPT ![f] = row]
        /\ UNCHANGED <<sub_drawn, drawdown, repayment>>
    BY <1>5 DEF ChangeStatus
  <2>2. row.current_drawn_amount = facility[f].current_drawn_amount
    BY DEF IndInv, TypeOK, FacilityRow
  <2> HIDE DEF Goal, row
  <2>. QED  BY <1>2, <2>1, <2>2
<1>6. ASSUME NEW d \in FacilityDrawdown, CreateDrawdown(d) \/ ImportDrawdown(d) \/ ApproveDrawdown(d)
      PROVE  Goal
  BY <1>6 DEF CreateDrawdown, ImportDrawdown, ApproveDrawdown, Unmoved, IndInv, TypeOK
<1>7. ASSUME NEW r \in FacilityRepayment, CreateRepayment(r)
      PROVE  Goal
  <2>1. repayment \in [FacilityRepayment -> RepaymentRow]
    BY DEF IndInv, TypeOK
  <2>. QED  BY <1>7, <2>1 DEF CreateRepayment, Unmoved, RepaymentRow
<1>8. ASSUME NEW u \in Users,
             \/ \E d \in FacilityDrawdown : RequestExecution(u, d)
             \/ \E r \in FacilityRepayment, paid \in Payments : RequestPayment(u, r, paid)
             \/ LockRow(u) \/ LockFacility(u) \/ ReadSubLimit(u) \/ GiveUp(u)
      PROVE  Goal
  <2> HIDE DEF Goal
  <2>. QED  BY <1>1, <1>8 DEF RequestExecution, RequestPayment, LockRow, LockFacility, ReadSubLimit, GiveUp, rows
<1>9. ASSUME UNCHANGED vars
      PROVE  Goal
  <2> HIDE DEF Goal
  <2>. QED  BY <1>1, <1>9 DEF vars
<1> HIDE DEF Goal
<1>10. Goal
  BY <1>3, <1>4, <1>5, <1>6, <1>7, <1>8, <1>9 DEF Next
<1>. QED  BY <1>10 DEF Goal

-----------------------------------------------------------------------------
(* The debt of a facility is covered                                       *)

Owed(f) == Executed(DrawdownsOf(f))
PaidBack(f) == Paid(PrincipalOf(f))
Covered(drawn, owed, paid) == owed <= drawn + paid

\* max(0, drawn - paid) covers a payment: what is cut off was never owed.
LEMMA AmountsAdded ==
    ASSUME NEW drawn \in Int, NEW owed \in Int, NEW paid \in Int, NEW n \in Int,
           Covered(drawn, owed, paid)
    PROVE  /\ Covered(drawn + n, owed + n, paid)
           /\ Covered(Reduced(drawn, n), owed, paid + n)
  BY DEF Covered, Reduced

LEMMA DebtTerms ==
    ASSUME IndInv, NEW f \in Facility
    PROVE  Owed(f) \in Int /\ PaidBack(f) \in Int /\ facility[f].current_drawn_amount \in Int
<1>1. DrawdownsOf(f) \in SUBSET FacilityDrawdown /\ PrincipalOf(f) \in SUBSET FacilityRepayment
  BY ColumnAssumption DEF DrawdownsOf, PrincipalOf
<1>2. Owed(f) \in Int /\ PaidBack(f) \in Int
  BY <1>1, SumsAreIntegers DEF Owed, PaidBack, IndInv
<1>. QED  BY <1>2 DEF IndInv, TypeOK, FacilityRow

LEMMA DebtByFacility ==
    DebtIsCovered <=> \A f \in Facility : Covered(facility[f].current_drawn_amount, Owed(f), PaidBack(f))
  BY DEF DebtIsCovered, Covered, Owed, PaidBack

LEMMA DebtStays ==
    ASSUME DebtIsCovered, Unmoved,
           \A f \in Facility : facility'[f].current_drawn_amount = facility[f].current_drawn_amount
    PROVE  DebtIsCovered'
<1> SUFFICES ASSUME NEW f \in Facility
             PROVE  Covered(facility'[f].current_drawn_amount, Owed(f)', PaidBack(f)')
  BY DEF DebtIsCovered, Covered, Owed, PaidBack
<1>1. Owed(f)' = Owed(f)
  BY ExecutedStays DEF Owed, Unmoved, DrawdownsOf
<1>2. PaidBack(f)' = PaidBack(f)
  <2>1. PrincipalOf(f) \in SUBSET FacilityRepayment
    BY ColumnAssumption DEF PrincipalOf
  <2>. QED  BY <2>1, PaidStays DEF PaidBack, Unmoved
<1>. QED  BY <1>1, <1>2, DebtByFacility

\* An execution adds the same to the debt and to what is owed.
LEMMA DebtExecuted ==
    ASSUME IndInv, HeldRequestsWait, DebtIsCovered, NEW u \in Users, ExecuteDrawdown(u)
    PROVE  DebtIsCovered'
<1> DEFINE d == on[u]
           f == facility_id[d]
<1> SUFFICES ASSUME NEW g \in Facility
             PROVE  Covered(facility'[g].current_drawn_amount, Owed(g)', PaidBack(g)')
  BY DEF DebtIsCovered, Covered, Owed, PaidBack
<1>1. /\ d \in FacilityDrawdown /\ amount[d] \in Int
      /\ drawdown[d] # "EXECUTED" /\ drawdown'[d] = "EXECUTED"
      /\ \A e \in FacilityDrawdown \ {d} : drawdown'[e] = drawdown[e]
      /\ UNCHANGED repayment
      /\ facility'[g].current_drawn_amount =
             IF g = f THEN facility[g].current_drawn_amount + amount[d] ELSE facility[g].current_drawn_amount
  BY ExecutionMoves
<1>2. Owed(g)' = IF g = f THEN Owed(g) + amount[d] ELSE Owed(g)
  <2>1. DrawdownsOf(g) \in SUBSET FacilityDrawdown /\ (d \in DrawdownsOf(g) <=> g = f)
    BY <1>1 DEF DrawdownsOf
  <2>2. Executed(DrawdownsOf(g))' =
            IF d \in DrawdownsOf(g) THEN Executed(DrawdownsOf(g)) + amount[d] ELSE Executed(DrawdownsOf(g))
    BY <1>1, <2>1, ExecutedGrows
  <2>. QED  BY <2>1, <2>2 DEF Owed
<1>3. PaidBack(g)' = PaidBack(g)
  BY <1>1 DEF PaidBack, Paid
<1>4. Covered(facility[g].current_drawn_amount, Owed(g), PaidBack(g))
  BY DebtByFacility
<1>5. Covered(facility[g].current_drawn_amount + amount[d], Owed(g) + amount[d], PaidBack(g))
  BY <1>1, <1>4, DebtTerms, AmountsAdded
<1>. QED  BY <1>1, <1>2, <1>3, <1>4, <1>5

\* A payment takes from the debt no more than it adds to what is paid back.
LEMMA DebtPaid ==
    ASSUME IndInv, DebtIsCovered, NEW u \in Users, RecordPayment(u)
    PROVE  DebtIsCovered'
<1> DEFINE r == on[u]
<1> SUFFICES ASSUME NEW g \in Facility
             PROVE  Covered(facility'[g].current_drawn_amount, Owed(g)', PaidBack(g)')
  BY DEF DebtIsCovered, Covered, Owed, PaidBack
<1>1. /\ r \in FacilityRepayment /\ pay[u] \in Int
      /\ repayment'[r].paid_amount = repayment[r].paid_amount + pay[u]
      /\ \A q \in FacilityRepayment \ {r} : repayment'[q] = repayment[q]
      /\ UNCHANGED drawdown
      /\ facility'[g].current_drawn_amount =
             IF r \in PrincipalOf(g) THEN Reduced(facility[g].current_drawn_amount, pay[u])
             ELSE facility[g].current_drawn_amount
  BY PaymentMoves
<1>2. Owed(g)' = Owed(g)
  BY <1>1 DEF Owed, Executed
<1>3. PaidBack(g)' = IF r \in PrincipalOf(g) THEN PaidBack(g) + pay[u] ELSE PaidBack(g)
  <2>1. PrincipalOf(g) \in SUBSET FacilityRepayment
    BY ColumnAssumption DEF PrincipalOf
  <2>. QED  BY <1>1, <2>1, PaidGrows DEF PaidBack, IndInv
<1>4. Covered(facility[g].current_drawn_amount, Owed(g), PaidBack(g))
  BY DebtByFacility
<1>5. Covered(Reduced(facility[g].current_drawn_amount, pay[u]), Owed(g), PaidBack(g) + pay[u])
  BY <1>1, <1>4, DebtTerms, AmountsAdded
<1>. QED  BY <1>1, <1>2, <1>3, <1>4, <1>5

LEMMA DebtStep == IndInv /\ HeldRequestsWait /\ DebtIsCovered /\ [Next]_vars => DebtIsCovered'
<1> SUFFICES ASSUME IndInv, HeldRequestsWait, DebtIsCovered, [Next]_vars
             PROVE  DebtIsCovered'
  OBVIOUS
<1>1. ASSUME NEW u \in Users, ExecuteDrawdown(u) \/ RecordPayment(u)
      PROVE  DebtIsCovered'
  BY <1>1, DebtExecuted, DebtPaid
<1>2. CASE ~\E u \in Users : ExecuteDrawdown(u) \/ RecordPayment(u)
  BY <1>2, OthersMoveNothing, DebtStays
<1>. QED  BY <1>1, <1>2

-----------------------------------------------------------------------------
(* What is drawn through a sub-limit is covered                            *)

\* Where payments stay at their facility, a request that touches a sub-limit
\* holds the facility of the sub-limit.
LEMMA SubLimitAtHome ==
    ASSUME RepaymentsStayAtTheirFacility, NEW x \in Requested, SubLimitOf(x) # None
    PROVE  SubLimitOf(x) \in FacilitySubLimit /\ facility_id[SubLimitOf(x)] = facility_id[x]
<1>1. CASE x \in FacilityDrawdown
  BY <1>1, ColumnAssumption DEF SubLimitOf
<1>2. CASE x \notin FacilityDrawdown
  BY <1>2, ColumnAssumption DEF SubLimitOf, Requested, RepaymentsStayAtTheirFacility
<1>. QED  BY <1>1, <1>2

\* So no other handler is about to write it.
LEMMA SubLimitHeldOnce ==
    ASSUME IndInv, RepaymentsStayAtTheirFacility, NEW u \in Users, NEW v \in Users, u # v,
           phase[u] = "save", phase[v] = "save", SubLimitOf(on[u]) # None
    PROVE  SubLimitOf(on[v]) # SubLimitOf(on[u])
<1>1. on[u] \in Requested /\ on[v] \in Requested
  BY DEF IndInv, TypeOK
<1>2. facility_id[on[u]] # facility_id[on[v]]
  BY DEF IndInv, LocksExclude, HoldsFacility
<1>. QED  BY <1>1, <1>2, SubLimitAtHome

LEMMA SeenSubLimitStep ==
    RepaymentsStayAtTheirFacility /\ IndInv /\ SeenSubLimitIsCurrent /\ [Next]_vars =>
        SeenSubLimitIsCurrent'
<1> SUFFICES ASSUME RepaymentsStayAtTheirFacility, IndInv, SeenSubLimitIsCurrent, [Next]_vars
             PROVE  SeenSubLimitIsCurrent'
  OBVIOUS
<1>1. \A u \in Users : phase[u] = "save" => on[u] \in Requested
  BY DEF IndInv, TypeOK
<1>2. ASSUME UNCHANGED <<phase, on, seen, sub_drawn>>
      PROVE  SeenSubLimitIsCurrent'
  BY <1>2 DEF SeenSubLimitIsCurrent, SubLimitOf
<1>3. ASSUME NEW u \in Users, UNCHANGED sub_drawn, phase'[u] # "save",
             \A v \in Users \ {u} : phase'[v] = phase[v] /\ on'[v] = on[v] /\ seen'[v] = seen[v]
      PROVE  SeenSubLimitIsCurrent'
  BY <1>3 DEF SeenSubLimitIsCurrent, SubLimitOf
<1>4. ASSUME \/ \E f \in Facility :
                   \/ \E limit \in Limits : Create(f, limit) \/ Import(f, limit) \/ Update(f, limit)
                   \/ \E new_status \in FacilityStatus : ChangeStatus(f, new_status)
             \/ \E d \in FacilityDrawdown : CreateDrawdown(d) \/ ImportDrawdown(d) \/ ApproveDrawdown(d)
             \/ \E r \in FacilityRepayment : CreateRepayment(r)
             \/ UNCHANGED vars
      PROVE  SeenSubLimitIsCurrent'
  BY <1>2, <1>4 DEF Create, Import, Update, ChangeStatus, CreateDrawdown, ImportDrawdown, ApproveDrawdown,
                    CreateRepayment, handlers, vars
<1>5. ASSUME NEW u \in Users,
             \/ \E d \in FacilityDrawdown : RequestExecution(u, d)
             \/ \E r \in FacilityRepayment, paid \in Payments : RequestPayment(u, r, paid)
             \/ LockRow(u) \/ GiveUp(u)
      PROVE  SeenSubLimitIsCurrent'
  BY <1>3, <1>5 DEF RequestExecution, RequestPayment, LockRow, GiveUp, End, rows, IndInv, TypeOK
<1>6. ASSUME NEW u \in Users, LockFacility(u)
      PROVE  SeenSubLimitIsCurrent'
  <2>1. /\ phase'[u] = "save" => SubLimitOf(on[u]) = None
        /\ \A v \in Users \ {u} : phase'[v] = phase[v] /\ seen'[v] = seen[v]
        /\ UNCHANGED <<on, sub_drawn>>
    BY <1>6 DEF LockFacility, rows, IndInv, TypeOK
  <2>. QED  BY <2>1 DEF SeenSubLimitIsCurrent, SubLimitOf
<1>7. ASSUME NEW u \in Users, ReadSubLimit(u)
      PROVE  SeenSubLimitIsCurrent'
  <2>1. /\ seen'[u].sub_limit = sub_drawn[SubLimitOf(on[u])]
        /\ \A v \in Users \ {u} : phase'[v] = phase[v] /\ seen'[v] = seen[v]
        /\ UNCHANGED <<on, sub_drawn>>
    BY <1>7 DEF ReadSubLimit, rows, IndInv, TypeOK
  <2>. QED  BY <2>1 DEF SeenSubLimitIsCurrent, SubLimitOf
<1>8. ASSUME NEW u \in Users, ExecuteDrawdown(u) \/ RecordPayment(u)
      PROVE  SeenSubLimitIsCurrent'
  <2>1. phase[u] = "save" /\ End(u)
    BY <1>8 DEF ExecuteDrawdown, RecordPayment
  <2>2. \A s \in FacilitySubLimit : sub_drawn'[s] = sub_drawn[s] \/ s = SubLimitOf(on[u])
    BY <1>8 DEF ExecuteDrawdown, RecordPayment, SubLimitOf
  <2> SUFFICES ASSUME NEW v \in Users, phase'[v] = "save", SubLimitOf(on'[v]) # None
               PROVE  seen'[v].sub_limit = sub_drawn'[SubLimitOf(on'[v])]
    BY DEF SeenSubLimitIsCurrent, SubLimitOf
  <2>3. v # u /\ phase[v] = "save" /\ on'[v] = on[v] /\ seen'[v] = seen[v]
    BY <2>1 DEF End, IndInv, TypeOK
  <2>4. SubLimitOf(on[v]) \in FacilitySubLimit
    BY <1>1, <2>3, SubLimitAtHome
  <2>5. SubLimitOf(on[v]) # SubLimitOf(on[u])
    BY <2>1, <2>3, SubLimitHeldOnce
  <2>. QED  BY <2>2, <2>3, <2>4, <2>5 DEF SeenSubLimitIsCurrent
<1>. QED  BY <1>4, <1>5, <1>6, <1>7, <1>8 DEF Next

\* An execution adds its amount to its sub-limit, which it has found to fit.
LEMMA ExecutionMovesSubLimit ==
    ASSUME IndInv, HeldRequestsWait, SeenSubLimitIsCurrent,
           NEW u \in Users, ExecuteDrawdown(u), NEW s \in FacilitySubLimit
    PROVE  IF s = sub_limit_id[on[u]]
           THEN sub_drawn'[s] = sub_drawn[s] + amount[on[u]] /\ amount[on[u]] <= amount[s] - sub_drawn[s]
           ELSE sub_drawn'[s] = sub_drawn[s]
<1> DEFINE d == on[u]
<1>1. phase[u] = "save" /\ d \in FacilityDrawdown /\ SubLimitOf(d) = sub_limit_id[d]
  BY DEF ExecuteDrawdown, SubLimitOf
<1>2. CASE s = sub_limit_id[d]
  <2>1. s # None
    BY RowAssumption
  <2>2. seen[u].sub_limit = sub_drawn[s]
    BY <1>1, <1>2, <2>1 DEF SeenSubLimitIsCurrent
  <2>3. sub_drawn'[s] = sub_drawn[s] + amount[d]
    BY <1>2, <2>2 DEF ExecuteDrawdown
  <2>4. amount[d] <= amount[s] - sub_drawn[s]
    BY <1>2, <2>1, <2>2, ExecutionMoves DEF validate_drawdown
  <2>. QED  BY <1>2, <2>3, <2>4
<1>3. CASE s # sub_limit_id[d]
  BY <1>3 DEF ExecuteDrawdown
<1>. QED  BY <1>2, <1>3

\* A payment takes from its sub-limit what is paid, and not below zero.
LEMMA PaymentMovesSubLimit ==
    ASSUME IndInv, SeenSubLimitIsCurrent, NEW u \in Users, RecordPayment(u), NEW s \in FacilitySubLimit
    PROVE  sub_drawn'[s] = IF s = SubLimitOf(on[u]) THEN Reduced(sub_drawn[s], pay[u]) ELSE sub_drawn[s]
<1>1. CASE s = SubLimitOf(on[u])
  <2>1. s # None /\ phase[u] = "save"
    BY RowAssumption DEF RecordPayment
  <2>2. seen[u].sub_limit = sub_drawn[s]
    BY <1>1, <2>1 DEF SeenSubLimitIsCurrent
  <2>3. sub_drawn'[s] = IF Reduced(sub_drawn[s], pay[u]) # sub_drawn[s] THEN Reduced(sub_drawn[s], pay[u])
                        ELSE sub_drawn[s]
    BY <1>1, <2>1, <2>2 DEF RecordPayment
  <2>. QED  BY <1>1, <2>3
<1>2. CASE s # SubLimitOf(on[u])
  BY <1>2 DEF RecordPayment
<1>. QED  BY <1>1, <1>2

Through(s) == Executed(DrawdownsThrough(s))
PaidThrough(s) == Paid(PrincipalThrough(s))

LEMMA SubLimitTerms ==
    ASSUME IndInv, NEW s \in FacilitySubLimit
    PROVE  Through(s) \in Int /\ PaidThrough(s) \in Int /\ sub_drawn[s] \in Int /\ amount[s] \in Int
<1>1. DrawdownsThrough(s) \in SUBSET FacilityDrawdown /\ PrincipalThrough(s) \in SUBSET FacilityRepayment
  BY DEF DrawdownsThrough, PrincipalThrough
<1>2. Through(s) \in Int /\ PaidThrough(s) \in Int
  BY <1>1, SumsAreIntegers DEF Through, PaidThrough, IndInv
<1>. QED  BY <1>2, ColumnAssumption DEF IndInv, TypeOK

LEMMA SubLimitByAmounts ==
    SubLimitsAreCovered <=> \A s \in FacilitySubLimit : Covered(sub_drawn[s], Through(s), PaidThrough(s))
  BY DEF SubLimitsAreCovered, Covered, Through, PaidThrough

LEMMA SubLimitsStay ==
    ASSUME SubLimitsAreCovered, Unmoved, UNCHANGED sub_drawn
    PROVE  SubLimitsAreCovered'
<1> SUFFICES ASSUME NEW s \in FacilitySubLimit
             PROVE  Covered(sub_drawn'[s], Through(s)', PaidThrough(s)')
  BY DEF SubLimitsAreCovered, Covered, Through, PaidThrough
<1>1. Through(s)' = Through(s)
  BY ExecutedStays DEF Through, Unmoved, DrawdownsThrough
<1>2. PaidThrough(s)' = PaidThrough(s)
  BY PaidStays DEF PaidThrough, Unmoved, PrincipalThrough
<1>. QED  BY <1>1, <1>2, SubLimitByAmounts

LEMMA SubLimitExecuted ==
    ASSUME IndInv, HeldRequestsWait, SeenSubLimitIsCurrent, SubLimitsAreCovered,
           NEW u \in Users, ExecuteDrawdown(u)
    PROVE  SubLimitsAreCovered'
<1> DEFINE d == on[u]
<1> SUFFICES ASSUME NEW s \in FacilitySubLimit
             PROVE  Covered(sub_drawn'[s], Through(s)', PaidThrough(s)')
  BY DEF SubLimitsAreCovered, Covered, Through, PaidThrough
<1>1. /\ d \in FacilityDrawdown /\ amount[d] \in Int
      /\ drawdown[d] # "EXECUTED" /\ drawdown'[d] = "EXECUTED"
      /\ \A e \in FacilityDrawdown \ {d} : drawdown'[e] = drawdown[e]
      /\ UNCHANGED repayment
  BY ExecutionMoves
<1>2. Through(s)' = IF s = sub_limit_id[d] THEN Through(s) + amount[d] ELSE Through(s)
  <2>1. DrawdownsThrough(s) \in SUBSET FacilityDrawdown /\ (d \in DrawdownsThrough(s) <=> s = sub_limit_id[d])
    BY <1>1 DEF DrawdownsThrough
  <2>2. Executed(DrawdownsThrough(s))' =
            IF d \in DrawdownsThrough(s) THEN Executed(DrawdownsThrough(s)) + amount[d]
            ELSE Executed(DrawdownsThrough(s))
    BY <1>1, <2>1, ExecutedGrows
  <2>. QED  BY <2>1, <2>2 DEF Through
<1>3. PaidThrough(s)' = PaidThrough(s)
  BY <1>1 DEF PaidThrough, Paid
<1>4. Covered(sub_drawn[s], Through(s), PaidThrough(s))
  BY SubLimitByAmounts
<1>5. Covered(sub_drawn[s] + amount[d], Through(s) + amount[d], PaidThrough(s))
  BY <1>1, <1>4, SubLimitTerms, AmountsAdded
<1>6. sub_drawn'[s] = IF s = sub_limit_id[d] THEN sub_drawn[s] + amount[d] ELSE sub_drawn[s]
  BY ExecutionMovesSubLimit
<1>. QED  BY <1>2, <1>3, <1>4, <1>5, <1>6

\* A payment takes from its sub-limit no more than it pays back.
LEMMA SubLimitPaid ==
    ASSUME IndInv, SeenSubLimitIsCurrent, SubLimitsAreCovered, NEW u \in Users, RecordPayment(u)
    PROVE  SubLimitsAreCovered'
<1> DEFINE r == on[u]
<1> SUFFICES ASSUME NEW s \in FacilitySubLimit
             PROVE  Covered(sub_drawn'[s], Through(s)', PaidThrough(s)')
  BY DEF SubLimitsAreCovered, Covered, Through, PaidThrough
<1>1. /\ r \in FacilityRepayment /\ pay[u] \in Int
      /\ repayment'[r].paid_amount = repayment[r].paid_amount + pay[u]
      /\ \A q \in FacilityRepayment \ {r} : repayment'[q] = repayment[q]
      /\ UNCHANGED drawdown
  BY PaymentMoves
<1>2. Through(s)' = Through(s)
  BY <1>1 DEF Through, Executed
<1>3. PaidThrough(s)' = IF s = SubLimitOf(r) THEN PaidThrough(s) + pay[u] ELSE PaidThrough(s)
  <2>1. PrincipalThrough(s) \in SUBSET FacilityRepayment /\ (r \in PrincipalThrough(s) <=> s = SubLimitOf(r))
    BY <1>1 DEF PrincipalThrough
  <2>2. Paid(PrincipalThrough(s))' =
            IF r \in PrincipalThrough(s) THEN Paid(PrincipalThrough(s)) + pay[u] ELSE Paid(PrincipalThrough(s))
    BY <1>1, <2>1, PaidGrows DEF IndInv
  <2>. QED  BY <2>1, <2>2 DEF PaidThrough
<1>4. Covered(sub_drawn[s], Through(s), PaidThrough(s))
  BY SubLimitByAmounts
<1>5. Covered(Reduced(sub_drawn[s], pay[u]), Through(s), PaidThrough(s) + pay[u])
  BY <1>1, <1>4, SubLimitTerms, AmountsAdded
<1>6. sub_drawn'[s] = IF s = SubLimitOf(r) THEN Reduced(sub_drawn[s], pay[u]) ELSE sub_drawn[s]
  BY PaymentMovesSubLimit
<1>. QED  BY <1>2, <1>3, <1>4, <1>5, <1>6

LEMMA SubLimitStep ==
    ASSUME IndInv, HeldRequestsWait, SeenSubLimitIsCurrent, SubLimitsAreCovered, [Next]_vars
    PROVE  SubLimitsAreCovered'
<1>1. ASSUME NEW u \in Users, ExecuteDrawdown(u) \/ RecordPayment(u)
      PROVE  SubLimitsAreCovered'
  BY <1>1, SubLimitExecuted, SubLimitPaid
<1>2. CASE ~\E u \in Users : ExecuteDrawdown(u) \/ RecordPayment(u)
  BY <1>2, OthersMoveNothing, SubLimitsStay
<1>. QED  BY <1>1, <1>2

-----------------------------------------------------------------------------
(* The invariant of the accounts                                           *)

LEMMA AccountsInit == Init => AccountsInv
<1> SUFFICES ASSUME Init PROVE AccountsInv
  OBVIOUS
<1>1. IndInv
  BY InvInit
<1>2. HeldRequestsWait /\ SeenSubLimitIsCurrent
  BY DEF Init, HeldRequestsWait, HoldsRow, SeenSubLimitIsCurrent
<1>3. ASSUME NEW D \in SUBSET FacilityDrawdown
      PROVE  Executed(D) = 0
  <2>1. {d \in D : drawdown[d] = "EXECUTED"} = {}
    BY DEF Init
  <2>. QED  BY <2>1, SumOfNothing DEF Executed, Sum
<1>4. ASSUME NEW R \in SUBSET FacilityRepayment
      PROVE  Paid(R) = 0
  <2> DEFINE paid == [r \in R |-> repayment[r].paid_amount]
  <2>1. IsFiniteSet(R) /\ \A r \in R : paid[r] = 0
    BY FiniteAssumption, FS_Subset DEF Init
  <2> HIDE DEF paid
  <2>2. SumFunctionOnSet(paid, R) = 0
    BY <2>1, SumOfZeros
  <2>. QED  BY <2>2 DEF Paid, Sum, paid
<1>5. DebtIsCovered
  <2> SUFFICES ASSUME NEW f \in Facility
               PROVE  Covered(facility[f].current_drawn_amount, Owed(f), PaidBack(f))
    BY DebtByFacility
  <2>1. facility[f].current_drawn_amount = 0
    BY DEF Init, NoRow
  <2>2. Owed(f) = 0 /\ PaidBack(f) = 0
    BY <1>3, <1>4, ColumnAssumption DEF Owed, PaidBack, DrawdownsOf, PrincipalOf
  <2>. QED  BY <2>1, <2>2 DEF Covered
<1>6. SubLimitsAreCovered
  <2> SUFFICES ASSUME NEW s \in FacilitySubLimit
               PROVE  Covered(sub_drawn[s], Through(s), PaidThrough(s))
    BY SubLimitByAmounts
  <2>1. sub_drawn[s] = 0
    BY DEF Init
  <2>2. Through(s) = 0 /\ PaidThrough(s) = 0
    BY <1>3, <1>4 DEF Through, PaidThrough, DrawdownsThrough, PrincipalThrough
  <2>. QED  BY <2>1, <2>2 DEF Covered
<1>. QED  BY <1>1, <1>2, <1>5, <1>6 DEF AccountsInv

LEMMA AccountsStep == AccountsInv /\ [Next]_vars => AccountsInv'
<1> SUFFICES ASSUME AccountsInv, [Next]_vars PROVE AccountsInv'
  OBVIOUS
<1>1. IndInv' /\ HeldRequestsWait' /\ DebtIsCovered'
  BY InvStep, WaitingStep, DebtStep DEF AccountsInv
<1>2. ASSUME RepaymentsStayAtTheirFacility
      PROVE  SeenSubLimitIsCurrent' /\ SubLimitsAreCovered'
  BY <1>2, SeenSubLimitStep, SubLimitStep DEF AccountsInv
<1>3. RepaymentsStayAtTheirFacility' => RepaymentsStayAtTheirFacility
  BY DEF RepaymentsStayAtTheirFacility, SubLimitOf
<1>. QED  BY <1>1, <1>2, <1>3 DEF AccountsInv

\* The inductive invariant with the amounts, of either sign: requests are held
\* by one handler at a time, what was read is current, and what was executed
\* is drawn or paid back.
THEOREM AccountsInvariance == Spec => []AccountsInv
<1>. QED  BY AccountsInit, AccountsStep, PTL DEF Spec

-----------------------------------------------------------------------------
(* Every movement is accounted for                                         *)

LEMMA ExecutionAccounted ==
    ASSUME NEW D \in SUBSET FacilityDrawdown, NEW R \in SUBSET FacilityRepayment,
           NEW d \in FacilityDrawdown, drawdown[d] # "EXECUTED", drawdown'[d] = "EXECUTED",
           \A e \in FacilityDrawdown \ {d} : drawdown'[e] = drawdown[e],
           UNCHANGED repayment, NEW before, NEW after,
           after = IF d \in D THEN before + amount[d] ELSE before
    PROVE  Accounts(before, after, D, R)
<1>1. Executing(D) = D \intersect {d} /\ Paying(R) = {}
  BY DEF Executing, Paying
<1>. QED  BY <1>1 DEF Accounts

LEMMA PaymentAccounted ==
    ASSUME NEW D \in SUBSET FacilityDrawdown, NEW R \in SUBSET FacilityRepayment,
           NEW r \in FacilityRepayment, NEW n \in Int, repayment[r].paid_amount \in Int,
           repayment'[r].paid_amount = repayment[r].paid_amount + n,
           \A q \in FacilityRepayment \ {r} : repayment'[q] = repayment[q],
           UNCHANGED drawdown, NEW before, NEW after,
           after = IF r \in R THEN Reduced(before, n) ELSE before
    PROVE  Accounts(before, after, D, R)
<1>1. Executing(D) = {} /\ Paying(R) = IF n = 0 THEN {} ELSE R \intersect {r}
  BY DEF Executing, Paying
<1>2. repayment'[r].paid_amount - repayment[r].paid_amount = n
  OBVIOUS
<1>. QED  BY <1>1, <1>2 DEF Accounts

LEMMA NothingAccounted ==
    ASSUME NEW D \in SUBSET FacilityDrawdown, NEW R \in SUBSET FacilityRepayment, Unmoved, NEW before
    PROVE  Executing(D) = {} /\ Accounts(before, before, D, R)
<1>1. Executing(D) = {} /\ Paying(R) = {}
  BY DEF Executing, Paying, Unmoved
<1>. QED  BY <1>1 DEF Accounts

\* A facility's drawn amount moves with its executions and its principal
\* payments alone, by what each says and by each once, for any number of
\* requests and users that cross each other in any way, and amounts of
\* either sign.
THEOREM DebtIsAccountedHolds == Spec => DebtIsAccounted
<1>1. AccountsInv /\ [Next]_vars =>
          [\A f \in Facility :
              Accounts(facility[f].current_drawn_amount, facility'[f].current_drawn_amount,
                       DrawdownsOf(f), PrincipalOf(f))]_vars
  <2> SUFFICES ASSUME AccountsInv, [Next]_vars, NEW f \in Facility
               PROVE  Accounts(facility[f].current_drawn_amount, facility'[f].current_drawn_amount,
                               DrawdownsOf(f), PrincipalOf(f))
    OBVIOUS
  <2> USE DEF AccountsInv
  <2>1. DrawdownsOf(f) \in SUBSET FacilityDrawdown /\ PrincipalOf(f) \in SUBSET FacilityRepayment
    BY ColumnAssumption DEF DrawdownsOf, PrincipalOf
  <2>2. ASSUME NEW u \in Users, ExecuteDrawdown(u)
        PROVE  Accounts(facility[f].current_drawn_amount, facility'[f].current_drawn_amount,
                        DrawdownsOf(f), PrincipalOf(f))
    <3> DEFINE d == on[u]
    <3>1. /\ d \in FacilityDrawdown /\ drawdown[d] # "EXECUTED" /\ drawdown'[d] = "EXECUTED"
          /\ \A e \in FacilityDrawdown \ {d} : drawdown'[e] = drawdown[e]
          /\ UNCHANGED repayment
          /\ facility'[f].current_drawn_amount =
                 IF f = facility_id[d] THEN facility[f].current_drawn_amount + amount[d]
                 ELSE facility[f].current_drawn_amount
      BY <2>2, ExecutionMoves
    <3>2. d \in DrawdownsOf(f) <=> f = facility_id[d]
      BY <3>1 DEF DrawdownsOf
    <3>. QED  BY <2>1, <3>1, <3>2, ExecutionAccounted
  <2>3. ASSUME NEW u \in Users, RecordPayment(u)
        PROVE  Accounts(facility[f].current_drawn_amount, facility'[f].current_drawn_amount,
                        DrawdownsOf(f), PrincipalOf(f))
    BY <2>1, <2>3, PaymentMoves, PaymentAccounted
  <2>4. CASE ~\E u \in Users : ExecuteDrawdown(u) \/ RecordPayment(u)
    BY <2>1, <2>4, OthersMoveNothing, NothingAccounted
  <2>. QED  BY <2>2, <2>3, <2>4
<1>. QED  BY <1>1, AccountsInvariance, PTL DEF Spec, DebtIsAccounted

\* So with a sub-limit, which no execution takes past its own limit, as long
\* as no repayment recorded at one facility names a drawdown through a
\* sub-limit of another.
THEOREM SubLimitsAreAccountedHolds ==
    ASSUME RepaymentsStayAtTheirFacility
    PROVE  Spec => SubLimitsAreAccounted
<1>1. AccountsInv /\ [Next]_vars =>
          [\A s \in FacilitySubLimit :
              /\ Accounts(sub_drawn[s], sub_drawn'[s], DrawdownsThrough(s), PrincipalThrough(s))
              /\ Executing(DrawdownsThrough(s)) # {} => sub_drawn'[s] <= amount[s]]_vars
  <2> SUFFICES ASSUME AccountsInv, [Next]_vars, NEW s \in FacilitySubLimit
               PROVE  /\ Accounts(sub_drawn[s], sub_drawn'[s], DrawdownsThrough(s), PrincipalThrough(s))
                      /\ Executing(DrawdownsThrough(s)) # {} => sub_drawn'[s] <= amount[s]
    OBVIOUS
  <2>0. IndInv /\ HeldRequestsWait /\ SeenSubLimitIsCurrent
    BY DEF AccountsInv
  <2>1. DrawdownsThrough(s) \in SUBSET FacilityDrawdown /\ PrincipalThrough(s) \in SUBSET FacilityRepayment
    BY DEF DrawdownsThrough, PrincipalThrough
  <2>2. ASSUME NEW u \in Users, ExecuteDrawdown(u)
        PROVE  /\ Accounts(sub_drawn[s], sub_drawn'[s], DrawdownsThrough(s), PrincipalThrough(s))
               /\ Executing(DrawdownsThrough(s)) # {} => sub_drawn'[s] <= amount[s]
    <3> DEFINE d == on[u]
    <3>1. /\ d \in FacilityDrawdown /\ amount[d] \in Int
          /\ drawdown[d] # "EXECUTED" /\ drawdown'[d] = "EXECUTED"
          /\ \A e \in FacilityDrawdown \ {d} : drawdown'[e] = drawdown[e]
          /\ UNCHANGED repayment
      BY <2>0, <2>2, ExecutionMoves
    <3>2. IF s = sub_limit_id[d]
          THEN sub_drawn'[s] = sub_drawn[s] + amount[d] /\ amount[d] <= amount[s] - sub_drawn[s]
          ELSE sub_drawn'[s] = sub_drawn[s]
      BY <2>0, <2>2, ExecutionMovesSubLimit
    <3>3. d \in DrawdownsThrough(s) <=> s = sub_limit_id[d]
      BY <3>1 DEF DrawdownsThrough
    <3>4. Accounts(sub_drawn[s], sub_drawn'[s], DrawdownsThrough(s), PrincipalThrough(s))
      BY <2>1, <3>1, <3>2, <3>3, ExecutionAccounted
    <3>5. Executing(DrawdownsThrough(s)) # {} => d \in DrawdownsThrough(s)
      BY <2>1, <3>1 DEF Executing
    <3>6. d \in DrawdownsThrough(s) => sub_drawn'[s] <= amount[s]
      <4>1. sub_drawn[s] \in Int /\ amount[s] \in Int
        BY <2>0, SubLimitTerms
      <4>. QED  BY <3>1, <3>2, <3>3, <4>1
    <3>. QED  BY <3>4, <3>5, <3>6
  <2>3. ASSUME NEW u \in Users, RecordPayment(u)
        PROVE  /\ Accounts(sub_drawn[s], sub_drawn'[s], DrawdownsThrough(s), PrincipalThrough(s))
               /\ Executing(DrawdownsThrough(s)) # {} => sub_drawn'[s] <= amount[s]
    <3> DEFINE r == on[u]
    <3>1. /\ r \in FacilityRepayment /\ pay[u] \in Int /\ repayment[r].paid_amount \in Int
          /\ repayment'[r].paid_amount = repayment[r].paid_amount + pay[u]
          /\ \A q \in FacilityRepayment \ {r} : repayment'[q] = repayment[q]
          /\ UNCHANGED drawdown
      BY <2>0, <2>3, PaymentMoves
    <3>2. sub_drawn'[s] = IF s = SubLimitOf(r) THEN Reduced(sub_drawn[s], pay[u]) ELSE sub_drawn[s]
      BY <2>0, <2>3, PaymentMovesSubLimit
    <3>3. r \in PrincipalThrough(s) <=> s = SubLimitOf(r)
      BY <3>1 DEF PrincipalThrough
    <3>4. Accounts(sub_drawn[s], sub_drawn'[s], DrawdownsThrough(s), PrincipalThrough(s))
      BY <2>1, <3>1, <3>2, <3>3, PaymentAccounted
    <3>5. Executing(DrawdownsThrough(s)) = {}
      BY <3>1 DEF Executing
    <3>. QED  BY <3>4, <3>5
  <2>4. CASE ~\E u \in Users : ExecuteDrawdown(u) \/ RecordPayment(u)
    BY <2>0, <2>1, <2>4, OthersMoveNothing, NothingAccounted
  <2>. QED  BY <2>2, <2>3, <2>4
<1>. QED  BY <1>1, AccountsInvariance, PTL DEF Spec, SubLimitsAreAccounted

-----------------------------------------------------------------------------
(* Facilities are not overdrawn                                            *)

\* What a step of NeverOverdrawn may not do.
DrawsWithin(f) ==
    facility'[f].current_drawn_amount > facility[f].current_drawn_amount =>
        \/ /\ facility'[f].status = "ACTIVE"
           /\ facility'[f].current_drawn_amount <= facility'[f].committed_limit
        \/ /\ Executing(DrawdownsOf(f)) = {}
           /\ \/ facility[f].current_drawn_amount < 0
              \/ \E r \in PrincipalOf(f) : repayment'[r].paid_amount < repayment[r].paid_amount

\* An execution computes with the row it holds locked, so that what it has
\* found to fit does fit when it is written.
LEMMA ExecutionFits ==
    ASSUME IndInv, HeldRequestsWait, NEW u \in Users, ExecuteDrawdown(u), NEW g \in Facility
    PROVE  DrawsWithin(g)
<1> DEFINE d == on[u]
           limit == facility[g].committed_limit
           drawn == facility[g].current_drawn_amount
<1>1. /\ amount[d] \in Int
      /\ validate_drawdown(d, facility[facility_id[d]], seen[u].sub_limit)
      /\ facility'[g].status = facility[g].status
      /\ facility'[g].committed_limit = limit
      /\ facility'[g].current_drawn_amount = IF g = facility_id[d] THEN drawn + amount[d] ELSE drawn
  BY ExecutionMoves
<1>2. limit \in Int /\ drawn \in Int
  BY DEF IndInv, TypeOK, FacilityRow
<1>3. CASE g # facility_id[d]
  BY <1>1, <1>2, <1>3 DEF DrawsWithin
<1>4. CASE g = facility_id[d]
  <2>1. facility[g].status = "ACTIVE" /\ amount[d] <= IF g \in Uncommitted \/ limit - drawn > 0 THEN limit - drawn ELSE 0
    BY <1>1, <1>4 DEF validate_drawdown, Available, Undrawn
  <2>2. amount[d] > 0 => drawn + amount[d] <= limit
    BY <1>1, <1>2, <2>1
  <2>. QED  BY <1>1, <1>2, <1>4, <2>1, <2>2 DEF DrawsWithin
<1>. QED  BY <1>3, <1>4

\* A payment adds to what is drawn only by a negative amount, or where it cuts
\* off an amount below zero.
LEMMA PaymentReduces ==
    ASSUME IndInv, NEW u \in Users, RecordPayment(u), NEW g \in Facility
    PROVE  DrawsWithin(g)
<1> DEFINE r == on[u]
           drawn == facility[g].current_drawn_amount
<1>1. /\ pay[u] \in Int /\ repayment[r].paid_amount \in Int
      /\ repayment'[r].paid_amount = repayment[r].paid_amount + pay[u]
      /\ UNCHANGED drawdown
      /\ facility'[g].current_drawn_amount = IF r \in PrincipalOf(g) THEN Reduced(drawn, pay[u]) ELSE drawn
  BY PaymentMoves
<1>2. drawn \in Int
  BY DEF IndInv, TypeOK, FacilityRow
<1>3. Executing(DrawdownsOf(g)) = {}
  BY <1>1 DEF Executing
<1>4. CASE r \notin PrincipalOf(g)
  BY <1>1, <1>2, <1>4 DEF DrawsWithin
<1>5. CASE r \in PrincipalOf(g)
  <2>1. 0 <= drawn /\ 0 <= pay[u] => Reduced(drawn, pay[u]) <= drawn
    BY <1>1, <1>2, ReducedBound
  <2>2. Reduced(drawn, pay[u]) \in Int
    BY <1>1, <1>2, ReducedBound
  <2>3. pay[u] < 0 => repayment'[r].paid_amount < repayment[r].paid_amount
    BY <1>1
  <2>4. facility'[g].current_drawn_amount > drawn => drawn < 0 \/ pay[u] < 0
    BY <1>1, <1>2, <1>5, <2>1, <2>2
  <2>. QED  BY <1>3, <1>5, <2>3, <2>4 DEF DrawsWithin
<1>. QED  BY <1>4, <1>5

\* No other step adds to what is drawn.
LEMMA OthersDrawNothing ==
    ASSUME IndInv, [Next]_vars, NEW g \in Facility,
           ~\E u \in Users : ExecuteDrawdown(u) \/ RecordPayment(u)
    PROVE  DrawsWithin(g)
<1>1. facility'[g].current_drawn_amount = facility[g].current_drawn_amount
  BY OthersMoveNothing
<1>2. facility[g].current_drawn_amount \in Int
  BY DEF IndInv, TypeOK, FacilityRow
<1>. QED  BY <1>1, <1>2 DEF DrawsWithin

\* An execution never draws on a facility that is not active, or past the
\* limit it then has, however many executions, payments and changes of terms
\* interleave; and what is drawn rises otherwise only by a payment that is
\* negative or cuts off an amount below zero.
THEOREM NeverOverdrawnHolds == Spec => NeverOverdrawn
<1>1. AccountsInv /\ [Next]_vars => [\A f \in Facility : DrawsWithin(f)]_vars
  BY ExecutionFits, PaymentReduces, OthersDrawNothing DEF AccountsInv
<1>2. (\A f \in Facility : DrawsWithin(f)) =>
          \A f \in Facility :
              facility'[f].current_drawn_amount > facility[f].current_drawn_amount =>
                  \/ /\ facility'[f].status = "ACTIVE"
                     /\ facility'[f].current_drawn_amount <= facility'[f].committed_limit
                  \/ /\ Executing(DrawdownsOf(f)) = {}
                     /\ \/ facility[f].current_drawn_amount < 0
                        \/ \E r \in PrincipalOf(f) : repayment'[r].paid_amount < repayment[r].paid_amount
  BY DEF DrawsWithin
<1>. QED  BY <1>1, <1>2, AccountsInvariance, PTL DEF Spec, NeverOverdrawn

-----------------------------------------------------------------------------
(* Funding actions                                                         *)

\* Initially no action exists and every transaction is open.
LEMMA FAInvInit == FAInit => FAInv
<1> SUFFICES ASSUME FAInit PROVE FAInv
  OBVIOUS
<1>1. FATypeOK
  BY LinkAssumption DEF FAInit, FATypeOK, FundingActionStatus, FUNDING_ACTION_STATUS_TRANSITIONS
<1>2. ExecutedIsBacked /\ ChecksLast /\ OneActionPerTransaction
  BY DEF FAInit, ExecutedIsBacked, ChecksLast, OneActionPerTransaction
<1>3. QED
  BY <1>1, <1>2 DEF FAInv

\* A payment, which never undoes one, leaves every check valid.
LEMMA PayStep ==
    ASSUME FAInv, NEW t \in Transaction, NEW progress \in {"PARTIALLY_PAID", "DONE"},
           Pay(t, progress)
    PROVE  FAInv'
<1>1. FATypeOK'
  BY DEF FAInv, FATypeOK, Pay
<1>2. \A s \in Transaction : transaction[s] = "DONE" => transaction'[s] = "DONE"
  BY DEF FAInv, FATypeOK, Pay
<1>3. \A a \in FundingAction : linked[a] # Nil => linked[a] \in Transaction
  BY LinkAssumption
<1>4. ExecutedIsBacked'
  BY <1>2, <1>3 DEF FAInv, ExecutedIsBacked, Pay
<1>5. ChecksLast'
  <2> SUFFICES ASSUME NEW u \in Senders,
                      step[u] = "write", to[u] \in {"EXECUTED", "COMPLETED"}, linked[action[u]] # Nil
               PROVE  transaction'[linked[action[u]]] = "DONE"
    BY DEF ChecksLast, Pay
  <2>1. action[u] \in FundingAction
    BY DEF FAInv, FATypeOK
  <2>2. QED
    BY <2>1, <1>2, <1>3 DEF FAInv, ChecksLast
<1>6. OneActionPerTransaction'
  BY DEF FAInv, OneActionPerTransaction, Pay
<1>7. QED
  BY <1>1, <1>4, <1>5, <1>6 DEF FAInv

\* The steps of a handler that write nothing: a request read, a check made,
\* a request given up.  What it goes on to write is checked.
LEMMA QuietStep ==
    ASSUME FAInv, NEW u \in Senders, NEW a \in FundingAction \union {Nil},
           NEW next \in {"idle", "insert", "link", "write"}, NEW goal \in FundingActionStatus,
           StartRequest(u, a, next, goal), UNCHANGED <<status, transaction>>,
           a = Nil <=> next = "idle",
           next \in {"link", "write"} => status[a] # "NONE",
           next = "write" /\ goal \in {"EXECUTED", "COMPLETED"} /\ linked[a] # Nil
               => transaction[linked[a]] = "DONE"
    PROVE  FAInv'
<1>1. FATypeOK'
  BY DEF FAInv, FATypeOK, StartRequest
<1>2. ExecutedIsBacked' /\ OneActionPerTransaction'
  BY DEF FAInv, ExecutedIsBacked, OneActionPerTransaction
<1>3. ChecksLast'
  BY DEF FAInv, FATypeOK, ChecksLast, StartRequest
<1>4. QED
  BY <1>1, <1>2, <1>3 DEF FAInv

\* A new action is a DRAFT, and the only one of its transaction.
LEMMA InsertStep == ASSUME FAInv, NEW u \in Senders, Insert(u) PROVE FAInv'
<1>1. action[u] \in FundingAction
  BY DEF FAInv, FATypeOK, Insert
<1>2. "DRAFT" \in FundingActionStatus
  BY DEF FundingActionStatus, FUNDING_ACTION_STATUS_TRANSITIONS
<1>3. FATypeOK'
  BY <1>1, <1>2 DEF FAInv, FATypeOK, Insert, EndRequest, StartRequest
<1>4. ExecutedIsBacked'
  BY DEF FAInv, FATypeOK, ExecutedIsBacked, Insert
<1>5. ChecksLast'
  BY DEF FAInv, FATypeOK, ChecksLast, Insert, EndRequest, StartRequest
<1>6. OneActionPerTransaction'
  <2> SUFFICES ASSUME NEW a \in FundingAction, NEW b \in FundingAction, a # b,
                      status'[a] # "NONE", status'[b] # "NONE", linked[a] # Nil,
                      linked[a] = linked[b]
               PROVE  FALSE
    BY DEF OneActionPerTransaction
  <2>1. \A c \in FundingAction : c # action[u] => status'[c] = status[c]
    BY DEF FAInv, FATypeOK, Insert
  <2>2. CASE a = action[u]
    BY <2>1, <2>2 DEF Insert, UniqueLink, Linked
  <2>3. CASE b = action[u]
    BY <2>1, <2>3 DEF Insert, UniqueLink, Linked
  <2>4. CASE a # action[u] /\ b # action[u]
    BY <2>1, <2>4 DEF FAInv, OneActionPerTransaction
  <2>5. QED
    BY <2>2, <2>3, <2>4
<1>7. QED
  BY <1>3, <1>4, <1>5, <1>6 DEF FAInv

\* A move is written over whatever the status has become meanwhile, but what
\* it says of the transaction is true.
LEMMA WriteStep == ASSUME FAInv, NEW u \in Senders, Write(u) PROVE FAInv'
<1>1. action[u] \in FundingAction /\ to[u] \in FundingActionStatus /\ status[action[u]] # "NONE"
  BY DEF FAInv, FATypeOK, Write
<1>2. "DRAFT" \in FundingActionStatus /\ "NONE" \notin FundingActionStatus
  BY DEF FundingActionStatus, FUNDING_ACTION_STATUS_TRANSITIONS
<1>3. FATypeOK'
  BY <1>1, <1>2 DEF FAInv, FATypeOK, Write, EndRequest, StartRequest
<1>4. ExecutedIsBacked'
  BY <1>1 DEF FAInv, FATypeOK, ExecutedIsBacked, ChecksLast, Write
<1>5. ChecksLast'
  BY DEF FAInv, FATypeOK, ChecksLast, Write, EndRequest, StartRequest
<1>6. OneActionPerTransaction'
  BY <1>1 DEF FAInv, FATypeOK, OneActionPerTransaction, Write
<1>7. QED
  BY <1>3, <1>4, <1>5, <1>6 DEF FAInv

\* Every step keeps the invariant.
LEMMA FAInvStep == FAInv /\ [FANext]_favars => FAInv'
<1> SUFFICES ASSUME FAInv, [FANext]_favars PROVE FAInv'
  OBVIOUS
<1> USE DEF FAInv
<1>1. ASSUME NEW t \in Transaction, Pay(t, "PARTIALLY_PAID") \/ Pay(t, "DONE") PROVE FAInv'
  BY <1>1, PayStep
<1>2. ASSUME NEW u \in Senders, NEW a \in FundingAction, RequestCreate(u, a) PROVE FAInv'
  <2>1. "DRAFT" \in FundingActionStatus
    BY DEF FundingActionStatus, FUNDING_ACTION_STATUS_TRANSITIONS
  <2>2. a # Nil
    BY LinkAssumption
  <2>3. QED
    BY <1>2, <2>1, <2>2, QuietStep DEF RequestCreate
<1>3. ASSUME NEW u \in Senders, NEW a \in FundingAction, NEW goal \in FundingActionStatus,
             RequestMove(u, a, goal)
      PROVE  FAInv'
  <2>1. a # Nil
    BY LinkAssumption
  <2>2. goal = "COMPLETED" => status[a] = "EXECUTED"
    BY <1>3 DEF RequestMove, FATypeOK, FundingActionStatus, FUNDING_ACTION_STATUS_TRANSITIONS
  <2>3. goal = "COMPLETED" /\ linked[a] # Nil => transaction[linked[a]] = "DONE"
    BY <2>2 DEF ExecutedIsBacked
  <2> DEFINE next == IF goal = "EXECUTED" THEN "link" ELSE "write"
  <2>4. StartRequest(u, a, next, goal) /\ UNCHANGED <<status, transaction>> /\ status[a] # "NONE"
    BY <1>3 DEF RequestMove
  <2>5. next \in {"link", "write"} /\ (next = "write" => goal # "EXECUTED")
    OBVIOUS
  <2> HIDE DEF next
  <2>6. QED
    BY <2>1, <2>3, <2>4, <2>5, QuietStep
<1>4. ASSUME NEW u \in Senders, Insert(u) PROVE FAInv'
  BY <1>4, InsertStep
<1>5. ASSUME NEW u \in Senders, CheckLink(u) PROVE FAInv'
  <2>1. action[u] \in FundingAction /\ action[u] # Nil /\ to[u] \in FundingActionStatus /\ status[action[u]] # "NONE"
    BY <1>5, LinkAssumption DEF CheckLink, FATypeOK
  <2>2. linked[action[u]] # Nil => transaction[linked[action[u]]] = "DONE"
    BY <1>5 DEF CheckLink, Done
  <2>3. StartRequest(u, action[u], "write", to[u]) /\ UNCHANGED <<status, transaction>>
    BY <1>5 DEF CheckLink
  <2>4. QED
    BY <2>1, <2>2, <2>3, QuietStep
<1>6. ASSUME NEW u \in Senders, Write(u) PROVE FAInv'
  BY <1>6, WriteStep
<1>7. ASSUME NEW u \in Senders, DropRequest(u) PROVE FAInv'
  <2>1. "DRAFT" \in FundingActionStatus
    BY DEF FundingActionStatus, FUNDING_ACTION_STATUS_TRANSITIONS
  <2>2. QED
    BY <1>7, <2>1, QuietStep DEF DropRequest, EndRequest
<1>8. CASE UNCHANGED favars
  BY <1>8 DEF favars, FATypeOK, ExecutedIsBacked, ChecksLast, OneActionPerTransaction
<1>9. QED
  BY <1>1, <1>2, <1>3, <1>4, <1>5, <1>6, <1>7, <1>8 DEF FANext

\* Every reachable state is well typed, every check still holds when its
\* handler writes, and links are unique: the inductive invariant.
THEOREM FundingActionsInvariance == FASpec => []FAInv
<1>1. QED
  BY FAInvInit, FAInvStep, PTL DEF FASpec

\* An action that says EXECUTED or COMPLETED has a transaction that really
\* was executed or paid in full, however unlocked moves cross.
THEOREM ExecutedIsBackedHolds == FASpec => []ExecutedIsBacked
<1>1. FAInv => ExecutedIsBacked
  BY DEF FAInv
<1>2. QED
  BY <1>1, FundingActionsInvariance, PTL

\* No drawdown or repayment is ever linked from two actions.
THEOREM OneActionPerTransactionHolds == FASpec => []OneActionPerTransaction
<1>1. FAInv => OneActionPerTransaction
  BY DEF FAInv
<1>2. QED
  BY <1>1, FundingActionsInvariance, PTL
=============================================================================
