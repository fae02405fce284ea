--------------------------- MODULE OpenItemsProof ---------------------------
(***************************************************************************)
(* Proofs about OpenItems, for any number of items and users and any bound *)
(* on the length of a history.                                             *)
(***************************************************************************)
EXTENDS OpenItems, TLAPS

-----------------------------------------------------------------------------
(* What an action writes                                                   *)

\* An item that is there accepts only these requests.
LEMMA Accepted ==
    ASSUME NEW row \in Row, row.status # "NONE", NEW q \in Request, Accepts(row, q)
    PROVE  \/ q.op = "INVESTIGATION_STARTED" /\ row.status = "OPEN"
           \/ q.op = "RESOLVED" /\ row.status = "UNDER_REVIEW"
           \/ q.op = "CLOSED" /\ row.status = "RESOLVED"
           \/ q.op = "REJECTED" /\ row.status \in {"OPEN", "UNDER_REVIEW"}
           \/ q.op = "REOPENED" /\ row.status \in {"RESOLVED", "CLOSED", "REJECTED"}
           \/ q.op = "ASSIGN" /\ row.status \in {"OPEN", "UNDER_REVIEW"} /\ q.assignee \in Users
           \/ q.op \in Notes
<1>1. CASE q.op \in Notes
  BY <1>1
<1>2. CASE MayAssign(row, q)
  BY <1>2, UserAssumption DEF MayAssign, ACTIONABLE_STATUSES
<1>3. CASE q.op \in Moves /\ Target[q.op] \in OPEN_ITEM_TRANSITIONS[row.status]
  <2>1. row.status \in {"OPEN", "UNDER_REVIEW", "RESOLVED", "CLOSED", "REJECTED"}
    BY DEF Row, Status
  <2>2. CASE q.op = "INVESTIGATION_STARTED"
    BY <1>3, <2>1, <2>2 DEF Target, OPEN_ITEM_TRANSITIONS
  <2>3. CASE q.op = "RESOLVED"
    BY <1>3, <2>1, <2>3 DEF Target, OPEN_ITEM_TRANSITIONS
  <2>4. CASE q.op = "CLOSED"
    BY <1>3, <2>1, <2>4 DEF Target, OPEN_ITEM_TRANSITIONS
  <2>5. CASE q.op = "REJECTED"
    BY <1>3, <2>1, <2>5 DEF Target, OPEN_ITEM_TRANSITIONS
  <2>6. CASE q.op = "REOPENED"
    BY <1>3, <2>1, <2>6 DEF Target, OPEN_ITEM_TRANSITIONS
  <2>7. QED
    BY <1>3, <2>2, <2>3, <2>4, <2>5, <2>6 DEF Moves
<1>4. QED
  BY <1>1, <1>2, <1>3 DEF Accepts

\* The row an accepted request leaves.
LEMMA WrittenRow ==
    ASSUME NEW row \in Row, row.status # "NONE", NEW q \in Request, NEW u \in Users, Accepts(row, q)
    PROVE  Written(row, q, u) \in Row /\ Written(row, q, u).status # "NONE"
<1> DEFINE w == Written(row, q, u)
<1>1. w.status \in Status \ {"NONE"}
  <2>1. CASE q.op \in Moves
    BY <2>1 DEF Written, Moves, Target, Status
  <2>2. CASE q.op \notin Moves
    BY <2>2 DEF Written, Row
  <2>3. QED
    BY <2>1, <2>2
<1>2. w.assigned_to \in Users \union {Nobody} /\ w.assigned_by \in Users \union {Nobody}
  BY Accepted DEF Written, Row, Notes
<1>3. w.resolved_by \in Users \union {Nobody} /\ w.closed_by \in Users \union {Nobody}
  BY DEF Written, Row
<1>4. w.rejected \in BOOLEAN
  BY DEF Written
<1>5. w = [status |-> w.status, assigned_to |-> w.assigned_to, assigned_by |-> w.assigned_by,
           resolved_by |-> w.resolved_by, closed_by |-> w.closed_by, rejected |-> w.rejected]
  BY DEF Written
<1>6. QED
  BY <1>1, <1>2, <1>3, <1>4, <1>5 DEF Row

\* The event an accepted request leaves.
LEMMA RecordedEvent ==
    ASSUME NEW row \in Row, row.status # "NONE", NEW q \in Request, NEW u \in Users, Accepts(row, q),
           began[u] \in 0 .. MaxEvents
    PROVE  /\ Recorded(row, q, u) \in Event
           /\ Recorded(row, q, u).from = row.status
           /\ Recorded(row, q, u).to = Written(row, q, u).status
           /\ Recorded(row, q, u).actor = u
           /\ q.op # "ASSIGN" => Recorded(row, q, u).type = q.op
           /\ q.op = "ASSIGN" => /\ Recorded(row, q, u).assignee = q.assignee
                                 /\ Recorded(row, q, u).type \in Assignments
                                 /\ Recorded(row, q, u).type = "ASSIGNED" <=> row.assigned_to = Nobody
<1>1. Written(row, q, u) \in Row
  BY WrittenRow
<1>2. row.status \in Status /\ Written(row, q, u).status \in Status
  BY <1>1 DEF Row
<1>3. EventType(row, q) \in Moves \union Notes \union Assignments
  BY Accepted DEF EventType, Moves, Assignments
<1>4. q.op = "ASSIGN" => q.assignee \in Users
  BY Accepted DEF Notes
<1>5. Recorded(row, q, u) \in Event
  BY <1>2, <1>3, <1>4 DEF Recorded, Event
<1>6. q.op = "ASSIGN" => /\ Recorded(row, q, u).type \in Assignments
                         /\ Recorded(row, q, u).type = "ASSIGNED" <=> row.assigned_to = Nobody
  BY DEF Recorded, EventType, Assignments
<1>7. QED
  BY <1>5, <1>6 DEF Recorded, EventType

-----------------------------------------------------------------------------
(* The invariant of one item                                               *)

Linked(h, row) ==
    /\ h = <<>> <=> row.status = "NONE"
    /\ \A n \in 1 .. Len(h) :
          /\ h[n].from = IF n = 1 THEN "NONE" ELSE h[n - 1].to
          /\ n > 1 => h[n].from = h[n].to \/ IsMove(h[n])
    /\ h # <<>> => h[Len(h)].to = row.status
Assigned(h, row) ==
    /\ row.assigned_to # Nobody =>
          \E n \in 1 .. Len(h) :
              /\ h[n].type \in Assignments
              /\ h[n].assignee = row.assigned_to /\ h[n].actor = row.assigned_by
              /\ \A k \in n + 1 .. Len(h) : h[k].type \notin Assignments
    /\ \A n \in 1 .. Len(h) : h[n].type = "ASSIGNED" =>
          \A k \in 1 .. n - 1 : h[k].type \notin Assignments
    /\ row.assigned_to = Nobody => \A n \in 1 .. Len(h) : h[n].type \notin Assignments
Disposed(h, row) ==
    /\ row.resolved_by # Nobody <=> row.status \in {"RESOLVED", "CLOSED"}
    /\ row.closed_by # Nobody <=> row.status = "CLOSED"
    /\ row.rejected <=> row.status = "REJECTED"
    /\ row.resolved_by # Nobody =>
          \E n \in 1 .. Len(h) :
              /\ h[n].type = "RESOLVED" /\ h[n].actor = row.resolved_by
              /\ \A k \in n + 1 .. Len(h) : h[k].type \notin {"RESOLVED", "REOPENED"}
Sound(h, row) == Linked(h, row) /\ Assigned(h, row) /\ Disposed(h, row)

\* The invariant holds of every item by itself, before a step and after it.
LEMMA ItemByItem ==
    /\ FirstAssignmentIsKnown /\ HistoryIsAChain /\ DispositionIsCurrent
           <=> \A i \in Items : Sound(history[i], item[i])
    /\ (FirstAssignmentIsKnown /\ HistoryIsAChain /\ DispositionIsCurrent)'
           <=> (\A i \in Items : Sound(history[i], item[i]))'
<1> USE DEF After
<1>1. HistoryIsAChain /\ FirstAssignmentIsKnown
      <=> \A i \in Items : Linked(history[i], item[i]) /\ Assigned(history[i], item[i])
  BY Zenon DEF HistoryIsAChain, AssignmentIsRecorded, FirstAssignmentIsKnown, Linked, Assigned
<1>2. DispositionIsCurrent <=> \A i \in Items : Disposed(history[i], item[i])
  BY Zenon DEF DispositionIsCurrent, Disposed
<1>3. (HistoryIsAChain /\ FirstAssignmentIsKnown)'
      <=> (\A i \in Items : Linked(history[i], item[i]) /\ Assigned(history[i], item[i]))'
  BY Zenon DEF HistoryIsAChain, AssignmentIsRecorded, FirstAssignmentIsKnown, Linked, Assigned
<1>4. DispositionIsCurrent' <=> (\A i \in Items : Disposed(history[i], item[i]))'
  BY Zenon DEF DispositionIsCurrent, Disposed
<1>5. QED
  BY <1>1, <1>2, <1>3, <1>4 DEF Sound

\* What an accepted request writes keeps the history of the item a chain, ...
LEMMA StaysLinked ==
    ASSUME NEW row \in Row, row.status # "NONE", NEW q \in Request, NEW u \in Users, Accepts(row, q),
           began[u] \in 0 .. MaxEvents, NEW h \in Seq(Event), Linked(h, row)
    PROVE  Linked(Append(h, Recorded(row, q, u)), Written(row, q, u))
<1> DEFINE e == Recorded(row, q, u)
           new == Written(row, q, u)
           H == Append(h, e)
<1>1. e \in Event /\ e.from = row.status /\ e.to = new.status
  BY RecordedEvent
<1>2. Len(H) = Len(h) + 1 /\ H[Len(h) + 1] = e /\ \A n \in 1 .. Len(h) : H[n] = h[n]
  BY <1>1
<1>3. new.status # "NONE" /\ H # <<>>
  BY <1>1, <1>2, WrittenRow
<1>4. e.from = e.to \/ IsMove(e)
  <2>1. CASE q.op \in Moves
    BY <1>1, <2>1, Accepted DEF Written, Target, IsMove, OPEN_ITEM_TRANSITIONS, Moves, Notes
  <2>2. CASE q.op \notin Moves
    BY <1>1, <2>2 DEF Written
  <2>3. QED
    BY <2>1, <2>2
<1>5. Len(h) > 0 /\ h[Len(h)].to = row.status
  BY DEF Linked
<1>6. ASSUME NEW n \in 1 .. Len(H)
      PROVE  /\ H[n].from = IF n = 1 THEN "NONE" ELSE H[n - 1].to
             /\ n > 1 => H[n].from = H[n].to \/ IsMove(H[n])
  <2>1. CASE n \in 1 .. Len(h)
    BY <1>2, <2>1 DEF Linked
  <2>2. CASE n = Len(h) + 1
    BY <1>1, <1>2, <1>4, <1>5, <2>2
  <2>3. QED
    BY <1>2, <2>1, <2>2
<1>7. H[Len(H)].to = new.status
  BY <1>1, <1>2
<1> HIDE DEF H, e, new
<1>8. Linked(H, new)
  BY <1>3, <1>6, <1>7 DEF Linked
<1>9. QED
  BY <1>8 DEF H, e, new

\* ... names the assignee ...
LEMMA StaysAssigned ==
    ASSUME NEW row \in Row, row.status # "NONE", NEW q \in Request, NEW u \in Users, Accepts(row, q),
           began[u] \in 0 .. MaxEvents, NEW h \in Seq(Event), Assigned(h, row)
    PROVE  Assigned(Append(h, Recorded(row, q, u)), Written(row, q, u))
<1> DEFINE e == Recorded(row, q, u)
           new == Written(row, q, u)
           H == Append(h, e)
<1>1. e \in Event /\ e.actor = u
  BY RecordedEvent
<1>2. Len(H) = Len(h) + 1 /\ H[Len(h) + 1] = e /\ (\A n \in 1 .. Len(h) : H[n] = h[n]) /\ Len(h) \in Nat
  BY <1>1
<1>3. CASE q.op = "ASSIGN"
  <2>1. e.assignee = q.assignee /\ e.type \in Assignments /\ (e.type = "ASSIGNED" <=> row.assigned_to = Nobody)
    BY <1>3, RecordedEvent
  <2>2. new.assigned_to = q.assignee /\ new.assigned_by = u /\ q.assignee # Nobody
    BY <1>3, Accepted, UserAssumption DEF Written, Notes
  <2> HIDE DEF H, e, new
  <2>3. ASSUME NEW n \in 1 .. Len(H), H[n].type = "ASSIGNED", NEW k \in 1 .. n - 1
        PROVE  H[k].type \notin Assignments
    <3>1. CASE n \in 1 .. Len(h)
      BY <1>2, <2>3, <3>1 DEF Assigned
    <3>2. CASE n = Len(h) + 1
      <4>1. row.assigned_to = Nobody
        BY <1>2, <2>1, <2>3, <3>2
      <4>2. k \in 1 .. Len(h)
        BY <1>2, <3>2
      <4>3. QED
        BY <1>2, <4>1, <4>2 DEF Assigned
    <3>3. QED
      BY <1>2, <3>1, <3>2
  <2>4. Assigned(H, new)
    BY <1>1, <1>2, <2>1, <2>2, <2>3 DEF Assigned
  <2>5. QED
    BY <2>4 DEF H, e, new
<1>4. CASE q.op # "ASSIGN"
  <2>1. e.type = q.op /\ e.type \notin Assignments
    BY <1>4, RecordedEvent, Accepted DEF Assignments, Notes
  <2>2. new.assigned_to = row.assigned_to /\ new.assigned_by = row.assigned_by
    BY <1>4 DEF Written
  <2> HIDE DEF H, e, new
  <2>3. ASSUME NEW n \in 1 .. Len(H), H[n].type = "ASSIGNED", NEW k \in 1 .. n - 1
        PROVE  H[k].type \notin Assignments
    <3>1. n \in 1 .. Len(h) /\ k \in 1 .. Len(h)
      BY <1>2, <2>1, <2>3 DEF Assignments
    <3>2. QED
      BY <1>2, <2>3, <3>1 DEF Assigned
  <2>4. ASSUME new.assigned_to # Nobody
        PROVE  \E n \in 1 .. Len(H) :
                   /\ H[n].type \in Assignments
                   /\ H[n].assignee = new.assigned_to /\ H[n].actor = new.assigned_by
                   /\ \A k \in n + 1 .. Len(H) : H[k].type \notin Assignments
    <3>1. PICK n \in 1 .. Len(h) :
                   /\ h[n].type \in Assignments
                   /\ h[n].assignee = row.assigned_to /\ h[n].actor = row.assigned_by
                   /\ \A k \in n + 1 .. Len(h) : h[k].type \notin Assignments
      BY <2>2, <2>4 DEF Assigned
    <3>2. \A k \in n + 1 .. Len(H) : H[k].type \notin Assignments
      BY <1>2, <2>1, <3>1
    <3>3. QED
      BY <1>2, <2>2, <3>1, <3>2
  <2>5. ASSUME new.assigned_to = Nobody, NEW n \in 1 .. Len(H)
        PROVE  H[n].type \notin Assignments
    BY <1>2, <2>1, <2>2, <2>5 DEF Assigned
  <2>6. Assigned(H, new)
    BY <2>3, <2>4, <2>5 DEF Assigned
  <2>7. QED
    BY <2>6 DEF H, e, new
<1>5. QED
  BY <1>3, <1>4

\* ... and tells the disposition.
LEMMA StaysDisposed ==
    ASSUME NEW row \in Row, row.status # "NONE", NEW q \in Request, NEW u \in Users, Accepts(row, q),
           began[u] \in 0 .. MaxEvents, NEW h \in Seq(Event), Disposed(h, row)
    PROVE  Disposed(Append(h, Recorded(row, q, u)), Written(row, q, u))
<1> DEFINE e == Recorded(row, q, u)
           new == Written(row, q, u)
           H == Append(h, e)
<1>1. e \in Event /\ e.actor = u /\ (q.op # "ASSIGN" => e.type = q.op)
      /\ (q.op = "ASSIGN" => e.type \notin {"RESOLVED", "REOPENED"})
  BY RecordedEvent DEF Assignments
<1>2. Len(H) = Len(h) + 1 /\ H[Len(h) + 1] = e /\ (\A n \in 1 .. Len(h) : H[n] = h[n]) /\ Len(h) \in Nat
  BY <1>1
<1>3. /\ new.resolved_by # Nobody <=> new.status \in {"RESOLVED", "CLOSED"}
      /\ new.closed_by # Nobody <=> new.status = "CLOSED"
  <2> USE DEF Disposed
  <2>1. CASE q.op = "INVESTIGATION_STARTED"
    BY <2>1, Accepted DEF Written, Target, Moves, Notes
  <2>2. CASE q.op = "RESOLVED"
    BY <2>2, Accepted, UserAssumption DEF Written, Target, Moves, Notes
  <2>3. CASE q.op = "CLOSED"
    BY <2>3, Accepted, UserAssumption DEF Written, Target, Moves, Notes
  <2>4. CASE q.op = "REJECTED"
    BY <2>4, Accepted DEF Written, Target, Moves, Notes
  <2>5. CASE q.op = "REOPENED"
    BY <2>5, Accepted DEF Written, Target, Moves, Notes
  <2>6. CASE q.op \in {"ASSIGN"} \union Notes
    BY <2>6 DEF Written, Moves, Notes, Row
  <2>7. QED
    BY <2>1, <2>2, <2>3, <2>4, <2>5, <2>6, Accepted
<1>4. new.rejected <=> new.status = "REJECTED"
  <2>1. row.rejected <=> row.status = "REJECTED"
    BY DEF Disposed
  <2>2. new.rejected <=> q.op = "REJECTED" \/ (row.rejected /\ q.op # "REOPENED")
    BY DEF Written
  <2>3. new.status = "REJECTED" <=> q.op = "REJECTED" \/ (row.status = "REJECTED" /\ q.op # "REOPENED")
    BY Accepted DEF Written, Target, Moves, Notes
  <2> HIDE DEF new
  <2>4. QED
    BY <2>1, <2>2, <2>3
<1>5. ASSUME new.resolved_by # Nobody
      PROVE  \E n \in 1 .. Len(H) :
                 /\ H[n].type = "RESOLVED" /\ H[n].actor = new.resolved_by
                 /\ \A k \in n + 1 .. Len(H) : H[k].type \notin {"RESOLVED", "REOPENED"}
  <2>1. q.op # "REOPENED"
    BY <1>5 DEF Written
  <2>2. CASE q.op = "RESOLVED"
    <3>1. e.type = "RESOLVED" /\ e.actor = new.resolved_by
      BY <1>1, <2>2 DEF Written
    <3>2. QED
      BY <1>2, <3>1
  <2>3. CASE q.op # "RESOLVED"
    <3>1. new.resolved_by = row.resolved_by /\ e.type \notin {"RESOLVED", "REOPENED"}
      BY <1>1, <2>1, <2>3 DEF Written
    <3>2. PICK n \in 1 .. Len(h) :
                 /\ h[n].type = "RESOLVED" /\ h[n].actor = row.resolved_by
                 /\ \A k \in n + 1 .. Len(h) : h[k].type \notin {"RESOLVED", "REOPENED"}
      BY <1>5, <3>1 DEF Disposed
    <3> HIDE DEF H, e, new
    <3>3. QED
      BY <1>2, <3>1, <3>2
  <2>4. QED
    BY <2>2, <2>3
<1> HIDE DEF H, e, new
<1>6. Disposed(H, new)
  BY <1>3, <1>4, <1>5 DEF Disposed
<1>7. QED
  BY <1>6 DEF H, e, new

-----------------------------------------------------------------------------
(* The invariant                                                           *)

\* A row that has just been derived.
LEMMA FreshRow ==
    ASSUME NEW s \in {"NONE", "OPEN"}
    PROVE  /\ Fresh(s) \in Row
           /\ Fresh(s).status = s /\ Fresh(s).assigned_to = Nobody
           /\ Fresh(s).resolved_by = Nobody /\ Fresh(s).closed_by = Nobody /\ Fresh(s).rejected = FALSE
BY DEF Fresh, Row, Status

\* Initially there is no item.
LEMMA InvInit == Init => IndInv
<1> SUFFICES ASSUME Init PROVE IndInv
  OBVIOUS
<1>1. TypeOK
  BY FreshRow, BoundAssumption DEF Init, TypeOK
<1>2. LocksExclude /\ SeenIsCurrent /\ HistoryIsBounded /\ RequestsMeetItems
  BY BoundAssumption DEF Init, LocksExclude, Locks, SeenIsCurrent, HistoryIsBounded, RequestsMeetItems
<1>3. ASSUME NEW i \in Items PROVE Sound(history[i], item[i])
  <2>1. history[i] = <<>> /\ Len(history[i]) = 0 /\ item[i] = Fresh("NONE")
    BY DEF Init
  <2> DEFINE row == Fresh("NONE")
  <2>2. /\ row.status = "NONE" /\ row.assigned_to = Nobody
        /\ row.resolved_by = Nobody /\ row.closed_by = Nobody /\ row.rejected = FALSE
    BY FreshRow
  <2> HIDE DEF row
  <2>3. Linked(<<>>, row) /\ Assigned(<<>>, row)
    BY <2>2 DEF Linked, Assigned
  <2>4. Disposed(<<>>, row)
    BY <2>2 DEF Disposed
  <2>5. QED
    BY <2>1, <2>3, <2>4 DEF Sound, row
<1>4. QED
  BY <1>1, <1>2, <1>3, ItemByItem DEF IndInv

\* A derivation meets no handler: requests are about items that exist.
LEMMA CreateStep == ASSUME IndInv, NEW i \in Items, Create(i) PROVE IndInv'
<1> USE DEF IndInv
<1>1. Created \in Event
  BY BoundAssumption DEF Created, Event, Status
<1>2. item' = [item EXCEPT ![i] = Fresh("OPEN")] /\ history' = [history EXCEPT ![i] = <<Created>>]
      /\ UNCHANGED <<phase, req, seen, began>>
  BY DEF Create
<1>3. TypeOK'
  BY <1>1, <1>2, FreshRow DEF TypeOK
<1>4. \A u \in Users : phase[u] # "idle" => req[u].on \in Items /\ req[u].on # i
  BY DEF TypeOK, RequestsMeetItems, Create, Request
<1>5. LocksExclude' /\ SeenIsCurrent' /\ RequestsMeetItems'
  BY <1>2, <1>4 DEF TypeOK, LocksExclude, Locks, SeenIsCurrent, RequestsMeetItems
<1>6. HistoryIsBounded'
  BY <1>2, BoundAssumption DEF TypeOK, HistoryIsBounded
<1>7. ASSUME NEW j \in Items PROVE Sound(history[j], item[j])'
  <2>1. CASE j = i
    <3>1. history'[j] = <<Created>> /\ item'[j] = Fresh("OPEN")
      BY <1>2, <2>1 DEF TypeOK
    <3> DEFINE h == <<Created>>
    <3>2. Len(h) = 1 /\ h[1] = Created /\ h # <<>>
      OBVIOUS
    <3> HIDE DEF h
    <3>3. Linked(h, Fresh("OPEN"))
      BY <3>2, FreshRow DEF Linked, Created
    <3>4. Assigned(h, Fresh("OPEN"))
      BY <3>2, FreshRow DEF Assigned, Assignments, Created
    <3>5. Disposed(h, Fresh("OPEN"))
      BY FreshRow DEF Disposed
    <3>6. QED
      BY <3>1, <3>3, <3>4, <3>5 DEF Sound, h
  <2>2. CASE j # i
    <3>1. history'[j] = history[j] /\ item'[j] = item[j]
      BY <1>2, <2>2 DEF TypeOK
    <3>2. Sound(history[j], item[j])
      BY ItemByItem
    <3>3. QED
      BY <3>1, <3>2
  <2>3. QED
    BY <2>1, <2>2
<1>8. (FirstAssignmentIsKnown /\ HistoryIsAChain /\ DispositionIsCurrent)'
  <2>1. (\A j \in Items : Sound(history[j], item[j]))'
    BY <1>7
  <2>2. QED
    BY <2>1, ItemByItem
<1>9. QED
  BY <1>3, <1>5, <1>6, <1>8

\* The lock is granted, and the row under it accepts the request.
LEMMA LoadStep == ASSUME IndInv, NEW u \in Users, NEW q \in Request, Load(u, q) PROVE IndInv'
<1> USE DEF IndInv
<1>1. q.on \in Items /\ item[q.on].status # "NONE" /\ Accepts(item[q.on], q) /\ Len(history[q.on]) < MaxEvents
      /\ phase[u] = "idle" /\ ~Locked(q.on)
  BY DEF TypeOK, Load, Request, HasRoom
<1>2. /\ phase' = [phase EXCEPT ![u] = "save"] /\ req' = [req EXCEPT ![u] = q]
      /\ seen' = [seen EXCEPT ![u] = item[q.on]] /\ UNCHANGED <<item, history>>
  BY DEF Load
<1>3. PICK n \in 1 .. Len(history[q.on]) : began' = [began EXCEPT ![u] = n]
  BY DEF Load
<1>4. n \in 0 .. MaxEvents
  BY <1>1, <1>3, BoundAssumption DEF TypeOK
<1>5. TypeOK'
  BY <1>1, <1>2, <1>3, <1>4 DEF TypeOK
<1>6. LocksExclude'
  BY <1>1, <1>2 DEF TypeOK, LocksExclude, Locked, Locks
<1>7. SeenIsCurrent'
  BY <1>1, <1>2 DEF TypeOK, SeenIsCurrent
<1>8. RequestsMeetItems' /\ HistoryIsBounded'
  BY <1>1, <1>2 DEF TypeOK, RequestsMeetItems, HistoryIsBounded
<1>9. (FirstAssignmentIsKnown /\ HistoryIsAChain /\ DispositionIsCurrent)'
  BY <1>2, ItemByItem
<1>10. QED
  BY <1>5, <1>6, <1>7, <1>8, <1>9

\* A request that ends without a change.
LEMMA GiveUpStep == ASSUME IndInv, NEW u \in Users, GiveUp(u) PROVE IndInv'
<1> USE DEF IndInv
<1>1. Fresh("NONE") \in Row
  BY FreshRow
<1>2. TypeOK'
  BY <1>1, BoundAssumption DEF TypeOK, GiveUp, End
<1>3. LocksExclude' /\ SeenIsCurrent' /\ RequestsMeetItems' /\ HistoryIsBounded'
  BY DEF TypeOK, LocksExclude, Locks, SeenIsCurrent, RequestsMeetItems, HistoryIsBounded, GiveUp, End
<1>4. (FirstAssignmentIsKnown /\ HistoryIsAChain /\ DispositionIsCurrent)'
  BY ItemByItem DEF GiveUp
<1>5. QED
  BY <1>2, <1>3, <1>4

\* What a handler finds when it commits.
LEMMA Saving ==
    ASSUME IndInv, NEW u \in Users, Save(u)
    PROVE  LET i == req[u].on IN
           /\ i \in Items /\ req[u] \in Request /\ item[i] \in Row /\ item[i].status # "NONE"
           /\ Accepts(item[i], req[u]) /\ began[u] \in 0 .. MaxEvents
           /\ history[i] \in Seq(Event) /\ Len(history[i]) < MaxEvents
           /\ item' = [item EXCEPT ![i] = Written(item[i], req[u], u)]
           /\ history' = [history EXCEPT ![i] = Append(history[i], Recorded(item[i], req[u], u))]
<1> USE DEF IndInv
<1>1. req[u] \in Request /\ req[u].on \in Items
  BY DEF TypeOK, Save, Request
<1>2. seen[u] = item[req[u].on] /\ Accepts(item[req[u].on], req[u]) /\ Len(history[req[u].on]) < MaxEvents
  BY DEF SeenIsCurrent, Save
<1>3. item[req[u].on].status # "NONE"
  BY DEF RequestsMeetItems, Save
<1>4. QED
  BY <1>1, <1>2, <1>3 DEF TypeOK, Save

\* The action and its event are committed.
LEMMA SaveStep == ASSUME IndInv, NEW u \in Users, Save(u) PROVE IndInv'
<1> DEFINE i == req[u].on
           new == Written(item[i], req[u], u)
           e == Recorded(item[i], req[u], u)
<1>1. /\ i \in Items /\ req[u] \in Request /\ item[i] \in Row /\ item[i].status # "NONE"
      /\ Accepts(item[i], req[u]) /\ began[u] \in 0 .. MaxEvents
      /\ history[i] \in Seq(Event) /\ Len(history[i]) < MaxEvents
      /\ item' = [item EXCEPT ![i] = new]
      /\ history' = [history EXCEPT ![i] = Append(history[i], e)]
  BY Saving
<1>2. new \in Row /\ new.status # "NONE" /\ e \in Event
  BY <1>1, WrittenRow, RecordedEvent
<1>3. ASSUME NEW j \in Items PROVE Sound(history[j], item[j])'
  <2>1. Sound(history[j], item[j])
    BY ItemByItem DEF IndInv
  <2>2. CASE j = i
    <3>1. history'[j] = Append(history[i], e) /\ item'[j] = new
      BY <1>1, <2>2 DEF IndInv, TypeOK
    <3>2. Sound(Append(history[i], e), new)
      BY <1>1, <2>1, <2>2, StaysLinked, StaysAssigned, StaysDisposed DEF Sound
    <3>3. QED
      BY <3>1, <3>2
  <2>3. CASE j # i
    <3>1. history'[j] = history[j] /\ item'[j] = item[j]
      BY <1>1, <2>3 DEF IndInv, TypeOK
    <3>2. QED
      BY <2>1, <3>1
  <2>4. QED
    BY <2>2, <2>3
<1>4. (FirstAssignmentIsKnown /\ HistoryIsAChain /\ DispositionIsCurrent)'
  <2>1. (\A j \in Items : Sound(history[j], item[j]))'
    BY <1>3
  <2>2. QED
    BY <2>1, ItemByItem
<1>5. /\ phase' = [phase EXCEPT ![u] = "idle"] /\ req' = [req EXCEPT ![u] = NoRequest]
      /\ seen' = [seen EXCEPT ![u] = Fresh("NONE")] /\ began' = [began EXCEPT ![u] = 0] /\ phase[u] = "save"
  BY DEF Save, End
<1> HIDE DEF new, e
<1>6. TypeOK'
  BY <1>1, <1>2, <1>5, FreshRow, BoundAssumption DEF IndInv, TypeOK
<1>7. LocksExclude'
  BY <1>5 DEF IndInv, TypeOK, LocksExclude, Locks
<1>8. SeenIsCurrent'
  <2> SUFFICES ASSUME NEW v \in Users, phase'[v] = "save"
               PROVE  (LET j == req[v].on IN seen[v] = item[j] /\ Accepts(item[j], req[v]) /\ Len(history[j]) < MaxEvents)'
    BY DEF SeenIsCurrent
  <2>1. v # u /\ phase[v] = "save" /\ req'[v] = req[v] /\ seen'[v] = seen[v]
    BY <1>5 DEF IndInv, TypeOK
  <2>2. req[v].on \in Items /\ req[v].on # i
    BY <1>1, <1>5, <2>1 DEF IndInv, TypeOK, Request, LocksExclude, Locks
  <2>3. item'[req[v].on] = item[req[v].on] /\ history'[req[v].on] = history[req[v].on]
    BY <1>1, <2>2 DEF IndInv, TypeOK
  <2>4. QED
    BY <2>1, <2>3 DEF IndInv, SeenIsCurrent
<1>9. HistoryIsBounded'
  BY <1>1, <1>2, BoundAssumption DEF IndInv, TypeOK, HistoryIsBounded
<1>10. RequestsMeetItems'
  BY <1>1, <1>2, <1>5 DEF IndInv, TypeOK, RequestsMeetItems, Request
<1>11. QED
  BY <1>4, <1>6, <1>7, <1>8, <1>9, <1>10 DEF IndInv

\* Every step keeps the invariant.
LEMMA InvStep == IndInv /\ [Next]_vars => IndInv'
<1> SUFFICES ASSUME IndInv, [Next]_vars PROVE IndInv'
  OBVIOUS
<1>1. ASSUME NEW i \in Items, Create(i) PROVE IndInv'
  BY <1>1, CreateStep
<1>2. ASSUME NEW u \in Users, NEW q \in Request, Load(u, q) PROVE IndInv'
  BY <1>2, LoadStep
<1>3. ASSUME NEW u \in Users, Save(u) \/ GiveUp(u) PROVE IndInv'
  BY <1>3, SaveStep, GiveUpStep
<1>4. CASE UNCHANGED vars
  <2>1. (FirstAssignmentIsKnown /\ HistoryIsAChain /\ DispositionIsCurrent)'
    BY <1>4, ItemByItem DEF IndInv, vars
  <2>2. QED
    BY <1>4, <2>1 DEF vars, IndInv, TypeOK, LocksExclude, Locks, SeenIsCurrent, HistoryIsBounded, RequestsMeetItems
<1>5. QED
  BY <1>1, <1>2, <1>3, <1>4 DEF Next, Refuse

\* The invariant of the open-item workflow holds in every reachable state.
THEOREM Invariance == Spec => []IndInv
<1>1. QED
  BY InvInit, InvStep, PTL DEF Spec

\* Every variable keeps the type the schema gives it.
THEOREM TypeCorrect == Spec => []TypeOK
<1>1. IndInv => TypeOK
  BY DEF IndInv
<1>2. QED
  BY <1>1, Invariance, PTL

\* The history of an item is a chain of allowed moves that ends at its
\* status, and names its assignee, whoever works on it at the same time.
THEOREM HistoryIsAChainHolds == Spec => []HistoryIsAChain
<1>1. IndInv => HistoryIsAChain
  BY DEF IndInv
<1>2. QED
  BY <1>1, Invariance, PTL

\* An item shows the disposition of its last resolution, closure or
\* rejection, and none once it is reopened.
THEOREM DispositionIsCurrentHolds == Spec => []DispositionIsCurrent
<1>1. IndInv => DispositionIsCurrent
  BY DEF IndInv
<1>2. QED
  BY <1>1, Invariance, PTL

-----------------------------------------------------------------------------
(* What a step may do                                                      *)

\* No event is altered, and no item changes without one.
THEOREM HistoryIsAppendOnlyHolds == Spec => HistoryIsAppendOnly
<1> DEFINE Appended == \A i \in Items :
                           \/ UNCHANGED <<item[i], history[i]>>
                           \/ \E e \in Event : history'[i] = Append(history[i], e)
<1>1. ASSUME IndInv, [Next]_vars PROVE [Appended]_vars
  <2>1. ASSUME NEW j \in Items, Create(j) PROVE Appended
    <3>1. Created \in Event
      BY BoundAssumption DEF Created, Event, Status
    <3>2. history[j] = <<>>
      BY <1>1, <2>1 DEF IndInv, HistoryIsAChain, Create
    <3>3. history' = [history EXCEPT ![j] = <<Created>>] /\ item' = [item EXCEPT ![j] = Fresh("OPEN")]
      BY <2>1 DEF Create
    <3>4. <<Created>> = Append(<<>>, Created)
      OBVIOUS
    <3>5. QED
      BY <1>1, <3>1, <3>2, <3>3, <3>4 DEF IndInv, TypeOK
  <2>2. ASSUME NEW u \in Users, Save(u) PROVE Appended
    <3> DEFINE i == req[u].on
    <3>1. /\ i \in Items
          /\ item' = [item EXCEPT ![i] = Written(item[i], req[u], u)]
          /\ history' = [history EXCEPT ![i] = Append(history[i], Recorded(item[i], req[u], u))]
          /\ Recorded(item[i], req[u], u) \in Event
      BY <1>1, <2>2, Saving, RecordedEvent
    <3>2. QED
      BY <1>1, <3>1 DEF IndInv, TypeOK
  <2>3. ASSUME NEW u \in Users, (\E q \in Request : Load(u, q) \/ Refuse(u, q)) \/ GiveUp(u) PROVE [Appended]_vars
    BY <2>3 DEF Load, Refuse, GiveUp
  <2>4. QED
    BY <1>1, <2>1, <2>2, <2>3 DEF Next
<1>2. QED
  BY <1>1, Invariance, PTL DEF Spec, HistoryIsAppendOnly

\* A closed or rejected item changes by a reopening only.
THEOREM ClosedUntilReopenedHolds == Spec => ClosedUntilReopened
<1> DEFINE Final == \A i \in Items :
                        item[i].status \in {"CLOSED", "REJECTED"} /\ item'[i] # item[i] =>
                            history'[i][Len(history'[i])].type = "REOPENED"
<1>1. ASSUME IndInv, [Next]_vars PROVE [Final]_vars
  <2>1. ASSUME NEW j \in Items, Create(j) PROVE Final
    BY <1>1, <2>1 DEF IndInv, TypeOK, Create
  <2>2. ASSUME NEW u \in Users, Save(u) PROVE Final
    <3> SUFFICES ASSUME NEW i \in Items, item[i].status \in {"CLOSED", "REJECTED"}, item'[i] # item[i]
                 PROVE  history'[i][Len(history'[i])].type = "REOPENED"
      OBVIOUS
    <3> DEFINE e == Recorded(item[i], req[u], u)
    <3>1. /\ i = req[u].on /\ item[i] \in Row /\ req[u] \in Request /\ Accepts(item[i], req[u])
          /\ began[u] \in 0 .. MaxEvents /\ history[i] \in Seq(Event)
          /\ item'[i] = Written(item[i], req[u], u) /\ history'[i] = Append(history[i], e)
      BY <1>1, <2>2, Saving DEF IndInv, TypeOK
    <3>2. e \in Event /\ (req[u].op # "ASSIGN" => e.type = req[u].op)
      BY <3>1, RecordedEvent
    <3>3. req[u].op \in {"REOPENED"} \union Notes
      BY <3>1, Accepted
    <3>4. req[u].op \notin Notes
      BY <3>1 DEF Written, Notes, Moves, Row
    <3>5. history'[i][Len(history'[i])] = e
      BY <3>1, <3>2
    <3>6. QED
      BY <3>2, <3>3, <3>4, <3>5
  <2>3. ASSUME NEW u \in Users, (\E q \in Request : Load(u, q) \/ Refuse(u, q)) \/ GiveUp(u) PROVE [Final]_vars
    BY <2>3 DEF Load, Refuse, GiveUp
  <2>4. QED
    BY <1>1, <2>1, <2>2, <2>3 DEF Next
<1>2. QED
  BY <1>1, Invariance, PTL DEF Spec, ClosedUntilReopened
=============================================================================
