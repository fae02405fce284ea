------------------------------ MODULE OpenItems ------------------------------
(***************************************************************************)
(* The Stage 5E workflow of open items: assignment, investigation,         *)
(* resolution, closure, rejection and reopening, each one request that     *)
(* locks the item's row, and the append-only history of every item.        *)
(*                                                                         *)
(* Source: services/reconciliation_open_item_service.py (workflow) and     *)
(* api/v1/reconciliation_open_items.py.                                    *)
(***************************************************************************)
EXTENDS Naturals, Sequences, FiniteSets

CONSTANTS
    Items,
    Users,        \* each sends one request at a time
    Assignable,   \* active users who hold INVESTIGATE on the items' entity
    Nobody,
    MaxEvents,    \* bound on the history of an item
    MaxNotes      \* bound on its assignments, comments and evidence

ASSUME UserAssumption == Assignable \subseteq Users /\ Nobody \notin Users
ASSUME BoundAssumption == MaxEvents \in Nat \ {0} /\ MaxNotes \in Nat

VARIABLES
    item,      \* committed row of each item
    history,   \* its committed events, oldest first
    phase, req,\* the request each user's handler has the lock for
    seen,      \* the row the handler loaded under its lock
    began      \* how many events the item had when the transaction began

vars == <<item, history, phase, req, seen, began>>

Status == {"NONE", "OPEN", "UNDER_REVIEW", "RESOLVED", "CLOSED", "REJECTED"}
OPEN_ITEM_TRANSITIONS == [
    NONE         |-> {},
    OPEN         |-> {"UNDER_REVIEW", "REJECTED"},
    UNDER_REVIEW |-> {"RESOLVED", "REJECTED"},
    RESOLVED     |-> {"CLOSED", "OPEN"},
    CLOSED       |-> {"OPEN"},
    REJECTED     |-> {"OPEN"}]
ACTIONABLE_STATUSES == {"OPEN", "UNDER_REVIEW"}

\* The status each workflow action moves to.
Target == [INVESTIGATION_STARTED |-> "UNDER_REVIEW", RESOLVED |-> "RESOLVED", CLOSED |-> "CLOSED",
           REJECTED |-> "REJECTED", REOPENED |-> "OPEN"]
Moves == {"INVESTIGATION_STARTED", "RESOLVED", "CLOSED", "REJECTED", "REOPENED"}
Notes == {"COMMENT", "EVIDENCE"}
Assignments == {"ASSIGNED", "REASSIGNED"}

Row == [status : Status, assigned_to : Users \union {Nobody}, assigned_by : Users \union {Nobody},
        resolved_by : Users \union {Nobody}, closed_by : Users \union {Nobody}, rejected : BOOLEAN]
Event == [type : {"CREATED"} \union Moves \union Notes \union Assignments, actor : Users \union {Nobody},
          from : Status, to : Status, assignee : Users \union {Nobody},
          created_at : 0 .. MaxEvents]
Request == [op : Moves \union Notes, on : Items] \union [op : {"ASSIGN"}, on : Items, assignee : Users]

Fresh(status) == [status |-> status, assigned_to |-> Nobody, assigned_by |-> Nobody,
                  resolved_by |-> Nobody, closed_by |-> Nobody, rejected |-> FALSE]
NoRequest == [op |-> "NONE"]

Init ==
    /\ item = [i \in Items |-> Fresh("NONE")]
    /\ history = [i \in Items |-> <<>>]
    /\ phase = [u \in Users |-> "idle"]
    /\ req = [u \in Users |-> NoRequest]
    /\ seen = [u \in Users |-> Fresh("NONE")]
    /\ began = [u \in Users |-> 0]

-----------------------------------------------------------------------------
\* u's handler holds the FOR UPDATE lock on item i.
Locks(u, i) == phase[u] = "save" /\ req[u].on = i

\* Mutant: the item is read without FOR UPDATE.
Locked_Never(i) == FALSE

Locked(i) == \E u \in Users : Locks(u, i)

\* Mutant: assignment ignores the item's status.
MayAssign_Always(row, q) == q.op = "ASSIGN" /\ q.assignee \in Assignable /\ row.assigned_to # q.assignee

\* assign_item and its endpoint: only actionable items, and only to another
\* user who may work them.
MayAssign(row, q) ==
    /\ q.op = "ASSIGN"
    /\ row.status \in ACTIONABLE_STATUSES
    /\ q.assignee \in Assignable
    /\ row.assigned_to # q.assignee

\* Comments and evidence are accepted in every status.
Accepts(row, q) ==
    \/ q.op \in Moves /\ Target[q.op] \in OPEN_ITEM_TRANSITIONS[row.status]
    \/ MayAssign(row, q)
    \/ q.op \in Notes

\* Mutant: a reopened item keeps its earlier disposition.
Written_KeepsDisposition(row, q, u) ==
    [row EXCEPT !.status = IF q.op \in Moves THEN Target[q.op] ELSE @,
                !.assigned_to = IF q.op = "ASSIGN" THEN q.assignee ELSE @,
                !.assigned_by = IF q.op = "ASSIGN" THEN u ELSE @,
                !.resolved_by = IF q.op = "RESOLVED" THEN u ELSE @,
                !.closed_by = IF q.op = "CLOSED" THEN u ELSE @,
                !.rejected = @ \/ q.op = "REJECTED"]

\* The columns an action writes.
Written(row, q, u) ==
    LET Set(op, column) == IF q.op = op THEN u ELSE IF q.op = "REOPENED" THEN Nobody ELSE column
    IN  [status      |-> IF q.op \in Moves THEN Target[q.op] ELSE row.status,
         assigned_to |-> IF q.op = "ASSIGN" THEN q.assignee ELSE row.assigned_to,
         assigned_by |-> IF q.op = "ASSIGN" THEN u ELSE row.assigned_by,
         resolved_by |-> Set("RESOLVED", row.resolved_by),
         closed_by   |-> Set("CLOSED", row.closed_by),
         rejected    |-> q.op = "REJECTED" \/ (row.rejected /\ q.op # "REOPENED")]

\* Mutant: an assignment is recorded under the request's own name.
EventType_Request(row, q) == q.op

EventType(row, q) ==
    IF q.op # "ASSIGN" THEN q.op ELSE IF row.assigned_to = Nobody THEN "ASSIGNED" ELSE "REASSIGNED"

\* Mutant: the event records the status of the row after the change.
Recorded_After(row, q, u) ==
    [type |-> EventType(row, q), actor |-> u,
     from |-> Written(row, q, u).status, to |-> Written(row, q, u).status,
     assignee |-> IF q.op = "ASSIGN" THEN q.assignee ELSE Nobody, created_at |-> began[u]]

Recorded(row, q, u) ==
    [type |-> EventType(row, q), actor |-> u,
     from |-> row.status, to |-> Written(row, q, u).status,
     assignee |-> IF q.op = "ASSIGN" THEN q.assignee ELSE Nobody, created_at |-> began[u]]

-----------------------------------------------------------------------------
\* The event an item begins with.
Created == [type |-> "CREATED", actor |-> Nobody, from |-> "NONE", to |-> "OPEN", assignee |-> Nobody, created_at |-> 0]

\* Mutant: ON CONFLICT DO UPDATE.
Create_Overwrites(i) ==
    /\ item' = [item EXCEPT ![i] = Fresh("OPEN")]
    /\ history' = [history EXCEPT ![i] = <<Created>>]
    /\ UNCHANGED <<phase, req, seen, began>>

\* A synchronization derives the item; one that exists is left alone.
Create(i) ==
    /\ item[i].status = "NONE"
    /\ item' = [item EXCEPT ![i] = Fresh("OPEN")]
    /\ history' = [history EXCEPT ![i] = <<Created>>]
    /\ UNCHANGED <<phase, req, seen, began>>

\* The bounds on a history.
HasRoom(h, q) ==
    /\ Len(h) < MaxEvents
    /\ q.op \in Moves \/ Cardinality({n \in 2 .. Len(h) : h[n].type \notin Moves}) < MaxNotes

\* A request is authenticated, waits for the item's lock and reads the row
\* under it. Authentication is the first statement of its transaction, whose
\* now(), which created_at defaults to, is of any moment since the item was there.
Load(u, q) ==
    LET i == q.on IN
    /\ phase[u] = "idle"
    /\ item[i].status # "NONE"
    /\ ~Locked(i)
    /\ Accepts(item[i], q)
    /\ HasRoom(history[i], q)
    /\ phase' = [phase EXCEPT ![u] = "save"]
    /\ req' = [req EXCEPT ![u] = q]
    /\ seen' = [seen EXCEPT ![u] = item[i]]
    /\ \E n \in 1 .. Len(history[i]) : began' = [began EXCEPT ![u] = n]
    /\ UNCHANGED <<item, history>>

\* The action does not fit the status the item has under its lock.
Refuse(u, q) ==
    /\ phase[u] = "idle"
    /\ ~Locked(q.on)
    /\ ~Accepts(item[q.on], q)
    /\ UNCHANGED vars

End(u) ==
    /\ phase' = [phase EXCEPT ![u] = "idle"]
    /\ req' = [req EXCEPT ![u] = NoRequest]
    /\ seen' = [seen EXCEPT ![u] = Fresh("NONE")]
    /\ began' = [began EXCEPT ![u] = 0]

\* The action, its event and its audit record are committed together.
Save(u) ==
    LET i == req[u].on IN
    /\ phase[u] = "save"
    /\ item' = [item EXCEPT ![i] = Written(@, req[u], u)]
    /\ history' = [history EXCEPT ![i] = Append(@, Recorded(seen[u], req[u], u))]
    /\ End(u)

\* A reason is missing, or the connection dies: nothing is written.
GiveUp(u) ==
    /\ phase[u] # "idle"
    /\ End(u)
    /\ UNCHANGED <<item, history>>

Next ==
    \/ \E i \in Items : Create(i)
    \/ \E u \in Users :
          \/ \E q \in Request : Load(u, q) \/ Refuse(u, q)
          \/ Save(u) \/ GiveUp(u)

Spec == Init /\ [][Next]_vars

-----------------------------------------------------------------------------
(* Properties                                                              *)

\* Every variable holds a value the schema gives it.
TypeOK ==
    /\ item \in [Items -> Row]
    /\ history \in [Items -> Seq(Event)]
    /\ phase \in [Users -> {"idle", "save"}]
    /\ req \in [Users -> Request \union {NoRequest}]
    /\ \A u \in Users : phase[u] # "idle" => req[u] \in Request
    /\ seen \in [Users -> Row]
    /\ began \in [Users -> 0 .. MaxEvents]

\* What the last committed events of an item say of it.
IsMove(e) == e.to \in OPEN_ITEM_TRANSITIONS[e.from]
After(i, n, types) == \E k \in n + 1 .. Len(history[i]) : history[i][k].type \in types

\* The assignee an item shows is that of the last assignment in its history;
\* only the first assignment is not a reassignment.
AssignmentIsRecorded ==
    \A i \in Items :
        /\ item[i].assigned_to # Nobody =>
              \E n \in 1 .. Len(history[i]) :
                  /\ history[i][n].type \in Assignments
                  /\ history[i][n].assignee = item[i].assigned_to
                  /\ history[i][n].actor = item[i].assigned_by
                  /\ ~After(i, n, Assignments)
        /\ \A n \in 1 .. Len(history[i]) :
              history[i][n].type = "ASSIGNED" =>
                  \A k \in 1 .. n - 1 : history[i][k].type \notin Assignments

\* The history is a chain of allowed moves from the item's creation to its
\* present status, although concurrent requests each name the status they
\* found, and its assignments are chained in the same way.
HistoryIsAChain ==
    /\ \A i \in Items :
        /\ history[i] = <<>> <=> item[i].status = "NONE"
        /\ \A n \in 1 .. Len(history[i]) :
              LET e == history[i][n] IN
              /\ e.from = IF n = 1 THEN "NONE" ELSE history[i][n - 1].to
              /\ n > 1 => e.from = e.to \/ IsMove(e)
        /\ history[i] # <<>> => history[i][Len(history[i])].to = item[i].status
    /\ AssignmentIsRecorded

\* The disposition an item shows is the one of its last resolution, closure
\* or rejection, and a reopened item shows none.
DispositionIsCurrent ==
    \A i \in Items :
        /\ item[i].resolved_by # Nobody <=> item[i].status \in {"RESOLVED", "CLOSED"}
        /\ item[i].closed_by # Nobody <=> item[i].status = "CLOSED"
        /\ item[i].rejected <=> item[i].status = "REJECTED"
        /\ item[i].resolved_by # Nobody =>
              \E n \in 1 .. Len(history[i]) :
                  /\ history[i][n].type = "RESOLVED" /\ history[i][n].actor = item[i].resolved_by
                  /\ ~After(i, n, {"RESOLVED", "REOPENED"})

\* The invariant these rest on. A handler that has the lock of an item has its
\* committed row, which accepts the request; one item has one such handler; and
\* an item nobody is assigned to never was assigned.
LocksExclude == \A i \in Items : \A u, v \in Users : Locks(u, i) /\ Locks(v, i) => u = v
SeenIsCurrent ==
    \A u \in Users : phase[u] = "save" =>
        LET i == req[u].on IN
        /\ seen[u] = item[i] /\ Accepts(item[i], req[u])
        /\ Len(history[i]) < MaxEvents
HistoryIsBounded == \A i \in Items : Len(history[i]) <= MaxEvents
RequestsMeetItems == \A u \in Users : phase[u] # "idle" => item[req[u].on].status # "NONE"
FirstAssignmentIsKnown ==
    \A i \in Items : item[i].assigned_to = Nobody =>
        \A n \in 1 .. Len(history[i]) : history[i][n].type \notin Assignments
IndInv ==
    /\ TypeOK /\ LocksExclude /\ SeenIsCurrent /\ HistoryIsBounded /\ RequestsMeetItems
    /\ FirstAssignmentIsKnown /\ HistoryIsAChain /\ DispositionIsCurrent

\* A closed or rejected item is never changed but by a reopening ("CLOSED
\* and REJECTED are terminal for ordinary actions").
ClosedUntilReopened ==
    [][\A i \in Items :
          item[i].status \in {"CLOSED", "REJECTED"} /\ item'[i] # item[i] =>
              history'[i][Len(history'[i])].type = "REOPENED"]_vars

\* A change of an item and its event are one step, and no event is altered.
HistoryIsAppendOnly ==
    [][\A i \in Items :
          \/ UNCHANGED <<item[i], history[i]>>
          \/ \E e \in Event : history'[i] = Append(history[i], e)]_vars

\* The history the endpoint lists by created_at shows the moves of an item
\* in the order they were made ("Chronological history").
ListedInOrder ==
    \A i \in Items : \A n \in 1 .. Len(history[i]) : \A k \in 1 .. n - 1 :
        IsMove(history[i][k]) /\ IsMove(history[i][n]) =>
            history[i][k].created_at <= history[i][n].created_at
=============================================================================
