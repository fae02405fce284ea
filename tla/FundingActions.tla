--------------------------- MODULE FundingActions ---------------------------
(***************************************************************************)
(* Funding actions: proposals to draw or repay, each a workflow record     *)
(* linked to at most one drawdown or repayment.  No handler locks a row:   *)
(* a move reads the action, looks at the linked transaction and overwrites *)
(* the status, and so two moves of one action may cross.                   *)
(*                                                                         *)
(* Source: api/v1/funding.py, services/funding_action_validation.py,       *)
(* models/facility.py.                                                     *)
(***************************************************************************)
EXTENDS Integers

CONSTANTS
    FundingAction,
    Transaction,     \* the drawdowns and repayments
    Senders,           \* each sends one request at a time
    Nil,
    linked           \* the transaction of each action, or Nil

ASSUME LinkAssumption ==
    /\ Nil \notin FundingAction \union Transaction
    /\ linked \in [FundingAction -> Transaction \union {Nil}]

VARIABLES
    status,          \* of each action; "NONE" while it does not exist
    transaction,     \* how far the drawdown or repayment itself has come
    step, action, to    \* each user's handler: its next step, action and goal

favars == <<status, transaction, step, action, to>>

FUNDING_ACTION_STATUS_TRANSITIONS == [
    DRAFT        |-> {"SUBMITTED", "CANCELLED"},
    SUBMITTED    |-> {"UNDER_REVIEW", "REJECTED", "CANCELLED"},
    UNDER_REVIEW |-> {"APPROVED", "REJECTED", "CANCELLED"},
    APPROVED     |-> {"EXECUTED", "CANCELLED"},
    EXECUTED     |-> {"COMPLETED"},
    COMPLETED    |-> {},
    REJECTED     |-> {},
    CANCELLED    |-> {}]
FundingActionStatus == DOMAIN FUNDING_ACTION_STATUS_TRANSITIONS

FAInit ==
    /\ status = [a \in FundingAction |-> "NONE"]
    /\ transaction = [t \in Transaction |-> "OPEN"]
    /\ step = [u \in Senders |-> "idle"]
    /\ action = [u \in Senders |-> Nil]
    /\ to = [u \in Senders |-> "DRAFT"]

-----------------------------------------------------------------------------
(* The transactions                                                        *)

\* A drawdown is executed, a repayment paid in part or in full, through
\* their own endpoints; neither is ever undone.
Pay(t, progress) ==
    /\ transaction[t] # "DONE"
    /\ transaction' = [transaction EXCEPT ![t] = progress]
    /\ UNCHANGED <<status, step, action, to>>

\* Mutant: a repayment paid in part will do.
Done_InPart(t) == transaction[t] # "OPEN"

\* What an action that is to be EXECUTED asks of its transaction: a drawdown
\* EXECUTED, a repayment PAID.
Done(t) == transaction[t] = "DONE"

-----------------------------------------------------------------------------
(* Creation                                                                *)

Linked(a) == {other \in FundingAction \ {a} : status[other] # "NONE" /\ linked[other] = linked[a]}

StartRequest(u, a, next, goal) ==
    /\ step' = [step EXCEPT ![u] = next]
    /\ action' = [action EXCEPT ![u] = a]
    /\ to' = [to EXCEPT ![u] = goal]

\* Mutant: the handler keeps the action of the request before.
EndRequest_KeepsAction(u) == StartRequest(u, action[u], "idle", "DRAFT")

EndRequest(u) == StartRequest(u, Nil, "idle", "DRAFT")

\* validate_funding_action: no committed action has the same transaction.
RequestCreate(u, a) ==
    /\ step[u] = "idle"
    /\ status[a] = "NONE"
    /\ \A v \in Senders : action[v] # a
    /\ linked[a] # Nil => Linked(a) = {}
    /\ StartRequest(u, a, "insert", "DRAFT")
    /\ UNCHANGED <<status, transaction>>

\* Mutant: there are no partial unique indexes.
UniqueLink_None(a) == TRUE

\* The partial unique indexes on the link: of two inserts the later fails.
UniqueLink(a) == linked[a] # Nil => Linked(a) = {}

Insert(u) ==
    /\ step[u] = "insert"
    /\ UniqueLink(action[u])
    /\ status' = [status EXCEPT ![action[u]] = "DRAFT"]
    /\ UNCHANGED transaction
    /\ EndRequest(u)

-----------------------------------------------------------------------------
(* Moves                                                                   *)

RequestMove(u, a, goal) ==
    /\ step[u] = "idle"
    /\ status[a] # "NONE"
    /\ goal \in FUNDING_ACTION_STATUS_TRANSITIONS[status[a]]
    /\ StartRequest(u, a, IF goal = "EXECUTED" THEN "link" ELSE "write", goal)
    /\ UNCHANGED <<status, transaction>>

CheckLink(u) ==
    /\ step[u] = "link"
    /\ linked[action[u]] # Nil => Done(linked[action[u]])
    /\ StartRequest(u, action[u], "write", to[u])
    /\ UNCHANGED <<status, transaction>>

Write(u) ==
    /\ step[u] = "write"
    /\ status' = [status EXCEPT ![action[u]] = to[u]]
    /\ UNCHANGED transaction
    /\ EndRequest(u)

\* A refusal, an error or a lost connection: nothing is written.
DropRequest(u) ==
    /\ step[u] # "idle"
    /\ UNCHANGED <<status, transaction>>
    /\ EndRequest(u)

FANext ==
    \/ \E t \in Transaction : Pay(t, "PARTIALLY_PAID") \/ Pay(t, "DONE")
    \/ \E u \in Senders :
          \/ \E a \in FundingAction :
                RequestCreate(u, a) \/ \E goal \in FundingActionStatus : RequestMove(u, a, goal)
          \/ Insert(u) \/ CheckLink(u) \/ Write(u) \/ DropRequest(u)

FASpec == FAInit /\ [][FANext]_favars

-----------------------------------------------------------------------------
(* Properties                                                              *)

\* Every variable holds a value the schema gives it, and a handler that is
\* on its way to EXECUTED has the action it read.
FATypeOK ==
    /\ status \in [FundingAction -> FundingActionStatus \union {"NONE"}]
    /\ transaction \in [Transaction -> {"OPEN", "PARTIALLY_PAID", "DONE"}]
    /\ step \in [Senders -> {"idle", "insert", "link", "write"}]
    /\ action \in [Senders -> FundingAction \union {Nil}]
    /\ to \in [Senders -> FundingActionStatus]
    /\ \A u \in Senders : action[u] = Nil <=> step[u] = "idle"
    /\ \A u \in Senders : step[u] \in {"link", "write"} => status[action[u]] # "NONE"

\* An action that says EXECUTED or COMPLETED has a transaction that really
\* was executed or paid in full, although no move locks what it reads and
\* moves that cross overwrite each other.
ExecutedIsBacked ==
    \A a \in FundingAction :
        status[a] \in {"EXECUTED", "COMPLETED"} /\ linked[a] # Nil => transaction[linked[a]] = "DONE"

\* No two actions are linked to one drawdown or repayment, however their
\* creations interleave.
OneActionPerTransaction ==
    \A a, b \in FundingAction :
        a # b /\ status[a] # "NONE" /\ status[b] # "NONE" /\ linked[a] # Nil => linked[a] # linked[b]

\* What a handler has found out about the transaction still holds when it
\* writes: a transaction that was executed or paid stays so.
ChecksLast ==
    \A u \in Senders :
        step[u] = "write" /\ to[u] \in {"EXECUTED", "COMPLETED"} /\ linked[action[u]] # Nil =>
            transaction[linked[action[u]]] = "DONE"

\* The invariant the proofs rest on; the names tell this specification from
\* that of Facilities, next to which it is proved about.
FAInv == FATypeOK /\ ExecutedIsBacked /\ ChecksLast /\ OneActionPerTransaction

\* An action is CANCELLED "never once EXECUTED".
NotCancelledOnceExecuted ==
    [][\A a \in FundingAction :
          status'[a] = "CANCELLED" => status[a] \notin {"EXECUTED", "COMPLETED"}]_favars

=============================================================================
