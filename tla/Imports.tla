------------------------------- MODULE Imports -------------------------------
(***************************************************************************)
(* The Excel data hub: files are uploaded into batches, and a batch is     *)
(* confirmed, row by row, in one transaction that holds the lock of the    *)
(* batch.  Rates come from files and from an endpoint of their own.        *)
(*                                                                         *)
(* A transaction sees what is committed and its own rows.  The insertion   *)
(* of a row that conflicts with another's uncommitted one waits for it.    *)
(*                                                                         *)
(* Source: api/v1/excel.py, services/excel_service.py,                     *)
(* services/bank_statement_service.py, api/v1/currencies.py.               *)
(***************************************************************************)
EXTENDS ExcelTemplates

CONSTANTS
    Users,          \* each sends one request at a time
    Batch,          \* ids of import batches
    Files,          \* what users upload: [template, entity, complete, rows]
    Authorized,     \* the entities each user may work for, and None if for all
    Rates,          \* what users enter as rates: [from, to, date, rate]
    None,           \* the entity of a file for no entity
    MaxConfirms,    \* bound on the confirmations of a batch
    MaxVersions     \* bound on the versions of a rate

\* A file's rows are a sequence; what entered a rate is told from what imported it.
ASSUME FileAssumption == \A f \in Files : Len(f.rows) \in Nat /\ DOMAIN f.rows = 1..Len(f.rows)
ASSUME SourceAssumption == \A u \in Users : u \notin Batch \X Nat

VARIABLES
    batch,          \* committed ImportBatches, NoBatch while there is none
    table,          \* committed rows but for rates
    rates,          \* committed FXRates
    work            \* each user's request

vars == <<batch, table, rates, work>>

NoBatch == [status |-> "NONE", history |-> <<>>]
Idle == [op |-> "idle"]

Init ==
    /\ batch = [b \in Batch |-> NoBatch]
    /\ table = {}
    /\ rates = {}
    /\ work = [u \in Users |-> Idle]

allows_entity(u, e) == e \in Authorized[u]

-----------------------------------------------------------------------------
(* Upload                                                                  *)

Duplicate(f, n) == \E m \in 1..n - 1 : duplicate_key(f.template, f.rows[m].row) = duplicate_key(f.template, f.rows[n].row)

Valid(f, n, seen) == validate_row(f.template, f.rows[n].row, f.rows[n].valid, seen)

Readable(f, seen) == \A n \in DOMAIN f.rows : ~MultipleResultsFound(f.template, f.rows[n].row, seen)

validate_rows(f, seen) == {n \in DOMAIN f.rows : Valid(f, n, seen) /\ ~Duplicate(f, n)}

\* A statement over a period that another batch has rows of.
annotate_statement_period_overlap(f) ==
    /\ f.template = BANK_STATEMENT
    /\ \E n \in DOMAIN f.rows, r \in Statements(table) :
           LET mine == {f.rows[m].row : m \in {k \in DOMAIN f.rows : f.rows[k].row.Account = f.rows[n].row.Account}}
           IN  /\ r.row.Account = f.rows[n].row.Account
               /\ \E s \in mine : s.Start <= r.row.End
               /\ \E s \in mine : s.End >= r.row.Start

create_batch_from_upload(f) ==
    [file |-> f, imported_rows |-> 0, history |-> <<>>,
     overlap |-> annotate_statement_period_overlap(f),
     status |-> IF ~f.complete THEN "FAILED"
                ELSE IF validate_rows(f, table) # {} THEN "READY_FOR_IMPORT" ELSE "VALIDATED"]

\* Nothing is imported yet.
upload_excel_file(u, b, f) ==
    /\ batch[b] = NoBatch /\ work[u] = Idle
    /\ allows_entity(u, f.entity)
    /\ f.complete => Readable(f, table)
    /\ batch' = [batch EXCEPT ![b] = create_batch_from_upload(f)]
    /\ UNCHANGED <<table, rates, work>>

-----------------------------------------------------------------------------
(* Confirmation                                                            *)

Confirming(u) == work[u].op \in {"row", "insert"}

\* Mutant: the batch is read without a lock.
Locked_Never(b) == FALSE

Locked(b) == \E u \in Users : Confirming(u) /\ work[u].batch = b

\* Whoever waits for the lock reads what the holder has committed.
load_import_batch_for_update(u, b) ==
    /\ work[u] = Idle /\ ~Locked(b)
    /\ batch[b].status \in {"READY_FOR_IMPORT", "PARTIALLY_IMPORTED"}
    /\ allows_entity(u, batch[b].file.entity)
    /\ Readable(batch[b].file, table)
    /\ Len(batch[b].history) < MaxConfirms
    /\ work' = [work EXCEPT ![u] = [op |-> "row", batch |-> b, next |-> 1, inserted |-> {}, versions |-> {},
                                    superseded |-> {}, existing |-> {}]]
    /\ UNCHANGED <<batch, table, rates>>

\* The rows and rates u's transaction sees.
Seen(u) == table \union work[u].inserted
Superseded(S, old) == {IF r \in old THEN [r EXCEPT !.is_current = FALSE] ELSE r : r \in S}
SeenRates(u) == Superseded(rates, work[u].superseded) \union work[u].versions

File(u) == batch[work[u].batch].file
Row(u) == File(u).rows[work[u].next].row

SameRate(r, s) == <<r.from, r.to, r.date>> = <<s.from, s.to, s.date>>
Current(r, S) == {s \in S : SameRate(r, s) /\ s.is_current}
RateOf(row) == [from |-> row.From, to |-> row.To, date |-> row.Date, rate |-> row.Rate]

\* is_current = FALSE is flushed with the insertion after it, so the version the
\* transaction has superseded last may be found once more, in place of the next.
Unflushed(u) ==
    {s \in SeenRates(u) : \E r \in work[u].versions :
        /\ SameRate(r, s) /\ r.version = s.version + 1
        /\ \A q \in work[u].versions : q.source[2] <= r.source[2]}

Existing(u) ==
    LET r == RateOf(Row(u))
    IN  {Current(r, SeenRates(u))} \union {{s} : s \in {t \in Unflushed(u) : SameRate(r, t)}}

\* The next row is passed over, or will be inserted. Rows are validated again,
\* after those before them have been inserted.
confirm_row(u) ==
    LET f == File(u)
        n == work[u].next
        refused == f.template.owner # "" /\ resolve_entity_id(f.template, Row(u), Seen(u)) \notin Authorized[u]
    IN  /\ work[u].op = "row" /\ n <= Len(f.rows)
        /\ ~MultipleResultsFound(f.template, Row(u), Seen(u))
        /\ IF ~Valid(f, n, Seen(u)) \/ Duplicate(f, n) \/ refused
           THEN work' = [work EXCEPT ![u].next = n + 1]
           ELSE \E existing \in IF f.template = FX_RATES THEN Existing(u) ELSE {{}} :
                    work' = [work EXCEPT ![u].op = "insert", ![u].existing = existing]
        /\ UNCHANGED <<batch, table, rates>>

Copies(b, n, rows) == Cardinality({r \in rows : r.source = <<b, n>>})

\* A uniqueness that the row or its key violates fails the request, or makes
\* it wait if the other row is not committed.
import_row(u) ==
    LET b == work[u].batch
        n == work[u].next
        new == [template |-> File(u).template, row |-> Row(u), source |-> <<b, n>>,
                copy |-> Copies(b, n, Seen(u)) + 1, entity |-> resolve_entity_id(File(u).template, Row(u), Seen(u))]
    IN  /\ work[u].op = "insert" /\ File(u).template # FX_RATES
        /\ \A r \in table : ~Conflicts(new, r)
        /\ \A v \in Users : Confirming(v) => \A r \in work[v].inserted : ~Conflicts(new, r)
        /\ work' = [work EXCEPT ![u].op = "row", ![u].next = n + 1, ![u].inserted = @ \union {new}]
        /\ UNCHANGED <<batch, table, rates>>

\* Mutant: versions need not differ.
uq_fx_rate_identity_None(row) == TRUE

uq_fx_rate_identity(row) ==
    \A r \in rates \union UNION {IF Confirming(v) THEN work[v].versions ELSE {} : v \in Users} :
        ~(SameRate(row, r) /\ row.version = r.version)

NextVersion(existing) == IF existing = {} THEN 1 ELSE (CHOOSE s \in existing : TRUE).version + 1

Version(r, existing, source) ==
    [from |-> r.from, to |-> r.to, date |-> r.date, rate |-> r.rate, version |-> NextVersion(existing),
     is_current |-> TRUE, source |-> source]

import_fx_rate_row(u) ==
    LET new == Version(RateOf(Row(u)), work[u].existing, <<work[u].batch, work[u].next>>)
    IN  /\ work[u].op = "insert" /\ File(u).template = FX_RATES
        /\ new.version <= MaxVersions
        /\ uq_fx_rate_identity(new)
        /\ work' = [work EXCEPT ![u].op = "row", ![u].next = @ + 1,
                                ![u].versions = Superseded(@, work[u].existing) \union {new},
                                ![u].superseded = @ \union (work[u].existing \intersect rates)]
        /\ UNCHANGED <<batch, table, rates>>

StatusOf(imported, total) ==
    IF imported = 0 THEN "FAILED" ELSE IF imported < total THEN "PARTIALLY_IMPORTED" ELSE "IMPORTED"

confirm_import(u) ==
    LET b == work[u].batch
        imported == Cardinality(work[u].inserted) + Cardinality(work[u].versions)
        status == StatusOf(imported, Len(File(u).rows))
    IN  /\ work[u].op = "row" /\ work[u].next > Len(File(u).rows)
        /\ batch' = [batch EXCEPT ![b].status = status, ![b].imported_rows = imported,
                                  ![b].history = Append(@, status)]
        /\ table' = Seen(u)
        /\ rates' = SeenRates(u)
        /\ work' = [work EXCEPT ![u] = Idle]

-----------------------------------------------------------------------------
(* Rates that are entered                                                  *)

ReadRate(u, r) ==
    /\ work[u] = Idle /\ allows_entity(u, None)
    /\ work' = [work EXCEPT ![u] = [op |-> "rate", rate |-> r, existing |-> Current(r, rates)]]
    /\ UNCHANGED <<batch, table, rates>>

create_fx_rate(u) ==
    LET existing == work[u].existing
        new == Version(work[u].rate, existing, u)
    IN  /\ work[u].op = "rate"
        /\ new.version <= MaxVersions
        /\ uq_fx_rate_identity(new)
        /\ rates' = Superseded(rates, existing) \union {new}
        /\ work' = [work EXCEPT ![u] = Idle]
        /\ UNCHANGED <<batch, table>>

\* A request fails, and its transaction with it: a uniqueness is violated, a
\* lookup finds too much, two requests wait for each other, or the process ends.
GiveUp(u) ==
    /\ work[u] # Idle
    /\ work' = [work EXCEPT ![u] = Idle]
    /\ UNCHANGED <<batch, table, rates>>

Next ==
    \E u \in Users :
        \/ \E b \in Batch, f \in Files : upload_excel_file(u, b, f)
        \/ \E b \in Batch : load_import_batch_for_update(u, b)
        \/ confirm_row(u)
        \/ import_row(u)
        \/ import_fx_rate_row(u)
        \/ confirm_import(u)
        \/ \E r \in Rates : ReadRate(u, r)
        \/ create_fx_rate(u)
        \/ GiveUp(u)

Spec == Init /\ [][Next]_vars

-----------------------------------------------------------------------------
(* Properties                                                              *)

\* However statements overlap, and whoever confirms them at the same time, a
\* transaction the bank has given a reference is imported once, whatever its
\* narration and however its direction is spelled.
\* (bank_statement_excel_template.py:136-159 and 228-249, the unique index)
StrongIdentityOnce ==
    \A r, s \in {t \in Statements(table) : has_strong_identity(t.row)} :
        /\ \A c \in {"Account", "Date", "Amount", "Reference"} : r.row[c] = s.row[c]
        /\ normalize_entry_type(r.row.Type) = normalize_entry_type(s.row.Type)
        => r = s

RowsOf(b, n) == {r \in table \union rates : r.source = <<b, n>>}

\* A batch that was not confirmed has left no row. One that is imported whole
\* has left each of its rows once and is never confirmed again; only one that
\* was imported in part is. (excel_service.py:215-222, the lock of the batch)
WholeImportsAreFinal ==
    \A b \in Batch :
        LET history == batch[b].history
        IN  /\ \A i \in 1..Len(history) - 1 : history[i] = "PARTIALLY_IMPORTED"
            /\ history = <<>> => \A r \in table \union rates : r.source \notin {b} \X Nat
            /\ history = <<"IMPORTED">> =>
                   \A n \in DOMAIN batch[b].file.rows : Cardinality(RowsOf(b, n)) = 1

\* However imports and corrections of a rate interleave, the versions of a rate
\* are numbered without a gap and the last one alone is current.
\* (excel_templates.py:460-485, currencies.py:56-82, uq_fx_rate_identity)
OneCurrentRate ==
    \A r \in rates :
        LET versions == {s \in rates : SameRate(r, s)}
        IN  /\ {s.version : s \in versions} = 1..Cardinality(versions)
            /\ {s \in versions : s.is_current} = {s \in versions : s.version = Cardinality(versions)}

-----------------------------------------------------------------------------
(* The invariant these rest on                                             *)

RateFields == {"from", "to", "date", "rate", "version", "is_current", "source"}

\* A confirmation is of a batch, and at one of its rows or past the last.
AtARow(u) ==
    /\ DOMAIN work[u] = {"op", "batch", "next", "inserted", "versions", "superseded", "existing"}
    /\ work[u].batch \in Batch
    /\ work[u].next \in 1..Len(File(u).rows) + 1
    /\ work[u].op = "insert" => work[u].next <= Len(File(u).rows)
    /\ \A r \in work[u].versions : DOMAIN r = RateFields

RequestsAreTyped ==
    /\ DOMAIN batch = Batch /\ DOMAIN work = Users
    /\ \A r \in rates : DOMAIN r = RateFields
    /\ \A b \in Batch :
          \/ batch[b] = NoBatch
          \/ /\ DOMAIN batch[b] = {"file", "imported_rows", "history", "overlap", "status"}
             /\ batch[b].file \in Files
    /\ \A u \in Users : Confirming(u) => AtARow(u)

\* The lock of a batch has one holder, and the batch may still be confirmed.
BatchesAreLocked ==
    /\ \A u, v \in Users : Confirming(u) /\ Confirming(v) /\ work[u].batch = work[v].batch => u = v
    /\ \A u \in Users : Confirming(u) => batch[work[u].batch].status \in {"READY_FOR_IMPORT", "PARTIALLY_IMPORTED"}

\* A batch that may be confirmed has been confirmed in part at most.
Outcome == {"FAILED", "PARTIALLY_IMPORTED", "IMPORTED"}
HistoryIsOpen(b) ==
    LET history == batch[b].history
    IN  /\ history \in Seq(Outcome)
        /\ \A i \in 1..Len(history) - 1 : history[i] = "PARTIALLY_IMPORTED"
        /\ batch[b].status \in {"READY_FOR_IMPORT", "PARTIALLY_IMPORTED"} =>
               \A i \in 1..Len(history) : history[i] = "PARTIALLY_IMPORTED"

\* A transaction has one row at most for each row of the file it has passed.
RowsHaveSources(u) ==
    LET mine == work[u].inserted \union work[u].versions
    IN  /\ IsFiniteSet(work[u].inserted) /\ IsFiniteSet(work[u].versions)
        /\ IF File(u).template = FX_RATES THEN work[u].inserted = {} ELSE work[u].versions = {}
        /\ \A r \in mine : \E n \in 1..work[u].next - 1 : r.source = <<work[u].batch, n>>
        /\ \A r, s \in mine : r.source = s.source => r = s

Only(S, b, n) == \E r \in S : r.source = <<b, n>> /\ \A s \in S : s.source = <<b, n>> => s = r
NoneOf(S, b, n) == \A r \in S : r.source # <<b, n>>

\* What a batch has left in the tables.
RowsAreAccounted(b) ==
    /\ batch[b].history = <<>> => \A r \in table \union rates : r.source \notin {b} \X Nat
    /\ batch[b].history = <<"IMPORTED">> =>
           \A n \in 1..Len(batch[b].file.rows) :
               \/ Only(table, b, n) /\ NoneOf(rates, b, n)
               \/ NoneOf(table, b, n) /\ Only(rates, b, n)

BatchesInv ==
    /\ RequestsAreTyped /\ BatchesAreLocked
    /\ \A b \in Batch : HistoryIsOpen(b) /\ RowsAreAccounted(b)
    /\ \A u \in Users : Confirming(u) => RowsHaveSources(u)

\* Rows a strong identity tells apart are apart before they are committed.
SameIdentity(r, s) ==
    /\ r.template = BANK_STATEMENT /\ s.template = BANK_STATEMENT
    /\ has_strong_identity(r.row) /\ compute_duplicate_key(r.row) = compute_duplicate_key(s.row)

Uncommitted == UNION {work[u].inserted : u \in {v \in Users : Confirming(v)}}

IdentityInv == \A r, s \in table \union Uncommitted : SameIdentity(r, s) => r = s

\* The versions of one rate are numbered from 1, and the last is current.
Chained(versions) ==
    /\ \A r \in versions :
          /\ r.version \in Nat \ {0} /\ r.is_current \in BOOLEAN
          /\ \A s \in versions : r.version = s.version => r = s
          /\ r.version = 1 \/ \E s \in versions : r.version = s.version + 1
          /\ r.is_current <=> \A s \in versions : s.version <= r.version
    /\ versions # {} => \E r \in versions : r.is_current

Family(r, S) == {s \in S : SameRate(r, s)}
Chains(S) == \A r \in S : Chained(Family(r, S))

\* What a request has read as current still is, or its successor is committed
\* or one of its own versions.
ReadCurrent(r, existing, S, own) ==
    \/ existing = Current(r, S)
    \/ \E s \in rates \union own : SameRate(r, s) /\ s.version = NextVersion(existing)

ReadsAreCurrent(u) ==
    /\ work[u].op = "rate" => ReadCurrent(work[u].rate, work[u].existing, rates, {})
    /\ work[u].op = "insert" /\ File(u).template = FX_RATES =>
          ReadCurrent(RateOf(Row(u)), work[u].existing, SeenRates(u), work[u].versions)

\* A transaction that has written a version of a rate follows the committed
\* one, which no other transaction does.
VersionsFollow(u) ==
    /\ Chains(SeenRates(u))
    /\ work[u].superseded = {s \in rates : s.is_current /\ Family(s, work[u].versions) # {}}
    /\ \A r \in work[u].versions :
          /\ \A s \in rates : SameRate(r, s) => s.version < r.version
          /\ \E s \in Family(r, work[u].versions) : s.version = NextVersion(Current(r, rates))
    /\ \A v \in Users \ {u} : Confirming(v) => \A r \in work[u].versions : Family(r, work[v].versions) = {}

RatesInv ==
    /\ Chains(rates)
    /\ \A u \in Users : ReadsAreCurrent(u) /\ (Confirming(u) => VersionsFollow(u))

ImportsInv == BatchesInv /\ IdentityInv /\ RatesInv

-----------------------------------------------------------------------------
(* What a reader may expect, and does not hold                             *)

\* "the final imported_rows/skipped_rows counts and the batch's final status are
\* always consistent with what was actually persisted": docs/STAGE_5A section 5.
CountsAgree ==
    \A b \in Batch :
        batch[b].status \in {"FAILED", "PARTIALLY_IMPORTED", "IMPORTED"} =>
            batch[b].imported_rows = Cardinality({r \in table \union rates : \E n \in 1..9 : r.source = <<b, n>>})

\* "it can never also import": bank_statement_service.py:34-37.
ConfirmedOnce == \A r, s \in table : r.source = s.source => r = s

\* A reissued statement that writes an amount another way, as 100.00, is
\* recognised: "never silently treated" twice, section 7 of docs/STAGE_5A.
AmountsAreNumbers ==
    \A r, s \in Statements(table) : r.row.Reference # "" /\ r.row.Reference = s.row.Reference => r = s

\* "the second import should identify the overlap": bank_statement_service.py:51.
OverlapIsAnnounced ==
    \A r, s \in Statements(table) :
        r.source[1] # s.source[1] /\ r.row.Account = s.row.Account /\ r.row.Start <= s.row.End /\ s.row.Start <= r.row.End
            => \E b \in {r.source[1], s.source[1]} : batch[b].overlap
=============================================================================
