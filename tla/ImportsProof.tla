---------------------------- MODULE ImportsProof -----------------------------
(***************************************************************************)
(* Proofs about Imports: what a batch leaves behind, that a transaction    *)
(* the bank has given a reference is imported once, and that the versions  *)
(* of a rate form one chain.                                               *)
(***************************************************************************)
EXTENDS Imports, FiniteSums, TLAPS

-----------------------------------------------------------------------------
(* What the steps of a request change                                      *)

Others(u) == \A v \in Users \ {u} : work'[v] = work[v]

Fields == {"op", "batch", "next", "inserted", "versions", "superseded", "existing"}

\* Everything of a confirmation but its place in the file and what it reads.
KeepsRows(u) ==
    /\ work'[u].batch = work[u].batch
    /\ work'[u].inserted = work[u].inserted
    /\ work'[u].versions = work[u].versions
    /\ work'[u].superseded = work[u].superseded

LEMMA UploadEffect ==
    ASSUME RequestsAreTyped, NEW u \in Users, NEW b \in Batch, NEW f \in Files, upload_excel_file(u, b, f)
    PROVE  /\ batch[b] = NoBatch /\ UNCHANGED <<table, rates, work>>
           /\ DOMAIN batch' = Batch
           /\ \A c \in Batch \ {b} : batch'[c] = batch[c]
           /\ DOMAIN batch'[b] = {"file", "imported_rows", "history", "overlap", "status"}
           /\ batch'[b].file \in Files /\ batch'[b].history = <<>>
BY DEF RequestsAreTyped, upload_excel_file, create_batch_from_upload

LEMMA LoadEffect ==
    ASSUME RequestsAreTyped, NEW u \in Users, NEW b \in Batch, load_import_batch_for_update(u, b)
    PROVE  /\ UNCHANGED <<batch, table, rates>> /\ DOMAIN work' = Users /\ Others(u)
           /\ ~Confirming(u) /\ Confirming(u)' /\ ~Locked(b)
           /\ batch[b].status \in {"READY_FOR_IMPORT", "PARTIALLY_IMPORTED"}
           /\ DOMAIN work'[u] = Fields
           /\ work'[u].op = "row" /\ work'[u].batch = b /\ work'[u].next = 1
           /\ work'[u].inserted = {} /\ work'[u].versions = {} /\ work'[u].superseded = {}
<1>1. work[u].op = "idle"
  BY DEF load_import_batch_for_update, Idle
<1>2. work' = [work EXCEPT ![u] = [op |-> "row", batch |-> b, next |-> 1, inserted |-> {}, versions |-> {},
                                   superseded |-> {}, existing |-> {}]]
  BY DEF load_import_batch_for_update
<1>3. work'[u] = [op |-> "row", batch |-> b, next |-> 1, inserted |-> {}, versions |-> {},
                  superseded |-> {}, existing |-> {}]
  BY <1>2 DEF RequestsAreTyped
<1>4. DOMAIN work' = Users /\ Others(u)
  BY <1>2 DEF RequestsAreTyped, Others
<1>. QED  BY <1>1, <1>3, <1>4 DEF load_import_batch_for_update, Confirming, Fields

\* A version found once more has a successor in the transaction.
LEMMA ExistingRead ==
    ASSUME NEW u, NEW found \in Existing(u)
    PROVE  ReadCurrent(RateOf(Row(u)), found, SeenRates(u), work[u].versions)
<1> DEFINE k == RateOf(Row(u))
<1>1. \/ found = Current(k, SeenRates(u))
      \/ \E s \in Unflushed(u) : SameRate(k, s) /\ found = {s}
  BY DEF Existing
<1>2. ASSUME NEW s \in Unflushed(u), SameRate(k, s), found = {s}
      PROVE  \E r \in work[u].versions : SameRate(k, r) /\ r.version = NextVersion(found)
  <2>1. PICK r \in work[u].versions : SameRate(r, s) /\ r.version = s.version + 1
    BY DEF Unflushed
  <2>2. (CHOOSE t \in found : TRUE) = s /\ found # {}
    BY <1>2
  <2>. QED  BY <1>2, <2>1, <2>2 DEF NextVersion, SameRate
<1>. QED  BY <1>1, <1>2 DEF ReadCurrent

LEMMA ConfirmRowEffect ==
    ASSUME RequestsAreTyped, NEW u \in Users, confirm_row(u)
    PROVE  /\ UNCHANGED <<batch, table, rates>> /\ DOMAIN work' = Users /\ Others(u)
           /\ Confirming(u) /\ Confirming(u)' /\ work[u].op = "row"
           /\ DOMAIN work'[u] = Fields /\ KeepsRows(u)
           /\ work[u].next <= Len(File(u).rows)
           /\ \/ work'[u].op = "row" /\ work'[u].next = work[u].next + 1
              \/ /\ work'[u].op = "insert" /\ work'[u].next = work[u].next
                 /\ File(u).template = FX_RATES =>
                        ReadCurrent(RateOf(Row(u)), work'[u].existing, SeenRates(u), work[u].versions)
<1>1. /\ work[u].op = "row" /\ Confirming(u) /\ DOMAIN work = Users /\ UNCHANGED <<batch, table, rates>>
      /\ work[u].next <= Len(File(u).rows) /\ DOMAIN work[u] = Fields
  BY DEF RequestsAreTyped, AtARow, confirm_row, Confirming, Fields
<1>2. \/ work' = [work EXCEPT ![u].next = work[u].next + 1]
      \/ \E existing \in IF File(u).template = FX_RATES THEN Existing(u) ELSE {{}} :
             work' = [work EXCEPT ![u].op = "insert", ![u].existing = existing]
  BY DEF confirm_row
<1>3. CASE work' = [work EXCEPT ![u].next = work[u].next + 1]
  BY <1>1, <1>3 DEF Others, KeepsRows, Fields, Confirming
<1>4. ASSUME NEW found, work' = [work EXCEPT ![u].op = "insert", ![u].existing = found]
      PROVE  /\ DOMAIN work' = Users /\ Others(u) /\ Confirming(u)' /\ DOMAIN work'[u] = Fields /\ KeepsRows(u)
             /\ work'[u].op = "insert" /\ work'[u].next = work[u].next /\ work'[u].existing = found
  BY <1>1, <1>4 DEF Others, KeepsRows, Fields, Confirming
<1>5. ASSUME File(u).template = FX_RATES, NEW found \in Existing(u)
      PROVE  ReadCurrent(RateOf(Row(u)), found, SeenRates(u), work[u].versions)
  BY <1>5, ExistingRead
<1>. QED  BY <1>1, <1>2, <1>3, <1>4, <1>5

LEMMA ImportRowEffect ==
    ASSUME RequestsAreTyped, NEW u \in Users, import_row(u)
    PROVE  \E new :
           /\ UNCHANGED <<batch, table, rates>> /\ DOMAIN work' = Users /\ Others(u)
           /\ Confirming(u) /\ Confirming(u)' /\ work[u].op = "insert" /\ work'[u].op = "row"
           /\ DOMAIN work'[u] = Fields
           /\ work'[u].batch = work[u].batch /\ work'[u].next = work[u].next + 1
           /\ work'[u].versions = work[u].versions /\ work'[u].superseded = work[u].superseded
           /\ work'[u].inserted = work[u].inserted \union {new}
           /\ new.source = <<work[u].batch, work[u].next>>
           /\ File(u).template # FX_RATES
           /\ \A r \in table : ~Conflicts(new, r)
           /\ \A v \in Users : Confirming(v) => \A r \in work[v].inserted : ~Conflicts(new, r)
<1> DEFINE new == [template |-> File(u).template, row |-> Row(u), source |-> <<work[u].batch, work[u].next>>,
                   copy |-> Copies(work[u].batch, work[u].next, Seen(u)) + 1,
                   entity |-> resolve_entity_id(File(u).template, Row(u), Seen(u))]
<1>0. new.source = <<work[u].batch, work[u].next>>
  OBVIOUS
<1>1. /\ work[u].op = "insert" /\ File(u).template # FX_RATES
      /\ \A r \in table : ~Conflicts(new, r)
      /\ \A v \in Users : Confirming(v) => \A r \in work[v].inserted : ~Conflicts(new, r)
      /\ work' = [work EXCEPT ![u].op = "row", ![u].next = work[u].next + 1, ![u].inserted = @ \union {new}]
      /\ UNCHANGED <<batch, table, rates>>
  BY DEF import_row
<1> HIDE DEF new
<1>2. Confirming(u) /\ DOMAIN work[u] = Fields /\ DOMAIN work = Users
  BY <1>1 DEF RequestsAreTyped, AtARow, Confirming, Fields
<1>3. /\ DOMAIN work' = Users /\ Others(u) /\ Confirming(u)' /\ work'[u].op = "row" /\ DOMAIN work'[u] = Fields
      /\ work'[u].batch = work[u].batch /\ work'[u].next = work[u].next + 1
      /\ work'[u].versions = work[u].versions /\ work'[u].superseded = work[u].superseded
      /\ work'[u].inserted = work[u].inserted \union {new}
  BY <1>1, <1>2 DEF Others, Fields, Confirming
<1>. QED  BY <1>0, <1>1, <1>2, <1>3

LEMMA ImportRateEffect ==
    ASSUME RequestsAreTyped, NEW u \in Users, import_fx_rate_row(u),
           NEW new, new = Version(RateOf(Row(u)), work[u].existing, <<work[u].batch, work[u].next>>)
    PROVE  /\ UNCHANGED <<batch, table, rates>> /\ DOMAIN work' = Users /\ Others(u)
           /\ Confirming(u) /\ Confirming(u)' /\ work[u].op = "insert" /\ work'[u].op = "row"
           /\ DOMAIN work'[u] = Fields
           /\ work'[u].batch = work[u].batch /\ work'[u].next = work[u].next + 1
           /\ work'[u].inserted = work[u].inserted
           /\ work'[u].versions = Superseded(work[u].versions, work[u].existing) \union {new}
           /\ work'[u].superseded = work[u].superseded \union (work[u].existing \intersect rates)
           /\ File(u).template = FX_RATES /\ uq_fx_rate_identity(new)
<1>1. /\ work[u].op = "insert" /\ File(u).template = FX_RATES /\ uq_fx_rate_identity(new)
      /\ work' = [work EXCEPT ![u].op = "row", ![u].next = @ + 1,
                              ![u].versions = Superseded(@, work[u].existing) \union {new},
                              ![u].superseded = @ \union (work[u].existing \intersect rates)]
      /\ UNCHANGED <<batch, table, rates>>
  BY DEF import_fx_rate_row
<1>2. Confirming(u) /\ DOMAIN work[u] = Fields /\ DOMAIN work = Users
  BY <1>1 DEF RequestsAreTyped, AtARow, Confirming, Fields
<1>3. /\ DOMAIN work' = Users /\ Others(u) /\ Confirming(u)' /\ work'[u].op = "row" /\ DOMAIN work'[u] = Fields
      /\ work'[u].batch = work[u].batch /\ work'[u].next = work[u].next + 1
      /\ work'[u].inserted = work[u].inserted
      /\ work'[u].versions = Superseded(work[u].versions, work[u].existing) \union {new}
      /\ work'[u].superseded = work[u].superseded \union (work[u].existing \intersect rates)
  BY <1>1, <1>2 DEF Others, Fields, Confirming
<1>. QED  BY <1>1, <1>2, <1>3

LEMMA ConfirmEffect ==
    ASSUME RequestsAreTyped, NEW u \in Users, confirm_import(u), NEW b, b = work[u].batch
    PROVE  /\ Confirming(u) /\ ~Confirming(u)' /\ work'[u].op = "idle" /\ DOMAIN work' = Users /\ Others(u)
           /\ b \in Batch /\ work[u].next > Len(File(u).rows)
           /\ DOMAIN batch' = Batch /\ \A c \in Batch \ {b} : batch'[c] = batch[c]
           /\ batch[b] # NoBatch =>
                  DOMAIN batch'[b] = {"file", "imported_rows", "history", "overlap", "status"} /\ batch'[b].file = batch[b].file
           /\ \E imported, status :
                /\ imported = Cardinality(work[u].inserted) + Cardinality(work[u].versions)
                /\ status = StatusOf(imported, Len(File(u).rows))
                /\ batch[b] # NoBatch =>
                       batch'[b].status = status /\ batch'[b].history = Append(batch[b].history, status)
           /\ table' = Seen(u) /\ rates' = SeenRates(u)
<1> DEFINE imported == Cardinality(work[u].inserted) + Cardinality(work[u].versions)
           status == StatusOf(imported, Len(File(u).rows))
<1>1. /\ work[u].op = "row" /\ work[u].next > Len(File(u).rows)
      /\ batch' = [batch EXCEPT ![b].status = status, ![b].imported_rows = imported,
                                ![b].history = Append(@, status)]
      /\ table' = Seen(u) /\ rates' = SeenRates(u)
      /\ work' = [work EXCEPT ![u] = Idle]
  BY DEF confirm_import
<1> HIDE DEF imported, status
<1>2. Confirming(u) /\ DOMAIN work = Users /\ DOMAIN batch = Batch /\ b \in Batch
  BY <1>1 DEF RequestsAreTyped, AtARow, Confirming
<1>3. work'[u].op = "idle" /\ ~Confirming(u)' /\ DOMAIN work' = Users /\ Others(u)
  BY <1>1, <1>2 DEF Others, Confirming, Idle
<1>4. DOMAIN batch' = Batch /\ \A c \in Batch \ {b} : batch'[c] = batch[c]
  BY <1>1, <1>2
<1>5. ASSUME batch[b] # NoBatch
      PROVE  /\ DOMAIN batch'[b] = {"file", "imported_rows", "history", "overlap", "status"}
             /\ batch'[b].file = batch[b].file
             /\ batch'[b].status = status /\ batch'[b].history = Append(batch[b].history, status)
  <2>1. DOMAIN batch[b] = {"file", "imported_rows", "history", "overlap", "status"}
    BY <1>2, <1>5 DEF RequestsAreTyped
  <2>. QED  BY <1>1, <1>2, <2>1
<1>6. imported = Cardinality(work[u].inserted) + Cardinality(work[u].versions) /\ status = StatusOf(imported, Len(File(u).rows))
  BY DEF imported, status
<1>. QED  BY <1>1, <1>2, <1>3, <1>4, <1>5, <1>6

LEMMA ReadRateEffect ==
    ASSUME RequestsAreTyped, NEW u \in Users, NEW r \in Rates, ReadRate(u, r)
    PROVE  /\ UNCHANGED <<batch, table, rates>> /\ DOMAIN work' = Users /\ Others(u)
           /\ ~Confirming(u) /\ ~Confirming(u)' /\ work'[u].op = "rate"
           /\ work'[u].rate = r /\ work'[u].existing = Current(r, rates)
BY DEF RequestsAreTyped, ReadRate, Others, Confirming, Idle

LEMMA CreateRateEffect ==
    ASSUME RequestsAreTyped, NEW u \in Users, create_fx_rate(u),
           NEW new, new = Version(work[u].rate, work[u].existing, u)
    PROVE  /\ UNCHANGED <<batch, table>> /\ DOMAIN work' = Users /\ Others(u)
           /\ ~Confirming(u) /\ ~Confirming(u)' /\ work[u].op = "rate" /\ work'[u].op = "idle"
           /\ uq_fx_rate_identity(new)
           /\ rates' = Superseded(rates, work[u].existing) \union {new}
BY DEF RequestsAreTyped, create_fx_rate, Others, Confirming, Idle

LEMMA GiveUpEffect ==
    ASSUME RequestsAreTyped, NEW u \in Users, GiveUp(u)
    PROVE  /\ UNCHANGED <<batch, table, rates>> /\ DOMAIN work' = Users /\ Others(u)
           /\ ~Confirming(u)' /\ work'[u].op = "idle"
BY DEF RequestsAreTyped, GiveUp, Others, Confirming, Idle

-----------------------------------------------------------------------------
(* What a batch leaves behind                                              *)

LEMMA RowsStay ==
    ASSUME NEW v \in Users, Confirming(v), work'[v] = work[v], AtARow(v), RowsHaveSources(v),
           batch'[work[v].batch] = batch[work[v].batch]
    PROVE  Confirming(v)' /\ AtARow(v)' /\ RowsHaveSources(v)' /\ File(v)' = File(v)
BY DEF Confirming, AtARow, RowsHaveSources, File

\* A step of one request that commits nothing.
LEMMA NothingCommitted ==
    ASSUME BatchesInv, NEW u \in Users, UNCHANGED <<batch, table, rates>>, DOMAIN work' = Users, Others(u),
           Confirming(u)' => /\ AtARow(u)' /\ RowsHaveSources(u)'
                             /\ batch[work'[u].batch].status \in {"READY_FOR_IMPORT", "PARTIALLY_IMPORTED"}
                             /\ \A v \in Users \ {u} : Confirming(v) => work[v].batch # work'[u].batch
    PROVE  BatchesInv'
<1>1. \A v \in Users \ {u} : Confirming(v)' => Confirming(v)
  BY DEF Others, Confirming
<1>2. \A v \in Users : Confirming(v)' => AtARow(v)' /\ RowsHaveSources(v)'
  BY <1>1, RowsStay DEF BatchesInv, RequestsAreTyped, Others
<1>3. RequestsAreTyped'
  BY <1>2 DEF BatchesInv, RequestsAreTyped
<1>4. BatchesAreLocked'
  BY <1>1 DEF BatchesInv, BatchesAreLocked, Others
<1>5. \A b \in Batch : HistoryIsOpen(b)'
  BY DEF BatchesInv, HistoryIsOpen
<1>6. \A b \in Batch : RowsAreAccounted(b)'
  <2>1. (\A b \in Batch : RowsAreAccounted(b)) /\ batch' = batch /\ table' = table /\ rates' = rates
    BY DEF BatchesInv
  <2>. QED  BY ONLY <2>1 DEF RowsAreAccounted
<1>. QED  BY <1>2, <1>3, <1>4, <1>5, <1>6 DEF BatchesInv

LEMMA LoadBatches ==
    ASSUME BatchesInv, NEW u \in Users, NEW b \in Batch, load_import_batch_for_update(u, b)
    PROVE  BatchesInv'
<1>1. /\ UNCHANGED <<batch, table, rates>> /\ DOMAIN work' = Users /\ Others(u)
      /\ ~Locked(b) /\ batch[b].status \in {"READY_FOR_IMPORT", "PARTIALLY_IMPORTED"}
      /\ DOMAIN work'[u] = Fields
      /\ work'[u].op = "row" /\ work'[u].batch = b /\ work'[u].next = 1
      /\ work'[u].inserted = {} /\ work'[u].versions = {}
  BY LoadEffect DEF BatchesInv
<1>2. batch[b].file \in Files
  BY <1>1 DEF BatchesInv, RequestsAreTyped, NoBatch
<1>3. AtARow(u)'
  BY <1>1, <1>2, FileAssumption DEF AtARow, Fields, File
<1>4. RowsHaveSources(u)'
  BY <1>1, FS_EmptySet DEF RowsHaveSources
<1>5. \A v \in Users : Confirming(v) => work[v].batch # b
  BY <1>1 DEF Locked
<1>. QED  BY <1>1, <1>3, <1>4, <1>5, NothingCommitted

\* A confirmation that moves on in its file.
LEMMA MovesOn ==
    ASSUME BatchesInv, NEW u \in Users, UNCHANGED <<batch, table, rates>>, DOMAIN work' = Users, Others(u),
           Confirming(u), work'[u].batch = work[u].batch, DOMAIN work'[u] = Fields,
           \/ work'[u].op = "row" /\ work'[u].next = work[u].next + 1
           \/ work'[u].op = "insert" /\ work'[u].next = work[u].next,
           work[u].next <= Len(File(u).rows),
           \A r \in work'[u].versions : DOMAIN r = RateFields,
           RowsHaveSources(u)'
    PROVE  BatchesInv'
<1>1. AtARow(u) /\ batch[work[u].batch].status \in {"READY_FOR_IMPORT", "PARTIALLY_IMPORTED"}
  BY DEF BatchesInv, RequestsAreTyped, BatchesAreLocked
<1>2. File(u) \in Files /\ File(u)' = File(u)
  BY <1>1 DEF BatchesInv, RequestsAreTyped, NoBatch, AtARow, File
<1>3. AtARow(u)'
  BY <1>1, <1>2, FileAssumption DEF AtARow, Fields
<1>4. \A v \in Users \ {u} : Confirming(v) => work[v].batch # work[u].batch
  BY DEF BatchesInv, BatchesAreLocked
<1>. QED  BY <1>1, <1>3, <1>4, NothingCommitted

LEMMA ConfirmRowBatches ==
    ASSUME BatchesInv, NEW u \in Users, confirm_row(u)
    PROVE  BatchesInv'
<1>1. /\ UNCHANGED <<batch, table, rates>> /\ DOMAIN work' = Users /\ Others(u)
      /\ Confirming(u) /\ DOMAIN work'[u] = Fields /\ KeepsRows(u)
      /\ work[u].next <= Len(File(u).rows)
      /\ \/ work'[u].op = "row" /\ work'[u].next = work[u].next + 1
         \/ work'[u].op = "insert" /\ work'[u].next = work[u].next
  BY ConfirmRowEffect DEF BatchesInv
<1>2. RowsHaveSources(u) /\ work[u].next \in Nat
  BY <1>1 DEF BatchesInv, RequestsAreTyped, AtARow
<1>3. RowsHaveSources(u)'
  BY <1>1, <1>2 DEF RowsHaveSources, KeepsRows, File
<1>4. \A r \in work'[u].versions : DOMAIN r = RateFields
  BY <1>1 DEF BatchesInv, RequestsAreTyped, AtARow, KeepsRows
<1>. QED  BY <1>1, <1>3, <1>4, MovesOn DEF KeepsRows

LEMMA ImportRowBatches ==
    ASSUME BatchesInv, NEW u \in Users, import_row(u)
    PROVE  BatchesInv'
<1>1. PICK new :
      /\ UNCHANGED <<batch, table, rates>> /\ DOMAIN work' = Users /\ Others(u)
      /\ Confirming(u) /\ work[u].op = "insert" /\ work'[u].op = "row"
      /\ DOMAIN work'[u] = Fields
      /\ work'[u].batch = work[u].batch /\ work'[u].next = work[u].next + 1
      /\ work'[u].versions = work[u].versions
      /\ work'[u].inserted = work[u].inserted \union {new}
      /\ new.source = <<work[u].batch, work[u].next>>
      /\ File(u).template # FX_RATES
  BY ImportRowEffect DEF BatchesInv
<1>2. AtARow(u) /\ RowsHaveSources(u) /\ work[u].next \in Nat /\ work[u].next <= Len(File(u).rows)
  BY <1>1 DEF BatchesInv, RequestsAreTyped, AtARow
<1>3. File(u)' = File(u)
  BY <1>1 DEF File
<1>4. RowsHaveSources(u)'
  <2>1. IsFiniteSet(work'[u].inserted) /\ IsFiniteSet(work'[u].versions)
    BY <1>1, <1>2, FS_AddElement DEF RowsHaveSources
  <2>2. work[u].versions = {} /\ \A r \in work[u].inserted : \E n \in 1..work[u].next - 1 : r.source = <<work[u].batch, n>>
    BY <1>1, <1>2 DEF RowsHaveSources
  <2>3. \A r \in work'[u].inserted : \E n \in 1..work'[u].next - 1 : r.source = <<work[u].batch, n>>
    <3>1. work'[u].next - 1 = work[u].next /\ work[u].next \in 1..work[u].next
      BY <1>1, <1>2 DEF AtARow
    <3>2. \A n \in 1..work[u].next - 1 : n \in 1..work'[u].next - 1
      BY <1>1, <1>2
    <3>3. \E n \in 1..work'[u].next - 1 : new.source = <<work[u].batch, n>>
      BY <1>1, <3>1
    <3>. QED  BY <1>1, <2>2, <3>2, <3>3
  <2>4. \A r \in work[u].inserted : r.source # new.source
    BY <1>1, <1>2, <2>2
  <2>5. \A r, s \in work'[u].inserted : r.source = s.source => r = s
    BY <1>1, <1>2, <2>4 DEF RowsHaveSources
  <2>. QED  BY <1>1, <1>3, <2>1, <2>2, <2>3, <2>5 DEF RowsHaveSources
<1>5. \A r \in work'[u].versions : DOMAIN r = RateFields
  BY <1>1, <1>2 DEF AtARow
<1>. QED  BY <1>1, <1>2, <1>4, <1>5, MovesOn

\* A version that is superseded keeps what it is a version of.
LEMMA SupersededFields ==
    ASSUME NEW r, DOMAIN r = RateFields,
           NEW q, q = [r EXCEPT !.is_current = FALSE]
    PROVE  /\ DOMAIN q = DOMAIN r /\ q.is_current = FALSE
           /\ q.from = r.from /\ q.to = r.to /\ q.date = r.date /\ q.rate = r.rate
           /\ q.version = r.version /\ q.source = r.source
BY DEF RateFields

\* So does a set of them.
LEMMA SupersededSet ==
    ASSUME NEW S, \A r \in S : DOMAIN r = RateFields, NEW old
    PROVE  /\ \A q \in Superseded(S, old) : DOMAIN q = RateFields
           /\ \A q \in Superseded(S, old) : \E r \in S : q.source = r.source
           /\ \A r \in S : \E q \in Superseded(S, old) : q.source = r.source
           /\ (\A r, s \in S : r.source = s.source => r = s) =>
                  \A p, q \in Superseded(S, old) : p.source = q.source => p = q
           /\ IsFiniteSet(S) =>
                  IsFiniteSet(Superseded(S, old)) /\ Cardinality(Superseded(S, old)) <= Cardinality(S)
<1> DEFINE to(r) == IF r \in old THEN [r EXCEPT !.is_current = FALSE] ELSE r
<1>1. Superseded(S, old) = {to(r) : r \in S}
  BY DEF Superseded
<1>2. \A r \in S : DOMAIN to(r) = RateFields /\ to(r).source = r.source
  BY SupersededFields
<1>3. ASSUME IsFiniteSet(S)
      PROVE  IsFiniteSet(Superseded(S, old)) /\ Cardinality(Superseded(S, old)) <= Cardinality(S)
  <2> DEFINE f == [r \in S |-> to(r)]
  <2> HIDE DEF to
  <2>1. f \in Surjection(S, Superseded(S, old))
    BY <1>1 DEF Surjection
  <2>. QED  BY <1>3, <2>1, FS_Surjection
<1> HIDE DEF to
<1>. QED  BY <1>1, <1>2, <1>3

LEMMA ImportRateBatches ==
    ASSUME BatchesInv, NEW u \in Users, import_fx_rate_row(u)
    PROVE  BatchesInv'
<1> DEFINE new == Version(RateOf(Row(u)), work[u].existing, <<work[u].batch, work[u].next>>)
           kept == Superseded(work[u].versions, work[u].existing)
<1>1. /\ UNCHANGED <<batch, table, rates>> /\ DOMAIN work' = Users /\ Others(u)
      /\ Confirming(u) /\ work[u].op = "insert" /\ work'[u].op = "row"
      /\ DOMAIN work'[u] = Fields
      /\ work'[u].batch = work[u].batch /\ work'[u].next = work[u].next + 1
      /\ work'[u].inserted = work[u].inserted
      /\ work'[u].versions = kept \union {new}
      /\ File(u).template = FX_RATES
  BY ImportRateEffect DEF BatchesInv
<1>2. new.source = <<work[u].batch, work[u].next>> /\ DOMAIN new = RateFields
  BY DEF Version, RateFields
<1>3. AtARow(u) /\ RowsHaveSources(u) /\ work[u].next \in Nat /\ work[u].next <= Len(File(u).rows)
  BY <1>1 DEF BatchesInv, RequestsAreTyped, AtARow
<1>4. File(u)' = File(u)
  BY <1>1 DEF File
<1>5. \A r \in work[u].versions : DOMAIN r = RateFields
  BY <1>3 DEF AtARow
<1>6. /\ \A q \in kept : DOMAIN q = RateFields
      /\ \A q \in kept : \E r \in work[u].versions : q.source = r.source
      /\ \A p, q \in kept : p.source = q.source => p = q
      /\ IsFiniteSet(kept)
  <2>1. \A r, s \in work[u].versions : r.source = s.source => r = s
    BY <1>3 DEF RowsHaveSources
  <2>2. IsFiniteSet(work[u].versions)
    BY <1>3 DEF RowsHaveSources
  <2>. QED  BY <1>5, <2>1, <2>2, SupersededSet
<1> HIDE DEF new, kept
<1>7. RowsHaveSources(u)'
  <2>1. IsFiniteSet(work'[u].inserted) /\ IsFiniteSet(work'[u].versions)
    BY <1>1, <1>3, <1>6, FS_AddElement DEF RowsHaveSources
  <2>2. work[u].inserted = {} /\ \A r \in work[u].versions : \E n \in 1..work[u].next - 1 : r.source = <<work[u].batch, n>>
    BY <1>1, <1>3 DEF RowsHaveSources
  <2>3. \A r \in work'[u].versions : \E n \in 1..work'[u].next - 1 : r.source = <<work[u].batch, n>>
    <3>1. work'[u].next - 1 = work[u].next /\ work[u].next \in 1..work[u].next
      BY <1>1, <1>3 DEF AtARow
    <3>2. \A n \in 1..work[u].next - 1 : n \in 1..work'[u].next - 1
      BY <1>1, <1>3
    <3>3. \E n \in 1..work'[u].next - 1 : new.source = <<work[u].batch, n>>
      BY <1>2, <3>1
    <3>. QED  BY <1>1, <1>6, <2>2, <3>2, <3>3
  <2>4. \A r \in work[u].versions : r.source # new.source
    BY <1>2, <1>3, <2>2
  <2>5. \A r, s \in work'[u].versions : r.source = s.source => r = s
    BY <1>1, <1>6, <2>4
  <2>. QED  BY <1>1, <1>4, <2>1, <2>2, <2>3, <2>5 DEF RowsHaveSources
<1>. QED  BY <1>1, <1>2, <1>3, <1>6, <1>7, MovesOn

LEMMA SupersededSources ==
    ASSUME \A r \in rates : DOMAIN r = RateFields, NEW old, NEW b, NEW n
    PROVE  /\ Only(rates, b, n) => Only(Superseded(rates, old), b, n)
           /\ NoneOf(rates, b, n) => NoneOf(Superseded(rates, old), b, n)
<1> DEFINE to(r) == IF r \in old THEN [r EXCEPT !.is_current = FALSE] ELSE r
<1>1. Superseded(rates, old) = {to(r) : r \in rates}
  BY DEF Superseded
<1>2. \A r \in rates : to(r).source = r.source
  BY SupersededFields
<1> HIDE DEF to
<1>3. ASSUME Only(rates, b, n) PROVE Only(Superseded(rates, old), b, n)
  <2>1. PICK r \in rates : r.source = <<b, n>> /\ \A s \in rates : s.source = <<b, n>> => s = r
    BY <1>3 DEF Only
  <2>2. to(r) \in Superseded(rates, old) /\ to(r).source = <<b, n>>
    BY <1>1, <1>2, <2>1
  <2>3. \A q \in Superseded(rates, old) : q.source = <<b, n>> => q = to(r)
    BY <1>1, <1>2, <2>1
  <2>. QED  BY <2>2, <2>3 DEF Only
<1>4. NoneOf(rates, b, n) => NoneOf(Superseded(rates, old), b, n)
  BY <1>1, <1>2 DEF NoneOf
<1>. QED  BY <1>3, <1>4

\* What is committed for others leaves the account of a batch as it was.
LEMMA AddedElsewhere ==
    ASSUME BatchesInv, NEW b \in Batch, batch'[b] = batch[b], NEW T, NEW V, NEW old,
           table' = table \union T, rates' = Superseded(rates, old) \union V,
           \A r \in T \union V : r.source \notin {b} \X Nat
    PROVE  RowsAreAccounted(b)'
<1>1. RowsAreAccounted(b) /\ \A r \in rates : DOMAIN r = RateFields
  BY DEF BatchesInv, RequestsAreTyped
<1>2. ASSUME batch[b].history = <<>>, NEW r \in table' \union rates'
      PROVE  r.source \notin {b} \X Nat
  <2>1. \A q \in Superseded(rates, old) : \E s \in rates : q.source = s.source
    BY <1>1, SupersededSet
  <2>. QED  BY <1>1, <1>2, <2>1 DEF RowsAreAccounted
<1>3. ASSUME batch[b].history = <<"IMPORTED">>, NEW n \in 1..Len(batch[b].file.rows)
      PROVE  \/ Only(table', b, n) /\ NoneOf(rates', b, n)
             \/ NoneOf(table', b, n) /\ Only(rates', b, n)
  <2>1. n \in Nat
    <3>1. batch[b] # NoBatch
      BY <1>3 DEF NoBatch
    <3>2. batch[b].file \in Files
      BY <3>1 DEF BatchesInv, RequestsAreTyped
    <3>. QED  BY <1>3, <3>2, FileAssumption
  <2>2. \A r \in T \union V : r.source # <<b, n>>
    <3>1. <<b, n>> \in {b} \X Nat
      BY <2>1
    <3>. QED  BY <3>1
  <2>3. /\ Only(rates, b, n) => Only(Superseded(rates, old), b, n)
        /\ NoneOf(rates, b, n) => NoneOf(Superseded(rates, old), b, n)
    BY <1>1, SupersededSources
  <2>4. /\ Only(table, b, n) => Only(table', b, n)
        /\ NoneOf(table, b, n) => NoneOf(table', b, n)
        /\ Only(Superseded(rates, old), b, n) => Only(rates', b, n)
        /\ NoneOf(Superseded(rates, old), b, n) => NoneOf(rates', b, n)
    BY <2>2 DEF Only, NoneOf
  <2>. QED  BY <1>1, <1>3, <2>3, <2>4 DEF RowsAreAccounted
<1>. QED  BY <1>2, <1>3 DEF RowsAreAccounted

LEMMA UploadBatches ==
    ASSUME BatchesInv, NEW u \in Users, NEW b \in Batch, NEW f \in Files, upload_excel_file(u, b, f)
    PROVE  BatchesInv'
<1>1. /\ batch[b] = NoBatch /\ UNCHANGED <<table, rates, work>>
      /\ DOMAIN batch' = Batch
      /\ \A c \in Batch \ {b} : batch'[c] = batch[c]
      /\ DOMAIN batch'[b] = {"file", "imported_rows", "history", "overlap", "status"}
      /\ batch'[b].file \in Files /\ batch'[b].history = <<>>
  BY UploadEffect DEF BatchesInv
<1>2. \A v \in Users : Confirming(v) => work[v].batch \in Batch \ {b} /\ AtARow(v) /\ RowsHaveSources(v)
  BY <1>1 DEF BatchesInv, RequestsAreTyped, AtARow, BatchesAreLocked, NoBatch
<1>3. \A v \in Users : Confirming(v)' => Confirming(v)
  BY <1>1 DEF Confirming
<1>4. \A v \in Users : Confirming(v)' => AtARow(v)' /\ RowsHaveSources(v)'
  BY <1>1, <1>2, <1>3, RowsStay
<1>5. RequestsAreTyped'
  BY <1>1, <1>4 DEF BatchesInv, RequestsAreTyped
<1>6. BatchesAreLocked'
  BY <1>1, <1>2, <1>3 DEF BatchesInv, BatchesAreLocked
<1>7. \A c \in Batch : HistoryIsOpen(c)'
  <2>1. Len(batch'[b].history) = 0 /\ batch'[b].history \in Seq(Outcome)
    BY <1>1
  <2>2. HistoryIsOpen(b)'
    BY <2>1 DEF HistoryIsOpen
  <2>3. \A c \in Batch \ {b} : HistoryIsOpen(c)'
    BY <1>1 DEF BatchesInv, HistoryIsOpen
  <2>. QED  BY <2>2, <2>3
<1>8. \A c \in Batch : RowsAreAccounted(c)'
  <2>1. ASSUME NEW c \in Batch PROVE RowsAreAccounted(c)'
    <3>0. RowsAreAccounted(c)
      BY DEF BatchesInv
    <3>1. CASE c # b
      BY <1>1, <3>0, <3>1 DEF RowsAreAccounted
    <3>2. CASE c = b
      <4>1. batch[b].history = <<>>
        BY <1>1 DEF NoBatch
      <4>. QED  BY <1>1, <3>0, <3>2, <4>1 DEF RowsAreAccounted
    <3>. QED  BY <3>1, <3>2
  <2>. QED  BY <2>1
<1>. QED  BY <1>4, <1>5, <1>6, <1>7, <1>8 DEF BatchesInv

LEMMA CreateRateBatches ==
    ASSUME BatchesInv, NEW u \in Users, create_fx_rate(u)
    PROVE  BatchesInv'
<1> DEFINE new == Version(work[u].rate, work[u].existing, u)
           old == work[u].existing
<1>1. /\ UNCHANGED <<batch, table>> /\ DOMAIN work' = Users /\ Others(u)
      /\ ~Confirming(u) /\ ~Confirming(u)'
      /\ rates' = Superseded(rates, old) \union {new}
  BY CreateRateEffect DEF BatchesInv
<1>2. new.source = u /\ DOMAIN new = RateFields
  BY DEF Version, RateFields
<1> HIDE DEF new, old
<1>3. \A v \in Users : Confirming(v)' => Confirming(v) /\ work'[v] = work[v]
  BY <1>1 DEF Others, Confirming
<1>4. \A v \in Users : Confirming(v)' => AtARow(v)' /\ RowsHaveSources(v)'
  BY <1>1, <1>3, RowsStay DEF BatchesInv, RequestsAreTyped
<1>5. \A r \in rates' : DOMAIN r = RateFields
  <2>1. \A r \in rates : DOMAIN r = RateFields
    BY DEF BatchesInv, RequestsAreTyped
  <2>2. \A q \in Superseded(rates, old) : DOMAIN q = RateFields
    BY <2>1, SupersededSet
  <2>. QED  BY <1>1, <1>2, <2>2
<1>6. RequestsAreTyped'
  BY <1>1, <1>4, <1>5 DEF BatchesInv, RequestsAreTyped
<1>7. BatchesAreLocked' /\ \A b \in Batch : HistoryIsOpen(b)'
  <2>1. BatchesAreLocked'
    BY <1>1, <1>3 DEF BatchesInv, BatchesAreLocked
  <2>2. \A b \in Batch : HistoryIsOpen(b)'
    BY <1>1 DEF BatchesInv, HistoryIsOpen
  <2>. QED  BY <2>1, <2>2
<1>8. \A b \in Batch : RowsAreAccounted(b)'
  <2>1. ASSUME NEW b \in Batch PROVE RowsAreAccounted(b)'
    <3>1. \A r \in {} \union {new} : r.source \notin {b} \X Nat
      BY <1>2, SourceAssumption
    <3>2. table' = table \union {}
      BY <1>1
    <3>. QED  BY <1>1, <3>1, <3>2, AddedElsewhere
  <2>. QED  BY <2>1
<1>. QED  BY <1>4, <1>6, <1>7, <1>8 DEF BatchesInv

\* A confirmation that counts a row for each row of the file has each of them.
LEMMA CountedWhole ==
    ASSUME BatchesInv, NEW u \in Users, Confirming(u), work[u].next = Len(File(u).rows) + 1,
           Cardinality(work[u].inserted) + Cardinality(work[u].versions) >= Len(File(u).rows)
    PROVE  \A n \in 1..Len(File(u).rows) :
              \E r \in work[u].inserted \union work[u].versions : r.source = <<work[u].batch, n>>
<1> DEFINE mine == work[u].inserted \union work[u].versions
           b == work[u].batch
           total == Len(File(u).rows)
           place == [r \in mine |-> r.source[2]]
<1>1. AtARow(u) /\ RowsHaveSources(u)
  BY DEF BatchesInv, RequestsAreTyped
<1>2. total \in Nat
  BY <1>1, FileAssumption DEF BatchesInv, RequestsAreTyped, BatchesAreLocked, NoBatch, AtARow, File
<1>3. \A r \in mine : place[r] \in 1..total /\ r.source = <<b, place[r]>>
  BY <1>1, <1>2 DEF RowsHaveSources
<1>4. place \in Injection(mine, 1..total)
  <2>1. place \in [mine -> 1..total]
    BY <1>3
  <2>2. \A r, s \in mine : place[r] = place[s] => r = s
    BY <1>1, <1>3 DEF RowsHaveSources
  <2>. QED  BY <2>1, <2>2 DEF Injection, IsInjective
<1>5. IsFiniteSet(1..total) /\ Cardinality(1..total) = total
  BY <1>2, FS_Interval
<1>6. Cardinality(mine) >= total
  <2>1. work[u].inserted = {} \/ work[u].versions = {}
    BY <1>1 DEF RowsHaveSources
  <2>2. Cardinality(work[u].inserted) \in Nat /\ Cardinality(work[u].versions) \in Nat
    BY <1>1, FS_CardinalityType DEF RowsHaveSources
  <2>3. CASE work[u].inserted = {}
    <3>1. mine = work[u].versions /\ Cardinality(work[u].inserted) = 0
      BY <2>3, FS_EmptySet
    <3>2. Cardinality(mine) = Cardinality(work[u].versions)
      BY <3>1
    <3>3. Cardinality(work[u].versions) >= total
      BY <1>2, <2>2, <3>1
    <3>. QED  BY <3>2, <3>3
  <2>4. CASE work[u].versions = {}
    <3>1. mine = work[u].inserted /\ Cardinality(work[u].versions) = 0
      BY <2>4, FS_EmptySet
    <3>2. Cardinality(mine) = Cardinality(work[u].inserted)
      BY <3>1
    <3>3. Cardinality(work[u].inserted) >= total
      BY <1>2, <2>2, <3>1
    <3>. QED  BY <3>2, <3>3
  <2>. QED  BY <2>1, <2>3, <2>4
<1> HIDE DEF place
<1>7. Cardinality(mine) = total
  <2>1. IsFiniteSet(mine) /\ Cardinality(mine) <= total
    BY <1>4, <1>5, FS_Injection
  <2>2. Cardinality(mine) \in Nat
    BY <2>1, FS_CardinalityType
  <2>. QED  BY <1>2, <1>6, <2>1, <2>2
<1>8. place \in Surjection(mine, 1..total)
  BY <1>4, <1>5, <1>7, FS_Injection
<1>9. \A n \in 1..total : \E r \in mine : place[r] = n
  BY <1>8 DEF Surjection
<1>. QED  BY <1>3, <1>9

LEMMA Appended ==
    ASSUME NEW S, NEW h \in Seq(S), NEW e \in S, NEW g, g = Append(h, e)
    PROVE  /\ g \in Seq(S) /\ g # <<>> /\ Len(h) \in Nat /\ Len(g) = Len(h) + 1
           /\ g[Len(h) + 1] = e
           /\ \A i \in 1..Len(h) : g[i] = h[i]
OBVIOUS

\* The account of the batch that is confirmed.
LEMMA ConfirmedIsAccounted ==
    ASSUME BatchesInv, NEW u \in Users, confirm_import(u), NEW b, b = work[u].batch
    PROVE  HistoryIsOpen(b)' /\ RowsAreAccounted(b)'
<1>1. PICK imported, status :
      /\ Confirming(u) /\ b \in Batch /\ work[u].next > Len(File(u).rows)
      /\ batch[b] # NoBatch => batch'[b].file = batch[b].file
      /\ imported = Cardinality(work[u].inserted) + Cardinality(work[u].versions)
      /\ status = StatusOf(imported, Len(File(u).rows))
      /\ batch[b] # NoBatch =>
             batch'[b].status = status /\ batch'[b].history = Append(batch[b].history, status)
      /\ table' = Seen(u) /\ rates' = SeenRates(u)
  BY ConfirmEffect DEF BatchesInv
<1>2. /\ AtARow(u) /\ RowsHaveSources(u) /\ HistoryIsOpen(b) /\ RowsAreAccounted(b)
      /\ batch[b].status \in {"READY_FOR_IMPORT", "PARTIALLY_IMPORTED"}
      /\ \A r \in rates : DOMAIN r = RateFields
  BY <1>1 DEF BatchesInv, RequestsAreTyped, BatchesAreLocked
<1>3. batch[b] # NoBatch /\ batch[b].file \in Files
  BY <1>1, <1>2 DEF BatchesInv, RequestsAreTyped, NoBatch
<1>4. /\ batch'[b].file = batch[b].file /\ batch'[b].status = status
      /\ batch'[b].history = Append(batch[b].history, status)
  BY <1>1, <1>3
<1>5. status \in Outcome
  BY <1>1 DEF StatusOf, Outcome
<1>6. /\ batch[b].history \in Seq(Outcome)
      /\ \A i \in 1..Len(batch[b].history) : batch[b].history[i] = "PARTIALLY_IMPORTED"
  BY <1>2 DEF HistoryIsOpen
<1>7. /\ batch'[b].history \in Seq(Outcome) /\ batch'[b].history # <<>>
      /\ Len(batch'[b].history) = Len(batch[b].history) + 1 /\ Len(batch[b].history) \in Nat
      /\ batch'[b].history[Len(batch[b].history) + 1] = status
      /\ \A i \in 1..Len(batch[b].history) : batch'[b].history[i] = batch[b].history[i]
  <2>1. batch[b].history \in Seq(Outcome) /\ batch'[b].history = Append(batch[b].history, status)
    BY <1>4, <1>6
  <2>. QED  BY ONLY <1>5, <2>1, Appended
<1>8. HistoryIsOpen(b)'
  <2>1. \A i \in 1..Len(batch'[b].history) - 1 : batch'[b].history[i] = "PARTIALLY_IMPORTED"
    <3>1. Len(batch'[b].history) - 1 = Len(batch[b].history)
      BY <1>7
    <3>. QED  BY <1>6, <1>7, <3>1
  <2>2. ASSUME status = "PARTIALLY_IMPORTED", NEW i \in 1..Len(batch'[b].history)
        PROVE  batch'[b].history[i] = "PARTIALLY_IMPORTED"
    <3>1. i \in 1..Len(batch[b].history) \/ i = Len(batch[b].history) + 1
      BY <1>7
    <3>. QED  BY <1>6, <1>7, <2>2, <3>1
  <2>3. batch'[b].status \in {"READY_FOR_IMPORT", "PARTIALLY_IMPORTED"} => status = "PARTIALLY_IMPORTED"
    BY <1>4, <1>5 DEF Outcome
  <2>. QED  BY <1>7, <2>1, <2>2, <2>3 DEF HistoryIsOpen
<1>9. ASSUME batch'[b].history = <<"IMPORTED">>, NEW n \in 1..Len(batch'[b].file.rows)
      PROVE  \/ Only(table', b, n) /\ NoneOf(rates', b, n)
             \/ NoneOf(table', b, n) /\ Only(rates', b, n)
  <2>1. batch[b].history = <<>> /\ status = "IMPORTED"
    <3>1. Len(batch'[b].history) = 1 /\ batch'[b].history[1] = "IMPORTED"
      BY <1>9
    <3>2. Len(batch[b].history) = 0
      BY <1>7, <3>1
    <3>3. batch[b].history = <<>>
      BY <1>6, <3>2
    <3>4. status = "IMPORTED"
      BY <1>7, <3>1, <3>2
    <3>. QED  BY <3>3, <3>4
  <2>2. File(u) = batch[b].file /\ Len(File(u).rows) \in Nat /\ n \in 1..Len(File(u).rows)
    BY <1>3, <1>4, <1>9, FileAssumption DEF File
  <2>3. work[u].next = Len(File(u).rows) + 1
    BY <1>1, <1>2, <2>2 DEF AtARow
  <2>4. imported >= Len(File(u).rows)
    <3>1. Cardinality(work[u].inserted) \in Nat /\ Cardinality(work[u].versions) \in Nat
      BY <1>2, FS_CardinalityType DEF RowsHaveSources
    <3>. QED  BY <1>1, <2>1, <2>2, <3>1 DEF StatusOf
  <2>5. PICK r \in work[u].inserted \union work[u].versions : r.source = <<b, n>>
    BY <1>1, <2>2, <2>3, <2>4, CountedWhole
  <2>6. \A s \in work[u].inserted \union work[u].versions : s.source = <<b, n>> => s = r
    BY <1>2, <2>5 DEF RowsHaveSources
  <2>7. NoneOf(table, b, n) /\ NoneOf(rates, b, n)
    <3>1. <<b, n>> \in {b} \X Nat
      BY <2>2
    <3>. QED  BY <1>2, <2>1, <3>1 DEF RowsAreAccounted, NoneOf
  <2>8. NoneOf(Superseded(rates, work[u].superseded), b, n)
    BY <1>2, <2>7, SupersededSources
  <2>9. table' = table \union work[u].inserted /\ rates' = Superseded(rates, work[u].superseded) \union work[u].versions
    BY <1>1 DEF Seen, SeenRates
  <2>10. CASE work[u].inserted = {}
    BY <2>5, <2>6, <2>7, <2>8, <2>9, <2>10 DEF Only, NoneOf
  <2>11. CASE work[u].versions = {}
    BY <2>5, <2>6, <2>7, <2>8, <2>9, <2>11 DEF Only, NoneOf
  <2>. QED  BY <1>2, <2>10, <2>11 DEF RowsHaveSources
<1>. QED  BY <1>7, <1>8, <1>9 DEF RowsAreAccounted

LEMMA ConfirmBatches ==
    ASSUME BatchesInv, NEW u \in Users, confirm_import(u)
    PROVE  BatchesInv'
<1> DEFINE b == work[u].batch
<1>1. /\ Confirming(u) /\ ~Confirming(u)' /\ DOMAIN work' = Users /\ Others(u) /\ b \in Batch
      /\ DOMAIN batch' = Batch /\ \A c \in Batch \ {b} : batch'[c] = batch[c]
      /\ batch[b] # NoBatch =>
             DOMAIN batch'[b] = {"file", "imported_rows", "history", "overlap", "status"} /\ batch'[b].file = batch[b].file
      /\ table' = Seen(u) /\ rates' = SeenRates(u)
  BY ConfirmEffect DEF BatchesInv
<1>2. /\ AtARow(u) /\ RowsHaveSources(u) /\ \A r \in rates : DOMAIN r = RateFields
      /\ batch[b].status \in {"READY_FOR_IMPORT", "PARTIALLY_IMPORTED"}
  BY <1>1 DEF BatchesInv, RequestsAreTyped, BatchesAreLocked
<1>3. batch[b] # NoBatch /\ batch[b].file \in Files
  BY <1>1, <1>2 DEF BatchesInv, RequestsAreTyped, NoBatch
<1> HIDE DEF b
<1>4. \A v \in Users : Confirming(v)' => v # u /\ Confirming(v) /\ work'[v] = work[v]
  BY <1>1 DEF Others, Confirming
<1>5. \A v \in Users : Confirming(v) /\ v # u => work[v].batch \in Batch \ {b} /\ AtARow(v) /\ RowsHaveSources(v)
  BY <1>1 DEF BatchesInv, RequestsAreTyped, AtARow, BatchesAreLocked, b
<1>6. \A v \in Users : Confirming(v)' => AtARow(v)' /\ RowsHaveSources(v)'
  BY <1>1, <1>4, <1>5, RowsStay
<1>7. \A r \in rates' : DOMAIN r = RateFields
  <2>1. \A q \in Superseded(rates, work[u].superseded) : DOMAIN q = RateFields
    BY <1>2, SupersededSet
  <2>. QED  BY <1>1, <1>2, <2>1 DEF SeenRates, AtARow
<1>8. RequestsAreTyped'
  BY <1>1, <1>3, <1>6, <1>7 DEF BatchesInv, RequestsAreTyped
<1>9. BatchesAreLocked'
  BY <1>1, <1>4, <1>5 DEF BatchesInv, BatchesAreLocked
<1>10. ASSUME NEW c \in Batch PROVE HistoryIsOpen(c)' /\ RowsAreAccounted(c)'
  <2>1. CASE c = b
    BY <2>1, ConfirmedIsAccounted DEF b
  <2>2. CASE c # b
    <3>1. HistoryIsOpen(c)'
      BY <1>1, <2>2 DEF BatchesInv, HistoryIsOpen
    <3>2. \A r \in work[u].inserted \union work[u].versions : r.source \notin {c} \X Nat
      BY <1>2, <2>2 DEF RowsHaveSources, b
    <3>3. /\ table' = table \union work[u].inserted
          /\ rates' = Superseded(rates, work[u].superseded) \union work[u].versions
      BY <1>1 DEF Seen, SeenRates
    <3>4. batch'[c] = batch[c]
      BY <1>1, <2>2
    <3>. QED  BY <3>1, <3>2, <3>3, <3>4, AddedElsewhere
  <2>. QED  BY <2>1, <2>2
<1>. QED  BY <1>6, <1>8, <1>9, <1>10 DEF BatchesInv

LEMMA BatchesInit == Init => BatchesInv
<1> SUFFICES ASSUME Init PROVE BatchesInv
  OBVIOUS
<1>1. \A u \in Users : ~Confirming(u)
  BY DEF Init, Idle, Confirming
<1>2. RequestsAreTyped /\ BatchesAreLocked
  BY <1>1 DEF Init, RequestsAreTyped, BatchesAreLocked
<1>3. ASSUME NEW b \in Batch PROVE HistoryIsOpen(b) /\ RowsAreAccounted(b)
  <2>1. batch[b].history = <<>> /\ batch[b].status = "NONE" /\ table = {} /\ rates = {}
    BY DEF Init, NoBatch
  <2>2. batch[b].history \in Seq(Outcome) /\ Len(batch[b].history) = 0
    BY <2>1
  <2>3. <<>> # <<"IMPORTED">>
    OBVIOUS
  <2>. QED  BY <2>1, <2>2, <2>3 DEF HistoryIsOpen, RowsAreAccounted
<1>. QED  BY <1>1, <1>2, <1>3 DEF BatchesInv

LEMMA BatchesStep == BatchesInv /\ [Next]_vars => BatchesInv'
<1> SUFFICES ASSUME BatchesInv, [Next]_vars PROVE BatchesInv'
  OBVIOUS
<1>1. CASE UNCHANGED vars
  BY <1>1 DEF vars, BatchesInv, RequestsAreTyped, BatchesAreLocked, HistoryIsOpen, RowsAreAccounted, RowsHaveSources,
              AtARow, Confirming, File
<1>2. ASSUME NEW u \in Users, \/ \E r \in Rates : ReadRate(u, r)
                             \/ GiveUp(u)
      PROVE  BatchesInv'
  <2>1. UNCHANGED <<batch, table, rates>> /\ DOMAIN work' = Users /\ Others(u) /\ ~Confirming(u)'
    BY <1>2, ReadRateEffect, GiveUpEffect DEF BatchesInv
  <2>. QED  BY <2>1, NothingCommitted
<1>. QED  BY <1>1, <1>2, UploadBatches, LoadBatches, ConfirmRowBatches, ImportRowBatches, ImportRateBatches,
             ConfirmBatches, CreateRateBatches DEF Next

\* In every reachable state the lock of a batch has one holder, and what the
\* batches have left in the tables is what their histories tell.
THEOREM BatchesInvariance == Spec => []BatchesInv
  BY BatchesInit, BatchesStep, PTL DEF Spec

\* A batch that is imported whole has left each of its rows once and is never
\* confirmed again, whatever files, users and interleavings there are.
THEOREM WholeImportsAreFinalHolds == Spec => []WholeImportsAreFinal
<1>1. BatchesInv => WholeImportsAreFinal
  <2> SUFFICES ASSUME BatchesInv, NEW b \in Batch
               PROVE  /\ \A i \in 1..Len(batch[b].history) - 1 : batch[b].history[i] = "PARTIALLY_IMPORTED"
                      /\ batch[b].history = <<>> => \A r \in table \union rates : r.source \notin {b} \X Nat
                      /\ batch[b].history = <<"IMPORTED">> =>
                             \A n \in DOMAIN batch[b].file.rows : Cardinality(RowsOf(b, n)) = 1
    BY DEF WholeImportsAreFinal
  <2>1. HistoryIsOpen(b) /\ RowsAreAccounted(b)
    BY DEF BatchesInv
  <2>2. ASSUME batch[b].history = <<"IMPORTED">>, NEW n \in DOMAIN batch[b].file.rows
        PROVE  Cardinality(RowsOf(b, n)) = 1
    <3>1. batch[b].file \in Files
      BY <2>2 DEF BatchesInv, RequestsAreTyped, NoBatch
    <3>2. n \in 1..Len(batch[b].file.rows)
      BY <2>2, <3>1, FileAssumption
    <3>3. \/ Only(table, b, n) /\ NoneOf(rates, b, n)
          \/ NoneOf(table, b, n) /\ Only(rates, b, n)
      BY <2>1, <2>2, <3>2 DEF RowsAreAccounted
    <3>4. \E r : RowsOf(b, n) = {r}
      BY <3>3 DEF RowsOf, Only, NoneOf
    <3>. QED  BY <3>4, FS_Singleton
  <2>. QED  BY <2>1, <2>2 DEF HistoryIsOpen, RowsAreAccounted
<1>. QED  BY <1>1, BatchesInvariance, PTL

-----------------------------------------------------------------------------
(* What the bank has given a reference                                     *)

\* The index on the duplicate key tells such rows apart, in either order.
LEMMA IdentitiesConflict ==
    ASSUME NEW r, NEW s, ~Conflicts(r, s)
    PROVE  ~SameIdentity(r, s) /\ ~SameIdentity(s, r)
<1>1. ASSUME compute_duplicate_key(r.row) = compute_duplicate_key(s.row)
      PROVE  r.row.Reference = s.row.Reference
  BY <1>1 DEF compute_duplicate_key
<1>. QED  BY <1>1 DEF SameIdentity, Conflicts, has_strong_identity

LEMMA FewerRows ==
    ASSUME IdentityInv, table' \union Uncommitted' \subseteq table \union Uncommitted
    PROVE  IdentityInv'
<1>1. \A r, s \in table' \union Uncommitted' : SameIdentity(r, s) => r = s
  BY DEF IdentityInv
<1>. QED  BY <1>1 DEF IdentityInv

\* A request that inserts nothing.
LEMMA NothingInserted ==
    ASSUME IdentityInv, NEW u \in Users, table' = table, Others(u),
           Confirming(u)' => work'[u].inserted = {} \/ (Confirming(u) /\ work'[u].inserted = work[u].inserted)
    PROVE  IdentityInv'
<1>1. \A v \in Users \ {u} : Confirming(v)' => Confirming(v) /\ work'[v].inserted = work[v].inserted
  BY DEF Others, Confirming
<1>2. Uncommitted' \subseteq Uncommitted
  BY <1>1 DEF Uncommitted
<1>. QED  BY <1>2, FewerRows

LEMMA ImportRowIdentity ==
    ASSUME BatchesInv, IdentityInv, NEW u \in Users, import_row(u)
    PROVE  IdentityInv'
<1>1. PICK new :
      /\ table' = table /\ Others(u) /\ Confirming(u) /\ Confirming(u)'
      /\ work'[u].inserted = work[u].inserted \union {new}
      /\ \A r \in table : ~Conflicts(new, r)
      /\ \A v \in Users : Confirming(v) => \A r \in work[v].inserted : ~Conflicts(new, r)
  BY ImportRowEffect DEF BatchesInv
<1>2. Uncommitted' \subseteq Uncommitted \union {new}
  <2>1. \A v \in Users \ {u} : Confirming(v)' => Confirming(v) /\ work'[v].inserted = work[v].inserted
    BY <1>1 DEF Others, Confirming
  <2>. QED  BY <1>1, <2>1 DEF Uncommitted
<1>3. \A r \in table \union Uncommitted : ~Conflicts(new, r)
  BY <1>1 DEF Uncommitted
<1>4. \A r \in table \union Uncommitted : ~SameIdentity(new, r) /\ ~SameIdentity(r, new)
  BY <1>3, IdentitiesConflict
<1>5. \A r, s \in table' \union Uncommitted' : SameIdentity(r, s) => r = s
  BY <1>1, <1>2, <1>4 DEF IdentityInv
<1>. QED  BY <1>5 DEF IdentityInv

LEMMA ConfirmIdentity ==
    ASSUME BatchesInv, IdentityInv, NEW u \in Users, confirm_import(u)
    PROVE  IdentityInv'
<1>1. Confirming(u) /\ ~Confirming(u)' /\ Others(u) /\ table' = table \union work[u].inserted
  BY ConfirmEffect DEF BatchesInv, Seen
<1>2. \A v \in Users \ {u} : Confirming(v)' => Confirming(v) /\ work'[v].inserted = work[v].inserted
  BY <1>1 DEF Others, Confirming
<1>3. table' \union Uncommitted' \subseteq table \union Uncommitted
  BY <1>1, <1>2 DEF Uncommitted
<1>. QED  BY <1>3, FewerRows

LEMMA IdentityStep == BatchesInv /\ IdentityInv /\ [Next]_vars => IdentityInv'
<1> SUFFICES ASSUME BatchesInv, IdentityInv, [Next]_vars PROVE IdentityInv'
  OBVIOUS
<1>0. RequestsAreTyped
  BY DEF BatchesInv
<1>1. CASE UNCHANGED vars
  BY <1>1, FewerRows DEF vars, Uncommitted, Confirming
<1>2. ASSUME NEW u \in Users, NEW b \in Batch, NEW f \in Files, upload_excel_file(u, b, f)
      PROVE  IdentityInv'
  BY <1>0, <1>2, UploadEffect, FewerRows DEF Uncommitted, Confirming
<1>3. ASSUME NEW u \in Users,
             \/ \E b \in Batch : load_import_batch_for_update(u, b)
             \/ confirm_row(u) \/ import_fx_rate_row(u)
             \/ \E r \in Rates : ReadRate(u, r)
             \/ create_fx_rate(u) \/ GiveUp(u)
      PROVE  IdentityInv'
  <2>1. /\ table' = table /\ Others(u)
        /\ Confirming(u)' => work'[u].inserted = {} \/ (Confirming(u) /\ work'[u].inserted = work[u].inserted)
    BY <1>0, <1>3, LoadEffect, ConfirmRowEffect, ImportRateEffect, ReadRateEffect, CreateRateEffect, GiveUpEffect
       DEF KeepsRows
  <2>. QED  BY <2>1, NothingInserted
<1>. QED  BY <1>1, <1>2, <1>3, ImportRowIdentity, ConfirmIdentity DEF Next

\* A transaction the bank has given a reference is imported once, by whichever
\* of the overlapping statements and concurrent confirmations comes first.
THEOREM StrongIdentityOnceHolds == Spec => []StrongIdentityOnce
<1>1. Init => IdentityInv
  BY DEF Init, IdentityInv, Uncommitted, Confirming, Idle
<1>2. IdentityInv => StrongIdentityOnce
  <2> SUFFICES ASSUME IdentityInv,
                      NEW r \in {t \in Statements(table) : has_strong_identity(t.row)},
                      NEW s \in {t \in Statements(table) : has_strong_identity(t.row)},
                      \A c \in {"Account", "Date", "Amount", "Reference"} : r.row[c] = s.row[c],
                      normalize_entry_type(r.row.Type) = normalize_entry_type(s.row.Type)
               PROVE  r = s
    BY DEF StrongIdentityOnce
  <2>1. /\ r.row.Account = s.row.Account /\ r.row.Date = s.row.Date
        /\ r.row.Amount = s.row.Amount /\ r.row.Reference = s.row.Reference
    OBVIOUS
  <2>2. compute_duplicate_key(r.row) = compute_duplicate_key(s.row)
    BY <2>1 DEF compute_duplicate_key
  <2>. QED  BY <2>2 DEF IdentityInv, SameIdentity, Statements
<1>. QED  BY <1>1, <1>2, BatchesInvariance, IdentityStep, PTL DEF Spec

-----------------------------------------------------------------------------
(* The versions of a rate                                                  *)

AreRates(S) == \A r \in S : DOMAIN r = RateFields

\* What stands for r once the versions in old are superseded.
Replaces(q, r, old) ==
    /\ SameRate(q, r) /\ q.version = r.version
    /\ r \in old => q.is_current = FALSE
    /\ r \notin old => q = r

LEMMA SupersededOne ==
    ASSUME NEW S, AreRates(S), NEW old
    PROVE  /\ \A r \in S : \E q \in Superseded(S, old) : Replaces(q, r, old)
           /\ \A q \in Superseded(S, old) : \E r \in S : Replaces(q, r, old)
           /\ AreRates(Superseded(S, old))
<1> DEFINE to(r) == IF r \in old THEN [r EXCEPT !.is_current = FALSE] ELSE r
<1>1. Superseded(S, old) = {to(r) : r \in S}
  BY DEF Superseded
<1>2. \A r \in S : DOMAIN to(r) = RateFields /\ Replaces(to(r), r, old)
  BY SupersededFields DEF AreRates, SameRate, Replaces
<1> HIDE DEF to
<1>. QED  BY <1>1, <1>2 DEF AreRates

\* Two that are superseded and are of one version are one.
LEMMA SupersededApart ==
    ASSUME NEW S, AreRates(S), NEW old, \A r, s \in S : SameRate(r, s) /\ r.version = s.version => r = s
    PROVE  \A p, q \in Superseded(S, old) : SameRate(p, q) /\ p.version = q.version => p = q
<1> DEFINE to(r) == IF r \in old THEN [r EXCEPT !.is_current = FALSE] ELSE r
<1>1. Superseded(S, old) = {to(r) : r \in S}
  BY DEF Superseded
<1>2. \A r \in S : SameRate(to(r), r) /\ to(r).version = r.version
  BY SupersededFields DEF AreRates, SameRate
<1> HIDE DEF to
<1>. QED  BY <1>1, <1>2 DEF SameRate

LEMMA ChainedFamily ==
    ASSUME NEW S, Chains(S), NEW k
    PROVE  Chained(Family(k, S))
<1>1. CASE Family(k, S) = {}
  BY <1>1 DEF Chained
<1>2. ASSUME NEW r \in Family(k, S) PROVE Chained(Family(k, S))
  <2>1. r \in S /\ Family(r, S) = Family(k, S)
    BY <1>2 DEF Family, SameRate
  <2>. QED  BY <2>1 DEF Chains
<1>. QED  BY <1>1, <1>2

\* In a chain one version is current, the highest.
LEMMA CurrentOne ==
    ASSUME NEW V, Chained(V), V # {}, NEW old, old = {s \in V : s.is_current}
    PROVE  \E c \in V : /\ old = {c} /\ NextVersion(old) = c.version + 1 /\ c.version \in Nat \ {0}
                        /\ \A s \in V : s.version <= c.version /\ s.version \in Nat \ {0}
                        /\ \A s \in V : s.version = c.version => s = c
<1>1. PICK c \in V : c.is_current
  BY DEF Chained
<1>2. /\ c.version \in Nat \ {0}
      /\ \A s \in V : s.version <= c.version /\ s.version \in Nat \ {0}
      /\ \A s \in V : s.version = c.version => s = c
  BY <1>1 DEF Chained
<1>3. ASSUME NEW d \in V, d.is_current PROVE d = c
  <2>1. c.version <= d.version /\ d.version \in Nat
    BY <1>3 DEF Chained
  <2>. QED  BY <1>2, <2>1
<1>4. old = {c}
  BY <1>1, <1>3
<1>5. NextVersion(old) = c.version + 1
  BY <1>4 DEF NextVersion
<1>. QED  BY <1>2, <1>4, <1>5

\* Superseding the current version by the next makes a chain again.
LEMMA NextInChain ==
    ASSUME NEW V, AreRates(V), Chained(V), \A r, s \in V : SameRate(r, s), NEW old, old = {s \in V : s.is_current},
           NEW new, new.version = NextVersion(old), new.is_current = TRUE
    PROVE  Chained(Superseded(V, old) \union {new})
<1>1. CASE V = {}
  <2>1. old = {} /\ Superseded(V, old) \union {new} = {new}
    BY <1>1 DEF Superseded
  <2>2. new.version = 1
    BY <2>1 DEF NextVersion
  <2>3. new.is_current /\ new.is_current \in BOOLEAN
    OBVIOUS
  <2>4. Chained({new})
    <3>1. \A s \in {new} : s.version <= new.version
      BY <2>2
    <3>2. new.version \in Nat \ {0} /\ \A s \in {new} : new.version = s.version => new = s
      BY <2>2
    <3>. QED  BY <2>2, <2>3, <3>1, <3>2, Zenon DEF Chained
  <2>. QED  BY <2>1, <2>4
<1>2. CASE V # {}
  <2> DEFINE W == Superseded(V, old)
  <2>1. PICK c \in V : /\ old = {c} /\ NextVersion(old) = c.version + 1 /\ c.version \in Nat \ {0}
                       /\ \A s \in V : s.version <= c.version /\ s.version \in Nat \ {0}
                       /\ \A s \in V : s.version = c.version => s = c
    BY <1>2, CurrentOne
  <2>2. \A r \in V : r \in old <=> r.is_current
    OBVIOUS
  <2>3. \A r \in V : \E q \in W : q.version = r.version
    <3>1. \A r \in V : \E q \in W : Replaces(q, r, old)
      BY SupersededOne
    <3> HIDE DEF W
    <3>. QED  BY <3>1 DEF Replaces
  <2>4. \A q \in W : \E r \in V : q.version = r.version /\ SameRate(q, r) /\ q.is_current = FALSE
    <3>1. \A r \in V : r \notin old => r.is_current = FALSE
      BY <2>2 DEF Chained
    <3>2. \A q \in W : \E r \in V : Replaces(q, r, old)
      BY SupersededOne
    <3> HIDE DEF W
    <3>. QED  BY <3>1, <3>2 DEF Replaces
  <2>5. \A p, q \in W : p.version = q.version => p = q
    <3>1. \A r, s \in V : SameRate(r, s) /\ r.version = s.version => r = s
      BY DEF Chained
    <3>2. \A p, q \in W : SameRate(p, q) /\ p.version = q.version => p = q
      BY <3>1, SupersededApart
    <3>3. \A p, q \in W : SameRate(p, q)
      BY <2>4 DEF SameRate
    <3>. QED  BY <3>2, <3>3
  <2> HIDE DEF W
  <2>6. new.version = c.version + 1
    BY <2>1
  <2>7. \A q \in W : q.version \in Nat \ {0} /\ q.version < new.version /\ q.is_current = FALSE
    BY <2>1, <2>4, <2>6
  <2>8. ASSUME NEW q \in W PROVE q.version = 1 \/ \E s \in W : q.version = s.version + 1
    <3>1. PICK r \in V : q.version = r.version
      BY <2>4
    <3>2. r.version = 1 \/ \E s \in V : r.version = s.version + 1
      BY DEF Chained
    <3>. QED  BY <2>3, <3>1, <3>2
  <2>9. \E s \in W : new.version = s.version + 1
    BY <2>1, <2>3, <2>6
  <2>10. ASSUME NEW r \in W \union {new}
         PROVE  /\ r.version \in Nat \ {0} /\ r.is_current \in BOOLEAN
                /\ \A s \in W \union {new} : r.version = s.version => r = s
                /\ r.version = 1 \/ \E s \in W \union {new} : r.version = s.version + 1
                /\ r.is_current <=> \A s \in W \union {new} : s.version <= r.version
    <3>1. CASE r \in W
      <4>1. r.version < new.version /\ ~(new.version <= r.version) /\ r.is_current = FALSE
        BY <2>1, <2>6, <2>7, <3>1
      <4>2. r.is_current \in BOOLEAN /\ (r.is_current <=> \A s \in W \union {new} : s.version <= r.version)
        BY <4>1
      <4>3. \A s \in W \union {new} : r.version = s.version => r = s
        BY <2>1, <2>5, <2>6, <2>7, <3>1
      <4>4. r.version \in Nat \ {0} /\ (r.version = 1 \/ \E s \in W \union {new} : r.version = s.version + 1)
        BY <2>7, <2>8, <3>1
      <4>. QED  BY <4>2, <4>3, <4>4
    <3>2. CASE r = new
      <4>1. \A s \in W \union {new} : s.version <= new.version
        BY <2>1, <2>6, <2>7
      <4>2. \A s \in W : s.version # new.version
        BY <2>1, <2>6, <2>7
      <4>3. new.version \in Nat \ {0}
        BY <2>1, <2>6
      <4>. QED  BY <2>9, <3>2, <4>1, <4>2, <4>3
    <3>. QED  BY <3>1, <3>2
  <2>. QED  BY <2>10 DEF Chained, W
<1>. QED  BY <1>1, <1>2

LEMMA SupersededFamily ==
    ASSUME NEW S, AreRates(S), NEW old, NEW k
    PROVE  Family(k, Superseded(S, old)) = Superseded(Family(k, S), old)
<1> DEFINE to(r) == IF r \in old THEN [r EXCEPT !.is_current = FALSE] ELSE r
<1>1. \A T : Superseded(T, old) = {to(r) : r \in T}
  BY DEF Superseded
<1>2. \A r \in S : SameRate(to(r), r)
  BY SupersededFields DEF AreRates, SameRate
<1>3. \A r \in S : SameRate(k, to(r)) <=> SameRate(k, r)
  BY <1>2 DEF SameRate
<1> HIDE DEF to
<1>4. Superseded(Family(k, S), old) = {to(r) : r \in Family(k, S)} /\ Superseded(S, old) = {to(r) : r \in S}
  BY <1>1
<1>. QED  BY <1>3, <1>4 DEF Family

\* A set none of which is superseded is as it was.
LEMMA SupersededNone ==
    ASSUME NEW V, NEW old, \A r \in V : r \notin old
    PROVE  Superseded(V, old) = V
BY DEF Superseded

\* V has a version of every rate that old supersedes one of.
Covers(V, old) == \A s \in old : Family(s, V) # {}

\* What a transaction sees of a rate it has not written is what is committed.
LEMMA FamilyOfSeen ==
    ASSUME NEW S, AreRates(S), NEW V, NEW old, Covers(V, old), NEW k, Family(k, V) = {}
    PROVE  Family(k, Superseded(S, old) \union V) = Family(k, S)
<1>1. \A r \in Family(k, S) : r \notin old
  BY DEF Family, SameRate, Covers
<1>2. Superseded(Family(k, S), old) = Family(k, S)
  BY <1>1, SupersededNone
<1>3. Family(k, Superseded(S, old)) = Family(k, S)
  BY <1>2, SupersededFamily
<1>4. Family(k, Superseded(S, old) \union V) = Family(k, Superseded(S, old)) \union Family(k, V)
  BY DEF Family
<1>. QED  BY <1>3, <1>4

LEMMA SameFamily ==
    ASSUME NEW r, NEW k, SameRate(r, k)
    PROVE  \A S : Family(r, S) = Family(k, S) /\ Current(r, S) = Current(k, S)
BY DEF Family, SameRate, Current

LEMMA CurrentInFamily ==
    ASSUME NEW k, NEW S
    PROVE  Current(k, S) = {s \in Family(k, S) : s.is_current}
BY DEF Current, Family

\* What the next version of one rate does to the families.
LEMMA FamiliesExtended ==
    ASSUME NEW S, AreRates(S), NEW k, NEW old, old = Current(k, S), NEW new, SameRate(k, new),
           NEW r
    PROVE  /\ SameRate(k, r) =>
                  Family(r, Superseded(S, old) \union {new}) = Superseded(Family(k, S), old) \union {new}
           /\ ~SameRate(k, r) => Family(r, Superseded(S, old) \union {new}) = Family(r, S)
<1>1. \A T : Family(r, T \union {new}) = Family(r, T) \union Family(r, {new})
  BY DEF Family
<1>2. Family(r, Superseded(S, old)) = Superseded(Family(r, S), old)
  BY SupersededFamily
<1>3. ASSUME SameRate(k, r) PROVE Family(r, {new}) = {new} /\ Family(r, S) = Family(k, S)
  BY <1>3 DEF Family, SameRate
<1>4. ASSUME ~SameRate(k, r) PROVE Family(r, {new}) = {} /\ Superseded(Family(r, S), old) = Family(r, S)
  <2>1. Family(r, {new}) = {}
    BY <1>4 DEF Family, SameRate
  <2>2. \A s \in Family(r, S) : s \notin old
    BY <1>4 DEF Family, SameRate, Current
  <2>. QED  BY <2>1, <2>2, SupersededNone
<1>. QED  BY <1>1, <1>2, <1>3, <1>4

LEMMA ChainsExtended ==
    ASSUME NEW S, AreRates(S), Chains(S), NEW k, NEW old, old = Current(k, S),
           NEW new, SameRate(k, new), new.version = NextVersion(old), new.is_current = TRUE
    PROVE  Chains(Superseded(S, old) \union {new})
<1> DEFINE T == Superseded(S, old) \union {new}
<1>1. Chained(Superseded(Family(k, S), old) \union {new})
  <2>1. Chained(Family(k, S)) /\ old = {s \in Family(k, S) : s.is_current}
    BY ChainedFamily, CurrentInFamily
  <2>2. AreRates(Family(k, S)) /\ \A r, s \in Family(k, S) : SameRate(r, s)
    BY DEF AreRates, Family, SameRate
  <2>. QED  BY <2>1, <2>2, NextInChain
<1>2. ASSUME NEW r \in T PROVE Chained(Family(r, T))
  <2>1. /\ SameRate(k, r) => Family(r, T) = Superseded(Family(k, S), old) \union {new}
        /\ ~SameRate(k, r) => Family(r, T) = Family(r, S)
    <3>1. /\ SameRate(k, r) =>
                Family(r, Superseded(S, old) \union {new}) = Superseded(Family(k, S), old) \union {new}
          /\ ~SameRate(k, r) => Family(r, Superseded(S, old) \union {new}) = Family(r, S)
      BY FamiliesExtended
    <3>. QED  BY <3>1
  <2> HIDE DEF T
  <2>2. Chained(Family(r, S))
    BY ChainedFamily
  <2>. QED  BY <1>1, <2>1, <2>2
<1> HIDE DEF T
<1>3. Chains(T)
  BY <1>2 DEF Chains
<1>. QED  BY <1>3 DEF T

\* A family in what a transaction sees.
LEMMA SeenFamily ==
    ASSUME NEW S, AreRates(S), NEW V, NEW old, NEW k
    PROVE  Family(k, Superseded(S, old) \union V) = Superseded(Family(k, S), old) \union Family(k, V)
<1>1. Family(k, Superseded(S, old)) = Superseded(Family(k, S), old)
  BY SupersededFamily
<1>. QED  BY <1>1 DEF Family

SameRequest(v) == work'[v] = work[v] /\ (Confirming(v) => File(v)' = File(v))

LEMMA SameRead ==
    ASSUME NEW v \in Users, SameRequest(v)
    PROVE  /\ Confirming(v)' <=> Confirming(v)
           /\ work[v].op = "insert" => RateOf(Row(v))' = RateOf(Row(v)) /\ File(v)' = File(v)
BY DEF SameRequest, Confirming, RateOf, Row

\* What a commit may do to the rates: a version of a rate is followed by what
\* nobody else has followed.
Settled(u, k) ==
    \/ Family(k, rates') = Family(k, rates)
    \/ /\ \E s \in Family(k, rates') : s.version = NextVersion(Current(k, rates))
       /\ \A v \in Users \ {u} : Confirming(v) => Family(k, work[v].versions) = {}

Kept == \A s \in rates : \E q \in rates' : SameRate(q, s) /\ q.version = s.version

LEMMA SettledVersions ==
    ASSUME RatesInv, NEW u \in Users, AreRates(rates), AreRates(rates'), work'[u].op = "idle", Chains(rates'),
           \A v \in Users \ {u} : SameRequest(v), \A k : Settled(u, k),
           NEW v \in Users \ {u}, Confirming(v)
    PROVE  VersionsFollow(v)'
<1> DEFINE V == work[v].versions
           sup == work[v].superseded
<1>1. VersionsFollow(v) /\ work'[v] = work[v]
  BY DEF RatesInv, SameRequest
<1>2. Covers(V, sup)
  BY <1>1 DEF VersionsFollow, Covers
<1>3. \A k : Family(k, V) # {} => Family(k, rates') = Family(k, rates)
  BY DEF Settled
<1>4. SeenRates(v)' = Superseded(rates', sup) \union V /\ SeenRates(v) = Superseded(rates, sup) \union V
  BY <1>1 DEF SeenRates, Superseded
<1>5. sup = {s \in rates : s.is_current /\ Family(s, V) # {}} /\ Chains(SeenRates(v))
  BY <1>1 DEF VersionsFollow
<1>6. \A r \in V : /\ \A s \in rates : SameRate(r, s) => s.version < r.version
                   /\ \E s \in Family(r, V) : s.version = NextVersion(Current(r, rates))
                   /\ r \in Family(r, V)
  BY <1>1 DEF VersionsFollow, Family, SameRate
<1>7. \A w \in Users \ {v} : Confirming(w)' => \A r \in V : Family(r, work'[w].versions) = {}
  <2>1. \A w \in Users \ {v} : Confirming(w)' => w # u
    BY DEF Confirming
  <2>2. \A w \in Users \ {u} : Confirming(w)' => Confirming(w) /\ work'[w] = work[w]
    BY SameRead DEF SameRequest
  <2>. QED  BY <1>1, <2>1, <2>2 DEF VersionsFollow
<1> HIDE DEF V, sup
<1>8. ASSUME NEW k PROVE Chained(Family(k, Superseded(rates', sup) \union V))
  <2>1. CASE Family(k, V) = {}
    <3>1. Family(k, Superseded(rates', sup) \union V) = Family(k, rates')
      BY <1>2, <2>1, FamilyOfSeen
    <3>. QED  BY <3>1, ChainedFamily
  <2>2. CASE Family(k, V) # {}
    <3>1. /\ Family(k, Superseded(rates', sup) \union V) = Superseded(Family(k, rates'), sup) \union Family(k, V)
          /\ Family(k, Superseded(rates, sup) \union V) = Superseded(Family(k, rates), sup) \union Family(k, V)
      BY SeenFamily
    <3>2. Family(k, Superseded(rates', sup) \union V) = Family(k, SeenRates(v))
      BY <1>3, <1>4, <2>2, <3>1
    <3>. QED  BY <1>5, <3>2, ChainedFamily
  <2>. QED  BY <2>1, <2>2
<1>9. Chains(SeenRates(v)')
  BY <1>4, <1>8 DEF Chains
<1>10. sup = {s \in rates' : s.is_current /\ Family(s, V) # {}}
  <2>1. \A s : Family(s, V) # {} => (s \in rates <=> s \in rates')
    <3>1. \A s, S : s \in Family(s, S) <=> s \in S
      BY DEF Family, SameRate
    <3>. QED  BY <1>3, <3>1
  <2>. QED  BY <1>5, <2>1
<1>11. ASSUME NEW r \in V
       PROVE  /\ \A s \in rates' : SameRate(r, s) => s.version < r.version
              /\ \E s \in Family(r, V) : s.version = NextVersion(Current(r, rates'))
  <2>1. Family(r, rates') = Family(r, rates)
    BY <1>3, <1>6
  <2>2. Current(r, rates') = Current(r, rates)
    BY <2>1, CurrentInFamily
  <2>3. \A s \in rates' : SameRate(r, s) => s \in rates
    BY <2>1 DEF Family
  <2>. QED  BY <1>6, <2>2, <2>3
<1>12. work'[v].versions = V /\ work'[v].superseded = sup
  BY <1>1 DEF V, sup
<1>13. \A r \in work'[v].versions :
          /\ \A s \in rates' : SameRate(r, s) => s.version < r.version
          /\ \E s \in Family(r, work'[v].versions) : s.version = NextVersion(Current(r, rates'))
  BY <1>11, <1>12
<1>14. work'[v].superseded = {s \in rates' : s.is_current /\ Family(s, work'[v].versions) # {}}
  BY <1>10, <1>12
<1>15. \A w \in Users \ {v} : Confirming(w)' => \A r \in work'[v].versions : Family(r, work'[w].versions) = {}
  BY <1>7, <1>12
<1>. QED  BY <1>9, <1>13, <1>14, <1>15 DEF VersionsFollow

\* What has been read as current still is, or its successor is committed.
LEMMA SettledReads ==
    ASSUME RatesInv, RequestsAreTyped, NEW u \in Users, AreRates(rates'), work'[u].op = "idle",
           \A v \in Users \ {u} : SameRequest(v), \A k : Settled(u, k), Kept,
           NEW v \in Users \ {u}
    PROVE  ReadsAreCurrent(v)'
<1>1. /\ ReadsAreCurrent(v) /\ work'[v] = work[v] /\ AreRates(rates)
      /\ work[v].op = "insert" => Confirming(v) /\ File(v)' = File(v) /\ RateOf(Row(v))' = RateOf(Row(v))
  BY SameRead DEF RatesInv, SameRequest, Confirming, RequestsAreTyped, AreRates
<1>2. ASSUME NEW k, NEW old, \E s \in rates : SameRate(k, s) /\ s.version = NextVersion(old)
      PROVE  \E s \in rates' : SameRate(k, s) /\ s.version = NextVersion(old)
  BY <1>2 DEF Kept, SameRate
<1>3. ASSUME NEW k, Family(k, rates') # Family(k, rates)
      PROVE  \E s \in rates' : SameRate(k, s) /\ s.version = NextVersion(Current(k, rates))
  BY <1>3 DEF Settled, Family
<1>4. ASSUME work[v].op = "rate" PROVE ReadCurrent(work[v].rate, work[v].existing, rates, {})'
  <2> DEFINE k == work[v].rate
             old == work[v].existing
  <2>1. k' = k /\ old' = old
    BY <1>1
  <2>2. \/ old = Current(k, rates)
        \/ \E s \in rates : SameRate(k, s) /\ s.version = NextVersion(old)
    BY <1>1, <1>4 DEF ReadsAreCurrent, ReadCurrent
  <2> HIDE DEF k, old
  <2>3. Family(k, rates') = Family(k, rates) => Current(k, rates') = Current(k, rates)
    BY CurrentInFamily
  <2>4. \/ old = Current(k, rates')
        \/ \E s \in rates' : SameRate(k, s) /\ s.version = NextVersion(old)
    BY <1>2, <1>3, <2>2, <2>3
  <2>. QED  BY <2>1, <2>4 DEF ReadCurrent, k, old
<1>5. ASSUME work[v].op = "insert", File(v).template = FX_RATES
      PROVE  ReadCurrent(RateOf(Row(v)), work[v].existing, SeenRates(v), work[v].versions)'
  <2> DEFINE k == RateOf(Row(v))
             old == work[v].existing
             V == work[v].versions
             sup == work[v].superseded
  <2>1. k' = k /\ old' = old /\ Confirming(v)
    BY <1>1, <1>5
  <2>2. \/ old = Current(k, SeenRates(v))
        \/ \E s \in rates \union V : SameRate(k, s) /\ s.version = NextVersion(old)
    BY <1>1, <1>5 DEF ReadsAreCurrent, ReadCurrent
  <2>3. Covers(V, sup)
    BY <2>1 DEF RatesInv, VersionsFollow, Covers
  <2>4. SeenRates(v)' = Superseded(rates', sup) \union V /\ SeenRates(v) = Superseded(rates, sup) \union V
    BY <1>1 DEF SeenRates, Superseded
  <2>5. Family(k, V) = {} \/ Family(k, rates') = Family(k, rates)
    BY <2>1 DEF Settled
  <2> HIDE DEF k, old, V, sup
  <2>6. Family(k, V) = {} => Current(k, SeenRates(v)) = Current(k, rates)
    <3>1. Family(k, V) = {} => Family(k, Superseded(rates, sup) \union V) = Family(k, rates)
      BY <1>1, <2>3, FamilyOfSeen
    <3>. QED  BY <2>4, <3>1, CurrentInFamily
  <2>7. Family(k, rates') = Family(k, rates) => Current(k, SeenRates(v)') = Current(k, SeenRates(v))
    <3>1. /\ Family(k, Superseded(rates', sup) \union V) = Superseded(Family(k, rates'), sup) \union Family(k, V)
          /\ Family(k, Superseded(rates, sup) \union V) = Superseded(Family(k, rates), sup) \union Family(k, V)
      BY <1>1, SeenFamily
    <3>. QED  BY <2>4, <3>1, CurrentInFamily
  <2>8. \/ old = Current(k, SeenRates(v)')
        \/ \E s \in rates' \union V : SameRate(k, s) /\ s.version = NextVersion(old)
    BY <1>2, <1>3, <2>2, <2>5, <2>6, <2>7
  <2>. QED  BY <1>1, <2>1, <2>8 DEF ReadCurrent, k, old, V
<1>. QED  BY <1>1, <1>4, <1>5 DEF ReadsAreCurrent

LEMMA RatesCommitted ==
    ASSUME RatesInv, RequestsAreTyped, NEW u \in Users, AreRates(rates'), work'[u].op = "idle", Chains(rates'),
           \A v \in Users \ {u} : SameRequest(v), \A k : Settled(u, k), Kept
    PROVE  RatesInv'
<1>1. AreRates(rates)
  BY DEF RequestsAreTyped, AreRates
<1>2. ~Confirming(u)' /\ ReadsAreCurrent(u)'
  BY DEF Confirming, ReadsAreCurrent
<1>3. ASSUME NEW v \in Users, Confirming(v)' PROVE VersionsFollow(v)'
  <2>1. v \in Users \ {u} /\ Confirming(v)
    BY <1>2, <1>3, SameRead
  <2>. QED  BY <1>1, <2>1, SettledVersions
<1>4. \A v \in Users \ {u} : ReadsAreCurrent(v)'
  BY SettledReads
<1>. QED  BY <1>2, <1>3, <1>4 DEF RatesInv

\* What is read stays current while nothing is committed.
LEMMA StillRead ==
    ASSUME RatesInv, rates' = rates, NEW v \in Users, SameRequest(v)
    PROVE  ReadsAreCurrent(v)'
<1>1. ReadsAreCurrent(v) /\ work'[v] = work[v]
  BY DEF RatesInv, SameRequest
<1>2. work[v].op = "insert" => RateOf(Row(v))' = RateOf(Row(v)) /\ File(v)' = File(v) /\ SeenRates(v)' = SeenRates(v)
  BY <1>1, SameRead DEF SeenRates, Superseded
<1>. QED  BY <1>1, <1>2 DEF ReadsAreCurrent, ReadCurrent

\* A request that writes no version.
LEMMA NothingWritten ==
    ASSUME RatesInv, RequestsAreTyped, NEW u \in Users, rates' = rates, \A v \in Users \ {u} : SameRequest(v),
           Confirming(u)' =>
               \/ /\ Confirming(u) /\ work'[u].versions = work[u].versions /\ work'[u].superseded = work[u].superseded
               \/ work'[u].versions = {} /\ work'[u].superseded = {},
           ReadsAreCurrent(u)'
    PROVE  RatesInv'
<1>1. \A v \in Users \ {u} : (Confirming(v)' => Confirming(v)) /\ work'[v] = work[v]
  BY SameRead DEF SameRequest
<1>2. ASSUME NEW v \in Users, Confirming(v)',
             Confirming(v), work'[v].versions = work[v].versions, work'[v].superseded = work[v].superseded
      PROVE  VersionsFollow(v)'
  <2>1. VersionsFollow(v)
    BY <1>2 DEF RatesInv
  <2>2. SeenRates(v)' = SeenRates(v)
    BY <1>2 DEF SeenRates, Superseded
  <2>3. \A w \in Users \ {v} : Confirming(w)' => \A r \in work[v].versions : Family(r, work'[w].versions) = {}
    <3>1. ASSUME NEW w \in Users \ {v}, Confirming(w)',
                 (Confirming(w) /\ work'[w].versions = work[w].versions) \/ work'[w].versions = {}
          PROVE  \A r \in work[v].versions : Family(r, work'[w].versions) = {}
      BY <2>1, <3>1 DEF VersionsFollow, Family
    <3>. QED  BY <1>1, <3>1
  <2>. QED  BY <1>2, <2>1, <2>2, <2>3 DEF VersionsFollow
<1>3. ASSUME Confirming(u)', work'[u].versions = {}, work'[u].superseded = {} PROVE VersionsFollow(u)'
  <2>1. SeenRates(u)' = rates
    BY <1>3 DEF SeenRates, Superseded
  <2>2. \A s : Family(s, {}) = {}
    BY DEF Family
  <2>. QED  BY <1>3, <2>1, <2>2 DEF VersionsFollow, RatesInv
<1>4. \A v \in Users : Confirming(v)' => VersionsFollow(v)'
  BY <1>1, <1>2, <1>3
<1>5. \A v \in Users \ {u} : ReadsAreCurrent(v)'
  BY StillRead
<1>6. Chains(rates')
  BY DEF RatesInv
<1>. QED  BY <1>4, <1>5, <1>6 DEF RatesInv

\* A number that a version of a transaction has is not given to another.
LEMMA NobodyElse ==
    ASSUME RatesInv, NEW new, uq_fx_rate_identity(new), NEW k, SameRate(k, new),
           new.version = NextVersion(Current(k, rates)), NEW v \in Users, Confirming(v)
    PROVE  Family(k, work[v].versions) = {}
<1> SUFFICES ASSUME NEW r \in Family(k, work[v].versions) PROVE FALSE
  OBVIOUS
<1>1. r \in work[v].versions /\ SameRate(r, k)
  BY DEF Family, SameRate
<1>2. PICK s \in Family(r, work[v].versions) : s.version = NextVersion(Current(r, rates))
  BY <1>1 DEF RatesInv, VersionsFollow
<1>3. Current(r, rates) = Current(k, rates)
  BY <1>1, SameFamily
<1>4. s \in work[v].versions /\ SameRate(new, s) /\ new.version = s.version
  BY <1>1, <1>2, <1>3 DEF Family, SameRate
<1>. QED  BY <1>4 DEF uq_fx_rate_identity

\* The number that was free is free because nothing has changed.
LEMMA FreeIsCurrent ==
    ASSUME NEW k, NEW old, NEW S, NEW own, ReadCurrent(k, old, S, own), NEW new, SameRate(k, new),
           new.version = NextVersion(old), uq_fx_rate_identity(new),
           own = {} \/ \E v \in Users : Confirming(v) /\ own = work[v].versions
    PROVE  old = Current(k, S)
<1>1. \A s \in rates \union own : ~(SameRate(new, s) /\ new.version = s.version)
  BY DEF uq_fx_rate_identity
<1>. QED  BY <1>1 DEF ReadCurrent, SameRate

LEMMA VersionFields ==
    ASSUME NEW k, NEW old, NEW source, NEW new, new = Version(k, old, source)
    PROVE  SameRate(k, new) /\ new.version = NextVersion(old) /\ new.is_current = TRUE /\ DOMAIN new = RateFields
BY DEF Version, SameRate, RateFields

LEMMA KeptSuperseded ==
    ASSUME AreRates(rates), NEW old, NEW V, rates' = Superseded(rates, old) \union V
    PROVE  Kept
<1>1. \A r \in rates : \E q \in Superseded(rates, old) : Replaces(q, r, old)
  BY SupersededOne
<1>. QED  BY <1>1 DEF Kept, Replaces

LEMMA CreateRateRates ==
    ASSUME BatchesInv, BatchesInv', RatesInv, NEW u \in Users, create_fx_rate(u)
    PROVE  RatesInv'
<1> DEFINE k == work[u].rate
           old == work[u].existing
           new == Version(k, old, u)
<1>1. /\ batch' = batch /\ Others(u) /\ work[u].op = "rate" /\ work'[u].op = "idle"
      /\ uq_fx_rate_identity(new) /\ rates' = Superseded(rates, old) \union {new}
  BY CreateRateEffect DEF BatchesInv
<1>2. AreRates(rates) /\ AreRates(rates') /\ RequestsAreTyped /\ Chains(rates)
  BY DEF BatchesInv, RequestsAreTyped, AreRates, RatesInv
<1>3. ReadCurrent(k, old, rates, {})
  BY <1>1 DEF RatesInv, ReadsAreCurrent
<1>4. SameRate(k, new) /\ new.version = NextVersion(old) /\ new.is_current = TRUE
  BY DEF Version, SameRate
<1> HIDE DEF k, old, new
<1>5. old = Current(k, rates)
  BY <1>1, <1>3, <1>4, FreeIsCurrent
<1>6. Chains(rates')
  <2>1. Chains(Superseded(rates, old) \union {new})
    BY <1>2, <1>4, <1>5, ChainsExtended
  <2>. QED  BY <1>1, <2>1
<1>7. \A v \in Users \ {u} : SameRequest(v)
  BY <1>1 DEF Others, SameRequest, File
<1>8. ASSUME NEW r PROVE Settled(u, r)
  <2>1. /\ SameRate(k, r) => Family(r, rates') = Superseded(Family(k, rates), old) \union {new}
        /\ ~SameRate(k, r) => Family(r, rates') = Family(r, rates)
    <3>1. /\ SameRate(k, r) =>
                Family(r, Superseded(rates, old) \union {new}) = Superseded(Family(k, rates), old) \union {new}
          /\ ~SameRate(k, r) => Family(r, Superseded(rates, old) \union {new}) = Family(r, rates)
      BY <1>2, <1>4, <1>5, FamiliesExtended
    <3>. QED  BY <1>1, <3>1
  <2>2. ASSUME SameRate(k, r) PROVE Settled(u, r)
    <3>1. SameRate(r, k) /\ SameRate(r, new)
      BY <1>4, <2>2 DEF SameRate
    <3>2. Current(r, rates) = Current(k, rates)
      BY <3>1, SameFamily
    <3>3. new \in Family(r, rates') /\ new.version = NextVersion(Current(r, rates))
      BY <1>4, <1>5, <2>1, <2>2, <3>2
    <3>4. \A v \in Users \ {u} : Confirming(v) => Family(r, work[v].versions) = {}
      BY <1>1, <3>1, <3>3, NobodyElse
    <3>. QED  BY <3>3, <3>4 DEF Settled
  <2>. QED  BY <2>1, <2>2 DEF Settled
<1>9. Kept
  BY <1>1, <1>2, KeptSuperseded
<1>. QED  BY <1>1, <1>2, <1>6, <1>7, <1>8, <1>9, RatesCommitted

LEMMA ConfirmRates ==
    ASSUME BatchesInv, BatchesInv', RatesInv, NEW u \in Users, confirm_import(u)
    PROVE  RatesInv'
<1> DEFINE V == work[u].versions
           sup == work[u].superseded
<1>1. /\ Confirming(u) /\ work'[u].op = "idle" /\ Others(u) /\ rates' = SeenRates(u)
      /\ \A c \in Batch \ {work[u].batch} : batch'[c] = batch[c]
  BY ConfirmEffect DEF BatchesInv
<1>2. AreRates(rates) /\ AreRates(rates') /\ RequestsAreTyped
  BY DEF BatchesInv, RequestsAreTyped, AreRates
<1>3. VersionsFollow(u)
  BY <1>1 DEF RatesInv
<1>4. rates' = Superseded(rates, sup) \union V /\ Chains(rates') /\ Covers(V, sup)
  BY <1>1, <1>3 DEF SeenRates, VersionsFollow, Covers
<1>5. \A v \in Users \ {u} : SameRequest(v)
  <2>1. \A v \in Users \ {u} : Confirming(v) => work[v].batch \in Batch \ {work[u].batch}
    BY <1>1 DEF BatchesInv, BatchesAreLocked, RequestsAreTyped, AtARow
  <2>. QED  BY <1>1, <2>1 DEF Others, SameRequest, File
<1>6. ASSUME NEW r \in V
      PROVE  /\ \E s \in Family(r, V) : s.version = NextVersion(Current(r, rates))
             /\ \A v \in Users \ {u} : Confirming(v) => Family(r, work[v].versions) = {}
  BY <1>3, <1>6 DEF VersionsFollow
<1> HIDE DEF V, sup
<1>7. ASSUME NEW k PROVE Settled(u, k)
  <2>1. CASE Family(k, V) = {}
    <3>1. Family(k, Superseded(rates, sup) \union V) = Family(k, rates)
      BY <1>2, <1>4, <2>1, FamilyOfSeen
    <3>. QED  BY <1>4, <3>1 DEF Settled
  <2>2. CASE Family(k, V) # {}
    <3>1. PICK r \in V : SameRate(r, k)
      BY <2>2 DEF Family, SameRate
    <3>2. \A S : Family(r, S) = Family(k, S) /\ Current(r, S) = Current(k, S)
      BY <3>1, SameFamily
    <3>3. \E s \in Family(k, V) : s.version = NextVersion(Current(k, rates))
      BY <1>6, <3>2
    <3>4. \A s \in Family(k, V) : s \in Family(k, rates')
      BY <1>4 DEF Family
    <3>5. \A v \in Users \ {u} : Confirming(v) => Family(k, work[v].versions) = {}
      BY <1>6, <3>2
    <3>. QED  BY <3>3, <3>4, <3>5 DEF Settled
  <2>. QED  BY <2>1, <2>2
<1>8. Kept
  BY <1>2, <1>4, KeptSuperseded
<1>. QED  BY <1>1, <1>2, <1>4, <1>5, <1>7, <1>8, RatesCommitted

\* Superseding what is current is superseding some more.
LEMMA SupersededTwice ==
    ASSUME NEW S, AreRates(S), NEW V, NEW sup, NEW old, \A s \in old : s.is_current,
           old \subseteq Superseded(S, sup) \union V
    PROVE  Superseded(S, sup \union (old \intersect S)) \union Superseded(V, old)
               = Superseded(Superseded(S, sup) \union V, old)
<1> DEFINE more == sup \union (old \intersect S)
           to(r, o) == IF r \in o THEN [r EXCEPT !.is_current = FALSE] ELSE r
<1>1. \A T, o : Superseded(T, o) = {to(r, o) : r \in T}
  BY DEF Superseded
<1>2. ASSUME NEW r \in S PROVE to(r, more) = to(to(r, sup), old)
  <2>1. CASE r \in sup
    <3>1. to(r, sup) = [r EXCEPT !.is_current = FALSE] /\ to(r, more) = [r EXCEPT !.is_current = FALSE]
      BY <2>1
    <3>2. to(r, sup).is_current = FALSE
      BY <3>1, SupersededFields DEF AreRates
    <3>3. to(r, sup) \notin old
      BY <3>2
    <3>. QED  BY <3>1, <3>3
  <2>2. CASE r \notin sup
    BY <2>2
  <2>. QED  BY <2>1, <2>2
<1> HIDE DEF to, more
<1>3. Superseded(S, more) = {to(r, more) : r \in S} /\ Superseded(V, old) = {to(r, old) : r \in V}
  BY <1>1
<1>4. Superseded(S, sup) = {to(r, sup) : r \in S}
  BY <1>1
<1>5. Superseded(Superseded(S, sup) \union V, old) = {to(q, old) : q \in Superseded(S, sup) \union V}
  BY <1>1
<1>6. {to(q, old) : q \in Superseded(S, sup) \union V} = {to(r, more) : r \in S} \union {to(r, old) : r \in V}
  BY <1>2, <1>4
<1>. QED  BY <1>3, <1>5, <1>6 DEF more
\* A transaction writes the next version of a rate.
LEMMA ImportRateRates ==
    ASSUME BatchesInv, BatchesInv', RatesInv, NEW u \in Users, import_fx_rate_row(u)
    PROVE  RatesInv'
<1> DEFINE k == RateOf(Row(u))
           V == work[u].versions
           sup == work[u].superseded
           old == work[u].existing
           new == Version(k, old, <<work[u].batch, work[u].next>>)
           S == Superseded(rates, sup) \union V
<1>1. /\ UNCHANGED <<batch, table, rates>> /\ Others(u) /\ Confirming(u) /\ Confirming(u)'
      /\ work[u].op = "insert" /\ work'[u].op = "row" /\ File(u).template = FX_RATES
      /\ work'[u].versions = Superseded(V, old) \union {new}
      /\ work'[u].superseded = sup \union (old \intersect rates)
      /\ uq_fx_rate_identity(new)
  BY ImportRateEffect DEF BatchesInv
<1>2. SameRate(k, new) /\ new.version = NextVersion(old) /\ new.is_current = TRUE
  BY DEF Version, SameRate
<1>3. /\ AreRates(rates) /\ AreRates(V) /\ AreRates(Superseded(rates, sup)) /\ RequestsAreTyped
      /\ SeenRates(u) = S
  <2>1. AreRates(rates) /\ AreRates(V) /\ RequestsAreTyped
    BY <1>1 DEF BatchesInv, RequestsAreTyped, AtARow, AreRates
  <2>. QED  BY <2>1, SupersededOne DEF SeenRates
<1>4. VersionsFollow(u) /\ ReadCurrent(k, old, S, V)
  BY <1>1, <1>3 DEF RatesInv, ReadsAreCurrent
<1>5. /\ Chains(S) /\ sup = {s \in rates : s.is_current /\ Family(s, V) # {}}
      /\ \A v \in Users \ {u} : Confirming(v) => \A r \in V : Family(r, work[v].versions) = {}
  BY <1>3, <1>4 DEF VersionsFollow
<1>6. \A r \in V : /\ \A s \in rates : SameRate(r, s) => s.version < r.version
                   /\ \E s \in Family(r, V) : s.version = NextVersion(Current(r, rates))
  BY <1>4 DEF VersionsFollow
<1>29. \E v \in Users : Confirming(v) /\ V = work[v].versions
  BY <1>1
<1> HIDE DEF k, V, sup, old, new
<1>7. old = Current(k, S)
  <2> HIDE DEF S
  <2>. QED  BY <1>1, <1>2, <1>4, <1>29, FreeIsCurrent
<1> DEFINE more == sup \union (old \intersect rates)
           W == Superseded(V, old) \union {new}
<1>8. Superseded(rates, more) \union W = Superseded(S, old) \union {new}
  <2>1. (\A s \in old : s.is_current) /\ old \subseteq S
    BY <1>7 DEF Current
  <2>2. Superseded(rates, more) \union Superseded(V, old) = Superseded(S, old)
    BY <1>3, <2>1, SupersededTwice
  <2>. QED  BY <2>2
<1>9. Chains(Superseded(rates, more) \union W)
  <2>1. AreRates(S)
    BY <1>3 DEF AreRates
  <2> HIDE DEF S
  <2>2. Chains(Superseded(S, old) \union {new})
    BY <1>2, <1>5, <1>7, <2>1, ChainsExtended
  <2>. QED  BY <1>8, <2>2
<1>10. \A q \in W : \/ \E r \in V : SameRate(q, r) /\ q.version = r.version
                    \/ q = new
  <2>1. \A q \in Superseded(V, old) : \E r \in V : Replaces(q, r, old)
    BY <1>3, SupersededOne
  <2>. QED  BY <2>1 DEF Replaces
<1>11. \A r \in V : \E q \in W : SameRate(q, r) /\ q.version = r.version
  <2>1. \A r \in V : \E q \in Superseded(V, old) : Replaces(q, r, old)
    BY <1>3, SupersededOne
  <2>. QED  BY <2>1 DEF Replaces
<1>12. new \in W
  OBVIOUS
<1>13. \A s \in old : s \in S /\ SameRate(k, s) /\ s.is_current
  BY <1>7 DEF Current
<1>14. \A s \in rates : s \in S \/ s \in sup
  BY DEF Superseded, S
<1>15. \A s \in rates : \E q \in S : SameRate(q, s) /\ q.version = s.version
  <2>1. \A s \in rates : \E q \in Superseded(rates, sup) : Replaces(q, s, sup)
    BY <1>3, SupersededOne
  <2>. QED  BY <2>1 DEF Replaces
<1>16. Family(k, V) = {} => old = Current(k, rates)
  <2>1. Covers(V, sup)
    BY <1>5 DEF Covers
  <2>2. Family(k, V) = {} => Family(k, S) = Family(k, rates)
    BY <1>3, <2>1, FamilyOfSeen
  <2>. QED  BY <1>7, <2>2, CurrentInFamily
<1> HIDE DEF S, W
<1>17. \A s \in rates : SameRate(k, s) => s.version < new.version
  <2> SUFFICES ASSUME NEW s \in rates, SameRate(k, s)
               PROVE  s.version < new.version
    OBVIOUS
  <2>1. PICK q \in S : SameRate(q, s) /\ q.version = s.version
    BY <1>15
  <2>2. q \in Family(k, S)
    BY <2>1 DEF Family, SameRate
  <2>3. Chained(Family(k, S)) /\ old = {r \in Family(k, S) : r.is_current}
    BY <1>5, <1>7, ChainedFamily, CurrentInFamily
  <2>4. PICK c \in Family(k, S) : /\ NextVersion(old) = c.version + 1 /\ c.version \in Nat \ {0}
                                  /\ \A r \in Family(k, S) : r.version <= c.version /\ r.version \in Nat \ {0}
    BY <2>2, <2>3, CurrentOne
  <2>. QED  BY <1>2, <2>1, <2>2, <2>4
<1>18. more = {s \in rates : s.is_current /\ Family(s, W) # {}}
  <2>1. \A s : Family(s, W) # {} <=> Family(s, V) # {} \/ SameRate(s, k)
    BY <1>2, <1>10, <1>11, <1>12 DEF Family, SameRate
  <2>2. \A s \in rates : s.is_current /\ SameRate(s, k) /\ s \in S => s \in old
    BY <1>7 DEF Current, SameRate
  <2>3. \A s \in old : SameRate(s, k) /\ s.is_current
    BY <1>13 DEF SameRate
  <2>4. \A s \in rates : s \in more <=> s.is_current /\ (Family(s, V) # {} \/ SameRate(s, k))
    BY <1>5, <1>14, <2>2, <2>3
  <2>. QED  BY <1>5, <2>1, <2>4
<1>19. \A q \in W : \A s \in rates : SameRate(q, s) => s.version < q.version
  <2>1. ASSUME NEW q \in W, NEW r \in V, SameRate(q, r), q.version = r.version
        PROVE  \A s \in rates : SameRate(q, s) => s.version < q.version
    BY <1>6, <2>1 DEF SameRate
  <2>2. \A s \in rates : SameRate(new, s) => s.version < new.version
    BY <1>2, <1>17 DEF SameRate
  <2>. QED  BY <1>10, <2>1, <2>2
<1>20. \A r \in V : \E s \in Family(r, W) : s.version = NextVersion(Current(r, rates))
  <2> SUFFICES ASSUME NEW r \in V
               PROVE  \E s \in Family(r, W) : s.version = NextVersion(Current(r, rates))
    OBVIOUS
  <2>1. PICK s \in V : SameRate(r, s) /\ s.version = NextVersion(Current(r, rates))
    BY <1>6 DEF Family
  <2>2. PICK q \in W : SameRate(q, s) /\ q.version = s.version
    BY <1>11
  <2>. QED  BY <2>1, <2>2 DEF Family, SameRate
<1>21. \A q \in W : \E s \in Family(q, W) : s.version = NextVersion(Current(q, rates))
  <2>1. ASSUME NEW q \in W, NEW r \in V, SameRate(q, r)
        PROVE  \E s \in Family(q, W) : s.version = NextVersion(Current(q, rates))
    <3>1. Family(q, W) = Family(r, W) /\ Current(q, rates) = Current(r, rates)
      BY <2>1, SameFamily
    <3>. QED  BY <1>20, <3>1
  <2>2. \E s \in Family(new, W) : s.version = NextVersion(Current(new, rates))
    <3>1. SameRate(new, k)
      BY <1>2 DEF SameRate
    <3>2. CASE Family(k, V) = {}
      <4>1. new \in Family(new, W) /\ Current(new, rates) = Current(k, rates)
        BY <1>12, <3>1, SameFamily DEF Family, SameRate
      <4>. QED  BY <1>2, <1>16, <3>2, <4>1
    <3>3. ASSUME NEW r \in V, SameRate(k, r)
          PROVE  \E s \in Family(new, W) : s.version = NextVersion(Current(new, rates))
      <4>1. SameRate(new, r)
        BY <3>1, <3>3 DEF SameRate
      <4>. QED  BY <1>12, <2>1, <4>1
    <3>. QED  BY <3>2, <3>3 DEF Family
  <2>. QED  BY <1>10, <2>1, <2>2
<1>22. \A v \in Users \ {u} : Confirming(v) => \A q \in W : Family(q, work[v].versions) = {}
  <2> SUFFICES ASSUME NEW v \in Users \ {u}, Confirming(v)
               PROVE  \A q \in W : Family(q, work[v].versions) = {}
    OBVIOUS
  <2>1. ASSUME NEW q, NEW r \in V, SameRate(q, r)
        PROVE  Family(q, work[v].versions) = {}
    BY <1>5, <2>1, SameFamily
  <2>2. Family(new, work[v].versions) = {}
    <3>1. CASE Family(k, V) = {}
      <4>1. Family(k, work[v].versions) = {}
        BY <1>1, <1>2, <1>16, <3>1, NobodyElse
      <4>. QED  BY <1>2, <4>1 DEF Family, SameRate
    <3>2. ASSUME NEW r \in V, SameRate(k, r) PROVE Family(new, work[v].versions) = {}
      <4>1. SameRate(new, r)
        BY <1>2, <3>2 DEF SameRate
      <4>. QED  BY <2>1, <4>1
    <3>. QED  BY <3>1, <3>2 DEF Family
  <2>. QED  BY <1>10, <2>1, <2>2
<1>23. \A v \in Users \ {u} : SameRequest(v) /\ (Confirming(v)' <=> Confirming(v)) /\ work'[v] = work[v]
  BY <1>1 DEF Others, SameRequest, File, Confirming
<1>24. work'[u].versions = W /\ work'[u].superseded = more /\ SeenRates(u)' = Superseded(rates, more) \union W
  BY <1>1 DEF W, SeenRates, Superseded
<1> HIDE DEF more
<1>25. VersionsFollow(u)'
  <2>1. Chains(SeenRates(u)')
    BY <1>9, <1>24
  <2>2. \A v \in Users \ {u} : Confirming(v)' => \A r \in W : Family(r, work'[v].versions) = {}
    BY <1>22, <1>23
  <2>. QED  BY <1>1, <1>18, <1>19, <1>21, <1>24, <2>1, <2>2 DEF VersionsFollow
<1>26. ASSUME NEW v \in Users \ {u}, Confirming(v)' PROVE VersionsFollow(v)'
  <2>1. VersionsFollow(v) /\ Confirming(v) /\ work'[v] = work[v]
    BY <1>23, <1>26 DEF RatesInv
  <2>2. SeenRates(v)' = SeenRates(v)
    BY <1>1, <2>1 DEF SeenRates, Superseded
  <2>3. \A r \in work[v].versions : Family(r, W) = {}
    BY <1>22, <2>1 DEF Family, SameRate
  <2>4. \A w \in Users \ {v} : Confirming(w)' => \A r \in work[v].versions : Family(r, work'[w].versions) = {}
    <3>1. \A w \in Users \ {v, u} : Confirming(w)' => \A r \in work[v].versions : Family(r, work'[w].versions) = {}
      BY <1>23, <2>1 DEF VersionsFollow
    <3>. QED  BY <1>24, <2>3, <3>1
  <2>. QED  BY <1>1, <2>1, <2>2, <2>4 DEF VersionsFollow
<1>27. ReadsAreCurrent(u)' /\ \A v \in Users \ {u} : ReadsAreCurrent(v)'
  BY <1>1, <1>23, StillRead DEF ReadsAreCurrent
<1>28. Chains(rates')
  BY <1>1 DEF RatesInv
<1>. QED  BY <1>25, <1>26, <1>27, <1>28 DEF RatesInv
LEMMA UploadRates ==
    ASSUME BatchesInv, RatesInv, NEW u \in Users, NEW b \in Batch, NEW f \in Files, upload_excel_file(u, b, f)
    PROVE  RatesInv'
<1>1. batch[b] = NoBatch /\ UNCHANGED <<table, rates, work>> /\ \A c \in Batch \ {b} : batch'[c] = batch[c]
  BY UploadEffect DEF BatchesInv
<1>2. \A v \in Users : Confirming(v) => work[v].batch \in Batch \ {b}
  BY <1>1 DEF BatchesInv, BatchesAreLocked, RequestsAreTyped, AtARow, NoBatch
<1>3. \A v \in Users : SameRequest(v)
  BY <1>1, <1>2 DEF SameRequest, File
<1>4. Confirming(u)' => Confirming(u)
  BY <1>1 DEF Confirming
<1>. QED  BY <1>1, <1>3, <1>4, StillRead, NothingWritten DEF BatchesInv

LEMMA ConfirmRowRates ==
    ASSUME BatchesInv, RatesInv, NEW u \in Users, confirm_row(u)
    PROVE  RatesInv'
<1>1. /\ UNCHANGED <<batch, table, rates>> /\ Others(u) /\ Confirming(u) /\ KeepsRows(u)
      /\ \/ work'[u].op = "row"
         \/ /\ work'[u].op = "insert" /\ work'[u].next = work[u].next
            /\ File(u).template = FX_RATES =>
                   ReadCurrent(RateOf(Row(u)), work'[u].existing, SeenRates(u), work[u].versions)
  BY ConfirmRowEffect DEF BatchesInv
<1>2. \A v \in Users \ {u} : SameRequest(v)
  BY <1>1 DEF Others, SameRequest, File
<1>3. SeenRates(u)' = SeenRates(u) /\ File(u)' = File(u)
  BY <1>1 DEF SeenRates, Superseded, File, KeepsRows
<1>4. ReadsAreCurrent(u)'
  <2>1. work'[u].next = work[u].next => RateOf(Row(u))' = RateOf(Row(u))
    BY <1>1, <1>3 DEF RateOf, Row
  <2>. QED  BY <1>1, <1>3, <2>1 DEF ReadsAreCurrent, ReadCurrent, KeepsRows
<1>. QED  BY <1>1, <1>2, <1>4, NothingWritten DEF BatchesInv, KeepsRows

\* The other requests that write no version.
LEMMA OtherRates ==
    ASSUME BatchesInv, RatesInv, NEW u \in Users,
           \/ \E b \in Batch : load_import_batch_for_update(u, b)
           \/ import_row(u)
           \/ \E r \in Rates : ReadRate(u, r)
           \/ GiveUp(u)
    PROVE  RatesInv'
<1>1. /\ UNCHANGED <<batch, table, rates>> /\ Others(u)
      /\ \/ Confirming(u)' /\ work'[u].op = "row" /\ work'[u].versions = {} /\ work'[u].superseded = {}
         \/ /\ Confirming(u) /\ work'[u].op = "row"
            /\ work'[u].versions = work[u].versions /\ work'[u].superseded = work[u].superseded
         \/ ~Confirming(u)' /\ work'[u].op = "rate" /\ work'[u].existing = Current(work'[u].rate, rates)
         \/ ~Confirming(u)' /\ work'[u].op = "idle"
  BY LoadEffect, ImportRowEffect, ReadRateEffect, GiveUpEffect DEF BatchesInv
<1>2. \A v \in Users \ {u} : SameRequest(v)
  BY <1>1 DEF Others, SameRequest, File
<1>3. ReadsAreCurrent(u)'
  BY <1>1 DEF ReadsAreCurrent, ReadCurrent
<1>. QED  BY <1>1, <1>2, <1>3, NothingWritten DEF BatchesInv

LEMMA RatesStep == BatchesInv /\ BatchesInv' /\ RatesInv /\ [Next]_vars => RatesInv'
<1> SUFFICES ASSUME BatchesInv, BatchesInv', RatesInv, [Next]_vars PROVE RatesInv'
  OBVIOUS
<1>1. CASE UNCHANGED vars
  <2>1. rates' = rates /\ work' = work /\ Chains(rates') /\ \A v \in Users : SameRequest(v)
    BY <1>1 DEF vars, SameRequest, File, RatesInv
  <2>2. \A u \in Users : Confirming(u)' => Confirming(u)
    BY <2>1 DEF Confirming
  <2>3. ASSUME NEW u \in Users PROVE RatesInv'
    BY <2>1, <2>2, StillRead, NothingWritten DEF BatchesInv
  <2>. QED  BY <2>1, <2>3 DEF RatesInv
<1>. QED  BY <1>1, UploadRates, ConfirmRowRates, OtherRates, ImportRateRates, CreateRateRates, ConfirmRates DEF Next

LEMMA RatesInit == Init => RatesInv
BY DEF Init, RatesInv, Chains, ReadsAreCurrent, Confirming, Idle

\* The invariant: what batches leave, what a strong identity tells apart, and
\* that what a request has read of a rate is current or its successor is there.
THEOREM ImportsInvariance == Spec => []ImportsInv
<1>1. Init => IdentityInv
  BY DEF Init, IdentityInv, Uncommitted, Confirming, Idle
<1>2. Init => ImportsInv
  BY <1>1, BatchesInit, RatesInit DEF ImportsInv
<1>3. ImportsInv /\ [Next]_vars => ImportsInv'
  BY BatchesStep, IdentityStep, RatesStep DEF ImportsInv
<1>. QED  BY <1>2, <1>3, PTL DEF Spec

\* The versions of a chain are numbered without a gap.
LEMMA ChainIsWhole ==
    ASSUME NEW V, V # {}, Chained(V)
    PROVE  /\ {s.version : s \in V} = 1..Cardinality(V)
           /\ {s \in V : s.is_current} = {s \in V : s.version = Cardinality(V)}
<1>1. PICK c \in V : /\ {s \in V : s.is_current} = {c} /\ c.version \in Nat \ {0}
                     /\ \A s \in V : s.version <= c.version /\ s.version \in Nat \ {0}
                     /\ \A s \in V : s.version = c.version => s = c
  BY CurrentOne
<1> DEFINE m == c.version
           T == {j \in Nat : j < m => \E s \in V : s.version = m - j}
<1>2. Nat \subseteq T
  <2>1. 0 \in T
    BY <1>1
  <2>2. ASSUME NEW n \in Nat, n \in T PROVE n + 1 \in T
    <3> SUFFICES ASSUME n + 1 < m PROVE \E s \in V : s.version = m - (n + 1)
      BY <2>2
    <3>1. PICK s \in V : s.version = m - n
      BY <1>1, <2>2
    <3>2. PICK q \in V : s.version = q.version + 1
      BY <1>1, <3>1 DEF Chained
    <3>3. q.version = m - (n + 1)
      BY <1>1, <3>1, <3>2
    <3>. QED  BY <3>3
  <2> HIDE DEF T
  <2>. QED  BY <2>1, <2>2, NaturalsFromZero
<1>3. \A i \in 1..m : \E s \in V : s.version = i
  <2> SUFFICES ASSUME NEW i \in 1..m PROVE \E s \in V : s.version = i
    OBVIOUS
  <2>1. m - i \in Nat /\ m - i < m /\ m - (m - i) = i
    BY <1>1
  <2>. QED  BY <1>2, <2>1
<1>4. \A s \in V : s.version \in 1..m
  BY <1>1
<1> DEFINE f == [s \in V |-> s.version]
<1>5. f \in Bijection(V, 1..m)
  <2>1. \A r, s \in V : r.version = s.version => r = s
    BY DEF Chained
  <2>2. f \in Injection(V, 1..m)
    BY <1>4, <2>1 DEF Injection, IsInjective
  <2>3. f \in Surjection(V, 1..m)
    BY <1>3, <1>4 DEF Surjection
  <2>. QED  BY <2>2, <2>3 DEF Bijection
<1>6. Cardinality(V) = m
  <2>1. IsFiniteSet(1..m) /\ Cardinality(1..m) = m
    BY <1>1, FS_Interval
  <2> HIDE DEF f, m
  <2>2. Cardinality(V) = Cardinality(1..m)
    BY <1>5, <2>1, FS_Injection DEF Bijection
  <2>. QED  BY <2>1, <2>2
<1>7. {s \in V : s.is_current} = {s \in V : s.version = m}
  BY <1>1
<1>8. {s.version : s \in V} = 1..m
  BY <1>3, <1>4
<1>. QED  BY <1>6, <1>7, <1>8

\* However imports and corrections of a rate interleave, its versions are
\* numbered without a gap and the last alone is current.
THEOREM OneCurrentRateHolds == Spec => []OneCurrentRate
<1>1. RatesInv => OneCurrentRate
  <2> SUFFICES ASSUME Chains(rates), NEW r \in rates
               PROVE  LET versions == {s \in rates : SameRate(r, s)}
                      IN  /\ {s.version : s \in versions} = 1..Cardinality(versions)
                          /\ {s \in versions : s.is_current} = {s \in versions : s.version = Cardinality(versions)}
    BY DEF RatesInv, OneCurrentRate
  <2>1. Chained(Family(r, rates)) /\ r \in Family(r, rates)
    BY DEF Chains, Family, SameRate
  <2>2. /\ {s.version : s \in Family(r, rates)} = 1..Cardinality(Family(r, rates))
        /\ {s \in Family(r, rates) : s.is_current}
               = {s \in Family(r, rates) : s.version = Cardinality(Family(r, rates))}
    BY <2>1, ChainIsWhole
  <2>. QED  BY <2>2 DEF Family
<1>. QED  BY <1>1, ImportsInvariance, PTL DEF ImportsInv
=============================================================================
