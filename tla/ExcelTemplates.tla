---------------------------- MODULE ExcelTemplates ----------------------------
(***************************************************************************)
(* The templates of the Excel data hub: what a row of each must name to be *)
(* valid, by which columns it duplicates another row of its file, and what *)
(* the tables refuse.  A row is a record of the columns below; "valid"     *)
(* stands for the cells that only have to parse, or to name a bank, a      *)
(* currency or a type.  Account numbers are taken to name one account.     *)
(*                                                                         *)
(* Source: services/excel_templates.py, bank_statement_excel_template.py,  *)
(* facility_excel_templates.py, investment_excel_templates.py.             *)
(***************************************************************************)
EXTENDS Naturals, FiniteSets, Sequences

CONSTANTS
    Entity,     \* the legal entities
    Masters     \* accounts, facilities and investments there are: [kind, name, entity]

\* lookups: the columns that must name what exists.  owner: the column that
\* tells the row's entity.  key: the columns of the duplicate key.  makes:
\* the column with the name of the master record the row creates.
TemplateSpec(code, lookups, owner, key, makes) ==
    [code |-> code, lookups |-> lookups, owner |-> owner, key |-> key, makes |-> makes]

BANK_ACCOUNTS == TemplateSpec("BANK_ACCOUNTS", {"Entity"}, "Entity", {"Account"}, "Account")
BANK_BALANCES == TemplateSpec("BANK_BALANCES", {"Account"}, "Entity", {"Account", "Date"}, "")
BANK_TRANSACTIONS ==
    TemplateSpec("BANK_TRANSACTIONS", {"Entity", "Account"}, "Entity", {"Entity", "Account", "Date", "Amount", "Reference"}, "")
EXPECTED_COLLECTIONS ==
    TemplateSpec("EXPECTED_COLLECTIONS", {"Entity"}, "Entity", {"Entity", "Date", "Amount", "Reference"}, "")
EXPECTED_PAYMENTS ==
    TemplateSpec("EXPECTED_PAYMENTS", {"Entity"}, "Entity", {"Entity", "Date", "Amount", "Reference"}, "")
FX_RATES == TemplateSpec("FX_RATES", {}, "", {"From", "To", "Type", "Date"}, "")
BANK_CHARGES ==
    TemplateSpec("BANK_CHARGES", {"Entity", "Account"}, "Entity", {"Account", "Date", "Amount", "Reference"}, "")

FACILITY_MASTER == TemplateSpec("FACILITY_MASTER", {"Entity"}, "Entity", {"Facility"}, "Facility")
FACILITY_DRAWDOWNS ==
    TemplateSpec("FACILITY_DRAWDOWNS", {"Facility"}, "Facility", {"Facility", "Reference", "Amount", "Date"}, "")
FACILITY_REPAYMENTS ==
    TemplateSpec("FACILITY_REPAYMENTS", {"Facility"}, "Facility", {"Facility", "Type", "Date", "Amount"}, "")
FACILITY_FEES ==
    TemplateSpec("FACILITY_FEES", {"Facility"}, "Facility", {"Facility", "Type", "Date", "Amount"}, "")
FACILITY_COVENANTS ==
    TemplateSpec("FACILITY_COVENANTS", {"Facility"}, "Facility", {"Facility", "Reference"}, "")
FACILITY_COLLATERAL ==
    TemplateSpec("FACILITY_COLLATERAL", {"Facility"}, "Facility", {"Facility", "Type", "Date", "Amount"}, "")

INVESTMENT_MASTER == TemplateSpec("INVESTMENT_MASTER", {"Entity"}, "Entity", {"Investment"}, "Investment")
INVESTMENT_PLACEMENTS ==
    TemplateSpec("INVESTMENT_PLACEMENTS", {"Investment"}, "Investment", {"Investment", "Date"}, "")
INVESTMENT_INTEREST ==
    TemplateSpec("INVESTMENT_INTEREST", {"Investment"}, "Investment", {"Investment", "Date", "Amount"}, "")
INVESTMENT_TERMINATIONS ==
    TemplateSpec("INVESTMENT_TERMINATIONS", {"Investment"}, "Investment", {"Investment", "Date", "Amount"}, "")
INVESTMENT_ROLLOVERS ==
    TemplateSpec("INVESTMENT_ROLLOVERS", {"Investment"}, "Investment", {"Investment", "Successor"}, "Successor")

BANK_STATEMENT ==
    TemplateSpec("BANK_STATEMENT", {"Entity", "Account"}, "Entity", {"Account", "Date", "Type", "Amount", "Reference"}, "")

Column == {"Entity", "Account", "Facility", "Investment", "Successor", "Date", "Amount", "Type",
           "Reference", "Narration", "From", "To", "Rate", "Start", "End"}

-----------------------------------------------------------------------------
(* What a row names, given the rows a transaction sees                     *)

Kind(column) == IF column = "Successor" THEN "Investment" ELSE column

Made(r) == [kind |-> Kind(r.template.makes), name |-> r.row[r.template.makes], entity |-> r.entity]

masters(seen) == Masters \union {Made(r) : r \in {s \in seen : s.template.makes # ""}}

Exists(column, row, seen) ==
    IF column = "Entity" THEN row.Entity \in Entity
    ELSE \E x \in masters(seen) : x.kind = column /\ x.name = row[column]

resolve_entity_id(t, row, seen) ==
    IF t.owner = "Entity" THEN row.Entity
    ELSE (CHOOSE x \in masters(seen) : x.kind = t.owner /\ x.name = row[t.owner]).entity

-----------------------------------------------------------------------------
(* Bank statements                                                         *)

normalize_entry_type(text) ==
    IF text \in {"DEBIT", "DR", "D"} THEN "DEBIT" ELSE IF text \in {"CREDIT", "CR", "C"} THEN "CREDIT" ELSE ""

has_strong_identity(row) == row.Reference # ""

\* Amounts count as they are written.
compute_duplicate_key(row) ==
    <<row.Account, row.Date, normalize_entry_type(row.Type), row.Amount, row.Reference,
      IF has_strong_identity(row) THEN "" ELSE row.Narration>>

Statements(seen) == {r \in seen : r.template = BANK_STATEMENT}

Imported(row, seen) == {r \in Statements(seen) : compute_duplicate_key(r.row) = compute_duplicate_key(row)}

validate_bank_statement_row(row, seen) ==
    /\ \E x \in masters(seen) : x = [kind |-> "Account", name |-> row.Account, entity |-> row.Entity]
    /\ row.Start <= row.Date /\ row.Date <= row.End
    /\ normalize_entry_type(row.Type) # ""
    /\ has_strong_identity(row) => Imported(row, seen) = {}

\* The lookup for a duplicate expects one row at most.
MultipleResultsFound(t, row, seen) == t = BANK_STATEMENT /\ Cardinality(Imported(row, seen)) > 1

-----------------------------------------------------------------------------
(* Any template                                                            *)

validate_row(t, row, valid, seen) ==
    /\ valid
    /\ \A column \in t.lookups : Exists(column, row, seen)
    /\ t = BANK_STATEMENT => validate_bank_statement_row(row, seen)

\* Within a file, by the text of the cells.
duplicate_key(t, row) ==
    LET key == IF t = BANK_STATEMENT /\ ~has_strong_identity(row) THEN t.key \union {"Narration"} ELSE t.key
    IN  [column \in key |-> row[column]]

\* Mutant: no index on the duplicate key.
Conflicts_NoIndex(r, s) ==
    \/ r.template.makes # "" /\ s.template.makes # "" /\ Made(r).kind = Made(s).kind /\ Made(r).name = Made(s).name
    \/ r.template = s.template /\ r.template = BANK_BALANCES /\ r.row.Account = s.row.Account /\ r.row.Date = s.row.Date

\* Two rows that a unique constraint keeps apart.
Conflicts(r, s) ==
    \/ r.template.makes # "" /\ s.template.makes # "" /\ Made(r).kind = Made(s).kind /\ Made(r).name = Made(s).name
    \/ /\ r.template = s.template
       /\ \/ r.template = BANK_BALANCES /\ r.row.Account = s.row.Account /\ r.row.Date = s.row.Date
          \/ /\ r.template = BANK_STATEMENT
             /\ has_strong_identity(r.row) /\ compute_duplicate_key(r.row) = compute_duplicate_key(s.row)
=============================================================================
