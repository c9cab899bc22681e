---------------------------- MODULE Cartographer ----------------------------
(***************************************************************************)
(* The deterministic half of schema mapping: ingest/columns.py classifies   *)
(* the tables of a source and maps their columns with a lexicon;            *)
(* ingest/mapping.py turns the proposal into a draft mapping;               *)
(* ingest/fingerprint.py and drift.py digest the schema and compare it.     *)
(*                                                                          *)
(* An identifier is the set of its words: breaking it at separators and     *)
(* camelCase boundaries is character work and is left out.  A schema is a   *)
(* sequence of tables [name, words, columns], a column is [name, words,     *)
(* type] with a type of the kinds "numeric", "int", "date", "text".         *)
(***************************************************************************)
EXTENDS Integers, Sequences, FiniteSets, FiniteSetsExt, SequencesExt

Bps == 10000
AcceptBps == 6000

Roles == <<"Customer", "Invoice", "Vendor", "VendorInvoice", "BankAccount", "BankTransaction">>

(* The synonyms, by the canonical word they stand for; "" drops the word. *)
Spellings ==
  [customer |-> {"cust", "customers", "client", "clients", "debtor", "debtors", "buyer"},
   supplier |-> {"supp", "suppliers", "vendor", "vendors", "creditor", "creditors", "payee"},
   amount |-> {"amt", "amounts", "gross", "value", "total"},
   balance |-> {"bal", "balances"},
   currency |-> {"ccy", "curr", "currencies"},
   date |-> {"dt", "dates", "day"},
   identifier |-> {"id", "ids", "code", "key"},
   number |-> {"no", "num", "nbr"},
   reference |-> {"ref", "refs"},
   document |-> {"doc", "docs", "documents"},
   invoice |-> {"inv", "invoices"},
   transaction |-> {"txn", "trans", "transactions", "movement", "movements", "entries"},
   account |-> {"acct", "acc", "accounts"},
   description |-> {"desc", "memo", "narrative", "details", "detail"},
   booked |-> {"posted", "booking"},
   item |-> {"items"}, receivable |-> {"receivables"}, payable |-> {"payables"}]

Dropped == {"cents", "cent", "minor", "pence", "pennies"}

Canonical(w) == IF \E c \in DOMAIN Spellings : w \in Spellings[c]
                THEN CHOOSE c \in DOMAIN Spellings : w \in Spellings[c] ELSE w

Tokens(words) == {Canonical(w) : w \in words \ Dropped}

(* Words that name a table of each role, and words that decide its side. *)
TableLexicon ==
  [Customer |-> {"customer", "cust", "client", "debtor", "buyer", "master"},
   Invoice |-> {"invoice", "receivable", "ar", "sales", "billing", "open", "items", "doc"},
   Vendor |-> {"vendor", "supplier", "creditor", "payee", "master"},
   VendorInvoice |-> {"bill", "bills", "payable", "ap", "purchase", "vendor", "open", "items"},
   BankAccount |-> {"bank", "account", "cash", "acct"},
   BankTransaction |-> {"transaction", "txn", "ledger", "statement", "movement", "entries", "bank"}]

SideHints ==
  [Customer |-> {"customer"},
   Invoice |-> {"ar", "receivable", "customer", "sales"},
   Vendor |-> {"vendor"},
   VendorInvoice |-> {"ap", "payable", "vendor", "purchase"},
   BankAccount |-> {},
   BankTransaction |-> {}]

Shared == [amount |-> <<{"amount"}, {"amount", "due"}, {"invoice", "amount"}>>,
          open |-> <<{"open", "amount"}, {"balance"}, {"outstanding"}, {"open", "amount"},
                     {"residual"}>>,
          currency |-> <<{"currency"}, {"currency"}, {"currency"}, {"currency", "code"}>>,
          status |-> <<{"status"}, {"state"}, {"doc", "status"}>>]

(* Per role, the canonical fields in the lexicon's order, each with the     *)
(* names it goes by, most specific first (the rank is a name's position).   *)
FieldLexicon ==
  [Customer |-> <<
      [field |-> "external_id", names |-> <<{"cust", "code"}, {"customer", "id"},
        {"customer", "code"}, {"cust", "id"}, {"code"}, {"id"}>>],
      [field |-> "name", names |-> <<{"cust", "name"}, {"customer", "name"}, {"company", "name"},
        {"display", "name"}, {"name"}>>] >>,
   Invoice |-> <<
      [field |-> "external_id", names |-> <<{"invoice", "ref"}, {"invoice", "no"},
        {"invoice", "number"}, {"doc", "no"}, {"document", "no"}, {"invoice", "id"}, {"id"}>>],
      [field |-> "customer_ref", names |-> <<{"cust", "code"}, {"customer", "id"},
        {"customer", "code"}, {"cust", "id"}, {"customer"}>>],
      [field |-> "amount", names |-> Shared.amount],
      [field |-> "open_amount", names |-> Shared.open],
      [field |-> "currency", names |-> Shared.currency],
      [field |-> "due_date", names |-> <<{"due", "dt"}, {"due", "date"}, {"date", "due"},
        {"maturity"}>>],
      [field |-> "issued_date", names |-> <<{"doc", "dt"}, {"issue", "date"}, {"issued", "date"},
        {"invoice", "date"}, {"posted", "on"}, {"posting", "date"}, {"created"},
        {"created", "at"}>>],
      [field |-> "status", names |-> Shared.status] >>,
   Vendor |-> <<
      [field |-> "external_id", names |-> <<{"supp", "code"}, {"vendor", "id"},
        {"supplier", "id"}, {"vendor", "code"}, {"code"}, {"id"}>>],
      [field |-> "name", names |-> <<{"supp", "name"}, {"vendor", "name"}, {"supplier", "name"},
        {"display", "name"}, {"name"}>>],
      [field |-> "criticality", names |-> <<{"criticality"}, {"risk", "tier"}, {"tier"},
        {"class"}, {"category"}>>] >>,
   VendorInvoice |-> <<
      [field |-> "external_id", names |-> <<{"invoice", "ref"}, {"bill", "no"}, {"doc", "no"},
        {"document", "no"}, {"invoice", "no"}, {"id"}>>],
      [field |-> "vendor_ref", names |-> <<{"supp", "code"}, {"vendor", "id"},
        {"supplier", "id"}, {"vendor", "code"}, {"vendor"}, {"supplier"}>>],
      [field |-> "amount", names |-> SubSeq(Shared.amount, 1, 2)],
      [field |-> "open_amount", names |-> Shared.open],
      [field |-> "currency", names |-> Shared.currency],
      [field |-> "due_date", names |-> <<{"due", "dt"}, {"due", "date"}, {"date", "due"},
        {"net", "due"}>>],
      [field |-> "issued_date", names |-> <<{"doc", "dt"}, {"bill", "date"}, {"issue", "date"},
        {"issued", "date"}, {"posted", "on"}, {"posting", "date"}, {"created"},
        {"created", "at"}>>],
      [field |-> "status", names |-> Shared.status] >>,
   BankAccount |-> <<
      [field |-> "external_id", names |-> <<{"acct", "no"}, {"account", "no"},
        {"account", "id"}, {"account", "number"}, {"iban"}, {"id"}>>],
      [field |-> "name", names |-> <<{"bank", "name"}, {"account", "name"}, {"nickname"},
        {"name"}, {"description"}>>],
      [field |-> "currency", names |-> Shared.currency],
      [field |-> "balance", names |-> <<{"balance"}, {"current", "balance"},
        {"closing", "balance"}, {"ledger", "balance"}>>] >>,
   BankTransaction |-> <<
      [field |-> "external_id", names |-> <<{"entry", "id"}, {"txn", "id"},
        {"transaction", "id"}, {"statement", "line"}, {"id"}>>],
      [field |-> "account_ref", names |-> <<{"acct", "no"}, {"account", "no"},
        {"account", "id"}, {"account", "number"}, {"iban"}>>],
      [field |-> "amount", names |-> <<{"amt"}, {"amount"}, {"value"}, {"signed", "amount"}>>],
      [field |-> "currency", names |-> Shared.currency],
      [field |-> "booked_on", names |-> <<{"value", "dt"}, {"booking", "date"},
        {"value", "date"}, {"posted", "on"}, {"txn", "date"}, {"date"}>>],
      [field |-> "description", names |-> <<{"narrative"}, {"description"}, {"memo"},
        {"details"}, {"reference"}>>] >>]

(* The column types a field may be drawn from; a field not listed takes any. *)
TypeExpectation(field) ==
  CASE field \in {"amount", "open_amount", "balance"} -> {"numeric", "int"}
    [] field \in {"due_date", "issued_date", "booked_on"} -> {"date"}
    [] field = "currency" -> {"text"}
    [] OTHER -> {}

(***************************************************************************)
(* Scoring                                                                  *)
(***************************************************************************)
OverlapBps(tokens, lexicon) ==
  (Bps * Cardinality(tokens \cap lexicon)) \div Max({Cardinality(tokens), 1})

(* One name of the lexicon: an exact match near the top, less 100 a rank; a  *)
(* partial one by its Dice coefficient, scaled to 85% and less 50 a rank.    *)
NameScore(tokens, name, rank) ==
  LET shared == Cardinality(tokens \cap name)
      dice == (2 * Bps * shared) \div (Cardinality(tokens) + Cardinality(name))
  IN IF tokens = name THEN Bps - 100 * rank
     ELSE IF shared = 0 THEN 0 ELSE Max({0, (dice * 8500) \div Bps - 50 * rank})

(* A wrong type disqualifies the column; a right one adds 1500. *)
ColumnScore(column, entry) ==
  LET tokens == Tokens(column.words)
      best == Max({0} \cup {NameScore(tokens, Tokens(entry.names[k]), k - 1) :
                              k \in DOMAIN entry.names})
      expected == TypeExpectation(entry.field)
  IN IF tokens = {} THEN 0
     ELSE IF expected = {} THEN best
     ELSE IF column.type \in expected THEN Min({Bps, best + 1500})
     ELSE 0

(* A table for a role: its name, a hint from its columns (or its name), and  *)
(* how much of the entity it could fill.                                     *)
RoleScore(table, role) ==
  LET names == Tokens(table.words)
      columns == UNION {Tokens(table.columns[c].words) : c \in DOMAIN table.columns}
      hints == Tokens(SideHints[role])
      side == IF columns \cap hints # {} THEN 2500
              ELSE IF names \cap hints # {} THEN 1000 ELSE 0
      fields == FieldLexicon[role]
      matched == {f \in DOMAIN fields : \E c \in DOMAIN table.columns :
                    ColumnScore(table.columns[c], fields[f]) >= AcceptBps}
  IN Min({Bps, OverlapBps(names, Tokens(TableLexicon[role])) + side
               + (2500 * Cardinality(matched)) \div Len(fields)})

(* The first role with the highest score. *)
BestRole(table) ==
  LET score == [r \in DOMAIN Roles |-> RoleScore(table, Roles[r])]
      top == Max({score[r] : r \in DOMAIN Roles})
  IN [role |-> Roles[Min({r \in DOMAIN Roles : score[r] = top})], score |-> top]

(***************************************************************************)
(* Mapping the columns of a table.  Field by field, in the lexicon's order,  *)
(* and column by column, in the table's: a better column takes the field     *)
(* over, a better field takes the column over and its owner loses its field. *)
(* Unclaimed columns and fields are simply not in the domains.               *)
(***************************************************************************)
Without(f, x) == [y \in DOMAIN f \ {x} |-> f[y]]

With(f, x, v) == [y \in DOMAIN f \cup {x} |-> IF y = x THEN v ELSE f[y]]

Consider(acc, field, column, score) ==
  LET held == IF field \in DOMAIN acc.chosen THEN acc.chosen[field].score ELSE -1
      owned == column \in DOMAIN acc.claimed
      kept == IF owned THEN Without(acc.chosen, acc.claimed[column].field) ELSE acc.chosen
  IN IF score < AcceptBps \/ held >= score \/ (owned /\ acc.claimed[column].score >= score)
     THEN acc
     ELSE [chosen |-> With(kept, field, [column |-> column, score |-> score]),
           claimed |-> With(acc.claimed, column, [field |-> field, score |-> score])]

MapColumns(table, role) ==
  LET fields == FieldLexicon[role]
      width == Len(table.columns)
      last == Len(fields) * width
      Visit(acc, k) ==
        LET entry == fields[((k - 1) \div width) + 1]
            column == table.columns[((k - 1) % width) + 1]
        IN Consider(acc, entry.field, column.name, ColumnScore(column, entry))
      after[k \in 0..last] ==
        IF k = 0 THEN [chosen |-> <<>>, claimed |-> <<>>] ELSE Visit(after[k - 1], k)
  IN after[last].chosen

(* Minor units only when the name says so or the type is integral. *)
UnitsOf(column) ==
  IF column.words \cap {"minor", "cents", "pence", "bps"} # {} \/ column.type = "int"
  THEN "minor" ELSE "major"

(* One table per role, the best candidate (the first among equals); the      *)
(* others, and the tables no role scores, are residue.                       *)
Propose(schema) ==
  LET best == [t \in DOMAIN schema |-> BestRole(schema[t])]
      Candidates(role) == {t \in DOMAIN schema : best[t].role = role /\ best[t].score >= AcceptBps}
      Winner(role) == CHOOSE t \in Candidates(role) : \A u \in Candidates(role) :
                        best[u].score < best[t].score \/ (best[u].score = best[t].score /\ t <= u)
      found == {role \in Range(Roles) : Candidates(role) # {}}
  IN [role \in found |-> [table |-> Winner(role), fields |-> MapColumns(schema[Winner(role)], role)]]

(***************************************************************************)
(* The draft mapping: per role the table and, per field, the column and its  *)
(* units.  A role none of whose columns was mapped is left out; a missing    *)
(* currency column becomes the constant tenant default.                      *)
(***************************************************************************)
ColumnNamed(table, name) == table.columns[CHOOSE c \in DOMAIN table.columns :
                                            table.columns[c].name = name]

DraftFromProposal(schema, proposal) ==
  [role \in {r \in DOMAIN proposal : DOMAIN proposal[r].fields # {}} |->
     LET table == schema[proposal[role].table]
         chosen == proposal[role].fields
     IN [table |-> table.name,
         fields |-> [f \in DOMAIN chosen |->
           [column |-> chosen[f].column,
            units |-> IF f \in {"amount", "open_amount", "balance"}
                      THEN UnitsOf(ColumnNamed(table, chosen[f].column)) ELSE "none"]]]]

(***************************************************************************)
(* The fingerprint digests names, types and the row count of every table     *)
(* (the format signatures of text columns are left out); drift is a change   *)
(* of the digest, and holds ingestion.                                       *)
(***************************************************************************)
Fingerprint(snapshot) ==
  [tables |-> snapshot.schema,
   counts |-> [t \in DOMAIN snapshot.rows |-> Len(snapshot.rows[t])]]

WatchDrift(frozenHash, current) == [changed |-> frozenHash # current, hold |-> frozenHash # current]
=============================================================================
