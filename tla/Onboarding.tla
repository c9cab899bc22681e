----------------------------- MODULE Onboarding -----------------------------
(***************************************************************************)
(* One tenant's onboarding: api/onboarding.py over ingest/onboarding.py, the  *)
(* loader and the reconciliation gate, and the data source it ends up binding *)
(* (api/datasource.py, api/session.py).                                       *)
(*                                                                            *)
(* The process runs one handler at a time and a load never yields, so the     *)
(* steps of a load interleave only with what is outside the process: the      *)
(* source database, which its owner keeps changing between two reads, and a   *)
(* crash.  What a source may hold is the set Snapshots; a cell is <<>> for    *)
(* null or <<value>>; an amount is [n, d], n with d decimal places.           *)
(* Optional fields of the onboarding object are <<>> or <<value>> as well.    *)
(***************************************************************************)
EXTENDS Cartographer

CONSTANTS Urls,           \* the databases a user may connect to
          Tenants,        \* tenant ids a user may type
          Snapshots,      \* what a source may hold: [schema, rows]
          ControlTotals,  \* totals a user may state: [ar, ap, cash]
          Tolerances,     \* cash tolerances a user may state
          Currencies,     \* code -> number of decimals, the known codes
          HomeCurrency,   \* the currency typed at connect
          MaxRows,        \* rows read per entity (LIMIT)
          MaxPolicy,      \* bound: policy versions tried
          MaxLoads,       \* bound: loads started
          MaxChanges      \* bound: changes of the sources

ASSUME OnboardingAssumption ==
  /\ HomeCurrency \in DOMAIN Currencies
  /\ MaxRows \in Nat \ {0} /\ MaxPolicy \in Nat \ {0}
  /\ MaxLoads \in Nat /\ MaxChanges \in Nat
  /\ Tolerances \subseteq Nat
  /\ \A s \in Snapshots : s.schema \in Seq(Range(s.schema)) /\ \A t \in DOMAIN s.schema :
       /\ s.rows[t] \in Seq(Range(s.rows[t]))
       /\ s.schema[t].columns \in Seq(Range(s.schema[t].columns))
       /\ IsFiniteSet(s.schema[t].words)

VARIABLES source,   \* what each database holds now
          current,  \* the onboarding object: <<>> or <<[...]>>
          load,     \* the load in progress: <<>> or <<[...]>>
          ledger,   \* the target database: id -> row
          frozen,   \* mapping files on disk, per tenant
          bound,    \* the session's data source: <<>> or <<[kind, tenant, policy]>>
          accepted, \* observation: per tenant, the last load that was committed
          ahead,    \* observation: tenants whose file was frozen by a load not committed since
          spent     \* [loads, changes]: what the bounds have been used up by

vars == <<source, current, load, ledger, frozen, bound, accepted, ahead, spent>>

EntityOrder == <<"Customer", "Vendor", "BankAccount", "Invoice", "VendorInvoice", "BankTransaction">>
ParentOf == [Invoice |-> "Customer", VendorInvoice |-> "Vendor", BankTransaction |-> "BankAccount"]
ParentField == [Invoice |-> "customer_ref", VendorInvoice |-> "vendor_ref",
                BankTransaction |-> "account_ref"]
AssumedTermsDays == 30
Vocabulary == [Invoice |-> {"open", "part_paid", "paid", "written_off", "void"},
               VendorInvoice |-> {"open", "part_paid", "paid", "disputed", "void"}]

(***************************************************************************)
(* Conversion of one source row                                              *)
(***************************************************************************)
(* The cell a field is read from; a field that is not mapped reads null. *)
Cell(row, plan, field) ==
  IF field \in DOMAIN plan.fields THEN row[plan.fields[field].column] ELSE <<>>

KeyOf(row, plan, field) == IF Cell(row, plan, field) = <<>> THEN "" ELSE Cell(row, plan, field)[1]

(* A currency column that is not mapped is the constant default. *)
CurrencyOf(row, plan) ==
  IF Cell(row, plan, "currency") = <<>> THEN HomeCurrency ELSE Cell(row, plan, "currency")[1]

Pow10(k) == [x \in 0..6 |-> CASE x = 0 -> 1 [] x = 1 -> 10 [] x = 2 -> 100 [] x = 3 -> 1000
                              [] OTHER -> 10000][k]

Truncated(n, k) == IF n >= 0 THEN n \div Pow10(k) ELSE -((-n) \div Pow10(k))

Abs(n) == IF n < 0 THEN -n ELSE n

(* Minor units truncate; major units refuse more decimals than the currency  *)
(* has.  <<>> is the ValueError.                                             *)
ToMinor(cell, currency, units) ==
  IF cell = <<>> THEN <<>>
  ELSE LET v == cell[1] IN
       IF units = "minor" THEN <<Truncated(v.n, v.d)>>
       ELSE IF v.d > Currencies[currency] THEN <<>>
       ELSE <<v.n * Pow10(Currencies[currency] - v.d)>>

MinorOf(row, plan, field) ==
  ToMinor(Cell(row, plan, field), CurrencyOf(row, plan), plan.fields[field].units)

(* mutant: a loader that skips a bad row without reporting it. *)
Skipped == [loads |-> FALSE, rejects |-> FALSE, row |-> <<>>, open |-> 0, moved |-> 0]

Rejected == [loads |-> FALSE, rejects |-> TRUE, row |-> <<>>, open |-> 0, moved |-> 0]

Loaded(row, open, moved) ==
  [loads |-> TRUE, rejects |-> FALSE, row |-> <<row>>, open |-> open, moved |-> moved]

(* Customers and vendors need a key and nothing else. *)
PartyOutcome(role, row, plan, tenant) ==
  IF KeyOf(row, plan, "external_id") = "" THEN Rejected
  ELSE Loaded([role |-> role, tenant |-> tenant, parent |-> "", open |-> 0, moved |-> 0,
               date |-> 0, status |-> ""], 0, 0)

(* An account with an unreadable balance is loaded at zero and reported.     *)
AccountOutcome(row, plan, tenant) ==
  LET unreadable == /\ Cell(row, plan, "balance") # <<>>
                    /\ MinorOf(row, plan, "balance") = <<>>
      party == PartyOutcome("BankAccount", row, plan, tenant)
  IN IF CurrencyOf(row, plan) \notin DOMAIN Currencies THEN Rejected
     ELSE [party EXCEPT !.rejects = @ \/ unreadable]

StatusOf(role, row, plan) ==
  LET raw == IF Cell(row, plan, "status") = <<>> THEN "open" ELSE Cell(row, plan, "status")[1]
      known == {"open", "part_paid", "paid", "written_off", "void", "disputed"}
  IN IF raw \notin known \/ (role = "Invoice" /\ raw = "disputed") THEN "open" ELSE raw

(* A document needs a key, a parent this run loaded, a known currency, an    *)
(* amount and a due date, an issue date not after it, and an open amount not *)
(* above the gross one.                                                      *)
DocumentOutcome(role, row, plan, tenant, keys) ==
  LET parent == KeyOf(row, plan, ParentField[role])
      amount == MinorOf(row, plan, "amount")
      due == Cell(row, plan, "due_date")
      issued == IF Cell(row, plan, "issued_date") = <<>> THEN due[1] - AssumedTermsDays
                ELSE Cell(row, plan, "issued_date")[1]
      status == StatusOf(role, row, plan)
      open == IF Cell(row, plan, "open_amount") = <<>>
              THEN IF status \in {"open", "part_paid"} THEN amount ELSE <<0>>
              ELSE MinorOf(row, plan, "open_amount")
  IN IF \/ KeyOf(row, plan, "external_id") = ""
        \/ <<ParentOf[role], parent>> \notin keys
        \/ CurrencyOf(row, plan) \notin DOMAIN Currencies
        \/ "amount" \notin DOMAIN plan.fields \/ amount = <<>>
        \/ due = <<>> \/ issued > due[1]
        \/ open = <<>> \/ Abs(amount[1]) < Abs(open[1])
     THEN Rejected
     ELSE Loaded([role |-> role, tenant |-> tenant, parent |-> parent, open |-> Abs(open[1]),
                  moved |-> 0, date |-> issued, status |-> status], Abs(open[1]), 0)

MovementOutcome(row, plan, tenant, keys) ==
  LET account == KeyOf(row, plan, "account_ref")
      amount == MinorOf(row, plan, "amount")
      booked == Cell(row, plan, "booked_on")
  IN IF \/ KeyOf(row, plan, "external_id") = ""
        \/ <<"BankAccount", account>> \notin keys
        \/ CurrencyOf(row, plan) \notin DOMAIN Currencies
        \/ "amount" \notin DOMAIN plan.fields \/ amount = <<>>
        \/ booked = <<>> \/ amount = <<0>>
     THEN Rejected
     ELSE Loaded([role |-> "BankTransaction", tenant |-> tenant, parent |-> account, open |-> 0,
                  moved |-> amount[1], date |-> booked[1], status |-> ""], 0, amount[1])

Outcome(role, row, plan, tenant, keys) ==
  CASE role \in {"Customer", "Vendor"} -> PartyOutcome(role, row, plan, tenant)
    [] role = "BankAccount" -> AccountOutcome(row, plan, tenant)
    [] role = "BankTransaction" -> MovementOutcome(row, plan, tenant, keys)
    [] OTHER -> DocumentOutcome(role, row, plan, tenant, keys)

(***************************************************************************)
(* One entity's rows                                                         *)
(***************************************************************************)
DerivedId(kind, tenant, key) == <<kind, tenant, key>>

TableIn(snapshot, name) == CHOOSE t \in DOMAIN snapshot.schema : snapshot.schema[t].name = name

(* The SELECT: the table and every mapped column must still be there. *)
Readable(snapshot, plan) ==
  \E t \in DOMAIN snapshot.schema :
    /\ snapshot.schema[t].name = plan.table
    /\ \A f \in DOMAIN plan.fields : \E c \in DOMAIN snapshot.schema[t].columns :
         snapshot.schema[t].columns[c].name = plan.fields[f].column

Read(snapshot, plan) ==
  LET rows == snapshot.rows[TableIn(snapshot, plan.table)]
  IN SubSeq(rows, 1, Min({Len(rows), MaxRows}))

Outcomes(role, rows, plan, tenant, keys) ==
  [i \in DOMAIN rows |-> Outcome(role, rows[i], plan, tenant, keys)]

(* Upserts in row order: of two rows with one key the later one stays. *)
Writes(role, rows, plan, tenant, out) ==
  LET IdAt(i) == DerivedId(role, tenant, KeyOf(rows[i], plan, "external_id"))
      loads == {i \in DOMAIN rows : out[i].loads}
  IN [id \in {IdAt(i) : i \in loads} |-> out[Max({i \in loads : IdAt(i) = id})].row[1]]

(* mutant: a loader that adds to a row it finds instead of restating it. *)
UpsertAdds(table, writes) ==
  [id \in DOMAIN table \cup DOMAIN writes |->
     IF id \notin DOMAIN writes THEN table[id]
     ELSE IF id \notin DOMAIN table THEN writes[id]
     ELSE [writes[id] EXCEPT !.open = @ + table[id].open, !.moved = @ + table[id].moved]]

Upsert(table, writes) ==
  [id \in DOMAIN table \cup DOMAIN writes |-> IF id \in DOMAIN writes THEN writes[id] ELSE table[id]]

Total(out, field) ==
  FoldLeft(LAMBDA sum, o : sum + (IF field = "open" THEN o.open ELSE o.moved), 0, out)

(* The constraints the target declares and the loader does not check: a      *)
(* payable's status vocabulary.                                              *)
Storable(writes) ==
  \A id \in DOMAIN writes : writes[id].role \in DOMAIN Vocabulary =>
    writes[id].status \in Vocabulary[writes[id].role]

(***************************************************************************)
(* The reconciliation gate, on the report's totals                           *)
(***************************************************************************)
Reconcile(report, stated, tolerance) ==
  [accepted |-> /\ report.ar = stated.ar /\ report.ap = stated.ap
                /\ Abs(report.cash - stated.cash) <= tolerance,
   coverage |-> IF report.sourceRows = 0 THEN 0 ELSE (Bps * report.mappedRows) \div report.sourceRows]

(***************************************************************************)
(* Stages                                                                    *)
(***************************************************************************)
Init ==
  /\ source \in [Urls -> Snapshots]
  /\ current = <<>> /\ load = <<>> /\ ledger = <<>> /\ bound = <<>>
  /\ frozen = [t \in Tenants |-> <<>>]
  /\ accepted = [t \in Tenants |-> <<>>] /\ ahead = {}
  /\ spent = [loads |-> 0, changes |-> 0]

Idle == load = <<>>

(* mutant: a loader that leaves the last tenant bound until the load. *)
ConnectKeepingTheScreens(url, tenant) ==
  /\ Idle
  /\ current' = <<[url |-> url, tenant |-> tenant, fingerprint |-> <<>>, mapping |-> <<>>,
                   reconciliation |-> <<>>, path |-> FALSE, report |-> <<>>, drift |-> <<>>]>>
  /\ UNCHANGED <<source, bound, load, ledger, frozen, accepted, ahead, spent>>

(* A probe that fails leaves everything as it was; one that succeeds replaces *)
(* the onboarding, forgets the old credential and unloads the data source.    *)
Connect(url, tenant) ==
  /\ Idle
  /\ current' = <<[url |-> url, tenant |-> tenant, fingerprint |-> <<>>, mapping |-> <<>>,
                   reconciliation |-> <<>>, path |-> FALSE, report |-> <<>>, drift |-> <<>>]>>
  /\ bound' = <<>>
  /\ UNCHANGED <<source, load, ledger, frozen, accepted, ahead, spent>>

Introspect ==
  /\ Idle /\ current # <<>>
  /\ current' = [current EXCEPT ![1].fingerprint = <<Fingerprint(source[current[1].url])>>]
  /\ UNCHANGED <<source, load, ledger, frozen, bound, accepted, ahead, spent>>

Drafts == [schema \in {s.schema : s \in Snapshots} |-> DraftFromProposal(schema, Propose(schema))]

(* Classify and draft in one request; what later stages left behind stays. *)
Classify ==
  /\ Idle /\ current # <<>> /\ current[1].fingerprint # <<>>
  /\ LET print == current[1].fingerprint[1]
     IN current' = [current EXCEPT ![1].mapping =
          <<[hash |-> print, entities |-> Drafts[print.tables], coverage |-> 0]>>]
  /\ UNCHANGED <<source, load, ledger, frozen, bound, accepted, ahead, spent>>

CheckDrift ==
  /\ Idle /\ current # <<>> /\ current[1].mapping # <<>>
  /\ LET now == Fingerprint(source[current[1].url])
     IN current' = [current EXCEPT ![1].fingerprint = <<now>>,
                                   ![1].drift = <<WatchDrift(current[1].mapping[1].hash, now)>>]
  /\ UNCHANGED <<source, load, ledger, frozen, bound, accepted, ahead, spent>>

(***************************************************************************)
(* The load                                                                  *)
(***************************************************************************)
StartLoad(stated, tolerance) ==
  /\ Idle /\ current # <<>> /\ current[1].mapping # <<>> /\ spent.loads < MaxLoads
  /\ spent' = [spent EXCEPT !.loads = @ + 1]
  /\ load' = <<[next |-> 1, writes |-> <<>>, keys |-> {}, read |-> <<>>, rejects |-> {},
                stated |-> stated, tolerance |-> tolerance, gate |-> "open",
                report |-> [ar |-> 0, ap |-> 0, cash |-> 0, sourceRows |-> 0, mappedRows |-> 0]]>>
  /\ UNCHANGED <<source, current, ledger, frozen, bound, accepted, ahead>>

Role == EntityOrder[load[1].next]
Plans == current[1].mapping[1].entities

LoadEntity(role, plan) ==
  LET L == load[1]
      tenant == current[1].tenant
      rows == Read(source[current[1].url], plan)
      out == Outcomes(role, rows, plan, tenant, L.keys)
      loads == {i \in DOMAIN rows : out[i].loads}
  IN load' = <<[L EXCEPT
       !.next = @ + 1,
       !.writes = Upsert(@, Writes(role, rows, plan, tenant, out)),
       !.keys = @ \cup {<<role, KeyOf(rows[i], plan, "external_id")>> : i \in loads},
       !.read = With(@, role, rows),
       !.rejects = @ \cup {<<role, i>> : i \in {j \in DOMAIN rows : out[j].rejects}},
       !.report = [ar |-> @.ar + (IF role = "Invoice" THEN Total(out, "open") ELSE 0),
                   ap |-> @.ap + (IF role = "VendorInvoice" THEN Total(out, "open") ELSE 0),
                   cash |-> @.cash + Total(out, "moved"),
                   sourceRows |-> @.sourceRows + Len(rows),
                   mappedRows |-> @.mappedRows + Cardinality(loads)]]>>

(* The next entity in parents-first order, as the source holds it now. *)
LoadNext ==
  /\ load # <<>> /\ load[1].gate = "open" /\ load[1].next <= Len(EntityOrder)
  /\ \/ Role \notin DOMAIN Plans /\ load' = <<[load[1] EXCEPT !.next = @ + 1]>>
     \/ /\ Role \in DOMAIN Plans
        /\ Readable(source[current[1].url], Plans[Role])
        /\ LoadEntity(Role, Plans[Role])
  /\ UNCHANGED <<source, current, ledger, frozen, bound, accepted, ahead, spent>>

(* A read that fails, because the source is away or a table or column the     *)
(* mapping names is gone, or a row the target refuses: the session closes     *)
(* without a commit, and the onboarding keeps its earlier report.             *)
LoadFails ==
  /\ load # <<>> /\ load[1].gate = "open"
  /\ load' = <<>>
  /\ UNCHANGED <<source, current, ledger, frozen, bound, accepted, ahead, spent>>

(* Every entity is read and the target took the rows: the gate.  A pass       *)
(* freezes the mapping file, before the caller commits; a miss rolls back.    *)
Settle ==
  /\ load # <<>> /\ load[1].gate = "open" /\ load[1].next > Len(EntityOrder)
  /\ Storable(load[1].writes)
  /\ LET L == load[1]
         result == Reconcile(L.report, L.stated, L.tolerance)
         signed == [current[1].mapping[1] EXCEPT !.coverage = result.coverage]
     IN \/ /\ result.accepted
           /\ current' = [current EXCEPT ![1].report = <<L.report>>,
                ![1].reconciliation = <<result>>, ![1].mapping = <<signed>>, ![1].path = TRUE]
           /\ frozen' = [frozen EXCEPT ![current[1].tenant] = <<signed>>]
           /\ load' = <<[L EXCEPT !.gate = "passed"]>>
           /\ ahead' = ahead \cup {current[1].tenant}
        \/ /\ ~result.accepted
           /\ current' = [current EXCEPT ![1].report = <<L.report>>,
                                         ![1].reconciliation = <<result>>]
           /\ load' = <<>> /\ UNCHANGED <<frozen, ahead>>
  /\ UNCHANGED <<source, ledger, bound, accepted, spent>>

(* TenantToolset wants a dated row; without one the load is reported but      *)
(* nothing is bound and what was bound before stays.                          *)
Dated(table, tenant) ==
  \E id \in DOMAIN table : table[id].tenant = tenant /\ table[id].role \in DOMAIN ParentOf

BindTo(tenant, table) ==
  IF Dated(table, tenant) THEN <<[kind |-> "tenant", tenant |-> tenant, policy |-> 1]>> ELSE bound

(* mutant: a commit of the parents, the documents to follow. *)
CommitParents ==
  /\ load # <<>> /\ load[1].gate = "passed"
  /\ LET parents == {id \in DOMAIN load[1].writes : load[1].writes[id].role \notin DOMAIN ParentOf}
     IN ledger' = Upsert(ledger, [id \in parents |-> load[1].writes[id]])
  /\ bound' = BindTo(current[1].tenant, ledger')
  /\ load' = <<>>
  /\ UNCHANGED <<source, current, frozen, accepted, ahead, spent>>

Commit ==
  /\ load # <<>> /\ load[1].gate = "passed"
  /\ ledger' = Upsert(ledger, load[1].writes)
  /\ bound' = BindTo(current[1].tenant, ledger')
  /\ accepted' = [accepted EXCEPT ![current[1].tenant] =
       <<[url |-> current[1].url, read |-> load[1].read, stated |-> load[1].stated,
          tolerance |-> load[1].tolerance, entities |-> current[1].mapping[1].entities]>>]
  /\ ahead' = ahead \ {current[1].tenant}
  /\ load' = <<>>
  /\ UNCHANGED <<source, current, frozen, spent>>

(* The commit itself fails: the file is written and the rows are not. *)
CommitFails ==
  /\ load # <<>> /\ load[1].gate = "passed"
  /\ load' = <<>>
  /\ UNCHANGED <<source, current, ledger, frozen, bound, accepted, ahead, spent>>

(***************************************************************************)
(* The data source                                                           *)
(***************************************************************************)
Reset ==
  /\ Idle /\ current' = <<>> /\ bound' = <<>>
  /\ UNCHANGED <<source, load, ledger, frozen, accepted, ahead, spent>>

UseDemo ==
  /\ Idle /\ bound' = <<[kind |-> "demo", tenant |-> "demo", policy |-> 1]>>
  /\ UNCHANGED <<source, current, load, ledger, frozen, accepted, ahead, spent>>

Clear ==
  /\ Idle /\ bound' = <<>>
  /\ UNCHANGED <<source, current, load, ledger, frozen, accepted, ahead, spent>>

(* The floor of a tenant's own policy; a demo refuses. *)
SetPolicy ==
  /\ Idle /\ bound # <<>> /\ bound[1].kind = "tenant" /\ bound[1].policy < MaxPolicy
  /\ bound' = [bound EXCEPT ![1].policy = @ + 1]
  /\ UNCHANGED <<source, current, load, ledger, frozen, accepted, ahead, spent>>

(***************************************************************************)
(* Outside the process                                                       *)
(***************************************************************************)
SourceChanges(url) ==
  /\ spent.changes < MaxChanges
  /\ spent' = [spent EXCEPT !.changes = @ + 1]
  /\ source' \in {[source EXCEPT ![url] = s] : s \in Snapshots}
  /\ UNCHANGED <<current, load, ledger, frozen, bound, accepted, ahead>>

(* Memory goes, the target database and the mapping files stay. *)
Crash ==
  /\ current' = <<>> /\ load' = <<>> /\ bound' = <<>>
  /\ UNCHANGED <<source, ledger, frozen, accepted, ahead, spent>>

Next ==
  \/ \E url \in Urls, tenant \in Tenants : Connect(url, tenant)
  \/ Introspect \/ Classify \/ CheckDrift
  \/ \E stated \in ControlTotals, tolerance \in Tolerances : StartLoad(stated, tolerance)
  \/ LoadNext \/ LoadFails \/ Settle \/ Commit \/ CommitFails
  \/ Reset \/ UseDemo \/ Clear \/ SetPolicy
  \/ \E url \in Urls : SourceChanges(url)
  \/ Crash

Spec == Init /\ [][Next]_vars

(***************************************************************************)
(* Properties                                                                *)
(***************************************************************************)
(* Onboarding keeps the promises of the ledger of record: a load that         *)
(* reconciled lands whole with its commit or not at all, never over another   *)
(* tenant's rows, and a tenant is shown only by the landing of a load of its  *)
(* own, whatever fails or crashes on the way.                                 *)
Record == INSTANCE LedgerOfRecord WITH
  rows <- ledger,
  offer <- IF load # <<>> /\ load[1].gate = "passed"
           THEN <<[tenant |-> current[1].tenant, rows |-> load[1].writes]>> ELSE <<>>,
  shown <- IF bound # <<>> /\ bound[1].kind = "tenant" THEN {bound[1].tenant} ELSE {}

KeepsTheRecord == Record!Spec

(* The loader's second promise: loading again what was loaded last, through   *)
(* the same mapping, changes no row.                                          *)
ReloadIsIdempotent ==
  [][\A t \in Tenants :
       /\ load # <<>> /\ load' = <<>> /\ accepted[t] # <<>> /\ accepted'[t] # <<>>
       /\ current # <<>> /\ current[1].tenant = t
       /\ accepted[t][1].read = load[1].read
       /\ accepted[t][1].entities = current[1].mapping[1].entities
       => ledger' = ledger]_vars

(* What becomes of row i of a role that has been read, and the id it has.     *)
Fate(role, i) ==
  Outcome(role, load[1].read[role][i], Plans[role], current[1].tenant, load[1].keys)

IdOf(role, i) ==
  DerivedId(role, current[1].tenant, KeyOf(load[1].read[role][i], Plans[role], "external_id"))

(* The loader's third promise: a row that was read is among the rejects, or    *)
(* the ledger to be holds what the row says; the one exception is a row whose  *)
(* key a later row repeats, and then the ledger to be holds what that one says. *)
RowsAreAccountedFor ==
  load # <<>> => \A role \in DOMAIN load[1].read : \A i \in DOMAIN load[1].read[role] :
    \/ <<role, i>> \in load[1].rejects
    \/ /\ IdOf(role, i) \in DOMAIN load[1].writes
       /\ \E j \in DOMAIN load[1].read[role] :
            /\ j >= i /\ IdOf(role, j) = IdOf(role, i) /\ Fate(role, j).loads
            /\ load[1].writes[IdOf(role, i)] = Fate(role, j).row[1]

(* Parents are read before children and the source moves in between: still,   *)
(* every document and movement of record has its parent of record.            *)
NoOrphans ==
  \A id \in DOMAIN ledger : ledger[id].role \in DOMAIN ParentOf =>
    DerivedId(ParentOf[ledger[id].role], ledger[id].tenant, ledger[id].parent) \in DOMAIN ledger

(* Connecting, resetting or crashing takes the last tenant off the screens: a *)
(* tenant that is shown is the one being onboarded, after a load of its own.  *)
NobodyElsesNumbers ==
  bound # <<>> /\ bound[1].kind = "tenant" =>
    /\ current # <<>> /\ current[1].tenant = bound[1].tenant
    /\ accepted[bound[1].tenant] # <<>>

(* Rows of record can be read back: wherever a crash falls, a tenant with     *)
(* rows has a frozen mapping on disk and a load of its own behind them; and    *)
(* the file is the mapping that load read by, unless a later load passed the   *)
(* gate, and so wrote the same file, and then did not commit.                  *)
RowsHaveAMapping ==
  /\ \A id \in DOMAIN ledger : /\ frozen[ledger[id].tenant] # <<>>
                               /\ accepted[ledger[id].tenant] # <<>>
  /\ \A t \in Tenants \ ahead : accepted[t] # <<>> =>
       frozen[t] # <<>> /\ frozen[t][1].entities = accepted[t][1].entities

(* One column, one field: no column of the source feeds two fields of a       *)
(* mapping, so no amount is counted as two things.                            *)
OneColumnOneField ==
  current # <<>> /\ current[1].mapping # <<>> => \A role \in DOMAIN Plans :
    \A f, g \in DOMAIN Plans[role].fields :
      Plans[role].fields[f].column = Plans[role].fields[g].column => f = g

(* What is of record can be read, traced and resolved to its parent, and no    *)
(* row went missing on the way into it.                                       *)
RecordIsSound == RowsAreAccountedFor /\ NoOrphans /\ RowsHaveAMapping /\ OneColumnOneField
=============================================================================
