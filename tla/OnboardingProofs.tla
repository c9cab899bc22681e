-------------------------- MODULE OnboardingProofs --------------------------
(***************************************************************************)
(* Proofs about one tenant's onboarding, for any source databases, tenants,  *)
(* control totals and bounds: it implements the ledger of record, shows      *)
(* nobody else's numbers, loses no row on the way, feeds no column into two  *)
(* fields of an entity, and a load of what was loaded before changes nothing.*)
(*                                                                           *)
(* A load works on the tenant that is connected, whose rows carry its name   *)
(* in their ids; so the invariant says of the rows of record, and of those a *)
(* load is about to add, whose they are and where their parents are.         *)
(***************************************************************************)
EXTENDS Onboarding, TallyProofs, SequenceTheorems

-----------------------------------------------------------------------------
(* The inductive invariant *)

(* What the stores outside the onboarding object are. *)
Stores ==
  /\ source \in [Urls -> Snapshots]
  /\ DOMAIN frozen = Tenants /\ DOMAIN accepted = Tenants

(* The onboarding object has a source and a tenant, and perhaps a mapping. *)
Connected ==
  current # <<>> =>
    /\ 1 \in DOMAIN current
    /\ {"url", "tenant", "fingerprint", "mapping"} \subseteq DOMAIN current[1]
    /\ current[1].url \in Urls /\ current[1].tenant \in Tenants
    /\ current[1].mapping # <<>> => /\ 1 \in DOMAIN current[1].mapping
                                    /\ "entities" \in DOMAIN current[1].mapping[1]

(* A row a load of tenant t may write under id: its own, its parent loaded. *)
RowFor(t, keys, id, row) ==
  /\ id[2] = t /\ row.tenant = t
  /\ row.role \in DOMAIN ParentOf => <<ParentOf[row.role], row.parent>> \in keys

LoadFields == {"next", "writes", "keys", "read", "rejects", "stated", "tolerance", "gate", "report"}

(* A load writes rows of the tenant that is connected, parents first. *)
Loading ==
  load # <<>> =>
    /\ current # <<>> /\ current[1].mapping # <<>>
    /\ 1 \in DOMAIN load /\ LoadFields \subseteq DOMAIN load[1]
    /\ \A id \in DOMAIN load[1].writes :
         RowFor(current[1].tenant, load[1].keys, id, load[1].writes[id])
    /\ \A key \in load[1].keys :
         DerivedId(key[1], current[1].tenant, key[2]) \in DOMAIN load[1].writes
    /\ load[1].gate = "passed" =>
         /\ frozen[current[1].tenant] # <<>>
         /\ frozen[current[1].tenant][1].entities = current[1].mapping[1].entities

(* Whose the rows of record are. *)
OfRecord == \A id \in DOMAIN ledger : id[2] = ledger[id].tenant /\ ledger[id].tenant \in Tenants

(* The data source that is bound, if any. *)
Screens == bound # <<>> => 1 \in DOMAIN bound /\ {"kind", "tenant"} \subseteq DOMAIN bound[1]

(* The inductive invariant. *)
Sound ==
  /\ Stores /\ Connected /\ Loading /\ OfRecord /\ Screens
  /\ NoOrphans /\ RowsHaveAMapping /\ NobodyElsesNumbers

-----------------------------------------------------------------------------
(* One row *)

(* Every outcome of a row loads it or reports it, and what it loads is the     *)
(* tenant's own, under a parent this run has loaded.                           *)
LEMMA OutcomeIs ==
  ASSUME NEW role, NEW row, NEW plan, NEW tenant, NEW keys
  PROVE  LET o == Outcome(role, row, plan, tenant, keys) IN
         /\ o.loads \/ o.rejects
         /\ o.loads => /\ o.row[1].tenant = tenant
                       /\ o.row[1].role \in DOMAIN ParentOf =>
                            <<ParentOf[o.row[1].role], o.row[1].parent>> \in keys
<1>. DEFINE Good(o) ==
       /\ o.loads \/ o.rejects
       /\ o.loads => /\ o.row[1].tenant = tenant
                     /\ o.row[1].role \in DOMAIN ParentOf =>
                          <<ParentOf[o.row[1].role], o.row[1].parent>> \in keys
<1>1. Good(Rejected)
  BY DEF Rejected
<1>2. ASSUME NEW r, NEW open, NEW moved, r.tenant = tenant,
             r.role \in DOMAIN ParentOf => <<ParentOf[r.role], r.parent>> \in keys
      PROVE  Good(Loaded(r, open, moved))
  BY <1>2 DEF Loaded
<1>3. ASSUME NEW kind \in {"Customer", "Vendor", "BankAccount"}
      PROVE  Good(PartyOutcome(kind, row, plan, tenant))
  <2>. DEFINE r == [role |-> kind, tenant |-> tenant, parent |-> "", open |-> 0, moved |-> 0,
                    date |-> 0, status |-> ""]
  <2>1. r.tenant = tenant /\ r.role \notin DOMAIN ParentOf
    BY DEF ParentOf
  <2>. HIDE DEF r, Good
  <2>. QED
    BY <1>1, <1>2, <2>1 DEF PartyOutcome, r
<1>4. Good(AccountOutcome(row, plan, tenant))
  <2>. DEFINE party == PartyOutcome("BankAccount", row, plan, tenant)
              unreadable == /\ Cell(row, plan, "balance") # <<>>
                            /\ MinorOf(row, plan, "balance") = <<>>
              account == [party EXCEPT !.rejects = @ \/ unreadable]
  <2>1. {"loads", "rejects", "row"} \subseteq DOMAIN party
    BY DEF PartyOutcome, Rejected, Loaded
  <2>2. Good(party)
    BY <1>3
  <2>3. account.loads = party.loads /\ account.row = party.row
        /\ account.rejects = (party.rejects \/ unreadable)
    <3>. HIDE DEF party, unreadable
    <3>. QED
      BY <2>1
  <2>4. Good(account)
    <3>. HIDE DEF party, unreadable, account
    <3>. QED
      BY <2>2, <2>3
  <2>5. AccountOutcome(row, plan, tenant) = Rejected
        \/ AccountOutcome(row, plan, tenant) = account
    BY DEF AccountOutcome
  <2>. HIDE DEF account, Good
  <2>. QED
    BY <1>1, <2>4, <2>5
<1>5. Good(MovementOutcome(row, plan, tenant, keys))
  <2>. DEFINE parent == KeyOf(row, plan, "account_ref")
              amount == MinorOf(row, plan, "amount")
              r == [role |-> "BankTransaction", tenant |-> tenant, parent |-> parent,
                    open |-> 0, moved |-> amount[1], date |-> Cell(row, plan, "booked_on")[1],
                    status |-> ""]
  <2>1. \/ MovementOutcome(row, plan, tenant, keys) = Rejected
        \/ /\ MovementOutcome(row, plan, tenant, keys) = Loaded(r, 0, amount[1])
           /\ <<"BankAccount", parent>> \in keys
    BY DEF MovementOutcome
  <2>2. /\ r.tenant = tenant /\ r.role = "BankTransaction" /\ r.parent = parent
        /\ ParentOf["BankTransaction"] = "BankAccount"
    BY DEF ParentOf
  <2>. HIDE DEF r, parent, amount, Good
  <2>. QED
    BY <1>1, <1>2, <2>1, <2>2
<1>6. Good(DocumentOutcome(role, row, plan, tenant, keys))
  <2>1. \/ DocumentOutcome(role, row, plan, tenant, keys) = Rejected
        \/ \E parent, open, date, status :
             /\ <<ParentOf[role], parent>> \in keys
             /\ DocumentOutcome(role, row, plan, tenant, keys)
                  = Loaded([role |-> role, tenant |-> tenant, parent |-> parent, open |-> open,
                            moved |-> 0, date |-> date, status |-> status], open, 0)
    BY ZenonT(40) DEF DocumentOutcome
  <2>2. CASE DocumentOutcome(role, row, plan, tenant, keys) = Rejected
    <3>. HIDE DEF Good
    <3>. QED
      BY <1>1, <2>2
  <2>3. ASSUME NEW parent, NEW open, NEW date, NEW status,
               <<ParentOf[role], parent>> \in keys,
               DocumentOutcome(role, row, plan, tenant, keys)
                  = Loaded([role |-> role, tenant |-> tenant, parent |-> parent, open |-> open,
                            moved |-> 0, date |-> date, status |-> status], open, 0)
        PROVE  Good(DocumentOutcome(role, row, plan, tenant, keys))
    <3>. DEFINE r == [role |-> role, tenant |-> tenant, parent |-> parent, open |-> open,
                      moved |-> 0, date |-> date, status |-> status]
    <3>1. r.tenant = tenant /\ r.role = role /\ r.parent = parent
      OBVIOUS
    <3>. HIDE DEF r, Good
    <3>. QED
      BY <1>2, <2>3, <3>1 DEF r
  <2>. QED
    BY <2>1, <2>2, <2>3
<1>7. Good(Outcome(role, row, plan, tenant, keys))
  <2>. HIDE DEF Good
  <2>. QED
    BY <1>3, <1>4, <1>5, <1>6 DEF Outcome
<1>. QED
  BY <1>7

-----------------------------------------------------------------------------
(* One entity's rows *)

(* A finite set of places has a last one. *)
LEMMA LastPlace ==
  ASSUME NEW n \in Nat, NEW S \in SUBSET (1..n), S # {}
  PROVE  Max(S) \in S /\ \A y \in S : Max(S) >= y
<1>. DEFINE T == {n - y : y \in S}
<1>1. \A y \in S : y \in Nat /\ n - y \in Nat
  OBVIOUS
<1>2. T \subseteq Nat /\ T # {}
  BY <1>1
<1>3. PICK t \in T : \A u \in T : ~(<<u, t>> \in OpToRel(<, Nat))
  <2>. HIDE DEF T
  <2>. QED
    BY <1>2, WFMin, NatLessThanWellFounded
<1>4. ASSUME NEW u \in T PROVE t <= u
  <2>1. t \in Nat /\ u \in Nat /\ ~(<<u, t>> \in OpToRel(<, Nat))
    BY <1>2, <1>3
  <2>. HIDE DEF T
  <2>2. u < t => <<u, t>> \in OpToRel(<, Nat)
    BY <2>1, Zenon DEF OpToRel
  <2>3. t \in Nat /\ u \in Nat /\ ~(u < t)
    BY <2>1, <2>2, Zenon
  <2>. QED
    BY <2>3
<1>5. PICK x \in S : t = n - x
  OBVIOUS
<1>6. \A y \in S : x >= y
  <2>. SUFFICES ASSUME NEW y \in S PROVE x >= y
    OBVIOUS
  <2>1. t <= n - y
    BY <1>4
  <2>. QED
    BY <1>1, <1>5, <2>1
<1>. QED
  BY <1>6 DEF Max

(* The SELECT returns a list, of at most MaxRows rows. *)
LEMMA ReadIs ==
  ASSUME Stores, NEW url \in Urls, NEW plan, Readable(source[url], plan)
  PROVE  \E n \in Nat : DOMAIN Read(source[url], plan) = 1..n
<1>. DEFINE s == source[url]
            t == TableIn(s, plan.table)
            rows == s.rows[t]
<1>1. s \in Snapshots
  BY DEF Stores
<1>2. t \in DOMAIN s.schema
  BY DEF Readable, TableIn
<1>3. rows \in Seq(Range(rows))
  BY <1>1, <1>2, OnboardingAssumption
<1>. DEFINE n == Min({Len(rows), MaxRows})
<1>4. n \in Nat /\ n <= Len(rows)
  <2>. DEFINE a == Len(rows)
  <2>1. a \in Nat /\ MaxRows \in Nat
    BY <1>3, OnboardingAssumption
  <2>. HIDE DEF a
  <2>2. Min({a, MaxRows}) \in Nat /\ Min({a, MaxRows}) <= a
    <3>1. \E x \in {a, MaxRows} : \A y \in {a, MaxRows} : x <= y
      BY <2>1
    <3>. QED
      BY <2>1, <3>1 DEF Min
  <2>. QED
    BY <2>2 DEF a
<1>5. Read(s, plan) = SubSeq(rows, 1, n)
  BY DEF Read
<1>. HIDE DEF n, rows
<1>6. DOMAIN SubSeq(rows, 1, n) = 1..n
  BY <1>3, <1>4
<1>. QED
  BY <1>4, <1>5, <1>6

(* What a load writes for an entity: a row under the id of every row it        *)
(* loads, and no other.                                                        *)
LEMMA WritesAre ==
  ASSUME NEW n \in Nat, NEW rows, DOMAIN rows = 1..n, NEW role, NEW plan, NEW tenant, NEW keys
  PROVE  LET out == Outcomes(role, rows, plan, tenant, keys)
             W == Writes(role, rows, plan, tenant, out)
         IN /\ \A id \in DOMAIN W : RowFor(tenant, keys, id, W[id])
            /\ \A i \in DOMAIN rows : out[i].loads =>
                 DerivedId(role, tenant, KeyOf(rows[i], plan, "external_id")) \in DOMAIN W
            /\ \A i \in DOMAIN rows : out[i].loads \/ out[i].rejects
<1>. DEFINE out == Outcomes(role, rows, plan, tenant, keys)
            W == Writes(role, rows, plan, tenant, out)
            IdAt(i) == DerivedId(role, tenant, KeyOf(rows[i], plan, "external_id"))
            loads == {i \in DOMAIN rows : out[i].loads}
<1>1. \A i \in DOMAIN rows : out[i] = Outcome(role, rows[i], plan, tenant, keys)
  BY DEF Outcomes
<1>2. W = [id \in {IdAt(i) : i \in loads} |-> out[Max({i \in loads : IdAt(i) = id})].row[1]]
  BY Zenon DEF Writes
<1>3. \A i \in DOMAIN rows :
        /\ out[i].loads \/ out[i].rejects
        /\ out[i].loads => /\ out[i].row[1].tenant = tenant
                           /\ out[i].row[1].role \in DOMAIN ParentOf =>
                                <<ParentOf[out[i].row[1].role], out[i].row[1].parent>> \in keys
  <2>. TAKE i \in DOMAIN rows
  <2>. DEFINE o == Outcome(role, rows[i], plan, tenant, keys)
  <2>1. /\ o.loads \/ o.rejects
        /\ o.loads => /\ o.row[1].tenant = tenant
                      /\ o.row[1].role \in DOMAIN ParentOf =>
                           <<ParentOf[o.row[1].role], o.row[1].parent>> \in keys
    BY OutcomeIs
  <2>2. out[i] = o
    BY <1>1
  <2>. HIDE DEF o, out
  <2>. QED
    BY <2>1, <2>2
<1>4. ASSUME NEW id \in DOMAIN W PROVE RowFor(tenant, keys, id, W[id])
  <2>. DEFINE S == {i \in loads : IdAt(i) = id}
              m == Max(S)
  <2>1. PICK i \in loads : IdAt(i) = id
    BY <1>2
  <2>2. S \in SUBSET (1..n) /\ S # {}
    BY <2>1
  <2>. HIDE DEF S
  <2>3. m \in S
    BY <2>2, LastPlace
  <2>4. m \in DOMAIN rows /\ out[m].loads /\ W[id] = out[m].row[1]
    BY <1>2, <2>1, <2>3 DEF S
  <2>5. id[2] = tenant
    BY <2>1 DEF DerivedId
  <2>. HIDE DEF m, W, out
  <2>. QED
    BY <1>3, <2>4, <2>5 DEF RowFor
<1>5. \A i \in DOMAIN rows : out[i].loads => IdAt(i) \in DOMAIN W
  BY <1>2
<1>. QED
  BY <1>3, <1>4, <1>5

-----------------------------------------------------------------------------
(* The steps of a load *)

(* Rows already written stay written, or are restated. *)
LEMMA UpsertIs ==
  ASSUME NEW table, NEW writes
  PROVE  /\ DOMAIN Upsert(table, writes) = DOMAIN table \cup DOMAIN writes
         /\ \A id \in DOMAIN writes : Upsert(table, writes)[id] = writes[id]
         /\ \A id \in DOMAIN table \ DOMAIN writes : Upsert(table, writes)[id] = table[id]
  BY DEF Upsert

(* What a step outside a load must leave alone for the invariant to stay. *)
LEMMA IdleHolds ==
  ASSUME Sound, Stores', Connected', Screens', NobodyElsesNumbers',
         load' = <<>>, UNCHANGED <<ledger, frozen, accepted, ahead>>
  PROVE  Sound'
<1>1. Loading'
  BY DEF Loading
<1>2. OfRecord' /\ NoOrphans'
  BY DEF Sound, OfRecord, NoOrphans
<1>3. RowsHaveAMapping'
  BY DEF Sound, RowsHaveAMapping, OfRecord
<1>. QED
  BY <1>1, <1>2, <1>3 DEF Sound

(* A load begins with nothing written. *)
LEMMA StartLoadHolds ==
  ASSUME Sound, NEW stated, NEW tolerance, StartLoad(stated, tolerance)
  PROVE  Sound'
<1>1. /\ current # <<>> /\ current[1].mapping # <<>>
      /\ UNCHANGED <<source, current, ledger, frozen, bound, accepted, ahead>>
  BY DEF StartLoad
<1>2. /\ load' # <<>> /\ 1 \in DOMAIN load' /\ DOMAIN load'[1] = LoadFields
      /\ load'[1].writes = <<>> /\ load'[1].keys = {} /\ load'[1].read = <<>>
      /\ load'[1].gate = "open"
  BY DEF StartLoad, LoadFields
<1>3. Loading'
  BY <1>1, <1>2 DEF Loading
<1>4. Stores' /\ Connected' /\ OfRecord' /\ Screens' /\ NoOrphans' /\ RowsHaveAMapping'
      /\ NobodyElsesNumbers'
  BY <1>1 DEF Sound, Stores, Connected, OfRecord, Screens, NoOrphans, RowsHaveAMapping,
     NobodyElsesNumbers
<1>. QED
  BY <1>3, <1>4 DEF Sound

(* What reading one entity does to the load. *)
LEMMA EntityFields ==
  ASSUME NEW role, NEW plan, LoadEntity(role, plan), LoadFields \subseteq DOMAIN load[1]
  PROVE  LET L == load[1]
             tenant == current[1].tenant
             rows == Read(source[current[1].url], plan)
             out == Outcomes(role, rows, plan, tenant, L.keys)
             W == Writes(role, rows, plan, tenant, out)
         IN /\ load' # <<>> /\ 1 \in DOMAIN load' /\ LoadFields \subseteq DOMAIN load'[1]
            /\ load'[1].writes = Upsert(L.writes, W)
            /\ load'[1].keys = L.keys \cup {<<role, KeyOf(rows[i], plan, "external_id")>> :
                                              i \in {j \in DOMAIN rows : out[j].loads}}
            /\ load'[1].read = With(L.read, role, rows)
            /\ load'[1].rejects = L.rejects \cup
                                    {<<role, i>> : i \in {j \in DOMAIN rows : out[j].rejects}}
            /\ load'[1].gate = L.gate
<1>. DEFINE L == load[1]
            tenant == current[1].tenant
            rows == Read(source[current[1].url], plan)
            out == Outcomes(role, rows, plan, tenant, L.keys)
            loads == {j \in DOMAIN rows : out[j].loads}
            writes == Upsert(L.writes, Writes(role, rows, plan, tenant, out))
            keys == L.keys \cup {<<role, KeyOf(rows[i], plan, "external_id")>> : i \in loads}
            read == With(L.read, role, rows)
            rejects == L.rejects \cup {<<role, i>> : i \in {j \in DOMAIN rows : out[j].rejects}}
            next == L.next + 1
            report == [ar |-> L.report.ar + (IF role = "Invoice" THEN Total(out, "open") ELSE 0),
                       ap |-> L.report.ap + (IF role = "VendorInvoice"
                                             THEN Total(out, "open") ELSE 0),
                       cash |-> L.report.cash + Total(out, "moved"),
                       sourceRows |-> L.report.sourceRows + Len(rows),
                       mappedRows |-> L.report.mappedRows + Cardinality(loads)]
            M == [L EXCEPT !.next = next, !.writes = writes, !.keys = keys, !.read = read,
                           !.rejects = rejects, !.report = report]
<1>1. load' = <<M>>
  BY Zenon DEF LoadEntity
<1>2. load' # <<>> /\ 1 \in DOMAIN load' /\ load'[1] = M
  <2>. HIDE DEF M
  <2>. QED
    BY <1>1
<1>. HIDE DEF next, writes, keys, read, rejects, report, L
<1>3. /\ DOMAIN M = DOMAIN L /\ M.writes = writes /\ M.keys = keys /\ M.read = read
      /\ M.rejects = rejects /\ M.gate = L.gate
  BY DEF LoadFields, L
<1>. HIDE DEF M
<1>. QED
  BY <1>2, <1>3 DEF writes, keys, read, rejects, L

(* The next entity: its rows are the tenant's, and their parents were read     *)
(* before them.                                                                *)
LEMMA LoadNextHolds ==
  ASSUME Sound, LoadNext
  PROVE  Sound'
<1>1. /\ load # <<>> /\ UNCHANGED <<source, current, ledger, frozen, bound, accepted, ahead>>
  BY DEF LoadNext
<1>2. /\ current # <<>> /\ current[1].mapping # <<>>
      /\ 1 \in DOMAIN load /\ LoadFields \subseteq DOMAIN load[1]
      /\ current[1].url \in Urls
  BY <1>1 DEF Sound, Loading, Connected
<1>3. Stores' /\ Connected' /\ OfRecord' /\ Screens' /\ NoOrphans' /\ RowsHaveAMapping'
      /\ NobodyElsesNumbers'
  BY <1>1 DEF Sound, Stores, Connected, OfRecord, Screens, NoOrphans, RowsHaveAMapping,
     NobodyElsesNumbers
<1>4. CASE load' = <<[load[1] EXCEPT !.next = @ + 1]>>
  <2>1. /\ load' # <<>> /\ 1 \in DOMAIN load' /\ LoadFields \subseteq DOMAIN load'[1]
        /\ load'[1].writes = load[1].writes /\ load'[1].keys = load[1].keys
        /\ load'[1].read = load[1].read /\ load'[1].rejects = load[1].rejects
        /\ load'[1].gate = load[1].gate
    BY <1>2, <1>4 DEF LoadFields
  <2>2. Loading'
    BY <1>1, <2>1 DEF Sound, Loading, RowFor
  <2>. QED
    BY <1>3, <2>2 DEF Sound
<1>5. ASSUME Readable(source[current[1].url], Plans[Role]), LoadEntity(Role, Plans[Role])
      PROVE  Sound'
  <2>. DEFINE L == load[1]
              role == Role
              plan == Plans[role]
              tenant == current[1].tenant
              rows == Read(source[current[1].url], plan)
              out == Outcomes(role, rows, plan, tenant, L.keys)
              W == Writes(role, rows, plan, tenant, out)
              Key(i) == KeyOf(rows[i], plan, "external_id")
              loads == {j \in DOMAIN rows : out[j].loads}
  <2>1. /\ load' # <<>> /\ 1 \in DOMAIN load' /\ LoadFields \subseteq DOMAIN load'[1]
        /\ load'[1].writes = Upsert(L.writes, W)
        /\ load'[1].keys = L.keys \cup {<<role, Key(i)>> : i \in loads}
        /\ load'[1].read = With(L.read, role, rows)
        /\ load'[1].rejects = L.rejects \cup
                                {<<role, i>> : i \in {j \in DOMAIN rows : out[j].rejects}}
        /\ load'[1].gate = L.gate
    BY <1>2, <1>5, EntityFields
  <2>2. PICK n \in Nat : DOMAIN rows = 1..n
    BY <1>2, <1>5, ReadIs DEF Sound
  <2>3. /\ \A id \in DOMAIN W : RowFor(tenant, L.keys, id, W[id])
        /\ \A i \in DOMAIN rows : out[i].loads => DerivedId(role, tenant, Key(i)) \in DOMAIN W
        /\ \A i \in DOMAIN rows : out[i].loads \/ out[i].rejects
    BY <2>2, WritesAre
  <2>4. /\ \A id \in DOMAIN L.writes : RowFor(tenant, L.keys, id, L.writes[id])
        /\ \A key \in L.keys : DerivedId(key[1], tenant, key[2]) \in DOMAIN L.writes
        /\ L.gate = "passed" => /\ frozen[tenant] # <<>>
                                /\ frozen[tenant][1].entities = current[1].mapping[1].entities
    BY <1>1 DEF Sound, Loading
  <2>. HIDE DEF W, out, rows, plan, role, Key
  <2>5. /\ DOMAIN load'[1].writes = DOMAIN L.writes \cup DOMAIN W
        /\ \A id \in DOMAIN W : load'[1].writes[id] = W[id]
        /\ \A id \in DOMAIN L.writes \ DOMAIN W : load'[1].writes[id] = L.writes[id]
    <3>. DEFINE U == Upsert(L.writes, W)
    <3>1. /\ DOMAIN U = DOMAIN L.writes \cup DOMAIN W
          /\ \A id \in DOMAIN W : U[id] = W[id]
          /\ \A id \in DOMAIN L.writes \ DOMAIN W : U[id] = L.writes[id]
      BY UpsertIs
    <3>. HIDE DEF U
    <3>. QED
      BY <2>1, <3>1 DEF U
  <2>6. Loading'
    <3>1. \A id \in DOMAIN load'[1].writes :
             RowFor(tenant, load'[1].keys, id, load'[1].writes[id])
      BY <2>1, <2>3, <2>4, <2>5 DEF RowFor
    <3>2. \A key \in load'[1].keys :
             DerivedId(key[1], tenant, key[2]) \in DOMAIN load'[1].writes
      <4>. TAKE key \in load'[1].keys
      <4>1. CASE key \in L.keys
        BY <2>4, <2>5, <4>1
      <4>2. CASE key \notin L.keys
        <5>1. PICK i \in loads : key = <<role, Key(i)>>
          BY <2>1, <4>2
        <5>2. key[1] = role /\ key[2] = Key(i)
          BY <5>1
        <5>. QED
          BY <2>3, <2>5, <5>1, <5>2
      <4>. QED
        BY <4>1, <4>2
    <3>. HIDE DEF L
    <3>. QED
      BY <1>1, <1>2, <2>1, <2>4, <3>1, <3>2 DEF Loading, RowFor, DerivedId
  <2>. QED
    BY <1>3, <2>6 DEF Sound
<1>. QED
  BY <1>4, <1>5 DEF LoadNext

(* The gate passes: the mapping is signed and frozen, the load goes on to its  *)
(* commit with the rows it has.  Or it does not, and nothing is written.       *)
LEMMA SettleHolds ==
  ASSUME Sound, Settle
  PROVE  Sound'
<1>. DEFINE L == load[1]
            result == Reconcile(L.report, L.stated, L.tolerance)
            signed == [current[1].mapping[1] EXCEPT !.coverage = result.coverage]
            c == current[1]
<1>1. load # <<>> /\ UNCHANGED <<source, ledger, bound, accepted>>
  BY DEF Settle
<1>2. /\ current # <<>> /\ 1 \in DOMAIN current
      /\ {"url", "tenant", "fingerprint", "mapping"} \subseteq DOMAIN c
      /\ c.url \in Urls /\ c.tenant \in Tenants /\ c.mapping # <<>>
      /\ 1 \in DOMAIN c.mapping /\ "entities" \in DOMAIN c.mapping[1]
      /\ 1 \in DOMAIN load /\ LoadFields \subseteq DOMAIN L
  BY <1>1 DEF Sound, Connected, Loading
<1>3. OfRecord' /\ Screens' /\ NoOrphans'
  BY <1>1 DEF Sound, OfRecord, Screens, NoOrphans
<1>4. CASE /\ current' = [current EXCEPT ![1].report = <<L.report>>,
                ![1].reconciliation = <<result>>, ![1].mapping = <<signed>>, ![1].path = TRUE]
           /\ frozen' = [frozen EXCEPT ![current[1].tenant] = <<signed>>]
           /\ load' = <<[L EXCEPT !.gate = "passed"]>>
           /\ ahead' = ahead \cup {current[1].tenant}
  <2>1. "entities" \in DOMAIN signed /\ signed.entities = c.mapping[1].entities
    BY <1>2
  <2>2. /\ load' # <<>> /\ 1 \in DOMAIN load' /\ LoadFields \subseteq DOMAIN load'[1]
        /\ load'[1].writes = L.writes /\ load'[1].keys = L.keys /\ load'[1].read = L.read
        /\ load'[1].rejects = L.rejects
    BY <1>2, <1>4 DEF LoadFields
  <2>. HIDE DEF signed, result, L
  <2>3. /\ current' # <<>> /\ 1 \in DOMAIN current' /\ DOMAIN current'[1] = DOMAIN c
        /\ current'[1].url = c.url /\ current'[1].tenant = c.tenant
        /\ current'[1].mapping = <<signed>>
    BY <1>2, <1>4
  <2>4. /\ frozen'[c.tenant] = <<signed>> /\ DOMAIN frozen' = Tenants
        /\ \A t \in Tenants : frozen[t] # <<>> => frozen'[t] # <<>>
        /\ \A t \in Tenants \ ahead' : t \notin ahead /\ frozen'[t] = frozen[t]
    BY <1>2, <1>4 DEF Sound, Stores
  <2>5. Stores'
    BY <1>1, <2>4 DEF Sound, Stores
  <2>6. Connected'
    BY <1>2, <2>1, <2>3 DEF Connected
  <2>7. Loading'
    BY <1>1, <1>2, <2>2, <2>3, <2>4 DEF Sound, Loading, RowFor, DerivedId, L
  <2>8. RowsHaveAMapping'
    BY <1>1, <2>4 DEF Sound, RowsHaveAMapping, OfRecord
  <2>9. NobodyElsesNumbers'
    BY <1>1, <2>3 DEF Sound, NobodyElsesNumbers
  <2>. QED
    BY <1>3, <2>5, <2>6, <2>7, <2>8, <2>9 DEF Sound
<1>5. CASE /\ current' = [current EXCEPT ![1].report = <<L.report>>,
                                         ![1].reconciliation = <<result>>]
           /\ load' = <<>> /\ UNCHANGED <<frozen, ahead>>
  <2>. HIDE DEF result, L
  <2>1. /\ current' # <<>> /\ 1 \in DOMAIN current' /\ DOMAIN current'[1] = DOMAIN c
        /\ current'[1].url = c.url /\ current'[1].tenant = c.tenant
        /\ current'[1].mapping = c.mapping
    BY <1>2, <1>5
  <2>2. Stores' /\ Connected' /\ NobodyElsesNumbers'
    BY <1>1, <1>2, <1>5, <2>1 DEF Sound, Stores, Connected, NobodyElsesNumbers
  <2>. QED
    BY <1>1, <1>3, <1>5, <2>2, IdleHolds
<1>. QED
  BY <1>4, <1>5 DEF Settle

(* What a commit does to the rows of record: those of the tenant change or     *)
(* appear, nobody else's do.                                                   *)
LEMMA CommitLands ==
  ASSUME Sound, Commit
  PROVE  LET t == current[1].tenant IN
         /\ t \in Tenants /\ load # <<>>
         /\ DOMAIN ledger' = DOMAIN ledger \cup DOMAIN load[1].writes
         /\ \A id \in DOMAIN load[1].writes :
              ledger'[id] = load[1].writes[id] /\ id[2] = t /\ ledger'[id].tenant = t
         /\ \A id \in DOMAIN ledger \ DOMAIN load[1].writes : ledger'[id] = ledger[id]
<1>1. load # <<>> /\ ledger' = Upsert(ledger, load[1].writes)
  BY DEF Commit
<1>. DEFINE W == load[1].writes
<1>2. /\ current[1].tenant \in Tenants
      /\ \A id \in DOMAIN W : id[2] = current[1].tenant /\ W[id].tenant = current[1].tenant
  BY <1>1 DEF Sound, Loading, Connected, RowFor
<1>. HIDE DEF W
<1>3. /\ DOMAIN Upsert(ledger, W) = DOMAIN ledger \cup DOMAIN W
      /\ \A id \in DOMAIN W : Upsert(ledger, W)[id] = W[id]
      /\ \A id \in DOMAIN ledger \ DOMAIN W : Upsert(ledger, W)[id] = ledger[id]
  BY UpsertIs
<1>. QED
  BY <1>1, <1>2, <1>3 DEF W

(* The rows a commit adds find their parents of record. *)
LEMMA CommitHolds ==
  ASSUME Sound, Commit
  PROVE  Sound'
<1>. DEFINE t == current[1].tenant
            W == load[1].writes
<1>1. /\ load # <<>> /\ load[1].gate = "passed" /\ load' = <<>>
      /\ bound' = BindTo(t, ledger')
      /\ \E a : /\ accepted' = [accepted EXCEPT ![t] = <<a>>]
               /\ a.entities = current[1].mapping[1].entities
      /\ ahead' = ahead \ {t}
      /\ UNCHANGED <<source, current, frozen>>
  <2>. DEFINE a == [url |-> current[1].url, read |-> load[1].read, stated |-> load[1].stated,
                    tolerance |-> load[1].tolerance, entities |-> current[1].mapping[1].entities]
  <2>1. a.entities = current[1].mapping[1].entities
    OBVIOUS
  <2>2. accepted' = [accepted EXCEPT ![t] = <<a>>]
    BY DEF Commit
  <2>. HIDE DEF a
  <2>. QED
    BY <2>1, <2>2 DEF Commit
<1>2. /\ t \in Tenants
      /\ DOMAIN ledger' = DOMAIN ledger \cup DOMAIN W
      /\ \A id \in DOMAIN W : ledger'[id] = W[id] /\ id[2] = t /\ ledger'[id].tenant = t
      /\ \A id \in DOMAIN ledger \ DOMAIN W : ledger'[id] = ledger[id]
  BY CommitLands
<1>3. /\ current # <<>> /\ frozen[t] # <<>>
      /\ frozen[t][1].entities = current[1].mapping[1].entities
      /\ \A id \in DOMAIN W : RowFor(t, load[1].keys, id, W[id])
      /\ \A key \in load[1].keys : DerivedId(key[1], t, key[2]) \in DOMAIN W
  BY <1>1 DEF Sound, Loading
<1>4. /\ DOMAIN accepted' = Tenants /\ accepted'[t] # <<>>
      /\ accepted'[t][1].entities = current[1].mapping[1].entities
      /\ \A u \in Tenants : u # t => accepted'[u] = accepted[u]
      /\ \A u \in Tenants : accepted[u] # <<>> => accepted'[u] # <<>>
  BY <1>1, <1>2 DEF Sound, Stores
<1>. HIDE DEF W
<1>5. Stores' /\ Connected' /\ Loading'
  BY <1>1, <1>4 DEF Sound, Stores, Connected, Loading
<1>6. OfRecord'
  BY <1>2 DEF Sound, OfRecord
<1>7. NoOrphans'
  <2>. SUFFICES ASSUME NEW id \in DOMAIN ledger', ledger'[id].role \in DOMAIN ParentOf
                PROVE  DerivedId(ParentOf[ledger'[id].role], ledger'[id].tenant,
                                 ledger'[id].parent) \in DOMAIN ledger'
    BY DEF NoOrphans, DerivedId
  <2>1. CASE id \in DOMAIN W
    <3>. DEFINE key == <<ParentOf[W[id].role], W[id].parent>>
    <3>1. key \in load[1].keys
      BY <1>2, <1>3, <2>1 DEF RowFor
    <3>2. DerivedId(key[1], t, key[2]) \in DOMAIN W
      BY <1>3, <3>1
    <3>3. key[1] = ParentOf[W[id].role] /\ key[2] = W[id].parent
      OBVIOUS
    <3>. HIDE DEF key, t
    <3>. QED
      BY <1>2, <2>1, <3>2, <3>3
  <2>2. CASE id \notin DOMAIN W
    BY <1>2, <2>2 DEF Sound, NoOrphans
  <2>. QED
    BY <2>1, <2>2
<1>8. RowsHaveAMapping'
  <2>1. ASSUME NEW id \in DOMAIN ledger'
        PROVE  frozen'[ledger'[id].tenant] # <<>> /\ accepted'[ledger'[id].tenant] # <<>>
    <3>1. CASE id \in DOMAIN W
      BY <1>1, <1>2, <1>3, <1>4, <3>1
    <3>2. CASE id \notin DOMAIN W
      BY <1>1, <1>2, <1>4, <3>2 DEF Sound, RowsHaveAMapping, OfRecord
    <3>. QED
      BY <3>1, <3>2
  <2>2. ASSUME NEW u \in Tenants \ ahead', accepted'[u] # <<>>
        PROVE  frozen'[u] # <<>> /\ frozen'[u][1].entities = accepted'[u][1].entities
    <3>1. CASE u = t
      BY <1>1, <1>3, <1>4, <3>1
    <3>2. CASE u # t
      BY <1>1, <1>4, <2>2, <3>2 DEF Sound, RowsHaveAMapping
    <3>. QED
      BY <3>1, <3>2
  <2>. QED
    BY <2>1, <2>2 DEF RowsHaveAMapping
<1>9. Screens' /\ NobodyElsesNumbers'
  <2>1. CASE bound' = bound
    <3>1. bound # <<>> /\ bound[1].kind = "tenant" =>
            current[1].tenant = bound[1].tenant /\ accepted[bound[1].tenant] # <<>>
      BY DEF Sound, NobodyElsesNumbers
    <3>. QED
      BY <1>1, <1>2, <1>3, <1>4, <2>1, <3>1 DEF Sound, Screens, NobodyElsesNumbers
  <2>2. CASE bound' = <<[kind |-> "tenant", tenant |-> t, policy |-> 1]>>
    <3>. DEFINE b == [kind |-> "tenant", tenant |-> t, policy |-> 1]
    <3>1. b.tenant = t /\ {"kind", "tenant"} \subseteq DOMAIN b
      OBVIOUS
    <3>. HIDE DEF b
    <3>2. bound' # <<>> /\ 1 \in DOMAIN bound' /\ bound'[1] = b
      BY <2>2 DEF b
    <3>. QED
      BY <1>1, <1>3, <1>4, <3>1, <3>2 DEF Screens, NobodyElsesNumbers
  <2>. QED
    BY <1>1, <2>1, <2>2 DEF BindTo
<1>. QED
  BY <1>5, <1>6, <1>7, <1>8, <1>9 DEF Sound

-----------------------------------------------------------------------------
(* The other steps *)

(* Introspection, classification and drift change what is known of the source. *)
LEMMA ObjectHolds ==
  ASSUME Sound, Introspect \/ Classify \/ CheckDrift
  PROVE  Sound'
<1>. DEFINE c == current[1]
<1>1. load = <<>> /\ current # <<>>
      /\ UNCHANGED <<source, load, ledger, frozen, bound, accepted, ahead>>
  BY DEF Introspect, Classify, CheckDrift, Idle
<1>2. /\ 1 \in DOMAIN current
      /\ {"url", "tenant", "fingerprint", "mapping"} \subseteq DOMAIN c
      /\ c.url \in Urls /\ c.tenant \in Tenants
      /\ c.mapping # <<>> => 1 \in DOMAIN c.mapping /\ "entities" \in DOMAIN c.mapping[1]
  BY <1>1 DEF Sound, Connected
<1>3. /\ current' # <<>> /\ 1 \in DOMAIN current' /\ DOMAIN current'[1] = DOMAIN c
      /\ current'[1].url = c.url /\ current'[1].tenant = c.tenant
      /\ current'[1].mapping # <<>> =>
           1 \in DOMAIN current'[1].mapping /\ "entities" \in DOMAIN current'[1].mapping[1]
  <2>1. CASE Introspect
    <3>1. PICK f : current' = [current EXCEPT ![1].fingerprint = <<f>>]
      BY <2>1 DEF Introspect
    <3>. QED
      BY <1>2, <3>1
  <2>2. CASE Classify
    <3>1. PICK h, e : current' = [current EXCEPT ![1].mapping =
                                    <<[hash |-> h, entities |-> e, coverage |-> 0]>>]
      BY <2>2, Zenon DEF Classify
    <3>. DEFINE m == [hash |-> h, entities |-> e, coverage |-> 0]
    <3>2. "entities" \in DOMAIN m
      OBVIOUS
    <3>. HIDE DEF m
    <3>3. current'[1].mapping = <<m>> /\ 1 \in DOMAIN current' /\ DOMAIN current'[1] = DOMAIN c
          /\ current'[1].url = c.url /\ current'[1].tenant = c.tenant
      BY <1>2, <3>1 DEF m
    <3>. QED
      BY <3>2, <3>3
  <2>3. CASE CheckDrift
    <3>1. PICK f, d : current' = [current EXCEPT ![1].fingerprint = <<f>>, ![1].drift = <<d>>]
      BY <2>3, Zenon DEF CheckDrift
    <3>. QED
      BY <1>2, <3>1
  <2>. QED
    BY <2>1, <2>2, <2>3
<1>4. Stores' /\ Connected' /\ Screens' /\ NobodyElsesNumbers'
  BY <1>1, <1>2, <1>3 DEF Sound, Stores, Connected, Screens, NobodyElsesNumbers
<1>. QED
  BY <1>1, <1>4, IdleHolds

(* Connecting replaces the object and takes the old tenant off the screens. *)
LEMMA ConnectHolds ==
  ASSUME Sound, NEW url \in Urls, NEW tenant \in Tenants, Connect(url, tenant)
  PROVE  Sound'
<1>. DEFINE c == [url |-> url, tenant |-> tenant, fingerprint |-> <<>>, mapping |-> <<>>,
                  reconciliation |-> <<>>, path |-> FALSE, report |-> <<>>, drift |-> <<>>]
<1>1. /\ current' = <<c>> /\ bound' = <<>> /\ load' = <<>>
      /\ UNCHANGED <<source, ledger, frozen, accepted, ahead>>
  BY DEF Connect, Idle
<1>2. /\ {"url", "tenant", "fingerprint", "mapping"} \subseteq DOMAIN c
      /\ c.url = url /\ c.tenant = tenant /\ c.mapping = <<>>
  OBVIOUS
<1>. HIDE DEF c
<1>3. Stores' /\ Connected' /\ Screens' /\ NobodyElsesNumbers'
  BY <1>1, <1>2 DEF Sound, Stores, Connected, Screens, NobodyElsesNumbers
<1>. QED
  BY <1>1, <1>3, IdleHolds

(* Steps that end with nothing under way: a load that fails, a commit that     *)
(* fails, what is done to the data source, a crash.                            *)
LEMMA EndsHolds ==
  ASSUME Sound, LoadFails \/ CommitFails \/ Reset \/ UseDemo \/ Clear \/ SetPolicy \/ Crash
  PROVE  Sound'
<1>1. load' = <<>> /\ UNCHANGED <<source, ledger, frozen, accepted, ahead>>
  BY DEF LoadFails, CommitFails, Reset, UseDemo, Clear, SetPolicy, Crash, Idle
<1>2. current' = current \/ (current' = <<>> /\ bound' = <<>>)
  BY DEF LoadFails, CommitFails, Reset, UseDemo, Clear, SetPolicy, Crash
<1>3. \/ bound' = bound \/ bound' = <<>>
      \/ /\ bound' # <<>> /\ 1 \in DOMAIN bound' /\ {"kind", "tenant"} \subseteq DOMAIN bound'[1]
         /\ \/ bound'[1].kind # "tenant"
            \/ bound # <<>> /\ bound'[1].kind = bound[1].kind /\ bound'[1].tenant = bound[1].tenant
  <2>1. CASE UseDemo
    <3>. DEFINE b == [kind |-> "demo", tenant |-> "demo", policy |-> 1]
    <3>1. b.kind # "tenant" /\ {"kind", "tenant"} \subseteq DOMAIN b
      OBVIOUS
    <3>. HIDE DEF b
    <3>2. bound' = <<b>>
      BY <2>1 DEF UseDemo, b
    <3>. QED
      BY <3>1, <3>2
  <2>2. CASE SetPolicy
    <3>1. /\ bound # <<>> /\ 1 \in DOMAIN bound /\ {"kind", "tenant"} \subseteq DOMAIN bound[1]
      BY <2>2 DEF SetPolicy, Sound, Screens
    <3>2. PICK n : bound' = [bound EXCEPT ![1].policy = n]
      BY <2>2 DEF SetPolicy
    <3>. QED
      BY <3>1, <3>2
  <2>. QED
    BY <2>1, <2>2 DEF LoadFails, CommitFails, Reset, Clear, Crash
<1>4. Stores' /\ Connected' /\ Screens'
  BY <1>1, <1>2, <1>3 DEF Sound, Stores, Connected, Screens
<1>5. NobodyElsesNumbers'
  BY <1>1, <1>2, <1>3 DEF Sound, NobodyElsesNumbers
<1>. QED
  BY <1>1, <1>4, <1>5, IdleHolds

(* The owner of a source changes it, or nothing changes. *)
LEMMA OutsideHolds ==
  ASSUME Sound, source' \in [Urls -> Snapshots],
         UNCHANGED <<current, load, ledger, frozen, bound, accepted, ahead>>
  PROVE  Sound'
<1>1. Stores' /\ Connected' /\ Screens' /\ NobodyElsesNumbers'
  BY DEF Sound, Stores, Connected, Screens, NobodyElsesNumbers
<1>2. Loading'
  BY DEF Sound, Loading, RowFor, DerivedId
<1>3. OfRecord' /\ NoOrphans' /\ RowsHaveAMapping'
  BY DEF Sound, OfRecord, NoOrphans, RowsHaveAMapping, DerivedId
<1>. QED
  BY <1>1, <1>2, <1>3 DEF Sound

-----------------------------------------------------------------------------
(* The theorems *)

(* The invariant holds of every onboarding, whatever the source's owner does   *)
(* between two reads and wherever a failure or a crash falls.                  *)
THEOREM SoundHolds == Spec => []Sound
<1>1. Init => Sound
  <2>. SUFFICES ASSUME Init PROVE Sound
    OBVIOUS
  <2>1. Stores /\ Connected /\ Loading /\ Screens
    BY DEF Init, Stores, Connected, Loading, Screens
  <2>2. DOMAIN ledger = {}
    BY DEF Init
  <2>3. OfRecord /\ NoOrphans /\ RowsHaveAMapping
    BY <2>2 DEF Init, OfRecord, NoOrphans, RowsHaveAMapping
  <2>4. NobodyElsesNumbers
    BY DEF Init, NobodyElsesNumbers
  <2>. QED
    BY <2>1, <2>3, <2>4 DEF Sound
<1>2. Sound /\ [Next]_vars => Sound'
  <2>. SUFFICES ASSUME Sound, [Next]_vars PROVE Sound'
    OBVIOUS
  <2>1. ASSUME NEW url \in Urls, NEW tenant \in Tenants, Connect(url, tenant) PROVE Sound'
    BY <2>1, ConnectHolds
  <2>2. ASSUME NEW stated \in ControlTotals, NEW tolerance \in Tolerances,
               StartLoad(stated, tolerance)
        PROVE  Sound'
    BY <2>2, StartLoadHolds
  <2>3. ASSUME NEW url \in Urls, SourceChanges(url) PROVE Sound'
    <3>1. source' \in [Urls -> Snapshots]
      BY <2>3 DEF SourceChanges, Sound, Stores
    <3>. QED
      BY <2>3, <3>1, OutsideHolds DEF SourceChanges
  <2>4. CASE UNCHANGED vars
    BY <2>4, OutsideHolds DEF vars, Sound, Stores
  <2>. QED
    BY <2>1, <2>2, <2>3, <2>4, ObjectHolds, LoadNextHolds, SettleHolds, CommitHolds, EndsHolds
    DEF Next
<1>. QED
  BY <1>1, <1>2, PTL DEF Spec

(* A tenant that is shown is the one being onboarded, after a load of its own. *)
THEOREM OnlyTheConnectedTenantIsShown == Spec => []NobodyElsesNumbers
<1>1. Sound => NobodyElsesNumbers
  BY DEF Sound
<1>. QED
  BY <1>1, SoundHolds, PTL

(* Onboarding implements the ledger of record: a load is offered when it has   *)
(* passed the gate, lands whole with its commit or is withdrawn, and only the  *)
(* connected tenant's rows change.                                             *)
THEOREM OnboardingKeepsTheRecord == Spec => KeepsTheRecord
<1>. DEFINE shown == IF bound # <<>> /\ bound[1].kind = "tenant" THEN {bound[1].tenant} ELSE {}
            offer == IF load # <<>> /\ load[1].gate = "passed"
                     THEN <<[tenant |-> current[1].tenant, rows |-> load[1].writes]>> ELSE <<>>
<1>1. Init => Record!Init
  BY DEF Init, Record!Init
<1>2. Sound /\ [Next]_vars => [Record!Next]_(Record!rvars)
  <2>. SUFFICES ASSUME Sound, [Next]_vars PROVE [Record!Next]_(Record!rvars)
    OBVIOUS
  <2>1. CASE Commit
    <3>. DEFINE t == current[1].tenant
                W == load[1].writes
    <3>1. /\ t \in Tenants /\ load # <<>> /\ load[1].gate = "passed" /\ load' = <<>>
          /\ DOMAIN ledger' = DOMAIN ledger \cup DOMAIN W
          /\ \A id \in DOMAIN W : id[2] = t /\ ledger'[id].tenant = t
          /\ \A id \in DOMAIN ledger \ DOMAIN W : ledger'[id] = ledger[id]
      BY <2>1, CommitLands DEF Commit
    <3>2. \A id \in DOMAIN ledger : id[2] = ledger[id].tenant
      BY DEF Sound, OfRecord
    <3>3. \/ shown' = {t} /\ \E id \in DOMAIN ledger' : ledger'[id].tenant = t
          \/ shown' = shown /\ shown \subseteq {t}
      <4>1. CASE bound' = bound
        BY <4>1 DEF Sound, NobodyElsesNumbers
      <4>2. CASE /\ bound' = <<[kind |-> "tenant", tenant |-> t, policy |-> 1]>>
                 /\ Dated(ledger', t)
        BY <4>2 DEF Dated
      <4>. QED
        BY <2>1, <4>1, <4>2 DEF Commit, BindTo
    <3>4. /\ offer = <<[tenant |-> t, rows |-> W]>> /\ offer' = <<>>
          /\ offer # <<>> /\ offer[1].tenant = t /\ offer[1].rows = W
      BY <3>1
    <3>5. ledger' = [id \in DOMAIN ledger \cup DOMAIN W |->
                       IF id \in DOMAIN W THEN W[id] ELSE ledger[id]]
      BY <2>1 DEF Commit, Upsert
    <3>. HIDE DEF t, shown, offer, W
    <3>6. \A id \in DOMAIN ledger : ledger[id].tenant # t => ledger'[id] = ledger[id]
      BY <3>1, <3>2
    <3>7. Record!Land
      BY <3>3, <3>4, <3>5, <3>6 DEF Record!Land, shown, offer
    <3>. QED
      BY <3>7 DEF Record!Next
  <2>2. CASE UNCHANGED ledger /\ bound' = bound /\ offer' = offer
    BY <2>2 DEF Record!rvars
  <2>3. CASE UNCHANGED ledger /\ shown' = {} /\ offer' \in {offer, <<>>}
    <3>1. CASE offer' = offer
      BY <2>3, <3>1 DEF Record!Next, Record!Hide
    <3>2. CASE offer # <<>> /\ offer' = <<>>
      BY <2>3, <3>2 DEF Record!Next, Record!Withdraw
    <3>. HIDE DEF offer, shown
    <3>. QED
      BY <2>3, <3>1, <3>2
  <2>4. CASE SetPolicy
    <3>1. 1 \in DOMAIN bound /\ {"kind", "tenant"} \subseteq DOMAIN bound[1] /\ bound # <<>>
      BY <2>4 DEF SetPolicy, Sound, Screens
    <3>2. PICK n : bound' = [bound EXCEPT ![1].policy = n]
      BY <2>4 DEF SetPolicy
    <3>3. /\ bound' # <<>> /\ bound'[1].kind = bound[1].kind
          /\ bound'[1].tenant = bound[1].tenant /\ ledger' = ledger
          /\ load' = load /\ current' = current
      BY <2>4, <3>1, <3>2 DEF SetPolicy
    <3>4. shown' = shown /\ offer' = offer
      BY <3>1, <3>3
    <3>. QED
      BY <3>3, <3>4 DEF Record!rvars
  <2>5. CASE Settle
    <3>1. load # <<>> /\ offer = <<>> /\ UNCHANGED <<ledger, bound>>
      BY <2>5 DEF Settle
    <3>2. CASE load' = <<>>
      BY <2>2, <3>1, <3>2
    <3>3. CASE load' # <<>>
      <4>. DEFINE L == load[1]
      <4>. DEFINE result == Reconcile(L.report, L.stated, L.tolerance)
                  signed == [current[1].mapping[1] EXCEPT !.coverage = result.coverage]
      <4>1. /\ load' = <<[L EXCEPT !.gate = "passed"]>>
            /\ current' = [current EXCEPT ![1].report = <<L.report>>,
                 ![1].reconciliation = <<result>>, ![1].mapping = <<signed>>, ![1].path = TRUE]
        BY <2>5, <3>3 DEF Settle
      <4>2. /\ 1 \in DOMAIN current /\ "tenant" \in DOMAIN current[1]
            /\ current[1].tenant \in Tenants
            /\ LoadFields \subseteq DOMAIN L
            /\ \A id \in DOMAIN L.writes : L.writes[id].tenant = current[1].tenant
        BY <3>1 DEF Sound, Connected, Loading, RowFor
      <4>3. load'[1].gate = "passed" /\ load'[1].writes = L.writes
        BY <4>1, <4>2 DEF LoadFields
      <4>4. current'[1].tenant = current[1].tenant
        <5>. HIDE DEF signed, result
        <5>. QED
          BY <4>1, <4>2
      <4>5. /\ offer' # <<>> /\ offer'[1].tenant = current[1].tenant
            /\ offer'[1].rows = L.writes
        BY <3>3, <4>3, <4>4
      <4>6. shown' = shown
        BY <3>1
      <4>. HIDE DEF shown, L, offer
      <4>7. Record!Offer
        BY <3>1, <4>2, <4>5, <4>6 DEF Record!Offer, shown, offer
      <4>. QED
        BY <4>7 DEF Record!Next
    <3>. QED
      BY <3>2, <3>3
  <2>6. CASE CommitFails
    <3>1. offer # <<>> /\ offer' = <<>> /\ UNCHANGED ledger /\ shown' = shown
      BY <2>6 DEF CommitFails
    <3>. QED
      BY <3>1 DEF Record!Next, Record!Withdraw
  <2>7. ASSUME UseDemo PROVE UNCHANGED ledger /\ shown' = {} /\ offer' = offer
    BY <2>7 DEF UseDemo
  <2>8. ASSUME NEW url \in Urls, NEW tenant \in Tenants, Connect(url, tenant)
        PROVE  UNCHANGED ledger /\ shown' = {} /\ offer' = <<>>
    BY <2>8 DEF Connect, Idle
  <2>9. ASSUME Reset \/ Crash PROVE UNCHANGED ledger /\ shown' = {} /\ offer' = <<>>
    BY <2>9 DEF Reset, Crash, Idle
  <2>10. ASSUME Clear PROVE UNCHANGED ledger /\ shown' = {} /\ offer' = offer
    BY <2>10 DEF Clear
  <2>11. ASSUME \/ Introspect \/ Classify \/ CheckDrift \/ LoadFails
                \/ UNCHANGED vars
                \/ \E stated \in ControlTotals, tolerance \in Tolerances :
                      StartLoad(stated, tolerance)
                \/ \E url \in Urls : SourceChanges(url)
        PROVE  UNCHANGED ledger /\ bound' = bound /\ offer' = offer
    BY <2>11 DEF Introspect, Classify, CheckDrift, LoadFails, StartLoad, SourceChanges, vars, Idle
  <2>12. ASSUME LoadNext PROVE UNCHANGED ledger /\ bound' = bound /\ offer' = offer
    <3>1. /\ UNCHANGED <<ledger, bound>> /\ load # <<>> /\ load[1].gate = "open"
          /\ LoadFields \subseteq DOMAIN load[1]
      BY <2>12 DEF LoadNext, Sound, Loading
    <3>2. load'[1].gate = "open"
      <4>1. CASE load' = <<[load[1] EXCEPT !.next = @ + 1]>>
        BY <3>1, <4>1 DEF LoadFields
      <4>2. CASE LoadEntity(Role, Plans[Role])
        BY <3>1, <4>2, EntityFields
      <4>. QED
        BY <2>12, <4>1, <4>2 DEF LoadNext
    <3>. QED
      BY <3>1, <3>2
  <2>. HIDE DEF shown, offer
  <2>. QED
    BY <2>1, <2>2, <2>3, <2>4, <2>5, <2>6, <2>7, <2>8, <2>9, <2>10, <2>11, <2>12 DEF Next
<1>. QED
  BY <1>1, <1>2, SoundHolds, PTL DEF Spec, KeepsTheRecord, Record!Spec
-----------------------------------------------------------------------------
(* Loading again *)

(* Roles whose rows have no parent: they are read first. *)
Base == {"Customer", "Vendor", "BankAccount"}

(* What a load makes of the rows it read, as a function of them, of the plans  *)
(* it read them by and of the tenant alone: the keys of the parents, what      *)
(* becomes of each row of a role, and the rows it writes for that role.        *)
BaseKeys(read, plans, tenant) ==
  UNION {{<<r, KeyOf(read[r][i], plans[r], "external_id")>> :
            i \in {j \in DOMAIN read[r] : Outcome(r, read[r][j], plans[r], tenant, {}).loads}} :
         r \in Base \cap DOMAIN read}

Fates(role, read, plans, tenant) ==
  Outcomes(role, read[role], plans[role], tenant, BaseKeys(read, plans, tenant))

RowsOf(role, read, plans, tenant) ==
  Writes(role, read[role], plans[role], tenant, Fates(role, read, plans, tenant))

(* A table holds what was read. *)
Holds(table, read, plans, tenant) ==
  \A role \in DOMAIN read : \A id \in DOMAIN RowsOf(role, read, plans, tenant) :
    id \in DOMAIN table /\ table[id] = RowsOf(role, read, plans, tenant)[id]

(* Two sets of keys know the same parents. *)
SameParents(K1, K2) == \A r \in Base : \A v : <<r, v>> \in K1 <=> <<r, v>> \in K2

(* Every row of a role is among the rejects or written. *)
Reported(rejects, role, read, plans, tenant) ==
  \A i \in DOMAIN read[role] :
    <<role, i>> \in rejects \/ Fates(role, read, plans, tenant)[i].loads

(* The load under way has written what it read and nothing else. *)
Traced ==
  load # <<>> =>
    LET L == load[1]
        tenant == current[1].tenant
    IN /\ L.next \in Nat \ {0}
       /\ \A r \in DOMAIN L.read : \E k \in 1..(L.next - 1) : k \in 1..6 /\ EntityOrder[k] = r
       /\ Holds(L.writes, L.read, Plans, tenant)
       /\ \A id \in DOMAIN L.writes : \E role \in DOMAIN L.read :
            id \in DOMAIN RowsOf(role, L.read, Plans, tenant)
       /\ SameParents(L.keys, BaseKeys(L.read, Plans, tenant))
       /\ \A r \in DOMAIN L.read : /\ \E n \in Nat : DOMAIN L.read[r] = 1..n
                                   /\ Reported(L.rejects, r, L.read, Plans, tenant)

(* The rows of record hold what each tenant's last load read. *)
Kept ==
  /\ ledger = [id \in DOMAIN ledger |-> ledger[id]]
  /\ \A t \in Tenants : accepted[t] # <<>> =>
       Holds(ledger, accepted[t][1].read, accepted[t][1].entities, t)

(* What becomes of a row depends on the parents only, and of a parent on none. *)
LEMMA OutcomeByParents ==
  ASSUME NEW role \in Range(EntityOrder), NEW row, NEW plan, NEW tenant, NEW K1, NEW K2,
         role \in Base \/ SameParents(K1, K2)
  PROVE  Outcome(role, row, plan, tenant, K1) = Outcome(role, row, plan, tenant, K2)
<1>1. role \in {"Customer", "Vendor", "BankAccount", "Invoice", "VendorInvoice", "BankTransaction"}
  BY DEF EntityOrder, Range
<1>2. CASE role \in Base
  BY <1>2 DEF Outcome, Base
<1>3. CASE role = "BankTransaction"
  <2>. DEFINE account == KeyOf(row, plan, "account_ref")
  <2>1. <<"BankAccount", account>> \in K1 <=> <<"BankAccount", account>> \in K2
    BY <1>3 DEF SameParents, Base
  <2>2. MovementOutcome(row, plan, tenant, K1) = MovementOutcome(row, plan, tenant, K2)
    BY <2>1, Zenon DEF MovementOutcome
  <2>. QED
    BY <1>3, <2>2 DEF Outcome
<1>4. CASE role \in {"Invoice", "VendorInvoice"}
  <2>. DEFINE parent == KeyOf(row, plan, ParentField[role])
  <2>1. ParentOf[role] \in Base /\ role \notin Base
    BY <1>4 DEF ParentOf, Base
  <2>2. <<ParentOf[role], parent>> \in K1 <=> <<ParentOf[role], parent>> \in K2
    BY <2>1 DEF SameParents
  <2>3. DocumentOutcome(role, row, plan, tenant, K1) = DocumentOutcome(role, row, plan, tenant, K2)
    BY <2>2, Zenon DEF DocumentOutcome
  <2>. QED
    BY <1>4, <2>3 DEF Outcome
<1>. QED
  BY <1>1, <1>2, <1>3, <1>4 DEF Base

(* So the rows of a role do. *)
LEMMA OutcomesByParents ==
  ASSUME NEW role \in Range(EntityOrder), NEW rows, NEW plan, NEW tenant, NEW K1, NEW K2,
         role \in Base \/ SameParents(K1, K2)
  PROVE  Outcomes(role, rows, plan, tenant, K1) = Outcomes(role, rows, plan, tenant, K2)
<1>1. \A i \in DOMAIN rows :
         Outcome(role, rows[i], plan, tenant, K1) = Outcome(role, rows[i], plan, tenant, K2)
  BY OutcomeByParents
<1>. QED
  BY <1>1 DEF Outcomes

(* The ids a role writes carry its name and the tenant's. *)
LEMMA IdsAre ==
  ASSUME NEW role, NEW read, NEW plans, NEW tenant,
         NEW id \in DOMAIN RowsOf(role, read, plans, tenant)
  PROVE  id[1] = role /\ id[2] = tenant
<1>. DEFINE rows == read[role]
            plan == plans[role]
            out == Fates(role, read, plans, tenant)
            IdAt(i) == DerivedId(role, tenant, KeyOf(rows[i], plan, "external_id"))
            loads == {i \in DOMAIN rows : out[i].loads}
<1>1. RowsOf(role, read, plans, tenant)
        = [k \in {IdAt(i) : i \in loads} |-> out[Max({i \in loads : IdAt(i) = k})].row[1]]
  BY Zenon DEF RowsOf, Writes
<1>2. id \in {IdAt(i) : i \in loads}
  BY <1>1
<1>3. PICK i \in loads : id = IdAt(i)
  BY <1>2
<1>. QED
  BY <1>3 DEF DerivedId

(* A key of a parent is the key of a row that was read and loaded. *)
KeyAmong(rows, r, v, plans, tenant) ==
  \E i \in DOMAIN rows : /\ Outcome(r, rows[i], plans[r], tenant, {}).loads
                         /\ v = KeyOf(rows[i], plans[r], "external_id")

LEMMA BaseKeysAre ==
  ASSUME NEW read, NEW plans, NEW tenant, NEW r \in Base, NEW v
  PROVE  <<r, v>> \in BaseKeys(read, plans, tenant)
           <=> r \in DOMAIN read /\ KeyAmong(read[r], r, v, plans, tenant)
<1>. DEFINE Of(q) == {<<q, KeyOf(read[q][i], plans[q], "external_id")>> :
            i \in {j \in DOMAIN read[q] : Outcome(q, read[q][j], plans[q], tenant, {}).loads}}
<1>1. BaseKeys(read, plans, tenant) = UNION {Of(q) : q \in Base \cap DOMAIN read}
  BY DEF BaseKeys
<1>2. \A q : <<r, v>> \in Of(q) <=> q = r /\ KeyAmong(read[r], r, v, plans, tenant)
  BY DEF KeyAmong
<1>. HIDE DEF Of
<1>3. <<r, v>> \in BaseKeys(read, plans, tenant)
        <=> \E q \in Base \cap DOMAIN read : <<r, v>> \in Of(q)
  BY <1>1
<1>. QED
  BY <1>2, <1>3

(* The order of the entities names each once, and the parents first. *)
LEMMA OrderIs ==
  /\ DOMAIN EntityOrder = 1..6
  /\ \A k, l \in 1..6 : EntityOrder[k] = EntityOrder[l] => k = l
  /\ \A k \in 1..6 : EntityOrder[k] \in Range(EntityOrder)
  /\ \A k, l \in 1..6 : EntityOrder[k] \in Base /\ l < k => EntityOrder[l] \in Base
<1>1. DOMAIN EntityOrder = 1..6
  BY DEF EntityOrder
<1>2. /\ EntityOrder[1] = "Customer" /\ EntityOrder[2] = "Vendor"
      /\ EntityOrder[3] = "BankAccount" /\ EntityOrder[4] = "Invoice"
      /\ EntityOrder[5] = "VendorInvoice" /\ EntityOrder[6] = "BankTransaction"
  BY DEF EntityOrder
<1>3. \A k \in 1..6 : k \in {1, 2, 3, 4, 5, 6}
  OBVIOUS
<1>4. \A k, l \in 1..6 : EntityOrder[k] = EntityOrder[l] => k = l
  BY <1>2, <1>3
<1>5. \A k \in 1..6 : EntityOrder[k] \in Base <=> k <= 3
  BY <1>2, <1>3 DEF Base
<1>6. \A k, l \in 1..6 : EntityOrder[k] \in Base /\ l < k => EntityOrder[l] \in Base
  BY <1>5
<1>7. \A k \in 1..6 : EntityOrder[k] \in Range(EntityOrder)
  BY <1>1 DEF Range
<1>. QED
  BY <1>1, <1>4, <1>6, <1>7

(* Reading one more role changes nothing about the roles read before it, and   *)
(* its own rows are what the load writes for it.                               *)
LEMMA OneMoreRole ==
  ASSUME NEW read, NEW plans, NEW tenant, NEW keys, NEW rows, NEW role \in Range(EntityOrder),
         role \notin DOMAIN read, DOMAIN read \subseteq Range(EntityOrder),
         role \in Base => DOMAIN read \subseteq Base,
         SameParents(keys, BaseKeys(read, plans, tenant))
  PROVE  LET after == With(read, role, rows)
             out == Outcomes(role, rows, plans[role], tenant, keys)
             added == {<<role, KeyOf(rows[i], plans[role], "external_id")>> :
                         i \in {j \in DOMAIN rows : out[j].loads}}
         IN /\ DOMAIN after = DOMAIN read \cup {role}
            /\ \A r \in DOMAIN read :
                 /\ Fates(r, after, plans, tenant) = Fates(r, read, plans, tenant)
                 /\ RowsOf(r, after, plans, tenant) = RowsOf(r, read, plans, tenant)
            /\ Fates(role, after, plans, tenant) = out
            /\ RowsOf(role, after, plans, tenant) = Writes(role, rows, plans[role], tenant, out)
            /\ SameParents(keys \cup added, BaseKeys(after, plans, tenant))
<1>. DEFINE after == With(read, role, rows)
            out == Outcomes(role, rows, plans[role], tenant, keys)
            added == {<<role, KeyOf(rows[i], plans[role], "external_id")>> :
                        i \in {j \in DOMAIN rows : out[j].loads}}
            B == BaseKeys(read, plans, tenant)
            A == BaseKeys(after, plans, tenant)
<1>1. /\ DOMAIN after = DOMAIN read \cup {role} /\ after[role] = rows
      /\ \A r \in DOMAIN read : after[r] = read[r]
  BY DEF With
<1>. HIDE DEF after, A, B
<1>2. \A r \in Base : \A v : r # role => (<<r, v>> \in A <=> <<r, v>> \in B)
  <2>. TAKE r \in Base
  <2>. TAKE v
  <2>. HAVE r # role
  <2>1. <<r, v>> \in A <=> r \in DOMAIN after /\ KeyAmong(after[r], r, v, plans, tenant)
    BY BaseKeysAre DEF A
  <2>2. <<r, v>> \in B <=> r \in DOMAIN read /\ KeyAmong(read[r], r, v, plans, tenant)
    BY BaseKeysAre DEF B
  <2>3. r \in DOMAIN after <=> r \in DOMAIN read
    BY <1>1
  <2>4. r \in DOMAIN read => after[r] = read[r]
    BY <1>1
  <2>. QED
    BY <2>1, <2>2, <2>3, <2>4, Zenon
<1>3. \A r \in DOMAIN read : r \in Base \/ SameParents(B, A)
  <2>1. CASE role \in Base
    BY <2>1
  <2>2. CASE role \notin Base
    BY <1>2, <2>2 DEF SameParents
  <2>. QED
    BY <2>1, <2>2
<1>4. role \in Base \/ SameParents(keys, A)
  BY <1>2 DEF SameParents, B
<1>5. ASSUME NEW r \in DOMAIN read
      PROVE  /\ Fates(r, after, plans, tenant) = Fates(r, read, plans, tenant)
             /\ RowsOf(r, after, plans, tenant) = RowsOf(r, read, plans, tenant)
  <2>1. r \in Range(EntityOrder) /\ (r \in Base \/ SameParents(B, A))
    BY <1>3
  <2>2. Outcomes(r, read[r], plans[r], tenant, B) = Outcomes(r, read[r], plans[r], tenant, A)
    BY <2>1, OutcomesByParents
  <2>3. after[r] = read[r]
    BY <1>1
  <2>. QED
    BY <2>2, <2>3 DEF RowsOf, Fates, A, B
<1>6. /\ Fates(role, after, plans, tenant) = out
      /\ RowsOf(role, after, plans, tenant) = Writes(role, rows, plans[role], tenant, out)
  <2>1. Outcomes(role, rows, plans[role], tenant, keys)
          = Outcomes(role, rows, plans[role], tenant, A)
    BY <1>4, OutcomesByParents
  <2>. QED
    BY <1>1, <2>1 DEF RowsOf, Fates, A
<1>7. SameParents(keys \cup added, A)
  <2>. SUFFICES ASSUME NEW r \in Base, NEW v
                PROVE  <<r, v>> \in keys \cup added <=> <<r, v>> \in A
    BY DEF SameParents
  <2>1. CASE r # role
    <3>1. <<r, v>> \notin added
      BY <2>1
    <3>2. <<r, v>> \in keys <=> <<r, v>> \in B
      BY DEF SameParents, B
    <3>. QED
      BY <1>2, <2>1, <3>1, <3>2
  <2>2. CASE r = role
    <3>1. <<r, v>> \notin keys
      <4>1. <<r, v>> \notin B
        BY <2>2, BaseKeysAre DEF B
      <4>. QED
        BY <4>1 DEF SameParents, B
    <3>2. <<r, v>> \in A <=> KeyAmong(rows, r, v, plans, tenant)
      <4>1. <<r, v>> \in A <=> r \in DOMAIN after /\ KeyAmong(after[r], r, v, plans, tenant)
        BY BaseKeysAre DEF A
      <4>. QED
        BY <1>1, <2>2, <4>1
    <3>3. \A i \in DOMAIN rows : out[i] = Outcome(r, rows[i], plans[r], tenant, {})
      <4>1. Outcomes(role, rows, plans[role], tenant, keys)
              = Outcomes(role, rows, plans[role], tenant, {})
        BY <2>2, OutcomesByParents
      <4>. QED
        BY <2>2, <4>1 DEF Outcomes
    <3>. HIDE DEF out
    <3>4. <<r, v>> \in added <=>
             \E i \in DOMAIN rows : out[i].loads /\ v = KeyOf(rows[i], plans[r], "external_id")
      BY <2>2
    <3>. QED
      BY <3>1, <3>2, <3>3, <3>4 DEF KeyAmong
  <2>. QED
    BY <2>1, <2>2
<1>. QED
  BY <1>1, <1>5, <1>6, <1>7 DEF after, A

(* Reading an entity moves on to the next. *)
LEMMA NextPlace ==
  ASSUME NEW role, NEW plan, LoadEntity(role, plan), LoadFields \subseteq DOMAIN load[1]
  PROVE  load'[1].next = load[1].next + 1
<1>. DEFINE L == load[1]
<1>1. PICK writes, keys, read, rejects, report :
         load' = <<[L EXCEPT !.next = @ + 1, !.writes = writes, !.keys = keys, !.read = read,
                             !.rejects = rejects, !.report = report]>>
  BY Zenon DEF LoadEntity
<1>. HIDE DEF L
<1>. QED
  BY <1>1 DEF LoadFields, L

(* The next entity is written as it was read. *)
LEMMA LoadNextTraces ==
  ASSUME Sound, Traced, LoadNext
  PROVE  Traced'
<1>. DEFINE L == load[1]
            tenant == current[1].tenant
<1>1. /\ load # <<>> /\ L.next <= Len(EntityOrder) /\ UNCHANGED current
      /\ 1 \in DOMAIN load /\ LoadFields \subseteq DOMAIN L /\ current[1].url \in Urls
  BY DEF LoadNext, Sound, Loading, Connected
<1>2. /\ L.next \in Nat \ {0} /\ Len(EntityOrder) = 6
      /\ \A r \in DOMAIN L.read : \E k \in 1..(L.next - 1) : k \in 1..6 /\ EntityOrder[k] = r
      /\ Holds(L.writes, L.read, Plans, tenant)
      /\ \A id \in DOMAIN L.writes : \E role \in DOMAIN L.read :
            id \in DOMAIN RowsOf(role, L.read, Plans, tenant)
      /\ SameParents(L.keys, BaseKeys(L.read, Plans, tenant))
      /\ \A r \in DOMAIN L.read : /\ \E n \in Nat : DOMAIN L.read[r] = 1..n
                                  /\ Reported(L.rejects, r, L.read, Plans, tenant)
  BY <1>1 DEF Traced, EntityOrder
<1>3. /\ L.next \in 1..6 /\ L.next + 1 \in Nat \ {0} /\ (L.next + 1) - 1 = L.next
      /\ \A k \in 1..(L.next - 1) : k \in 1..L.next /\ k < L.next
      /\ L.next \in 1..L.next
  BY <1>1, <1>2
<1>4. Plans' = Plans /\ current'[1].tenant = tenant
  BY <1>1 DEF Plans
<1>5. CASE load' = <<[load[1] EXCEPT !.next = @ + 1]>>
  <2>1. /\ load'[1].writes = L.writes /\ load'[1].keys = L.keys
        /\ load'[1].read = L.read /\ load'[1].next = L.next + 1
        /\ load'[1].rejects = L.rejects
    BY <1>1, <1>5 DEF LoadFields
  <2>2. \A r \in DOMAIN L.read : \E k \in 1..L.next : k \in 1..6 /\ EntityOrder[k] = r
    BY <1>2, <1>3
  <2>. HIDE DEF L
  <2>. QED
    BY <1>2, <1>3, <1>4, <2>1, <2>2 DEF Traced
<1>6. ASSUME Readable(source[current[1].url], Plans[Role]), LoadEntity(Role, Plans[Role])
      PROVE  Traced'
  <2>. DEFINE role == Role
              plan == Plans[role]
              rows == Read(source[current[1].url], plan)
              out == Outcomes(role, rows, plan, tenant, L.keys)
              W == Writes(role, rows, plan, tenant, out)
              added == {<<role, KeyOf(rows[i], plan, "external_id")>> :
                          i \in {j \in DOMAIN rows : out[j].loads}}
              after == With(L.read, role, rows)
  <2>1. /\ load'[1].writes = Upsert(L.writes, W)
        /\ load'[1].keys = L.keys \cup added
        /\ load'[1].read = after
        /\ load'[1].rejects = L.rejects \cup
                                {<<role, i>> : i \in {j \in DOMAIN rows : out[j].rejects}}
    BY <1>1, <1>6, EntityFields
  <2>2. load'[1].next = L.next + 1
    BY <1>1, <1>6, NextPlace
  <2>3. /\ role = EntityOrder[L.next] /\ role \in Range(EntityOrder)
        /\ DOMAIN L.read \subseteq Range(EntityOrder) /\ role \notin DOMAIN L.read
        /\ role \in Base => DOMAIN L.read \subseteq Base
    <3>1. role = EntityOrder[L.next] /\ role \in Range(EntityOrder)
      BY <1>3, OrderIs DEF Role
    <3>. HIDE DEF role, L
    <3>2. ASSUME NEW r \in DOMAIN L.read
          PROVE  r \in Range(EntityOrder) /\ r # role /\ (role \in Base => r \in Base)
      <4>1. PICK k \in 1..(L.next - 1) : k \in 1..6 /\ EntityOrder[k] = r
        BY <1>2
      <4>2. k < L.next /\ k # L.next
        BY <1>3
      <4>. QED
        BY <1>3, <3>1, <4>1, <4>2, OrderIs
    <3>. QED
      BY <3>1, <3>2
  <2>10. PICK n \in Nat : DOMAIN rows = 1..n
    BY <1>1, <1>6, ReadIs DEF Sound
  <2>11. \A i \in DOMAIN rows : out[i].loads \/ out[i].rejects
    BY <2>10, WritesAre
  <2>. HIDE DEF role, L, tenant
  <2>4. /\ DOMAIN after = DOMAIN L.read \cup {role}
        /\ \A r \in DOMAIN L.read :
             /\ Fates(r, after, Plans, tenant) = Fates(r, L.read, Plans, tenant)
             /\ RowsOf(r, after, Plans, tenant) = RowsOf(r, L.read, Plans, tenant)
        /\ Fates(role, after, Plans, tenant) = out
        /\ RowsOf(role, after, Plans, tenant) = W
        /\ SameParents(L.keys \cup added, BaseKeys(after, Plans, tenant))
    <3>. HIDE DEF rows
    <3>1. SameParents(L.keys, BaseKeys(L.read, Plans, tenant))
      BY <1>2
    <3>. DEFINE read == L.read
                keys == L.keys
                plans == Plans
    <3>2. /\ role \in Range(EntityOrder) /\ role \notin DOMAIN read
          /\ DOMAIN read \subseteq Range(EntityOrder)
          /\ role \in Base => DOMAIN read \subseteq Base
          /\ SameParents(keys, BaseKeys(read, plans, tenant))
      BY <2>3, <3>1
    <3>. HIDE DEF read, keys, plans
    <3>3. LET next == With(read, role, rows)
              made == Outcomes(role, rows, plans[role], tenant, keys)
              new == {<<role, KeyOf(rows[i], plans[role], "external_id")>> :
                        i \in {j \in DOMAIN rows : made[j].loads}}
          IN /\ DOMAIN next = DOMAIN read \cup {role}
             /\ \A r \in DOMAIN read :
                  /\ Fates(r, next, plans, tenant) = Fates(r, read, plans, tenant)
                  /\ RowsOf(r, next, plans, tenant) = RowsOf(r, read, plans, tenant)
             /\ Fates(role, next, plans, tenant) = made
             /\ RowsOf(role, next, plans, tenant) = Writes(role, rows, plans[role], tenant, made)
             /\ SameParents(keys \cup new, BaseKeys(next, plans, tenant))
      BY <3>2, OneMoreRole
    <3>. QED
      BY <3>3 DEF read, keys, plans
  <2>12. ASSUME NEW r \in DOMAIN after
         PROVE  /\ \E m \in Nat : DOMAIN after[r] = 1..m
                /\ Reported(load'[1].rejects, r, after, Plans, tenant)
    <3>1. CASE r = role
      <4>1. after[r] = rows
        BY <3>1 DEF With
      <4>. HIDE DEF out, rows, after
      <4>2. \A i \in DOMAIN rows : out[i].rejects => <<role, i>> \in load'[1].rejects
        BY <2>1
      <4>. QED
        BY <2>4, <2>10, <2>11, <3>1, <4>1, <4>2 DEF Reported
    <3>2. CASE r # role
      <4>1. r \in DOMAIN L.read /\ after[r] = L.read[r]
        BY <3>2 DEF With
      <4>. HIDE DEF after, out, rows
      <4>2. L.rejects \subseteq load'[1].rejects
        BY <2>1
      <4>. QED
        BY <1>2, <2>4, <4>1, <4>2 DEF Reported
    <3>. QED
      BY <3>1, <3>2
  <2>. HIDE DEF W, added, after
  <2>5. \A r \in DOMAIN after : \E k \in 1..L.next : k \in 1..6 /\ EntityOrder[k] = r
    BY <1>2, <1>3, <2>3, <2>4
  <2>6. /\ DOMAIN Upsert(L.writes, W) = DOMAIN L.writes \cup DOMAIN W
        /\ \A id \in DOMAIN W : Upsert(L.writes, W)[id] = W[id]
        /\ \A id \in DOMAIN L.writes \ DOMAIN W : Upsert(L.writes, W)[id] = L.writes[id]
    BY UpsertIs
  <2>7. Holds(Upsert(L.writes, W), after, Plans, tenant)
    <3>. SUFFICES ASSUME NEW r \in DOMAIN after, NEW id \in DOMAIN RowsOf(r, after, Plans, tenant)
                  PROVE  /\ id \in DOMAIN Upsert(L.writes, W)
                         /\ Upsert(L.writes, W)[id] = RowsOf(r, after, Plans, tenant)[id]
      BY DEF Holds
    <3>1. CASE r = role
      BY <2>4, <2>6, <3>1
    <3>2. CASE r # role
      <4>1. r \in DOMAIN L.read
        BY <2>4, <3>2
      <4>2. id[1] = r
        BY IdsAre
      <4>3. id \notin DOMAIN W
        <5>. SUFFICES ASSUME id \in DOMAIN W PROVE FALSE
          OBVIOUS
        <5>1. id \in DOMAIN RowsOf(role, after, Plans, tenant)
          BY <2>4
        <5>2. id[1] = role
          BY <5>1, IdsAre
        <5>. QED
          BY <3>2, <4>2, <5>2
      <4>4. id \in DOMAIN L.writes /\ L.writes[id] = RowsOf(r, L.read, Plans, tenant)[id]
        BY <1>2, <2>4, <4>1 DEF Holds
      <4>. QED
        BY <2>4, <2>6, <4>1, <4>3, <4>4
    <3>. QED
      BY <3>1, <3>2
  <2>8. \A id \in DOMAIN Upsert(L.writes, W) : \E r \in DOMAIN after :
            id \in DOMAIN RowsOf(r, after, Plans, tenant)
    <3>. TAKE id \in DOMAIN Upsert(L.writes, W)
    <3>1. CASE id \in DOMAIN W
      BY <2>4, <3>1
    <3>2. CASE id \in DOMAIN L.writes
      BY <1>2, <2>4, <3>2
    <3>. QED
      BY <2>6, <3>1, <3>2
  <2>9. load'[1].next \in Nat \ {0} /\ load'[1].next - 1 = L.next
    BY <1>3, <2>2
  <2>. QED
    BY <1>4, <2>1, <2>4, <2>5, <2>7, <2>8, <2>9, <2>12 DEF Traced, tenant
<1>. QED
  BY <1>5, <1>6 DEF LoadNext

(* A step between two loads, or one that leaves the load as it is. *)
LEMMA StillTraced ==
  ASSUME Traced,
         \/ load' = <<>>
         \/ /\ load # <<>> /\ current'[1].tenant = current[1].tenant /\ Plans' = Plans
            /\ load'[1].writes = load[1].writes /\ load'[1].keys = load[1].keys
            /\ load'[1].read = load[1].read /\ load'[1].next = load[1].next
            /\ load'[1].rejects = load[1].rejects
  PROVE  Traced'
<1>1. CASE load' = <<>>
  BY <1>1 DEF Traced
<1>2. CASE load' # <<>>
  BY <1>2 DEF Traced
<1>. QED
  BY <1>1, <1>2

(* The gate signs the mapping and leaves its plans alone. *)
LEMMA SettleTraces ==
  ASSUME Sound, Traced, Settle
  PROVE  Traced'
<1>. DEFINE L == load[1]
            result == Reconcile(L.report, L.stated, L.tolerance)
            signed == [current[1].mapping[1] EXCEPT !.coverage = result.coverage]
            c == current[1]
<1>1. load # <<>>
  BY DEF Settle
<1>2. /\ current # <<>> /\ 1 \in DOMAIN current
      /\ {"url", "tenant", "fingerprint", "mapping"} \subseteq DOMAIN c
      /\ 1 \in DOMAIN c.mapping /\ "entities" \in DOMAIN c.mapping[1]
      /\ 1 \in DOMAIN load /\ LoadFields \subseteq DOMAIN L
  BY <1>1 DEF Sound, Connected, Loading
<1>3. CASE load' = <<>>
  BY <1>3, StillTraced
<1>4. CASE /\ current' = [current EXCEPT ![1].report = <<L.report>>,
                ![1].reconciliation = <<result>>, ![1].mapping = <<signed>>, ![1].path = TRUE]
           /\ load' = <<[L EXCEPT !.gate = "passed"]>>
  <2>1. signed.entities = c.mapping[1].entities
    BY <1>2
  <2>2. /\ load'[1].writes = L.writes /\ load'[1].keys = L.keys /\ load'[1].read = L.read
        /\ load'[1].next = L.next /\ load'[1].rejects = L.rejects
    BY <1>2, <1>4 DEF LoadFields
  <2>. HIDE DEF signed, result, L
  <2>3. current'[1].tenant = c.tenant /\ current'[1].mapping = <<signed>>
    BY <1>2, <1>4
  <2>4. Plans' = Plans
    BY <2>1, <2>3 DEF Plans
  <2>. QED
    BY <1>1, <2>2, <2>3, <2>4, StillTraced DEF L
<1>. QED
  BY <1>3, <1>4 DEF Settle

(* A load begins with nothing read. *)
LEMMA StartTraces ==
  ASSUME NEW stated, NEW tolerance, StartLoad(stated, tolerance)
  PROVE  Traced'
<1>1. /\ load'[1].writes = <<>> /\ load'[1].keys = {} /\ load'[1].read = <<>> /\ load'[1].next = 1
  BY DEF StartLoad
<1>2. DOMAIN load'[1].read = {} /\ DOMAIN load'[1].writes = {} /\ load'[1].next \in Nat \ {0}
  BY <1>1
<1>3. \A plans, tenant : /\ SameParents({}, BaseKeys(<<>>, plans, tenant))
                         /\ Holds(<<>>, <<>>, plans, tenant)
  <2>. TAKE plans, tenant
  <2>2. DOMAIN <<>> = {}
    OBVIOUS
  <2>1. ASSUME NEW r \in Base, NEW v PROVE <<r, v>> \notin BaseKeys(<<>>, plans, tenant)
    <3>. DEFINE none == <<>>
    <3>1. DOMAIN none = {}
      BY <2>2
    <3>. HIDE DEF none
    <3>2. <<r, v>> \in BaseKeys(none, plans, tenant)
            <=> r \in DOMAIN none /\ KeyAmong(none[r], r, v, plans, tenant)
      BY BaseKeysAre
    <3>. QED
      BY <3>1, <3>2 DEF none
  <2>. QED
    BY <2>1, <2>2 DEF SameParents, Holds
<1>. QED
  BY <1>1, <1>2, <1>3 DEF Traced

(* A commit makes the rows of record hold what was read, and disturbs nobody   *)
(* else's.                                                                     *)
LEMMA CommitKeeps ==
  ASSUME Sound, Traced, Kept, Commit
  PROVE  Kept'
<1>. DEFINE t == current[1].tenant
            W == load[1].writes
            a == [url |-> current[1].url, read |-> load[1].read, stated |-> load[1].stated,
                  tolerance |-> load[1].tolerance, entities |-> Plans]
<1>1. /\ load # <<>> /\ ledger' = Upsert(ledger, W)
      /\ accepted' = [accepted EXCEPT ![t] = <<a>>]
  BY DEF Commit, Plans
<1>2. /\ t \in Tenants
      /\ DOMAIN ledger' = DOMAIN ledger \cup DOMAIN W
      /\ \A id \in DOMAIN W : ledger'[id] = W[id] /\ id[2] = t
      /\ \A id \in DOMAIN ledger \ DOMAIN W : ledger'[id] = ledger[id]
  BY CommitLands
<1>3. Holds(W, load[1].read, Plans, t)
  BY <1>1 DEF Traced
<1>4. a.read = load[1].read /\ a.entities = Plans
  OBVIOUS
<1>. HIDE DEF a, W
<1>5. /\ accepted'[t] = <<a>>
      /\ \A u \in Tenants : u # t => accepted'[u] = accepted[u]
  BY <1>1, <1>2 DEF Sound, Stores
<1>6. ledger' = [id \in DOMAIN ledger' |-> ledger'[id]]
  BY <1>1 DEF Upsert
<1>7. Holds(ledger', load[1].read, Plans, t)
  BY <1>2, <1>3 DEF Holds
<1>8. ASSUME NEW u \in Tenants, u # t, accepted[u] # <<>>
      PROVE  Holds(ledger', accepted[u][1].read, accepted[u][1].entities, u)
  <2>. DEFINE read == accepted[u][1].read
              plans == accepted[u][1].entities
  <2>1. Holds(ledger, read, plans, u)
    BY <1>8 DEF Kept
  <2>. HIDE DEF read, plans
  <2>2. ASSUME NEW role \in DOMAIN read, NEW id \in DOMAIN RowsOf(role, read, plans, u)
        PROVE  id \in DOMAIN ledger' /\ ledger'[id] = RowsOf(role, read, plans, u)[id]
    <3>1. id \in DOMAIN ledger /\ ledger[id] = RowsOf(role, read, plans, u)[id]
      BY <2>1 DEF Holds
    <3>2. id[2] = u
      BY IdsAre
    <3>3. id \notin DOMAIN W
      BY <1>2, <1>8, <3>2
    <3>. QED
      BY <1>2, <3>1, <3>3
  <2>3. Holds(ledger', read, plans, u)
    BY <2>2 DEF Holds
  <2>. QED
    BY <2>3 DEF read, plans
<1>9. ASSUME NEW u \in Tenants, accepted'[u] # <<>>
      PROVE  Holds(ledger', accepted'[u][1].read, accepted'[u][1].entities, u)
  <2>1. CASE u = t
    <3>1. accepted'[u][1].read = load[1].read /\ accepted'[u][1].entities = Plans
      BY <1>4, <1>5, <2>1
    <3>. QED
      BY <1>7, <2>1, <3>1
  <2>2. CASE u # t
    <3>1. accepted'[u] = accepted[u]
      BY <1>5, <2>2
    <3>. QED
      BY <1>8, <1>9, <2>2, <3>1
  <2>. QED
    BY <2>1, <2>2
<1>10. Kept' <=> /\ ledger' = [id \in DOMAIN ledger' |-> ledger'[id]]
                 /\ \A u \in Tenants : accepted'[u] # <<>> =>
                      Holds(ledger', accepted'[u][1].read, accepted'[u][1].entities, u)
  BY DEF Kept
<1>. QED
  BY <1>6, <1>9, <1>10

(* Both hold throughout. *)
LEMMA TracedAndKept == Spec => [](Sound /\ Traced /\ Kept)
<1>1. Init => Traced /\ Kept
  <2>. SUFFICES ASSUME Init PROVE Traced /\ Kept
    OBVIOUS
  <2>1. load = <<>> /\ \A t \in Tenants : accepted[t] = <<>>
    BY DEF Init
  <2>2. ledger = [id \in DOMAIN ledger |-> ledger[id]]
    BY DEF Init
  <2>. QED
    BY <2>1, <2>2 DEF Traced, Kept
<1>2. Sound /\ Traced /\ Kept /\ [Next]_vars => Traced' /\ Kept'
  <2>. SUFFICES ASSUME Sound, Traced, Kept, [Next]_vars PROVE Traced' /\ Kept'
    OBVIOUS
  <2>1. CASE Commit
    <3>1. load' = <<>>
      BY <2>1 DEF Commit
    <3>. QED
      BY <2>1, <3>1, StillTraced, CommitKeeps
  <2>2. ASSUME UNCHANGED <<ledger, accepted>> PROVE Kept'
    BY <2>2 DEF Kept, Holds
  <2>3. ASSUME NEW stated \in ControlTotals, NEW tolerance \in Tolerances,
               StartLoad(stated, tolerance)
        PROVE  Traced' /\ UNCHANGED <<ledger, accepted>>
    BY <2>3, StartTraces DEF StartLoad
  <2>4. CASE LoadNext
    BY <2>2, <2>4, LoadNextTraces DEF LoadNext
  <2>5. CASE Settle
    BY <2>2, <2>5, SettleTraces DEF Settle
  <2>6. ASSUME \/ Introspect \/ Classify \/ CheckDrift \/ LoadFails \/ CommitFails \/ Reset
               \/ UseDemo \/ Clear \/ SetPolicy \/ Crash
               \/ \E url \in Urls, tenant \in Tenants : Connect(url, tenant)
        PROVE  load' = <<>> /\ UNCHANGED <<ledger, accepted>>
    BY <2>6 DEF Introspect, Classify, CheckDrift, LoadFails, CommitFails, Reset, UseDemo,
       Clear, SetPolicy, Crash, Connect, Idle
  <2>7. ASSUME UNCHANGED vars \/ \E url \in Urls : SourceChanges(url)
        PROVE  Traced' /\ UNCHANGED <<ledger, accepted>>
    <3>1. UNCHANGED <<current, load, ledger, accepted>>
      BY <2>7 DEF vars, SourceChanges
    <3>2. Plans' = Plans
      BY <3>1 DEF Plans
    <3>3. load = <<>> => load' = <<>>
      BY <3>1
    <3>. QED
      BY <3>1, <3>2, <3>3, StillTraced
  <2>. QED
    BY <2>1, <2>2, <2>3, <2>4, <2>5, <2>6, <2>7, StillTraced DEF Next
<1>. QED
  BY <1>1, <1>2, SoundHolds, PTL DEF Spec

(* A row that was read and is not among the rejects is what the ledger to be   *)
(* holds under its id, or the last row that repeats its key is.                *)
LEMMA EveryRowIsThere ==
  ASSUME Sound, Traced
  PROVE  RowsAreAccountedFor
<1>. DEFINE L == load[1]
            tenant == current[1].tenant
            B == BaseKeys(L.read, Plans, tenant)
<1>. SUFFICES ASSUME load # <<>>, NEW role \in DOMAIN L.read, NEW i \in DOMAIN L.read[role],
                     <<role, i>> \notin L.rejects
              PROVE  /\ IdOf(role, i) \in DOMAIN L.writes
                     /\ \E j \in DOMAIN L.read[role] :
                          /\ j >= i /\ IdOf(role, j) = IdOf(role, i) /\ Fate(role, j).loads
                          /\ L.writes[IdOf(role, i)] = Fate(role, j).row[1]
  BY DEF RowsAreAccountedFor
<1>. DEFINE rows == L.read[role]
            plan == Plans[role]
            out == Fates(role, L.read, Plans, tenant)
            W == RowsOf(role, L.read, Plans, tenant)
            IdAt(j) == DerivedId(role, tenant, KeyOf(rows[j], plan, "external_id"))
            loads == {j \in DOMAIN rows : out[j].loads}
            S == {j \in loads : IdAt(j) = IdAt(i)}
            m == Max(S)
<1>1. /\ role \in Range(EntityOrder)
      /\ Holds(L.writes, L.read, Plans, tenant)
      /\ SameParents(L.keys, B)
      /\ Reported(L.rejects, role, L.read, Plans, tenant)
  BY OrderIs DEF Traced
<1>2. PICK n \in Nat : DOMAIN rows = 1..n
  BY DEF Traced
<1>3. i \in loads
  BY <1>1 DEF Reported
<1>4. m \in S /\ m >= i
  <2>1. S \in SUBSET (1..n) /\ i \in S
    BY <1>2, <1>3
  <2>. HIDE DEF S
  <2>. QED
    BY <1>2, <2>1, LastPlace
<1>5. W = [id \in {IdAt(j) : j \in loads} |-> out[Max({j \in loads : IdAt(j) = id})].row[1]]
  BY Zenon DEF RowsOf, Writes
<1>6. IdAt(i) \in DOMAIN W /\ W[IdAt(i)] = out[m].row[1]
  <2>. HIDE DEF out, rows, plan, tenant, loads
  <2>. QED
    BY <1>3, <1>5
<1>7. IdAt(i) \in DOMAIN L.writes /\ L.writes[IdAt(i)] = W[IdAt(i)]
  BY <1>1, <1>6 DEF Holds
<1>8. \A j \in DOMAIN rows : out[j] = Fate(role, j)
  <2>. TAKE j \in DOMAIN rows
  <2>1. out[j] = Outcome(role, rows[j], plan, tenant, B)
    BY DEF Fates, Outcomes
  <2>2. SameParents(B, L.keys)
    BY <1>1 DEF SameParents
  <2>3. Outcome(role, rows[j], plan, tenant, B) = Outcome(role, rows[j], plan, tenant, L.keys)
    BY <1>1, <2>2, OutcomeByParents
  <2>. QED
    BY <2>1, <2>3 DEF Fate
<1>9. \A j : IdOf(role, j) = IdAt(j)
  BY DEF IdOf
<1>10. m \in DOMAIN rows /\ out[m].loads /\ IdAt(m) = IdAt(i)
  BY <1>4
<1>. HIDE DEF m, out, W, IdAt, S, loads, L
<1>. QED
  BY <1>4, <1>6, <1>7, <1>8, <1>9, <1>10 DEF L

(* No row goes missing on its way into the ledger, none is of record without   *)
(* its parent, and every tenant with rows has a mapping to read them by.       *)
THEOREM NoRowGoesMissing == Spec => [](RowsAreAccountedFor /\ NoOrphans /\ RowsHaveAMapping)
<1>1. Sound /\ Traced => RowsAreAccountedFor /\ NoOrphans /\ RowsHaveAMapping
  BY EveryRowIsThere DEF Sound
<1>. QED
  BY <1>1, TracedAndKept, PTL

(* Loading again what was loaded last, through the same mapping, changes no    *)
(* row of record, whatever other tenants loaded in between, however often      *)
(* loads failed, and wherever the process crashed (loader.py, _upsert).        *)
THEOREM LoadingAgainChangesNothing == Spec => ReloadIsIdempotent
<1>1. Sound /\ Traced /\ Kept /\ [Next]_vars =>
        [\A t \in Tenants :
           /\ load # <<>> /\ load' = <<>> /\ accepted[t] # <<>> /\ accepted'[t] # <<>>
           /\ current # <<>> /\ current[1].tenant = t
           /\ accepted[t][1].read = load[1].read
           /\ accepted[t][1].entities = current[1].mapping[1].entities
           => ledger' = ledger]_vars
  <2>. SUFFICES ASSUME Sound, Traced, Kept, [Next]_vars, NEW t \in Tenants,
                       load # <<>>, accepted[t] # <<>>, current[1].tenant = t,
                       accepted[t][1].read = load[1].read,
                       accepted[t][1].entities = current[1].mapping[1].entities
                PROVE  ledger' = ledger
    OBVIOUS
  <2>1. CASE Commit
    <3>. DEFINE W == load[1].writes
                read == load[1].read
                plans == Plans
    <3>1. /\ Holds(W, read, plans, t)
          /\ \A id \in DOMAIN W : \E role \in DOMAIN read :
               id \in DOMAIN RowsOf(role, read, plans, t)
      BY DEF Traced
    <3>2. Holds(ledger, read, plans, t)
      BY DEF Kept, Plans
    <3>3. ledger = [id \in DOMAIN ledger |-> ledger[id]]
      BY DEF Kept
    <3>4. ledger' = Upsert(ledger, W)
      BY <2>1 DEF Commit
    <3>. HIDE DEF W, read, plans
    <3>5. \A id \in DOMAIN W : id \in DOMAIN ledger /\ ledger[id] = W[id]
      BY <3>1, <3>2 DEF Holds
    <3>6. Upsert(ledger, W) = [id \in DOMAIN ledger |-> ledger[id]]
      BY <3>5 DEF Upsert
    <3>. QED
      BY <3>3, <3>4, <3>6
  <2>2. CASE ~Commit
    BY <2>2 DEF Next, vars, Connect, Introspect, Classify, CheckDrift, StartLoad, LoadNext,
       LoadFails, Settle, CommitFails, Reset, UseDemo, Clear, SetPolicy, SourceChanges, Crash
  <2>. QED
    BY <2>1, <2>2
<1>. QED
  BY <1>1, TracedAndKept, PTL DEF Spec, ReloadIsIdempotent

-----------------------------------------------------------------------------
(* One column, one field *)

(* What the greedy matching keeps while it runs: the column a field has chosen *)
(* is claimed, and by that field.  (A field that moves on leaves its old claim *)
(* behind, so the converse does not hold.)                                     *)
Matched(acc) ==
  \A f \in DOMAIN acc.chosen : /\ acc.chosen[f].column \in DOMAIN acc.claimed
                               /\ acc.claimed[acc.chosen[f].column].field = f

LEMMA ConsiderKeeps ==
  ASSUME NEW acc, Matched(acc), NEW field, NEW column, NEW score
  PROVE  Matched(Consider(acc, field, column, score))
<1>. DEFINE owned == column \in DOMAIN acc.claimed
            kept == IF owned THEN Without(acc.chosen, acc.claimed[column].field) ELSE acc.chosen
            chosen == With(kept, field, [column |-> column, score |-> score])
            claimed == With(acc.claimed, column, [field |-> field, score |-> score])
            taken == [chosen |-> chosen, claimed |-> claimed]
<1>1. Consider(acc, field, column, score) \in {acc, taken}
  BY Zenon DEF Consider
<1>2. \A f \in DOMAIN kept : /\ f \in DOMAIN acc.chosen /\ kept[f] = acc.chosen[f]
                             /\ kept[f].column # column
  <2>. TAKE f \in DOMAIN kept
  <2>1. f \in DOMAIN acc.chosen /\ kept[f] = acc.chosen[f]
    BY DEF Without
  <2>2. /\ acc.chosen[f].column \in DOMAIN acc.claimed
        /\ acc.claimed[acc.chosen[f].column].field = f
    BY <2>1 DEF Matched
  <2>3. owned => f # acc.claimed[column].field
    BY DEF Without
  <2>. HIDE DEF kept
  <2>. QED
    BY <2>1, <2>2, <2>3
<1>. HIDE DEF kept
<1>3. /\ DOMAIN chosen = DOMAIN kept \cup {field} /\ chosen[field].column = column
      /\ \A f \in DOMAIN kept : f # field => chosen[f] = kept[f]
  BY DEF With
<1>4. /\ DOMAIN claimed = DOMAIN acc.claimed \cup {column} /\ claimed[column].field = field
      /\ \A c \in DOMAIN acc.claimed : c # column => claimed[c] = acc.claimed[c]
  BY DEF With
<1>5. taken.chosen = chosen /\ taken.claimed = claimed
  OBVIOUS
<1>. HIDE DEF taken, chosen, claimed
<1>6. ASSUME NEW f \in DOMAIN chosen
      PROVE  chosen[f].column \in DOMAIN claimed /\ claimed[chosen[f].column].field = f
  <2>1. CASE f = field
    BY <1>3, <1>4, <2>1
  <2>2. CASE f # field
    <3>1. f \in DOMAIN kept /\ chosen[f] = kept[f]
      BY <1>3, <2>2
    <3>2. chosen[f] = acc.chosen[f] /\ f \in DOMAIN acc.chosen /\ chosen[f].column # column
      BY <1>2, <3>1
    <3>3. /\ acc.chosen[f].column \in DOMAIN acc.claimed
          /\ acc.claimed[acc.chosen[f].column].field = f
      BY <3>2 DEF Matched
    <3>. QED
      BY <1>4, <3>2, <3>3
  <2>. QED
    BY <2>1, <2>2
<1>7. Matched(taken)
  BY <1>5, <1>6 DEF Matched
<1>. QED
  BY <1>1, <1>7

(* The lexicon lists some fields for every role. *)
LEMMA LexiconIs ==
  ASSUME NEW role \in Range(Roles)
  PROVE  Len(FieldLexicon[role]) \in Nat \ {0} /\ DOMAIN FieldLexicon[role] = 1..Len(FieldLexicon[role])
<1>1. role \in {"Customer", "Invoice", "Vendor", "VendorInvoice", "BankAccount", "BankTransaction"}
  BY DEF Roles, Range
<1>2. CASE role = "Customer"
  BY <1>2 DEF FieldLexicon
<1>3. CASE role = "Invoice"
  BY <1>3 DEF FieldLexicon
<1>4. CASE role = "Vendor"
  BY <1>4 DEF FieldLexicon
<1>5. CASE role = "VendorInvoice"
  BY <1>5 DEF FieldLexicon
<1>6. CASE role = "BankAccount"
  BY <1>6 DEF FieldLexicon
<1>7. CASE role = "BankTransaction"
  BY <1>7 DEF FieldLexicon
<1>. QED
  BY <1>1, <1>2, <1>3, <1>4, <1>5, <1>6, <1>7

(* map_columns: however the scores fall, no two fields end up with one column. *)
LEMMA MapColumnsIs ==
  ASSUME NEW table, NEW role \in Range(Roles), Len(table.columns) \in Nat
  PROVE  \A f, g \in DOMAIN MapColumns(table, role) :
           MapColumns(table, role)[f].column = MapColumns(table, role)[g].column => f = g
<1>. DEFINE fields == FieldLexicon[role]
            width == Len(table.columns)
            last == Len(fields) * width
            start == [chosen |-> <<>>, claimed |-> <<>>]
            Visit(acc, k) ==
              LET entry == fields[((k - 1) \div width) + 1]
                  column == table.columns[((k - 1) % width) + 1]
              IN Consider(acc, entry.field, column.name, ColumnScore(column, entry))
            Part(g, n) == g = [k \in 0..n |-> IF k = 0 THEN start ELSE Visit(g[k - 1], k)]
            after == CHOOSE g : Part(g, last)
<1>1. MapColumns(table, role) = after[last].chosen
  BY Zenon DEF MapColumns
<1>2. last \in Nat
  <2>1. Len(fields) \in Nat
    BY LexiconIs
  <2>. HIDE DEF fields
  <2>. QED
    BY <2>1
<1>3. \A acc, k : Matched(acc) => Matched(Visit(acc, k))
  BY ConsiderKeeps
<1>4. Matched(start)
  <2>1. start.chosen = <<>> /\ DOMAIN <<>> = {}
    OBVIOUS
  <2>. QED
    BY <2>1 DEF Matched
<1>. HIDE DEF Visit, start, last
<1>5. \A n \in Nat : \E g : Part(g, n)
  <2>. DEFINE Upto == {n \in Nat : \E g : Part(g, n)}
  <2>1. 0 \in Upto
    <3>. DEFINE g == [k \in 0..0 |-> start]
    <3>1. Part(g, 0)
      OBVIOUS
    <3>. HIDE DEF Part
    <3>. QED
      BY <3>1
  <2>2. ASSUME NEW n \in Nat, n \in Upto PROVE n + 1 \in Upto
    <3>1. PICK g : Part(g, n)
      BY <2>2
    <3>. DEFINE h == [k \in 0..(n + 1) |-> IF k = 0 THEN start ELSE Visit(g[k - 1], k)]
    <3>2. \A k \in 0..n : h[k] = g[k]
      BY <3>1
    <3>3. \A k \in 0..(n + 1) : k # 0 => h[k - 1] = g[k - 1]
      <4>. HIDE DEF h
      <4>. QED
        BY <3>2
    <3>4. Part(h, n + 1)
      BY <3>3
    <3>. HIDE DEF Part
    <3>. QED
      BY <3>4
  <2>3. Nat \subseteq Upto
    <3>. HIDE DEF Upto
    <3>. QED
      BY <2>1, <2>2, Counting
  <2>. QED
    BY <2>3
<1>6. Part(after, last)
  <2>1. \E g : Part(g, last)
    BY <1>2, <1>5
  <2>. HIDE DEF Part
  <2>. QED
    BY <2>1
<1>. HIDE DEF after
<1>7. \A n \in Nat : n <= last => Matched(after[n])
  <2>. DEFINE Good == {n \in Nat : n <= last => Matched(after[n])}
  <2>1. 0 \in Good
    <3>1. after[0] = start
      BY <1>2, <1>6
    <3>. QED
      BY <1>4, <3>1
  <2>2. ASSUME NEW n \in Nat, n \in Good PROVE n + 1 \in Good
    <3>. SUFFICES ASSUME n + 1 <= last PROVE Matched(after[n + 1])
      OBVIOUS
    <3>1. Matched(after[n])
      BY <1>2, <2>2
    <3>2. after[n + 1] = Visit(after[n], n + 1)
      BY <1>2, <1>6
    <3>. QED
      BY <1>3, <3>1, <3>2
  <2>3. Nat \subseteq Good
    <3>. HIDE DEF Good
    <3>. QED
      BY <2>1, <2>2, Counting
  <2>. QED
    BY <2>3
<1>8. Matched(after[last])
  BY <1>2, <1>7
<1>. QED
  BY <1>1, <1>8 DEF Matched

(* A table's score for a role is between nothing and certainty. *)
LEMMA RoleScoreIs ==
  ASSUME NEW table, IsFiniteSet(table.words), NEW role \in Range(Roles)
  PROVE  RoleScore(table, role) \in 0..Bps
<1>. DEFINE names == Tokens(table.words)
            lexicon == Tokens(TableLexicon[role])
            columns == UNION {Tokens(table.columns[c].words) : c \in DOMAIN table.columns}
            hints == Tokens(SideHints[role])
            side == IF columns \cap hints # {} THEN 2500
                    ELSE IF names \cap hints # {} THEN 1000 ELSE 0
            fields == FieldLexicon[role]
            matched == {f \in DOMAIN fields : \E c \in DOMAIN table.columns :
                          ColumnScore(table.columns[c], fields[f]) >= AcceptBps}
            total == OverlapBps(names, lexicon) + side
                       + (2500 * Cardinality(matched)) \div Len(fields)
<1>1. RoleScore(table, role) = Min({Bps, total})
  BY Zenon DEF RoleScore
<1>2. OverlapBps(names, lexicon) \in Nat
  <2>1. IsFiniteSet(names)
    <3>. DEFINE kept == table.words \ Dropped
    <3>1. IsFiniteSet(kept)
      BY FS_Subset
    <3>. HIDE DEF kept
    <3>2. IsFiniteSet({Canonical(w) : w \in kept})
      <4>. DEFINE T == {Canonical(w) : w \in kept}
                  f == [w \in kept |-> Canonical(w)]
      <4>1. f \in Surjection(kept, T)
        BY DEF Surjection
      <4>. HIDE DEF f, T
      <4>2. IsFiniteSet(T)
        BY <3>1, <4>1, FS_Surjection
      <4>. QED
        BY <4>2 DEF T
    <3>. QED
      BY <3>2 DEF Tokens, kept
  <2>. HIDE DEF names, lexicon
  <2>2. Cardinality(names) \in Nat /\ Cardinality(names \cap lexicon) \in Nat
    BY <2>1, FS_Intersection, FS_CardinalityType
  <2>. DEFINE a == Cardinality(names)
              b == Cardinality(names \cap lexicon)
  <2>3. a \in Nat /\ b \in Nat
    BY <2>2
  <2>4. OverlapBps(names, lexicon) = (Bps * b) \div Max({a, 1})
    BY DEF OverlapBps
  <2>. HIDE DEF a, b
  <2>5. Max({a, 1}) \in {a, 1} /\ Max({a, 1}) >= 1
    <3>1. \E x \in {a, 1} : \A y \in {a, 1} : x >= y
      BY <2>3
    <3>. QED
      BY <2>3, <3>1 DEF Max
  <2>. QED
    BY <2>3, <2>4, <2>5 DEF Bps
<1>3. side \in Nat
  <2>. HIDE DEF columns, hints, names
  <2>. QED
    OBVIOUS
<1>4. (2500 * Cardinality(matched)) \div Len(fields) \in Nat
  <2>1. Len(fields) \in Nat \ {0} /\ DOMAIN fields = 1..Len(fields)
    BY LexiconIs
  <2>2. IsFiniteSet(DOMAIN fields)
    <3>1. IsFiniteSet(1..Len(fields))
      BY <2>1, FS_Interval
    <3>. QED
      BY <2>1, <3>1
  <2>3. IsFiniteSet(matched)
    BY <2>2, FS_Subset
  <2>4. Cardinality(matched) \in Nat
    BY <2>3, FS_CardinalityType
  <2>. HIDE DEF matched, fields
  <2>. QED
    BY <2>1, <2>4
<1>. HIDE DEF names, lexicon, side, matched, fields
<1>5. total \in Nat
  BY <1>2, <1>3, <1>4
<1>. HIDE DEF total
<1>6. \E x \in {Bps, total} : \A y \in {Bps, total} : x <= y
  BY <1>5 DEF Bps
<1>7. Min({Bps, total}) \in {Bps, total} /\ Min({Bps, total}) <= Bps
  BY <1>5, <1>6 DEF Min, Bps
<1>8. \A m \in {Bps, total} : m <= Bps => m \in 0..Bps
  BY <1>5 DEF Bps
<1>. QED
  BY <1>1, <1>7, <1>8

LEMMA BestRoleIs ==
  ASSUME NEW table, IsFiniteSet(table.words)
  PROVE  BestRole(table).score \in 0..Bps
<1>. DEFINE score == [r \in DOMAIN Roles |-> RoleScore(table, Roles[r])]
            S == {score[r] : r \in DOMAIN Roles}
<1>1. BestRole(table).score = Max(S)
  BY DEF BestRole
<1>2. \A r \in DOMAIN Roles : score[r] \in 0..Bps
  BY RoleScoreIs DEF Range
<1>3. 1 \in DOMAIN Roles
  BY DEF Roles
<1>. HIDE DEF score
<1>4. S \in SUBSET (0..Bps) /\ S # {} /\ Bps \in Nat
  BY <1>2, <1>3 DEF Bps
<1>. HIDE DEF S
<1>5. Max(S) \in S
  BY <1>4, LargestOf
<1>. QED
  BY <1>1, <1>4, <1>5

(* A schema the onboarding may meet. *)
SchemaOK(schema) ==
  /\ schema \in Seq(Range(schema))
  /\ \A t \in DOMAIN schema : /\ schema[t].columns \in Seq(Range(schema[t].columns))
                              /\ IsFiniteSet(schema[t].words)

(* propose: the columns of the table that won a role, for a role of the        *)
(* catalogue.                                                                  *)
LEMMA ProposeIs ==
  ASSUME NEW schema, SchemaOK(schema), NEW role \in DOMAIN Propose(schema)
  PROVE  /\ role \in Range(Roles)
         /\ \E t \in DOMAIN schema : Propose(schema)[role].fields = MapColumns(schema[t], role)
<1>. DEFINE best == [t \in DOMAIN schema |-> BestRole(schema[t])]
            Candidates(r) == {t \in DOMAIN schema : best[t].role = r /\ best[t].score >= AcceptBps}
            Winner(r) == CHOOSE t \in Candidates(r) : \A u \in Candidates(r) :
                           best[u].score < best[t].score \/ (best[u].score = best[t].score /\ t <= u)
            found == {r \in Range(Roles) : Candidates(r) # {}}
            score == [t \in DOMAIN schema |-> best[t].score]
            C == Candidates(role)
            w == Winner(role)
<1>1. Propose(schema) = [r \in found |-> [table |-> Winner(r),
                                          fields |-> MapColumns(schema[Winner(r)], r)]]
  BY Zenon DEF Propose
<1>2. role \in Range(Roles) /\ C # {} /\ C \subseteq DOMAIN schema
      /\ Propose(schema)[role].fields = MapColumns(schema[w], role)
  <2>1. role \in found
    BY <1>1
  <2>2. Propose(schema)[role] = [table |-> w, fields |-> MapColumns(schema[w], role)]
    BY <1>1, <2>1
  <2>. HIDE DEF w
  <2>. QED
    BY <2>1, <2>2
<1>3. \A t \in DOMAIN schema : t \in Nat /\ score[t] \in 0..Bps
  BY BestRoleIs DEF SchemaOK
<1>4. ASSUME NEW t \in C, \A u \in C : score[u] < score[t] \/ (score[u] = score[t] /\ t <= u)
      PROVE  w \in C
  <2>1. \A u \in C : best[u].score < best[t].score \/ (best[u].score = best[t].score /\ t <= u)
    BY <1>4
  <2>. HIDE DEF best
  <2>. QED
    BY <2>1, Zenon
<1>. HIDE DEF C, w, score, best
<1>. DEFINE S == {score[t] : t \in C}
            T == {t \in C : score[t] = Max(S)}
<1>5. Max(S) \in S /\ \A y \in S : y <= Max(S)
  <2>1. S \in SUBSET (0..Bps) /\ S # {} /\ Bps \in Nat
    BY <1>2, <1>3 DEF Bps
  <2>. HIDE DEF S
  <2>. QED
    BY <2>1, LargestOf
<1>6. T \in SUBSET Nat /\ T # {}
  BY <1>2, <1>3, <1>5
<1>7. PICK t \in T : \A u \in T : t <= u
  <2>. HIDE DEF T
  <2>. QED
    BY <1>6, LeastOf
<1>8. t \in C /\ \A u \in C : score[u] < score[t] \/ (score[u] = score[t] /\ t <= u)
  <2>. SUFFICES ASSUME NEW u \in C
                PROVE  score[u] < score[t] \/ (score[u] = score[t] /\ t <= u)
    OBVIOUS
  <2>1. score[u] <= score[t] /\ score[u] \in Int /\ score[t] \in Int
    BY <1>2, <1>3, <1>5
  <2>2. score[u] = score[t] => u \in T
    OBVIOUS
  <2>. HIDE DEF T, S
  <2>. QED
    BY <1>7, <2>1, <2>2
<1>9. w \in C
  BY <1>4, <1>8
<1>. QED
  BY <1>2, <1>9

(* So a draft mapping feeds no two fields from one column. *)
LEMMA DraftIs ==
  ASSUME NEW schema, SchemaOK(schema)
  PROVE  LET draft == DraftFromProposal(schema, Propose(schema)) IN
         \A role \in DOMAIN draft : \A f, g \in DOMAIN draft[role].fields :
           draft[role].fields[f].column = draft[role].fields[g].column => f = g
<1>. DEFINE proposal == Propose(schema)
            draft == DraftFromProposal(schema, proposal)
<1>. SUFFICES ASSUME NEW role \in DOMAIN draft
              PROVE  \A f, g \in DOMAIN draft[role].fields :
                       draft[role].fields[f].column = draft[role].fields[g].column => f = g
  BY Zenon
<1>. DEFINE chosen == proposal[role].fields
<1>1. /\ role \in DOMAIN proposal
      /\ \E units : draft[role].fields = [f \in DOMAIN chosen |->
                                            [column |-> chosen[f].column, units |-> units[f]]]
  <2>. DEFINE table(r) == schema[proposal[r].table]
              made(r) == [f \in DOMAIN proposal[r].fields |->
                 [column |-> proposal[r].fields[f].column,
                  units |-> IF f \in {"amount", "open_amount", "balance"}
                            THEN UnitsOf(ColumnNamed(table(r), proposal[r].fields[f].column))
                            ELSE "none"]]
              units == [f \in DOMAIN chosen |->
                          IF f \in {"amount", "open_amount", "balance"}
                          THEN UnitsOf(ColumnNamed(table(role), chosen[f].column)) ELSE "none"]
  <2>. HIDE DEF proposal
  <2>1. draft = [r \in {q \in DOMAIN proposal : DOMAIN proposal[q].fields # {}} |->
                   [table |-> table(r).name, fields |-> made(r)]]
    BY Zenon DEF DraftFromProposal
  <2>. HIDE DEF draft
  <2>2. role \in DOMAIN proposal
    BY <2>1
  <2>3. draft[role].fields = made(role)
    <3>. HIDE DEF made, table
    <3>. QED
      BY <2>1
  <2>4. made(role) = [f \in DOMAIN chosen |-> [column |-> chosen[f].column, units |-> units[f]]]
    <3>. HIDE DEF table
    <3>. QED
      OBVIOUS
  <2>. HIDE DEF made, units
  <2>. QED
    BY <2>2, <2>3, <2>4
<1>2. role \in Range(Roles) /\ \E t \in DOMAIN schema : chosen = MapColumns(schema[t], role)
  BY <1>1, ProposeIs
<1>3. PICK t \in DOMAIN schema : chosen = MapColumns(schema[t], role)
  BY <1>2
<1>4. Len(schema[t].columns) \in Nat
  BY DEF SchemaOK
<1>5. \A f, g \in DOMAIN chosen : chosen[f].column = chosen[g].column => f = g
  <2>. DEFINE table == schema[t]
  <2>1. Len(table.columns) \in Nat
    BY <1>4
  <2>. HIDE DEF table
  <2>2. \A f, g \in DOMAIN MapColumns(table, role) :
           MapColumns(table, role)[f].column = MapColumns(table, role)[g].column => f = g
    BY <1>2, <2>1, MapColumnsIs
  <2>. QED
    BY <1>3, <2>2 DEF table
<1>6. PICK units : draft[role].fields = [f \in DOMAIN chosen |->
                                           [column |-> chosen[f].column, units |-> units[f]]]
  BY <1>1
<1>. HIDE DEF chosen, draft
<1>7. DOMAIN draft[role].fields = DOMAIN chosen
      /\ \A f \in DOMAIN chosen : draft[role].fields[f].column = chosen[f].column
  BY <1>6
<1>. QED
  BY <1>5, <1>7

(* A fingerprint digests a schema the source has had. *)
Printed ==
  current # <<>> /\ current[1].fingerprint # <<>> =>
    \E s \in Snapshots : current[1].fingerprint[1].tables = s.schema

(* Every mapping of record or in the making comes from a draft, whatever the   *)
(* source's owner does to the schema between fingerprint, draft and load       *)
(* (ingest/columns.py, map_columns).                                           *)
THEOREM ColumnsFeedOneField == Spec => []OneColumnOneField
<1>. DEFINE Inv == Printed /\ OneColumnOneField
<1>1. Init => Inv
  BY DEF Init, Printed, OneColumnOneField
<1>2. Sound /\ Inv /\ [Next]_vars => Inv'
  <2>. SUFFICES ASSUME Sound, Inv, [Next]_vars PROVE Inv'
    OBVIOUS
  <2>. DEFINE c == current[1]
  <2>1. current # <<>> =>
          /\ 1 \in DOMAIN current
          /\ {"url", "tenant", "fingerprint", "mapping"} \subseteq DOMAIN c
          /\ c.url \in Urls
          /\ c.mapping # <<>> => 1 \in DOMAIN c.mapping /\ "entities" \in DOMAIN c.mapping[1]
    BY DEF Sound, Connected
  <2>2. ASSUME \/ current' = <<>>
               \/ current # <<>> /\ current'[1].fingerprint = c.fingerprint
        PROVE  Printed'
    BY <2>2 DEF Printed
  <2>3. ASSUME \/ current' = <<>> \/ current'[1].mapping = <<>>
               \/ /\ current # <<>> /\ c.mapping # <<>>
                  /\ current'[1].mapping[1].entities = c.mapping[1].entities
        PROVE  OneColumnOneField'
    BY <2>3 DEF OneColumnOneField, Plans
  <2>4. ASSUME NEW f, current # <<>>, f = Fingerprint(source[c.url]),
               current'[1].fingerprint = <<f>>
        PROVE  Printed'
    <3>1. source[c.url] \in Snapshots
      BY <2>1, <2>4 DEF Sound, Stores
    <3>2. f.tables = source[c.url].schema
      BY <2>4 DEF Fingerprint
    <3>3. current'[1].fingerprint[1] = f
      BY <2>4
    <3>. QED
      BY <3>1, <3>2, <3>3 DEF Printed
  <2>5. CASE UNCHANGED current
    BY <2>2, <2>3, <2>5
  <2>6. ASSUME NEW url \in Urls, NEW tenant \in Tenants, Connect(url, tenant) PROVE Inv'
    <3>. DEFINE d == [url |-> url, tenant |-> tenant, fingerprint |-> <<>>, mapping |-> <<>>,
                      reconciliation |-> <<>>, path |-> FALSE, report |-> <<>>, drift |-> <<>>]
    <3>1. current' = <<d>>
      BY <2>6 DEF Connect
    <3>2. d.fingerprint = <<>> /\ d.mapping = <<>>
      OBVIOUS
    <3>. HIDE DEF d
    <3>3. current'[1].fingerprint = <<>> /\ current'[1].mapping = <<>>
      BY <3>1, <3>2
    <3>. QED
      BY <2>3, <3>3 DEF Printed
  <2>7. CASE Introspect
    <3>. DEFINE f == Fingerprint(source[c.url])
    <3>1. current # <<>> /\ current' = [current EXCEPT ![1].fingerprint = <<f>>]
      BY <2>7 DEF Introspect
    <3>. HIDE DEF f
    <3>2. current'[1].fingerprint = <<f>> /\ current'[1].mapping = c.mapping
      BY <2>1, <3>1
    <3>. QED
      BY <2>3, <2>4, <3>1, <3>2 DEF f
  <2>8. CASE CheckDrift
    <3>. DEFINE f == Fingerprint(source[c.url])
    <3>1. /\ current # <<>> /\ c.mapping # <<>>
          /\ \E d : current' = [current EXCEPT ![1].fingerprint = <<f>>, ![1].drift = <<d>>]
      BY <2>8, Zenon DEF CheckDrift
    <3>. HIDE DEF f
    <3>2. current'[1].fingerprint = <<f>> /\ current'[1].mapping = c.mapping
      BY <2>1, <3>1
    <3>. QED
      BY <2>3, <2>4, <3>1, <3>2 DEF f
  <2>9. CASE Classify
    <3>. DEFINE print == c.fingerprint[1]
                e == Drafts[print.tables]
                m == [hash |-> print, entities |-> e, coverage |-> 0]
    <3>1. /\ current # <<>> /\ c.fingerprint # <<>>
          /\ current' = [current EXCEPT ![1].mapping = <<m>>]
      BY <2>9, Zenon DEF Classify
    <3>2. m.entities = e
      OBVIOUS
    <3>. HIDE DEF m
    <3>3. current'[1].fingerprint = c.fingerprint /\ current'[1].mapping = <<m>>
      BY <2>1, <3>1
    <3>4. PICK s \in Snapshots : print.tables = s.schema
      BY <3>1 DEF Printed
    <3>5. SchemaOK(s.schema)
      BY OnboardingAssumption DEF SchemaOK
    <3>6. e = DraftFromProposal(s.schema, Propose(s.schema))
      BY <3>4 DEF Drafts
    <3>7. \A role \in DOMAIN e : \A f, g \in DOMAIN e[role].fields :
             e[role].fields[f].column = e[role].fields[g].column => f = g
      <4>. DEFINE draft == DraftFromProposal(s.schema, Propose(s.schema))
      <4>1. \A role \in DOMAIN draft : \A f, g \in DOMAIN draft[role].fields :
               draft[role].fields[f].column = draft[role].fields[g].column => f = g
        BY <3>5, DraftIs
      <4>. HIDE DEF draft, e
      <4>. QED
        BY <3>6, <4>1 DEF draft
    <3>. HIDE DEF e
    <3>8. Plans' = e
      BY <3>2, <3>3 DEF Plans
    <3>9. OneColumnOneField'
      BY <3>7, <3>8 DEF OneColumnOneField
    <3>. QED
      BY <2>2, <3>1, <3>3, <3>9
  <2>10. CASE Settle
    <3>. DEFINE L == load[1]
                result == Reconcile(L.report, L.stated, L.tolerance)
                signed == [c.mapping[1] EXCEPT !.coverage = result.coverage]
    <3>1. current # <<>> /\ c.mapping # <<>>
      BY <2>10 DEF Settle, Sound, Loading
    <3>2. signed.entities = c.mapping[1].entities
      BY <2>1, <3>1
    <3>3. \/ current' = [current EXCEPT ![1].report = <<L.report>>,
                ![1].reconciliation = <<result>>, ![1].mapping = <<signed>>, ![1].path = TRUE]
          \/ current' = [current EXCEPT ![1].report = <<L.report>>,
                                        ![1].reconciliation = <<result>>]
      BY <2>10, Zenon DEF Settle
    <3>. HIDE DEF signed, result, L
    <3>4. /\ current'[1].fingerprint = c.fingerprint
          /\ current'[1].mapping = <<signed>> \/ current'[1].mapping = c.mapping
      BY <2>1, <3>1, <3>3
    <3>. QED
      BY <2>2, <2>3, <3>1, <3>2, <3>4
  <2>11. ASSUME Reset \/ Crash PROVE current' = <<>>
    BY <2>11 DEF Reset, Crash
  <2>12. ASSUME \/ LoadNext \/ LoadFails \/ Commit \/ CommitFails \/ UseDemo \/ Clear
                \/ SetPolicy \/ UNCHANGED vars
                \/ \E stated \in ControlTotals, tolerance \in Tolerances :
                      StartLoad(stated, tolerance)
                \/ \E url \in Urls : SourceChanges(url)
         PROVE  UNCHANGED current
    BY <2>12 DEF LoadNext, LoadFails, Commit, CommitFails, UseDemo, Clear, SetPolicy, vars,
       StartLoad, SourceChanges
  <2>. HIDE DEF c, Inv
  <2>13. current' = <<>> => Inv'
    BY <2>2, <2>3 DEF Inv
  <2>. QED
    BY <2>5, <2>6, <2>7, <2>8, <2>9, <2>10, <2>11, <2>12, <2>13 DEF Next
<1>3. Inv => OneColumnOneField
  OBVIOUS
<1>. HIDE DEF Inv
<1>. QED
  BY <1>1, <1>2, <1>3, SoundHolds, PTL DEF Spec

(* What is of record can be read, traced and resolved to its parent, and no    *)
(* row went missing on the way into it (loader.py, mapping.py, columns.py).    *)
THEOREM TheRecordIsSound == Spec => []RecordIsSound
<1>1. RowsAreAccountedFor /\ NoOrphans /\ RowsHaveAMapping /\ OneColumnOneField => RecordIsSound
  BY DEF RecordIsSound
<1>. QED
  BY <1>1, NoRowGoesMissing, ColumnsFeedOneField, PTL
=============================================================================
