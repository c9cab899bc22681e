-------------------------- MODULE ConflictsProofs --------------------------
(***************************************************************************)
(* Proofs about contradictions, their resolution and the constraint gate,  *)
(* for any findings: any number of agents, documents, levers and rejected  *)
(* rows.                                                                   *)
(***************************************************************************)
EXTENDS Conflicts, TallyProofs, SequenceTheorems

-----------------------------------------------------------------------------
(* The inductive invariant *)

\* Where each conflict comes from: an objection to the last proposal on its row,
\* or a dispute nobody objects in.
Grounded(c) ==
    \/ /\ c.kind = "semantic" /\ c.objector = c.right
       /\ On(c.subject) # {} /\ c.left = levers[LastOf(On(c.subject))].agent
    \/ c.kind = "structural" /\ c.objector = None

\* The rulings so far, in the order of the conflicts.
Ruled ==
    \A k \in DOMAIN resolved :
        /\ resolved[k].conflict = conflicts[k]
        /\ resolved[k].upheld \in Parties(conflicts[k]) \cup {None}
        /\ ~resolved[k].by_model => resolved[k].upheld = conflicts[k].objector

\* The gate has run over the rulings as they stand.
Judged ==
    IF Gated
    THEN /\ kept = {i \in DOMAIN levers : Refusal(levers[i]) = None}
         /\ refused = [i \in DOMAIN levers |-> Refusal(levers[i])]
    ELSE refused = [i \in DOMAIN levers |-> None]

\* The inductive invariant.
Rulings ==
    /\ TypeOK
    /\ stage = "detect" => conflicts = <<>>
    /\ stage = "followup" => Len(resolved) < Len(conflicts)
    /\ Gated => Len(resolved) = Len(conflicts)
    /\ \A k \in DOMAIN conflicts : Grounded(conflicts[k])
    /\ ObjectionsComeFirst /\ Ruled /\ Judged

-----------------------------------------------------------------------------
(* Places in order *)

\* The first of some places is one of them.
LEMMA FirstIs ==
    ASSUME NEW S \in SUBSET Nat, S # {}
    PROVE  FirstOf(S) \in S
  BY LeastOf DEF FirstOf

\* So is the last.
LEMMA LastIs ==
    ASSUME NEW n \in Nat, NEW S \in SUBSET (1..n), S # {}
    PROVE  LastOf(S) \in S /\ \A j \in S : j <= LastOf(S)
<1>. DEFINE T == {n - y : y \in S}
<1>1. \A y \in S : y \in Nat /\ n - y \in Nat
  OBVIOUS
<1>2. T \in SUBSET Nat /\ T # {}
  BY <1>1
<1>3. PICK t \in T : \A u \in T : t <= u
  <2>. HIDE DEF T
  <2>. QED
    BY <1>2, LeastOf
<1>4. PICK x \in S : t = n - x
  OBVIOUS
<1>5. \A y \in S : y <= x
  <2>. SUFFICES ASSUME NEW y \in S PROVE y <= x
    OBVIOUS
  <2>1. t <= n - y
    BY <1>3
  <2>. QED
    BY <1>1, <1>4, <2>1
<1>. QED
  BY <1>5 DEF LastOf

-----------------------------------------------------------------------------
(* Detection *)

\* The levers on a document, and what the code reads of them.
LEMMA OnIs ==
    ASSUME levers \in Seq(Levers), NEW doc
    PROVE  /\ Len(levers) \in Nat /\ On(doc) \in SUBSET (1..Len(levers))
           /\ \A i \in On(doc) : levers[i] \in Levers /\ levers[i].agent \in Roles
                                 /\ levers[i].doc = doc
           /\ On(doc) # {} => LastOf(On(doc)) \in On(doc)
<1>1. Len(levers) \in Nat /\ DOMAIN levers = 1..Len(levers)
  OBVIOUS
<1>2. On(doc) \in SUBSET (1..Len(levers))
  BY <1>1 DEF On
<1>3. \A i \in On(doc) : levers[i] \in Levers
  BY <1>2
<1>4. \A i \in On(doc) : levers[i].agent \in Roles /\ levers[i].doc = doc
  BY <1>3 DEF Levers, On
<1>5. On(doc) # {} => LastOf(On(doc)) \in On(doc)
  BY <1>1, <1>2, LastIs
<1>. QED
  BY <1>1, <1>2, <1>3, <1>4, <1>5

\* An objection to somebody else's proposal is a conflict between the two.
LEMMA ObjectionIs ==
    ASSUME levers \in Seq(Levers), NEW r \in Rejects, Contested(r)
    PROVE  /\ Objection(r) \in Conflict /\ Grounded(Objection(r))
           /\ Objection(r).subject = r.doc /\ Objection(r).objector = r.agent
<1>. DEFINE last == levers[LastOf(On(r.doc))].agent
<1>1. On(r.doc) # {} /\ last # r.agent
  BY DEF Contested
<1>2. last \in Roles
  BY <1>1, OnIs
<1>3. r.agent \in Roles /\ r.doc \in Docs
  BY DEF Rejects
<1>4. Objection(r) = [kind |-> "semantic", left |-> last, right |-> r.agent,
                      subject |-> r.doc, objector |-> r.agent]
  BY DEF Objection
<1>. DEFINE c == Objection(r)
<1>5. /\ c.kind = "semantic" /\ c.left = last /\ c.right = r.agent
      /\ c.subject = r.doc /\ c.objector = r.agent
  BY <1>4
<1>6. c \in Conflict
  <2>1. c \in [kind : {"semantic", "structural"}, left : Roles, right : Roles,
               subject : Docs, objector : Roles \cup {None}]
    <3>. HIDE DEF last, c
    <3>. QED
      BY <1>2, <1>3, <1>4 DEF c
  <2>2. c.left # c.right
    BY <1>1, <1>5
  <2>. QED
    BY <2>1, <2>2 DEF Conflict
<1>7. Grounded(c)
  BY <1>1, <1>5 DEF Grounded
<1>. QED
  BY <1>5, <1>6, <1>7

\* Two figures on one document are a conflict between the agents behind them.
LEMMA DisputeIs ==
    ASSUME levers \in Seq(Levers), NEW i \in DOMAIN levers, Disputed(i)
    PROVE  Dispute(i) \in Conflict /\ Grounded(Dispute(i))
<1>. DEFINE doc == levers[i].doc
            c == Dispute(i)
<1>1. /\ levers[i].agent # levers[Second(i)].agent
      /\ Figured(doc) \ {i} # {} /\ doc # None /\ levers[i] \in Levers
  BY DEF Disputed
<1>2. Second(i) \in On(doc)
  <2>1. Figured(doc) \ {i} \in SUBSET Nat /\ Figured(doc) \subseteq On(doc)
    BY OnIs DEF Figured
  <2>2. FirstOf(Figured(doc) \ {i}) \in Figured(doc) \ {i}
    BY <1>1, <2>1, FirstIs
  <2>. QED
    BY <2>1, <2>2 DEF Second
<1>3. levers[i].agent \in Roles /\ levers[Second(i)].agent \in Roles /\ doc \in Docs
  BY <1>1, <1>2, OnIs DEF Levers
<1>4. c = [kind |-> "structural", left |-> levers[i].agent, right |-> levers[Second(i)].agent,
           subject |-> doc, objector |-> None]
  BY DEF Dispute
<1>. HIDE DEF doc, c
<1>5. /\ c.kind = "structural" /\ c.left = levers[i].agent
      /\ c.right = levers[Second(i)].agent /\ c.objector = None
  BY <1>4
<1>6. c \in [kind : {"semantic", "structural"}, left : Roles, right : Roles,
             subject : Docs, objector : Roles \cup {None}]
  BY <1>3, <1>4
<1>7. c \in Conflict /\ Grounded(c)
  BY <1>1, <1>5, <1>6 DEF Conflict, Grounded
<1>. QED
  BY <1>7 DEF c

\* _semantic: grounded conflicts, one for every contested row.
LEMMA SemanticIs ==
    ASSUME levers \in Seq(Levers), rejects \in Seq(Rejects)
    PROVE  /\ Semantic \in Seq(Conflict) /\ Len(Semantic) <= Len(rejects)
           /\ \A k \in 1..Len(Semantic) : Grounded(Semantic[k])
           /\ \A j \in DOMAIN rejects : Contested(rejects[j]) =>
                 \E k \in 1..Len(Semantic) : /\ Semantic[k].subject = rejects[j].doc
                                             /\ Semantic[k].objector = rejects[j].agent
<1>. DEFINE S == {j \in DOMAIN rejects : Contested(rejects[j])}
            m == Cardinality(S)
            rows == InOrder(S)
<1>1. Len(rejects) \in Nat /\ S \in SUBSET (1..Len(rejects))
  OBVIOUS
<1>2. \A j \in S : rejects[j] \in Rejects /\ Contested(rejects[j])
  OBVIOUS
<1>3. Semantic = [k \in DOMAIN rows |-> Objection(rejects[rows[k]])]
  BY DEF Semantic
<1>. HIDE DEF S
<1>4. /\ m \in 0..Len(rejects) /\ DOMAIN rows = 1..m
      /\ \A k \in 1..m : rows[k] \in S
      /\ \A i \in S : \E k \in 1..m : rows[k] = i
  BY <1>1, InOrderIs
<1>. HIDE DEF m, rows
<1>5. \A k \in 1..m : Semantic[k] = Objection(rejects[rows[k]])
  BY <1>3, <1>4
<1>6. \A k \in 1..m : /\ Semantic[k] \in Conflict /\ Grounded(Semantic[k])
                      /\ Semantic[k].subject = rejects[rows[k]].doc
                      /\ Semantic[k].objector = rejects[rows[k]].agent
  BY <1>2, <1>4, <1>5, ObjectionIs
<1>7. Semantic \in Seq(Conflict) /\ Len(Semantic) = m
  <2>1. m \in Nat
    BY <1>1, <1>4
  <2>2. Semantic \in [1..m -> Conflict]
    BY <1>3, <1>4, <1>6
  <2>. QED
    BY <2>1, <2>2
<1>8. ASSUME NEW j \in DOMAIN rejects, Contested(rejects[j])
      PROVE  \E k \in 1..Len(Semantic) : /\ Semantic[k].subject = rejects[j].doc
                                         /\ Semantic[k].objector = rejects[j].agent
  <2>1. j \in S
    BY <1>8 DEF S
  <2>2. PICK k \in 1..m : rows[k] = j
    BY <1>4, <2>1
  <2>. QED
    BY <1>6, <1>7, <2>2
<1>9. m <= Len(rejects)
  BY <1>1, <1>4
<1>. QED
  BY <1>6, <1>7, <1>8, <1>9

\* _structural: grounded conflicts.
LEMMA StructuralIs ==
    ASSUME levers \in Seq(Levers)
    PROVE  /\ Structural \in Seq(Conflict)
           /\ \A k \in 1..Len(Structural) : Grounded(Structural[k])
<1>. DEFINE S == {i \in DOMAIN levers : Disputed(i)}
            m == Cardinality(S)
            rows == InOrder(S)
<1>1. Len(levers) \in Nat /\ S \in SUBSET (1..Len(levers))
  OBVIOUS
<1>2. \A i \in S : i \in DOMAIN levers /\ Disputed(i)
  OBVIOUS
<1>3. Structural = [k \in DOMAIN rows |-> Dispute(rows[k])]
  BY DEF Structural
<1>. HIDE DEF S
<1>4. /\ m \in 0..Len(levers) /\ DOMAIN rows = 1..m
      /\ \A k \in 1..m : rows[k] \in S
  BY <1>1, InOrderIs
<1>. HIDE DEF m, rows
<1>5. \A k \in 1..m : Structural[k] = Dispute(rows[k])
  BY <1>3, <1>4
<1>6. \A k \in 1..m : Structural[k] \in Conflict /\ Grounded(Structural[k])
  BY <1>2, <1>4, <1>5, DisputeIs
<1>7. Structural \in Seq(Conflict) /\ Len(Structural) = m
  <2>1. m \in Nat
    BY <1>1, <1>4
  <2>2. Structural \in [1..m -> Conflict]
    BY <1>3, <1>4, <1>6
  <2>. QED
    BY <2>1, <2>2
<1>. QED
  BY <1>6, <1>7

\* detect: the objections first, then the disputes, as many as there are places.
LEMMA DetectHolds ==
    ASSUME Rulings, Detect
    PROVE  Rulings'
<1>. DEFINE all == Semantic \o Structural
            n == IF Len(all) < MaxConflicts THEN Len(all) ELSE MaxConflicts
<1>1. /\ stage = "detect" /\ stage' = "resolve" /\ conflicts' = SubSeq(all, 1, n)
      /\ UNCHANGED <<levers, rejects, resolved, kept, refused>>
  BY DEF Detect, FirstN, findings
<1>2. /\ levers \in Seq(Levers) /\ rejects \in Seq(Rejects) /\ MaxConflicts \in Nat
      /\ resolved = <<>> /\ conflicts = <<>>
  <2>1. conflicts = <<>> /\ resolved \in Seq(Resolved) /\ Len(resolved) <= Len(conflicts)
    BY <1>1 DEF Rulings, TypeOK
  <2>2. Len(resolved) = 0
    BY <2>1
  <2>. QED
    BY <2>1, <2>2, EmptySeq, ConflictsAssumption DEF Rulings, TypeOK
<1>3. /\ Semantic \in Seq(Conflict) /\ Len(Semantic) <= Len(rejects)
      /\ \A k \in 1..Len(Semantic) : Grounded(Semantic[k])
      /\ Structural \in Seq(Conflict) /\ \A k \in 1..Len(Structural) : Grounded(Structural[k])
  BY <1>2, SemanticIs, StructuralIs
<1>4. /\ all \in Seq(Conflict) /\ Len(all) = Len(Semantic) + Len(Structural)
      /\ \A k \in 1..Len(all) : all[k] = IF k <= Len(Semantic) THEN Semantic[k]
                                         ELSE Structural[k - Len(Semantic)]
  BY <1>3, ConcatProperties
<1>5. \A k \in 1..Len(all) : Grounded(all[k])
  BY <1>3, <1>4
<1>. HIDE DEF all
<1>6. n \in Nat /\ n <= Len(all) /\ n <= MaxConflicts
  BY <1>2, <1>4
<1>7. /\ conflicts' \in Seq(Conflict) /\ Len(conflicts') = n
      /\ \A k \in 1..n : conflicts'[k] = all[k]
  <2>. HIDE DEF n
  <2>. QED
    BY <1>1, <1>4, <1>6
<1>8. \A k \in DOMAIN conflicts' : Grounded(conflicts[k])'
  <2>. HIDE DEF n
  <2>1. \A k \in DOMAIN conflicts' : Grounded(conflicts'[k])
    BY <1>5, <1>6, <1>7
  <2>. QED
    BY <1>1, <2>1 DEF Grounded, On
<1>9. TypeOK'
  <2>. HIDE DEF n
  <2>1. conflicts' \in Seq(Conflict) /\ Len(conflicts') <= MaxConflicts
    BY <1>6, <1>7
  <2>2. resolved' \in Seq(Resolved) /\ Len(resolved') <= Len(conflicts')
    BY <1>1, <1>2, <1>6, <1>7 DEF Rulings, TypeOK
  <2>. QED
    BY <1>1, <2>1, <2>2 DEF Rulings, TypeOK, Stages
<1>10. ObjectionsComeFirst'
  <2>. SUFFICES ASSUME Len(rejects) <= MaxConflicts, NEW j \in DOMAIN rejects,
                       PlainObjection(rejects[j])'
                PROVE  \E k \in DOMAIN conflicts' :
                          /\ conflicts'[k].subject = rejects[j].doc
                          /\ conflicts'[k].objector = rejects[j].agent
    BY <1>1 DEF ObjectionsComeFirst
  <2>1. Contested(rejects[j])
    <3>. DEFINE doc == rejects[j].doc
    <3>1. PICK a \in Roles \ {rejects[j].agent} : {levers[i].agent : i \in On(doc)} = {a}
      BY <1>1, SMTT(40) DEF PlainObjection, ProposedBy, On
    <3>2. On(doc) # {}
      BY <3>1
    <3>3. LastOf(On(doc)) \in On(doc)
      BY <1>2, <3>2, OnIs
    <3>4. levers[LastOf(On(doc))].agent = a
      BY <3>1, <3>3
    <3>. QED
      BY <3>1, <3>2, <3>4 DEF Contested
  <2>2. PICK k \in 1..Len(Semantic) : /\ Semantic[k].subject = rejects[j].doc
                                      /\ Semantic[k].objector = rejects[j].agent
    BY <1>2, <2>1, SemanticIs
  <2>3. k \in 1..n /\ all[k] = Semantic[k]
    <3>1. Len(Semantic) \in Nat /\ Len(Structural) \in Nat /\ Len(rejects) \in Nat
      BY <1>2, <1>3
    <3>. QED
      BY <1>2, <1>3, <1>4, <3>1
  <2>. HIDE DEF n
  <2>4. k \in DOMAIN conflicts' /\ conflicts'[k] = Semantic[k]
    BY <1>7, <2>3
  <2>. QED
    BY <2>2, <2>4
<1>11. Ruled' /\ Judged'
  BY <1>1, <1>2 DEF Rulings, Ruled, Judged, Gated
<1>. QED
  BY <1>1, <1>8, <1>9, <1>10, <1>11 DEF Rulings, Gated

-----------------------------------------------------------------------------
(* Resolution *)

\* A conflict and the members of its record.
LEMMA ConflictIs ==
    ASSUME NEW c \in Conflict
    PROVE  /\ c.left \in Roles /\ c.right \in Roles /\ c.left # c.right
           /\ c.objector \in Roles \cup {None} /\ c.subject \in Docs
           /\ None \notin Roles
  BY ConflictsAssumption DEF Conflict, Roles

\* What was detected stays so when only the resolution goes on.
LEMMA HeardStill ==
    ASSUME Rulings, UNCHANGED <<levers, rejects, conflicts>>,
           stage' # "detect" => stage # "detect"
    PROVE  ObjectionsComeFirst' /\ \A k \in DOMAIN conflicts' : Grounded(conflicts[k])'
<1>1. \A doc : On(doc)' = On(doc) /\ ProposedBy(doc)' = ProposedBy(doc)
  BY DEF On, ProposedBy
<1>2. ObjectionsComeFirst'
  <2>. SUFFICES ASSUME stage' # "detect", Len(rejects) <= MaxConflicts,
                       NEW j \in DOMAIN rejects, PlainObjection(rejects[j])'
                PROVE  \E k \in DOMAIN conflicts :
                          /\ conflicts[k].subject = rejects[j].doc
                          /\ conflicts[k].objector = rejects[j].agent
    BY DEF ObjectionsComeFirst
  <2>1. PlainObjection(rejects[j])
    BY <1>1 DEF PlainObjection
  <2>. QED
    BY <2>1 DEF Rulings, ObjectionsComeFirst
<1>3. \A k \in DOMAIN conflicts' : Grounded(conflicts[k])'
  BY <1>1 DEF Rulings, Grounded
<1>. QED
  BY <1>2, <1>3

\* A ruling joins the others, for a party to its conflict or for nobody.
LEMMA RuleHolds ==
    ASSUME Rulings, NEW cites \in BOOLEAN, NEW upheld \in Roles \cup {None}, Rule(cites, upheld)
    PROVE  Rulings'
<1>. DEFINE c == Current
            up == Upheld(c, cites, upheld)
            r == [conflict |-> c, upheld |-> up, by_model |-> Stands(c, cites, upheld)]
            n == Len(resolved)
<1>1. /\ stage = "followup" /\ stage' = "resolve" /\ resolved' = Append(resolved, r)
      /\ UNCHANGED <<levers, rejects, conflicts, kept, refused>>
  BY DEF Rule, findings
<1>2. /\ resolved \in Seq(Resolved) /\ conflicts \in Seq(Conflict) /\ n < Len(conflicts)
      /\ n \in Nat /\ Len(conflicts) \in Nat
  BY <1>1 DEF Rulings, TypeOK
<1>3. n + 1 \in DOMAIN conflicts /\ c = conflicts[n + 1] /\ c \in Conflict
  BY <1>2 DEF Current
<1>4. /\ up \in Roles \cup {None} /\ (~Stands(c, cites, upheld) => up = c.objector)
  BY <1>3, ConflictIs DEF Upheld
<1>5. up \in Parties(c) \cup {None}
  <2>1. CASE Stands(c, cites, upheld)
    BY <2>1 DEF Upheld, Stands
  <2>2. CASE ~Stands(c, cites, upheld)
    <3>1. up = c.objector /\ Grounded(c)
      BY <1>3, <1>4, <2>2 DEF Rulings
    <3>. QED
      BY <3>1 DEF Grounded, Parties
  <2>. QED
    BY <2>1, <2>2
<1>. DEFINE stands == Stands(c, cites, upheld)
<1>6. stands \in BOOLEAN
  BY DEF Stands
<1>7. /\ r \in Resolved /\ r.conflict = c /\ r.upheld = up /\ r.by_model = stands
  <2>1. r = [conflict |-> c, upheld |-> up, by_model |-> stands]
    OBVIOUS
  <2>. HIDE DEF c, up, stands, r
  <2>. QED
    BY <1>3, <1>4, <1>6, <2>1 DEF Resolved
<1>8. ~r.by_model => r.upheld = c.objector
  <2>. HIDE DEF r, stands, up
  <2>. QED
    BY <1>4, <1>7 DEF stands
<1>. HIDE DEF r, c, up, stands
<1>9. /\ resolved' \in Seq(Resolved) /\ Len(resolved') = n + 1 /\ resolved'[n + 1] = r
      /\ \A k \in 1..n : resolved'[k] = resolved[k]
  BY <1>1, <1>2, <1>7
<1>10. TypeOK'
  BY <1>1, <1>2, <1>9 DEF Rulings, TypeOK, Stages
<1>11. Ruled'
  <2>. SUFFICES ASSUME NEW k \in 1..(n + 1)
                PROVE  /\ resolved'[k].conflict = conflicts[k]
                       /\ resolved'[k].upheld \in Parties(conflicts[k]) \cup {None}
                       /\ ~resolved'[k].by_model => resolved'[k].upheld = conflicts[k].objector
    BY <1>1, <1>9 DEF Ruled, Parties
  <2>1. CASE k = n + 1
    BY <1>3, <1>5, <1>7, <1>8, <1>9, <2>1
  <2>2. CASE k # n + 1
    <3>1. k \in 1..n /\ k \in DOMAIN resolved
      BY <1>2, <2>2
    <3>. QED
      BY <1>9, <3>1 DEF Rulings, Ruled
  <2>. QED
    BY <2>1, <2>2
<1>12. ObjectionsComeFirst' /\ \A k \in DOMAIN conflicts' : Grounded(conflicts[k])'
  BY <1>1, HeardStill
<1>13. Judged'
  BY <1>1 DEF Rulings, Judged, Gated
<1>. QED
  BY <1>1, <1>10, <1>11, <1>12, <1>13 DEF Rulings, Gated

\* gate: every lever is judged by the rulings, once.
LEMMA GateHolds ==
    ASSUME Rulings, Gate
    PROVE  Rulings'
<1>1. /\ stage = "resolve" /\ stage' = "gated" /\ Len(resolved) = Len(conflicts)
      /\ kept' = {i \in DOMAIN levers : Refusal(levers[i]) = None}
      /\ refused' = [i \in DOMAIN levers |-> Refusal(levers[i])]
      /\ UNCHANGED <<levers, rejects, conflicts, resolved>>
  BY DEF Gate, findings
<1>2. \A i \in DOMAIN levers : Refusal(levers[i]) \in {"protected", "conflict", "limit", None}
  BY DEF Refusal
<1>3. refused' \in [DOMAIN levers -> {"protected", "conflict", "limit", None}]
      /\ kept' \subseteq DOMAIN levers
  BY <1>1, <1>2
<1>4. TypeOK'
  BY <1>1, <1>3 DEF Rulings, TypeOK, Stages
<1>5. \A lever : Refusal(lever)' = Refusal(lever)
  BY <1>1 DEF Refusal, OverruledOn, Against, Overruled
<1>6. Judged'
  BY <1>1, <1>5 DEF Judged, Gated
<1>7. ObjectionsComeFirst' /\ \A k \in DOMAIN conflicts' : Grounded(conflicts[k])'
  BY <1>1, HeardStill
<1>8. Ruled'
  BY <1>1 DEF Rulings, Ruled, Parties
<1>. QED
  BY <1>1, <1>4, <1>6, <1>7, <1>8 DEF Rulings, Gated

\* Steps that leave findings, conflicts, rulings and the gate alone.
LEMMA QuietHolds ==
    ASSUME Rulings, UNCHANGED <<levers, rejects, conflicts, resolved, kept, refused>>,
           \/ stage' = stage
           \/ stage = "resolve" /\ stage' = "followup" /\ Len(resolved) < Len(conflicts)
    PROVE  Rulings'
<1>1. TypeOK'
  BY DEF Rulings, TypeOK, Stages
<1>2. ObjectionsComeFirst' /\ \A k \in DOMAIN conflicts' : Grounded(conflicts[k])'
  BY HeardStill
<1>3. Ruled'
  BY DEF Rulings, Ruled, Parties
<1>4. Judged'
  <2>1. \A lever : Refusal(lever)' = Refusal(lever)
    BY DEF Refusal, OverruledOn, Against, Overruled
  <2>. QED
    BY <2>1 DEF Rulings, Judged, Gated
<1>. QED
  BY <1>1, <1>2, <1>3, <1>4 DEF Rulings, Gated

-----------------------------------------------------------------------------
(* The theorems *)

\* Sequences of a bounded length are sequences.
LEMMA UpToIs ==
    ASSUME NEW S, NEW n \in Nat, NEW s \in UpTo(S, n)
    PROVE  s \in Seq(S)
<1>1. PICK k \in 0..n : s \in [1..k -> S]
  BY DEF UpTo
<1>. QED
  BY <1>1

\* The rulings and what the gate made of them are as the findings and the
\* resolver's answers require, at every stage.
THEOREM RulingsHold == Spec => []Rulings
<1>1. Init => Rulings
  <2>. SUFFICES ASSUME Init PROVE Rulings
    OBVIOUS
  <2>1. levers \in Seq(Levers) /\ rejects \in Seq(Rejects)
    BY UpToIs, ConflictsAssumption DEF Init
  <2>2. /\ conflicts \in Seq(Conflict) /\ resolved \in Seq(Resolved)
        /\ Len(conflicts) = 0 /\ Len(resolved) = 0
    BY EmptySeq DEF Init
  <2>3. TypeOK
    <3>1. refused \in [DOMAIN levers -> {"protected", "conflict", "limit", None}]
      BY DEF Init
    <3>2. Len(conflicts) <= MaxConflicts /\ Len(resolved) <= Len(conflicts)
      BY <2>2, ConflictsAssumption
    <3>. QED
      BY <2>1, <2>2, <3>1, <3>2 DEF Init, TypeOK, Stages
  <2>4. ObjectionsComeFirst /\ Ruled /\ Judged
    BY DEF Init, ObjectionsComeFirst, Ruled, Judged, Gated
  <2>. QED
    BY <2>3, <2>4 DEF Init, Rulings, Gated
<1>2. Rulings /\ [Next]_vars => Rulings'
  <2>. SUFFICES ASSUME Rulings, [Next]_vars PROVE Rulings'
    OBVIOUS
  <2>1. CASE Followup
    BY <2>1, QuietHolds DEF Followup, findings
  <2>2. CASE UNCHANGED vars
    BY <2>2, QuietHolds DEF vars
  <2>3. ASSUME NEW cites \in BOOLEAN, NEW upheld \in Roles \cup {None}, Rule(cites, upheld)
        PROVE  Rulings'
    BY <2>3, RuleHolds
  <2>. QED
    BY <2>1, <2>2, <2>3, DetectHolds, GateHolds DEF Next
<1>. QED
  BY <1>1, <1>2, PTL DEF Spec

\* The side a ruling is against.
LEMMA OverruledIs ==
    ASSUME Rulings, NEW k \in DOMAIN resolved
    PROVE  /\ resolved[k].conflict \in Conflict /\ resolved[k].conflict = conflicts[k]
           /\ k \in DOMAIN conflicts
           /\ resolved[k].upheld \in Parties(conflicts[k]) \cup {None}
           /\ resolved[k].upheld = None <=> Overruled(resolved[k]) = None
           /\ Overruled(resolved[k]) # None =>
                 /\ Overruled(resolved[k]) \in Parties(conflicts[k])
                 /\ resolved[k].upheld # Overruled(resolved[k])
<1>1. /\ resolved \in Seq(Resolved) /\ conflicts \in Seq(Conflict)
      /\ Len(resolved) <= Len(conflicts)
  BY DEF Rulings, TypeOK
<1>2. k \in DOMAIN conflicts /\ conflicts[k] \in Conflict
  BY <1>1
<1>3. /\ resolved[k].conflict = conflicts[k]
      /\ resolved[k].upheld \in Parties(conflicts[k]) \cup {None}
  BY DEF Rulings, Ruled
<1>4. conflicts[k].left # conflicts[k].right /\ None \notin Parties(conflicts[k])
  BY <1>2, ConflictIs DEF Parties
<1>. QED
  BY <1>2, <1>3, <1>4 DEF Overruled, Parties

\* The last ruling about a row, which is the one the gate reads.
LEMMA LastAgainst ==
    ASSUME Rulings, NEW doc, Against(doc) # {}
    PROVE  /\ LastOf(Against(doc)) \in Against(doc)
           /\ \A k \in Against(doc) : k <= LastOf(Against(doc))
<1>1. Len(resolved) \in Nat /\ Against(doc) \in SUBSET (1..Len(resolved))
  BY DEF Rulings, TypeOK, Against
<1>. QED
  BY <1>1, LastIs

\* The gate executes the rulings, whatever the findings and the resolver say: the
\* side overruled on a row is out, unless a later ruling on the row is against another
\* side, and a lever refused for a conflict has a ruling against it.
THEOREM TheGateExecutes == Spec => []RulingsAreCarriedOut
<1>1. Rulings => OverruledSideIsOut
  <2>. SUFFICES ASSUME Rulings, Gated, NEW k \in DOMAIN resolved,
                       ~Superseded(k),
                       NEW i \in kept, levers[i].doc = resolved[k].conflict.subject,
                       Overruled(resolved[k]) # None
                PROVE  levers[i].agent # Overruled(resolved[k])
    BY DEF OverruledSideIsOut
  <2>1. Refusal(levers[i]) = None
    BY DEF Rulings, Judged
  <2>2. ~OverruledOn(levers[i])
    BY <2>1, ConflictsAssumption DEF Refusal
  <2>3. k \in Against(levers[i].doc)
    BY DEF Against
  <2>. DEFINE m == LastOf(Against(levers[i].doc))
  <2>4. /\ m \in DOMAIN resolved /\ resolved[m].conflict.subject = levers[i].doc
        /\ Overruled(resolved[m]) # None /\ k <= m
    BY <2>3, LastAgainst DEF Against
  <2>5. Overruled(resolved[m]) # levers[i].agent
    BY <2>2, <2>3 DEF OverruledOn
  <2>. HIDE DEF m
  <2>6. k \in Nat /\ m \in Nat
    BY <2>4 DEF Rulings, TypeOK
  <2>7. Overruled(resolved[m]) = Overruled(resolved[k])
    BY <2>4, <2>6 DEF Superseded
  <2>. QED
    BY <2>5, <2>7
<1>2. Rulings => RefusedOnTheRecord
  <2>. SUFFICES ASSUME Rulings, NEW i \in DOMAIN refused, refused[i] = "conflict"
                PROVE  \E k \in DOMAIN resolved :
                          /\ resolved[k].conflict.subject = levers[i].doc
                          /\ levers[i].agent \in Parties(resolved[k].conflict)
                          /\ resolved[k].upheld \notin {None, levers[i].agent}
    BY DEF RefusedOnTheRecord
  <2>1. refused = [j \in DOMAIN levers |-> Refusal(levers[j])]
    BY ConflictsAssumption DEF Rulings, Judged
  <2>2. OverruledOn(levers[i])
    BY <2>1, ConflictsAssumption DEF Refusal
  <2>. DEFINE k == LastOf(Against(levers[i].doc))
  <2>3. /\ k \in DOMAIN resolved /\ resolved[k].conflict.subject = levers[i].doc
        /\ Overruled(resolved[k]) # None /\ Overruled(resolved[k]) = levers[i].agent
    BY <2>2, LastAgainst DEF OverruledOn, Against
  <2>. HIDE DEF k
  <2>. QED
    BY <2>3, OverruledIs
<1>3. Rulings => RulingsAreCarriedOut
  BY <1>1, <1>2 DEF RulingsAreCarriedOut
<1>. QED
  BY <1>3, RulingsHold, PTL

\* Every plain objection is heard before any dispute, settled for a party to it,
\* and upheld when the resolver has nothing usable to say.
THEOREM EveryObjectionIsHeard == Spec => []ObjectionsAreHeard
<1>1. Rulings => SettledByAParty
  BY DEF Rulings, Ruled, SettledByAParty
<1>2. Rulings => FallbackUpholdsTheObjection
  <2>. SUFFICES ASSUME Rulings, Gated, \A k \in DOMAIN resolved : ~resolved[k].by_model,
                       NEW k \in DOMAIN conflicts, NEW i \in DOMAIN levers,
                       conflicts[k].kind = "semantic",
                       ProposedBy(conflicts[k].subject) = {levers[i].agent},
                       levers[i].doc = conflicts[k].subject
                PROVE  i \notin kept
    BY DEF FallbackUpholdsTheObjection
  <2>. DEFINE doc == levers[i].doc
  <2>1. /\ levers \in Seq(Levers) /\ conflicts \in Seq(Conflict) /\ resolved \in Seq(Resolved)
        /\ Len(resolved) = Len(conflicts)
    BY DEF Rulings, TypeOK
  <2>2. \A j \in On(doc) : levers[j].agent = levers[i].agent
    BY DEF ProposedBy
  <2>3. ASSUME NEW l \in DOMAIN resolved, resolved[l].conflict.subject = doc,
               conflicts[l].kind = "semantic"
        PROVE  Overruled(resolved[l]) = levers[i].agent /\ Overruled(resolved[l]) # None
    <3>1. /\ resolved[l].conflict = conflicts[l] /\ l \in DOMAIN conflicts
          /\ conflicts[l] \in Conflict
      BY <2>3, OverruledIs
    <3>2. Grounded(conflicts[l]) /\ resolved[l].upheld = conflicts[l].objector
      BY <2>3, <3>1 DEF Rulings, Ruled
    <3>3. /\ resolved[l].upheld = conflicts[l].right /\ On(doc) # {}
          /\ conflicts[l].left = levers[LastOf(On(doc))].agent
      BY <2>3, <3>1, <3>2 DEF Grounded
    <3>4. conflicts[l].left = levers[i].agent
      BY <2>1, <2>2, <3>3, OnIs
    <3>5. conflicts[l].right # None /\ conflicts[l].left # None
          /\ conflicts[l].left # conflicts[l].right
      BY <3>1, ConflictIs
    <3>. QED
      BY <3>1, <3>3, <3>4, <3>5 DEF Overruled
  <2>4. k \in DOMAIN resolved /\ resolved[k].conflict = conflicts[k]
    BY <2>1, OverruledIs
  <2>5. k \in Against(doc)
    BY <2>3, <2>4 DEF Against
  <2>. DEFINE l == LastOf(Against(doc))
  <2>6. l \in DOMAIN resolved /\ Overruled(resolved[l]) # None
        /\ resolved[l].conflict.subject = doc
    BY <2>5, LastAgainst DEF Against
  <2>. HIDE DEF l
  <2>7. conflicts[l].kind = "semantic"
    <3>1. resolved[l].upheld # None /\ l \in DOMAIN conflicts
      BY <2>6, OverruledIs
    <3>2. resolved[l].upheld = conflicts[l].objector /\ Grounded(conflicts[l])
      BY <2>6, <3>1 DEF Rulings, Ruled
    <3>. QED
      BY <3>1, <3>2 DEF Grounded
  <2>8. Overruled(resolved[l]) = levers[i].agent
    BY <2>3, <2>6, <2>7
  <2>9. OverruledOn(levers[i])
    BY <2>5, <2>8 DEF OverruledOn, l
  <2>10. Refusal(levers[i]) # None
    BY <2>9, ConflictsAssumption DEF Refusal
  <2>. QED
    BY <2>10 DEF Rulings, Judged
<1>3. Rulings => ObjectionsAreHeard
  BY <1>1, <1>2 DEF Rulings, ObjectionsAreHeard
<1>. QED
  BY <1>3, RulingsHold, PTL
=============================================================================
