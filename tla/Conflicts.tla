----------------------------- MODULE Conflicts -----------------------------
(***************************************************************************)
(* From the findings to the levers a bundle may use: detection and         *)
(* resolution of contradictions (backend/orchestrator/conflicts.py) and    *)
(* the constraint gate that acts on the resolutions                        *)
(* (backend/orchestrator/worklist.py, gate).                               *)
(*                                                                         *)
(* What the agents put in their findings and what the resolver rules are   *)
(* free choices.  A lever is what detection and the gate read of a         *)
(* ProposedAction: its document and its amount may both be missing.        *)
(***************************************************************************)
EXTENDS Tallies, Sequences

CONSTANTS
    None,          \* Python's None
    Agents,        \* how many agents report; an agent is its place in the findings
    Docs,          \* documents levers are about
    Protected,     \* documents of a class the policy protects
    Figures,       \* amounts: two of them disagree materially
    MaxConflicts,  \* MAX_CONFLICTS
    MaxLevers,     \* bound: levers proposed
    MaxRejects     \* bound: rows rejected

ASSUME ConflictsAssumption ==
    /\ Agents \in Nat /\ MaxConflicts \in Nat
    /\ MaxLevers \in Nat /\ MaxRejects \in Nat
    /\ Protected \subseteq Docs
    /\ None \notin Docs /\ None \notin Figures
    /\ None \notin 1..Agents /\ None \notin {"protected", "conflict", "limit"}

VARIABLES
    stage,     \* where resolution is: see Stages
    levers,    \* recommended_actions of the findings, in order
    rejects,   \* their `rejects`, in order
    conflicts, \* detect(findings)
    resolved,  \* the ResolvedConflicts so far
    kept,      \* gate(): the levers that go on, by place
    refused    \* gate(): the levers refused, by place, with who refused them

vars == <<stage, levers, rejects, conflicts, resolved, kept, refused>>
findings == <<levers, rejects>>

Stages  == {"detect", "resolve", "followup", "gated"}
Roles   == 1..Agents
\* over: a deferral beyond its terms, or a draw beyond the facility.  The figure of a
\* lever on no document is compared with nothing, and left out.
Levers  == {l \in [agent : Roles, doc : Docs \cup {None}, figure : Figures \cup {None},
                   over : BOOLEAN] : l.doc = None => l.figure = None}
Rejects == [agent : Roles, doc : Docs]
Conflict == {c \in [kind : {"semantic", "structural"}, left : Roles, right : Roles,
                    subject : Docs, objector : Roles \cup {None}] : c.left # c.right}
Resolved == [conflict : Conflict, upheld : Roles \cup {None}, by_model : BOOLEAN]

UpTo(S, n) == UNION {[1..k -> S] : k \in 0..n}
ByAgent(s) == \A i, j \in DOMAIN s : i < j => s[i].agent <= s[j].agent

Init ==
    /\ stage = "detect"
    /\ levers \in {s \in UpTo(Levers, MaxLevers) : ByAgent(s)}
    /\ rejects \in {s \in UpTo(Rejects, MaxRejects) : ByAgent(s)}
    /\ conflicts = <<>>
    /\ resolved = <<>>
    /\ kept = {}
    /\ refused = [i \in DOMAIN levers |-> None]

-----------------------------------------------------------------------------
(* Detection *)

On(doc) == {i \in DOMAIN levers : levers[i].doc = doc}
FirstOf(S) == CHOOSE i \in S : \A j \in S : i <= j
LastOf(S)  == CHOOSE i \in S : \A j \in S : j <= i

\* _semantic: `proposals` keeps the last proposal for a document, and only a
\* rejection by someone else contradicts it.
Contested(r) ==
    On(r.doc) # {} /\ levers[LastOf(On(r.doc))].agent # r.agent

Objection(r) ==
    [kind |-> "semantic", left |-> levers[LastOf(On(r.doc))].agent, right |-> r.agent,
     subject |-> r.doc, objector |-> r.agent]

Semantic ==
    LET rows == InOrder({j \in DOMAIN rejects : Contested(rejects[j])})
    IN  [k \in DOMAIN rows |-> Objection(rejects[rows[k]])]

\* _structural: the first two figures on a document, from different agents.
Figured(doc) == {i \in On(doc) : levers[i].figure # None}
Second(i) == FirstOf(Figured(levers[i].doc) \ {i})
Disputed(i) ==
    /\ levers[i].doc # None
    /\ Figured(levers[i].doc) \ {i} # {}
    /\ i = FirstOf(Figured(levers[i].doc))
    /\ levers[i].agent # levers[Second(i)].agent
    /\ levers[i].figure # levers[Second(i)].figure

Dispute(i) ==
    [kind |-> "structural", left |-> levers[i].agent, right |-> levers[Second(i)].agent,
     subject |-> levers[i].doc, objector |-> None]

Structural ==
    LET rows == InOrder({i \in DOMAIN levers : Disputed(i)})
    IN  [k \in DOMAIN rows |-> Dispute(rows[k])]

FirstN(s, n) == SubSeq(s, 1, IF Len(s) < n THEN Len(s) ELSE n)

Detect ==
    /\ stage = "detect"
    /\ conflicts' = FirstN(Semantic \o Structural, MaxConflicts)
    /\ stage' = "resolve"
    /\ UNCHANGED <<findings, resolved, kept, refused>>

-----------------------------------------------------------------------------
(* Resolution, one conflict at a time *)

Current == conflicts[Len(resolved) + 1]
Parties(c) == {c.left, c.right}

\* _followup returns: a run, a run that failed, or nothing.
Followup ==
    /\ stage = "resolve"
    /\ Len(resolved) < Len(conflicts)
    /\ stage' = "followup"
    /\ UNCHANGED <<findings, conflicts, resolved, kept, refused>>

\* mutant: a ruling for an outsider is taken as it stands
UpheldAnyone(c, cites, upheld) == IF cites THEN upheld ELSE c.objector
\* _rule: a ruling stands when it cites a row somebody produced and upholds a
\* party or nobody; otherwise _default upholds the objector, or nobody.
Stands(c, cites, upheld) == cites /\ upheld \in Parties(c) \cup {None}
Upheld(c, cites, upheld) == IF Stands(c, cites, upheld) THEN upheld ELSE c.objector

\* ~cites: choose() failed, or the ruling cites nothing.
Rule(cites, upheld) ==
    /\ stage = "followup"
    /\ resolved' = Append(resolved,
          [conflict |-> Current, upheld |-> Upheld(Current, cites, upheld),
           by_model |-> Stands(Current, cites, upheld)])
    /\ stage' = "resolve"
    /\ UNCHANGED <<findings, conflicts, kept, refused>>

-----------------------------------------------------------------------------
(* The constraint gate *)

\* ResolvedConflict.overruled
Overruled(r) ==
    IF r.upheld = None THEN None
    ELSE IF r.upheld = r.conflict.left THEN r.conflict.right ELSE r.conflict.left

\* mutant: a ruling for nobody takes the place of an earlier one
AgainstAny(doc) == {k \in DOMAIN resolved : resolved[k].conflict.subject = doc}
\* The resolutions that overrule somebody on a document; the dict keeps the last.
Against(doc) == {k \in DOMAIN resolved : /\ Overruled(resolved[k]) # None
                                         /\ resolved[k].conflict.subject = doc}

OverruledOn(lever) ==
    /\ Against(lever.doc) # {}
    /\ Overruled(resolved[LastOf(Against(lever.doc))]) = lever.agent

\* gate(): why a lever goes, in the order the code asks; None keeps it.
Refusal(lever) ==
    IF lever.doc \in Protected THEN "protected"
    ELSE IF OverruledOn(lever) THEN "conflict"
    ELSE IF lever.over         THEN "limit"
    ELSE None

Gate ==
    /\ stage = "resolve"
    /\ Len(resolved) = Len(conflicts)
    /\ stage' = "gated"
    /\ kept' = {i \in DOMAIN levers : Refusal(levers[i]) = None}
    /\ refused' = [i \in DOMAIN levers |-> Refusal(levers[i])]
    /\ UNCHANGED <<findings, conflicts, resolved>>

-----------------------------------------------------------------------------
Next ==
    \/ Detect \/ Followup \/ Gate
    \/ \E cites \in BOOLEAN, upheld \in Roles \cup {None} : Rule(cites, upheld)

Spec == Init /\ [][Next]_vars

-----------------------------------------------------------------------------
(* Properties *)

TypeOK ==
    /\ stage \in Stages
    /\ levers \in Seq(Levers) /\ rejects \in Seq(Rejects)
    /\ conflicts \in Seq(Conflict) /\ Len(conflicts) <= MaxConflicts
    /\ resolved \in Seq(Resolved) /\ Len(resolved) <= Len(conflicts)
    /\ kept \subseteq DOMAIN levers
    /\ refused \in [DOMAIN levers -> {"protected", "conflict", "limit", None}]

Gated == stage = "gated"
ProposedBy(doc) == {levers[i].agent : i \in On(doc)}

\* Contradictions that one proposer and one objection make: nobody else has
\* proposed anything on the row.
PlainObjection(r) == \E a \in Roles \ {r.agent} : ProposedBy(r.doc) = {a}

\* An objection to somebody's only proposal is never crowded out by disputes
\* about figures: while there are no more objections than places, each is among
\* the conflicts.
ObjectionsComeFirst ==
    stage # "detect" /\ Len(rejects) <= MaxConflicts =>
        \A j \in DOMAIN rejects : PlainObjection(rejects[j]) =>
            \E k \in DOMAIN conflicts :
                /\ conflicts[k].subject = rejects[j].doc
                /\ conflicts[k].objector = rejects[j].agent

\* Every ruling is for a party to the conflict, or for nobody: an outsider the
\* model names, or a ruling on rows nobody produced, never decides.
SettledByAParty ==
    \A k \in DOMAIN resolved :
        /\ resolved[k].conflict = conflicts[k]
        /\ resolved[k].upheld \in Parties(conflicts[k]) \cup {None}

\* With the resolver down, every plain objection that was taken up removes the
\* lever it was made to.
FallbackUpholdsTheObjection ==
    Gated /\ (\A k \in DOMAIN resolved : ~resolved[k].by_model) =>
        \A k \in DOMAIN conflicts, i \in DOMAIN levers :
            /\ conflicts[k].kind = "semantic"
            /\ ProposedBy(conflicts[k].subject) = {levers[i].agent}
            /\ levers[i].doc = conflicts[k].subject
            => i \notin kept

\* A later ruling about the same row overrules somebody else on it: then the code
\* keeps the later one alone.
Superseded(k) ==
    \E l \in DOMAIN resolved :
        /\ l > k /\ resolved[l].conflict.subject = resolved[k].conflict.subject
        /\ Overruled(resolved[l]) \notin {None, Overruled(resolved[k])}

\* The side overruled on a row has no lever left on it, however many it proposed and
\* whatever other conflicts the row was in: a dispute about the same row that ends
\* without a ruling does not undo it.  Only a later ruling against somebody else does.
OverruledSideIsOut ==
    Gated =>
        \A k \in DOMAIN resolved : ~Superseded(k)
            => \A i \in kept : /\ levers[i].doc = resolved[k].conflict.subject
                               /\ Overruled(resolved[k]) # None
                               => levers[i].agent # Overruled(resolved[k])

\* A lever is refused for a conflict only on the record: a resolution about its
\* row that upheld somebody else against the very agent that proposed it.
RefusedOnTheRecord ==
    \A i \in DOMAIN refused : refused[i] = "conflict" =>
        \E k \in DOMAIN resolved :
            /\ resolved[k].conflict.subject = levers[i].doc
            /\ levers[i].agent \in Parties(resolved[k].conflict)
            /\ resolved[k].upheld \notin {None, levers[i].agent}

\* Every objection is heard before disputes about figures, and settled for a
\* party to it, for the objector when there is no ruling.
ObjectionsAreHeard ==
    TypeOK /\ ObjectionsComeFirst /\ SettledByAParty /\ FallbackUpholdsTheObjection

\* The gate executes the rulings: the side overruled is out unless a later ruling on
\* the row is against another, and no lever goes for a conflict without one against it.
RulingsAreCarriedOut == OverruledSideIsOut /\ RefusedOnTheRecord
=============================================================================
