---------------------------- MODULE Specialists ----------------------------
(***************************************************************************)
(* One specialist's run, from the tools it may call to the levers its      *)
(* finding carries: the allowlist (backend/tools/registry.py), what each   *)
(* specialist gathers and how its answer is reviewed                       *)
(* (backend/agents/specialists), the two providers and the payload repair  *)
(* (agents/gemini.py, replay.py, schema_repair.py), the evidence gate and  *)
(* the runner's order of checks (agents/evidence.py, runner.py).           *)
(*                                                                         *)
(* `world` is what the tools answer from at the moment of the call:        *)
(* world.refs[t] the references tool t returns, world.broken the tools     *)
(* that fail, world.rows the deferral candidates, world.protection whether *)
(* the policy protects a payment class.                                    *)
(*                                                                         *)
(* A lever is a ProposedAction.  Amount 0 stands for None as well: no code *)
(* tells them apart.  Delay -1 is a missing delay_days, doc or party       *)
(* "none" a missing name.  `raw` is what the model sent back.              *)
(***************************************************************************)
EXTENDS Plans, FiniteSets

SHARED == {"get_liquidity_position", "get_policy_constraints", "resolve_evidence"}

TOOL_ALLOWLIST ==
    [forecast        |-> SHARED \cup {"get_forecast_summary", "list_driver_assumptions"},
     variance        |-> SHARED \cup {"get_variance_bridge", "get_forecast_summary",
                                      "list_driver_assumptions"},
     ar_collections  |-> SHARED \cup {"rank_collection_opportunities", "get_ar_aging_summary"},
     ap_optimization |-> SHARED \cup {"rank_deferral_candidates"},
     supplier_risk   |-> SHARED \cup {"get_supplier_risk_profile", "rank_deferral_candidates"},
     dodo_revenue    |-> SHARED \cup {"get_dodo_decline_breakdown"}]
Tools == UNION {TOOL_ALLOWLIST[r] : r \in Specialists}

\* What each gather() cannot do without.  Supplier Risk also asks for one
\* profile per supplier and goes on without the ones it does not get.
ForecastGathers == {"get_liquidity_position", "get_forecast_summary", "list_driver_assumptions"}
VarianceGathers == {"get_variance_bridge", "get_liquidity_position", "list_driver_assumptions"}
ArGathers       == {"rank_collection_opportunities", "get_ar_aging_summary"}
ApGathers       == {"get_policy_constraints", "rank_deferral_candidates"}
SupplierRiskGathers == {"rank_deferral_candidates"}
SupplierRiskTries   == {"get_supplier_risk_profile"}
DodoGathers     == {"get_dodo_decline_breakdown"}

Gathers ==
    [forecast |-> ForecastGathers, variance |-> VarianceGathers, ar_collections |-> ArGathers,
     ap_optimization |-> ApGathers, supplier_risk |-> SupplierRiskGathers,
     dodo_revenue |-> DodoGathers]
Tries(role) == IF role = "supplier_risk" THEN SupplierRiskTries ELSE {}

\* ScopedToolset.call raises ToolNotAllowed outside the allowlist, which no
\* gather may meet: the runner does not catch it.
ASSUME GathersStayInside ==
    \A r \in Specialists : Gathers[r] \cup Tries(r) \subseteq TOOL_ALLOWLIST[r]

-----------------------------------------------------------------------------
(* Gathering *)

\* The handles under which the AP agent knows a protected row.
ProtectedHandles(world) ==
    UNION {{row.doc, row.ref, row.supplier} : row \in {x \in Range(world.rows) : x.protected}}

\* What stays of a gather: the references it may cite and, for the AP agent,
\* the protected handles and the rule behind them.  A failed fetch is a ToolError and degrades the run.
Gather(role, world) ==
    [ok |-> Gathers[role] \cap world.broken = {},
     seen |-> UNION {world.refs[t] : t \in (Gathers[role] \cup Tries(role)) \ world.broken},
     protected |-> IF role = "ap_optimization" THEN ProtectedHandles(world) ELSE {},
     protection |-> world.protection]

-----------------------------------------------------------------------------
(* The provider *)

\* The rules of AgentFinding and ProposedAction a response schema cannot state.
Valid(raw) ==
    /\ raw.status = "complete" => raw.evidence # {}
    /\ raw.rejects => raw.evidence # {}
    /\ raw.followup # "without a question"
    /\ ~raw.long /\ raw.confidence # "empirical, no figures"
    /\ \A i \in DOMAIN raw.levers : raw.levers[i].kind = "ap_defer" => raw.levers[i].delay >= 0

\* repair_finding_payload: never adds a citation, so an uncited claim of
\* completeness becomes a degraded finding.
Repaired(raw) ==
    [raw EXCEPT
        !.status = IF @ = "complete" /\ raw.evidence = {} THEN "degraded" ELSE @,
        !.rejects = @ /\ raw.evidence # {},
        !.followup = IF @ = "without a question" THEN "none" ELSE @,
        !.long = FALSE,
        !.confidence = IF @ = "empirical, no figures" THEN "qualitative" ELSE @]

Reply(outcome, raw) == [outcome |-> outcome, raw |-> raw]

\* GeminiProvider.complete: a timeout is kept apart, because it is retried.
GeminiComplete(raw) ==
    CASE raw.sent = "timeout" -> Reply("timeout", raw)
      [] raw.sent \in {"transport error", "rate limited", "http error"} -> Reply("failed", raw)
      [] raw.sent \in {"no text", "cut off", "not json"} -> Reply("failed", raw)
      [] OTHER -> Reply(IF Valid(Repaired(raw)) THEN "finding" ELSE "failed", Repaired(raw))

\* ReplayProvider.complete: a recording is validated as it stands.
ReplayComplete(raw) ==
    CASE raw.sent = "timeout" -> Reply("timeout", raw)
      [] raw.sent # "json" -> Reply("failed", raw)
      [] OTHER -> Reply(IF Valid(raw) THEN "finding" ELSE "failed", raw)

Complete(provider, raw) ==
    IF provider = "gemini" THEN GeminiComplete(raw) ELSE ReplayComplete(raw)

-----------------------------------------------------------------------------
(* Review and evidence *)

TouchesProtected(gathered, lever) ==
    ({lever.doc, lever.party} \cup lever.refs) \cap gathered.protected # {}

\* mutant: only the offending rows are taken off
ReviewRowByRow(role, gathered, raw) ==
    [raw EXCEPT !.levers =
        SelectSeq(@, LAMBDA l : ~(l.kind = "ap_defer" /\ TouchesProtected(gathered, l)))]
\* The AP agent's review: one deferral of a protected payment, by any handle,
\* and the whole proposal goes.  The other specialists return the finding.
Review(role, gathered, raw) ==
    IF role = "ap_optimization"
       /\ \E i \in DOMAIN raw.levers :
             raw.levers[i].kind = "ap_defer" /\ TouchesProtected(gathered, raw.levers[i])
    THEN [raw EXCEPT !.status = "refused", !.levers = <<>>,
                     !.evidence = IF gathered.protection THEN {"policy:protected"} ELSE @]
    ELSE raw

\* A citation counts when a tool of this run returned it and it still resolves.
Cited(raw) == raw.evidence \cup UNION {raw.levers[i].refs : i \in DOMAIN raw.levers}
EvidenceAccepted(gathered, world, raw) ==
    \A ref \in Cited(raw) :
        /\ ref \in gathered.seen
        /\ "resolve_evidence" \notin world.broken
        /\ \E t \in Tools : ref \in world.refs[t]

-----------------------------------------------------------------------------
(* The run *)

Run(status) == [status |-> status, evidence |-> {}, levers |-> <<>>, rejects |-> FALSE,
                reported |-> FALSE]
Found(raw) ==
    [status |-> IF raw.status \in {"refused", "degraded"} THEN raw.status ELSE "complete",
     evidence |-> raw.evidence, levers |-> raw.levers, rejects |-> raw.rejects,
     reported |-> TRUE]

\* AgentRunner.run after the gather, with the executor's word on a timeout
\* it gave up retrying.
RunOf(provider, role, gathered, world, raw) ==
    LET reply == Complete(provider, raw)
        reviewed == Review(role, gathered, reply.raw)
    IN  CASE ~gathered.ok -> Run("degraded")
          [] gathered.ok /\ reply.outcome # "finding" -> Run(reply.outcome)
          [] gathered.ok /\ reply.outcome = "finding" /\ raw.agent # role -> Run("failed")
          [] OTHER -> IF EvidenceAccepted(gathered, world, reviewed)
                      THEN Found(reviewed) ELSE Run("degraded")
=============================================================================
