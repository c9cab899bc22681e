------------------------------- MODULE Plans -------------------------------
(***************************************************************************)
(* The menu of investigations and how the Commander settles on one         *)
(* (backend/orchestrator/plans.py, commander.py, agents/choice.py).        *)
(*                                                                         *)
(* A manifest is the set of sources the tenant has connected.  What the    *)
(* model answers is a free choice: a plan id, on the menu or not, or no    *)
(* answer at all.                                                          *)
(***************************************************************************)
EXTENDS Integers, Sequences, SequencesExt

SPECIALIST_ROLES ==
    <<"forecast", "variance", "ar_collections", "ap_optimization", "supplier_risk",
      "dodo_revenue">>
Specialists == Range(SPECIALIST_ROLES)

ROLE_SOURCES ==
    [forecast |-> "forecast", variance |-> "forecast", ar_collections |-> "ar_ledger",
     ap_optimization |-> "ap_ledger", supplier_risk |-> "ap_ledger", dodo_revenue |-> "dodo"]
Sources == Range(ROLE_SOURCES)

BreachKinds == {"min_cash", "min_30d_liquidity", "max_supplier_delay", "covenant_ratio",
                "max_revolver_utilization"}

PlanOf(id, invokes, triggers) == [id |-> id, invokes |-> invokes, triggers |-> triggers]

PLAN_CATALOGUE ==
    << PlanOf("full-liquidity-sweep", SPECIALIST_ROLES, {"min_cash", "min_30d_liquidity"}),
       PlanOf("receivables-shortfall", <<"forecast", "variance", "ar_collections">>,
              {"min_cash"}),
       PlanOf("payables-pressure", <<"forecast", "ap_optimization", "supplier_risk">>,
              {"min_cash", "max_supplier_delay"}),
       PlanOf("subscription-decline", <<"forecast", "variance", "dodo_revenue">>, {"min_cash"}),
       PlanOf("covenant-headroom",
              <<"forecast", "variance", "ap_optimization", "supplier_risk">>,
              {"covenant_ratio", "max_revolver_utilization"}) >>
PLANS_BY_ID(id) == CHOOSE p \in Range(PLAN_CATALOGUE) : p.id = id
PlanIds == {p.id : p \in Range(PLAN_CATALOGUE)}
DEFAULT_PLAN_ID == "full-liquidity-sweep"

Invoked(plan) == Range(plan.invokes)
RequiredSources(plan) == {ROLE_SOURCES[r] : r \in Invoked(plan)}
RunnableWith(plan, manifest) == RequiredSources(plan) \subseteq manifest

\* A missing source is the reason even where the plan would have left it out.
Skips(plan, manifest) ==
    [r \in Specialists \ Invoked(plan) |->
        IF ROLE_SOURCES[r] \notin manifest THEN "source missing" ELSE "omitted by the plan"]

\* A menu is a set of positions in the catalogue, whose order is the menu's.
AvailablePlans(manifest) ==
    {i \in DOMAIN PLAN_CATALOGUE : RunnableWith(PLAN_CATALOGUE[i], manifest)}

\* Narrowed to the breach, unless nothing runnable is triggered by it.
PlansFor(manifest, kinds) ==
    LET runnable == AvailablePlans(manifest)
        matching == {i \in runnable : PLAN_CATALOGUE[i].triggers \cap kinds # {}}
    IN  IF kinds = {} \/ matching = {} THEN runnable ELSE matching

NoPlan == [id |-> "none", invokes |-> <<>>, triggers |-> {}]

FirstOn(menu) == PLAN_CATALOGUE[CHOOSE i \in menu : \A j \in menu : i <= j]
Widest(menu) ==
    {i \in menu : \A j \in menu :
        Len(PLAN_CATALOGUE[i].invokes) >= Len(PLAN_CATALOGUE[j].invokes)}

\* mutant: the first runnable plan will do
FallbackFirst(manifest) ==
    IF AvailablePlans(manifest) = {} THEN NoPlan ELSE FirstOn(AvailablePlans(manifest))
\* The default, else the first of the widest.  With nothing runnable the code
\* raises, which NoPlan stands for.
FallbackPlan(manifest) ==
    LET runnable == AvailablePlans(manifest)
        default == {i \in runnable : PLAN_CATALOGUE[i].id = DEFAULT_PLAN_ID}
    IN  IF runnable = {} THEN NoPlan
        ELSE FirstOn(IF default # {} THEN default ELSE Widest(runnable))

\* choose() never raises for a model failure: over budget, a timeout and every
\* other LLMError come back as no value, which is `<<>>`.
Answers == {<<>>} \cup {<<id>> : id \in PlanIds \cup {"invented"}}

\* Commander.plan: a plan id off the menu is treated like no answer.
Selected(manifest, kinds, answer) ==
    LET offered == {PLAN_CATALOGUE[i].id : i \in PlansFor(manifest, kinds)}
        fell == answer = <<>> \/ answer[1] \notin offered
        plan == IF fell THEN FallbackPlan(manifest) ELSE PLANS_BY_ID(answer[1])
    IN  [plan |-> plan, skipped |-> Skips(plan, manifest), model_selected |-> ~fell]
=============================================================================
