-------------------------- MODULE MCRecommendation --------------------------
(***************************************************************************)
(* Worlds and model answers for Recommendation.  The amounts sit on the    *)
(* boundaries of the delegation matrix: 25, 100 and 200.                   *)
(***************************************************************************)
EXTENDS Recommendation

Lever(kind, doc, party, amount, delay, refs) ==
    [kind |-> kind, doc |-> doc, party |-> party, amount |-> amount, delay |-> delay,
     refs |-> refs]
Row(doc, supplier, ref, protected, max_delay, amount, forgone) ==
    [doc |-> doc, supplier |-> supplier, ref |-> ref, protected |-> protected,
     max_delay |-> max_delay, amount |-> amount, forgone |-> forgone]
Measured(category, horizon, p90) == [category |-> category, horizon |-> horizon, p90 |-> p90]
PositionOf(min_cash, week, floor, available, utilization) ==
    [min_cash |-> min_cash, week |-> week, floor |-> floor, available |-> available,
     utilization |-> utilization, refs |-> {}]

AllNames == STRING

References(rows) ==
    [t \in Tools |->
        CASE t = "rank_deferral_candidates" -> {r.ref : r \in Range(rows)}
          [] t = "get_policy_constraints" -> {"policy:protected"}
          [] t = "rank_collection_opportunities" -> {"ar:1", "ar:2"}
          [] t = "get_dodo_decline_breakdown" -> {"dodo:1"}
          [] t = "get_supplier_risk_profile" -> {"sup:1"}
          [] t = "get_liquidity_position" -> {"fc:1"}
          [] OTHER -> {}]

Wages == Row("wages", "adp", "ap:w", TRUE, 0, 40, -1)
Bill1(protected) == Row("bill1", "acme", "ap:1", protected, 20, 100, 2)
Bill2 == Row("bill2", "bolt", "ap:2", FALSE, 7, 25, 1)

World(rows, protection, broken, pos, percentiles) ==
    [rows |-> rows, protection |-> protection, broken |-> broken,
     refs |-> References(rows), position |-> pos, percentiles |-> percentiles]

Both == {Measured("ar_collections", 2, 10), Measured("ar_collections", 6, 50),
         Measured("dodo_receipts", 4, 30)}

Base   == World(<<Bill1(FALSE), Bill2, Wages>>, TRUE, {}, PositionOf(100, 5, 200, 50, 50), Both)
Frozen == World(<<Wages, Bill1(TRUE), Bill2>>, TRUE, {}, PositionOf(150, 5, 200, 0, 100),
                {Measured("ar_collections", 2, 10)})
Deep   == World(<<Bill2, Wages>>, FALSE, {"get_dodo_decline_breakdown"},
                PositionOf(-60, 3, 200, 200, 0), {})
Calm   == World(<<Bill1(FALSE), Bill2>>, TRUE, {"get_forecast_error_percentiles"},
                PositionOf(300, 5, 200, 100, 0), Both)
AllWorlds == {Base, Frozen, Deep, Calm}

AllManifests == {Sources, Sources \ {"dodo"}, Sources \ {"ar_ledger"},
                 {"forecast", "dodo"}, {"ar_ledger"}}
AllKinds == {{}, {"min_cash"}, {"covenant_ratio"}}

Raw(agent, sent, status, evidence, rejects, levers) ==
    [agent |-> agent, sent |-> sent, status |-> status, evidence |-> evidence,
     rejects |-> rejects, followup |-> "none", long |-> FALSE, confidence |-> "qualitative",
     levers |-> levers]
Lost(agent, sent) == Raw(agent, sent, "complete", {}, FALSE, <<>>)

AllRaws ==
    [forecast |-> {Raw("forecast", "json", "complete", {"fc:1"}, FALSE, <<>>)},
     variance |-> {Raw("variance", "json", "degraded", {}, FALSE, <<>>)},
     ar_collections |->
        { Raw("ar_collections", "json", "complete", {"ar:1"}, FALSE,
              << Lever("collection_call", "inv1", "ann", 60, -1, {"ar:1"}),
                 Lever("dispute_resolution", "inv2", "bob", 20, -1, {"ar:2"}) >>),
          \* a claim of completeness with nothing cited, on a payable
          Raw("ar_collections", "json", "complete", {}, FALSE,
              << Lever("collection_call", "bill1", "acme", 20, -1, {}),
                 Lever("early_pay_discount", "bill2", "bolt", 100, -1, {}) >>),
          Lost("ar_collections", "rate limited") },
     ap_optimization |->
        { Raw("ap_optimization", "json", "complete", {"ap:1"}, FALSE,
              << Lever("ap_defer", "bill1", "acme", 100, 14, {"ap:1"}),
                 Lever("ap_defer", "bill2", "bolt", 25, 7, {}) >>),
          Raw("ap_optimization", "json", "complete", {"ap:2"}, FALSE,
              << Lever("ap_defer", "bill2", "bolt", 24, 10, {"ap:2"}),
                 Lever("ap_defer", "none", "adp", 40, 5, {}) >>),
          \* an amount below zero, which the schema lets through
          Raw("ap_optimization", "json", "complete", {"ap:2"}, FALSE,
              << Lever("revolver_draw", "none", "none", 100, -1, {}),
                 Lever("ap_defer", "bill2", "bolt", -24, 7, {"ap:2"}) >>) },
     supplier_risk |->
        { Raw("supplier_risk", "json", "complete", {"sup:1"}, TRUE, <<>>),
          Lost("supplier_risk", "timeout") },
     dodo_revenue |->
        { [Raw("dodo_revenue", "json", "complete", {"dodo:1"}, FALSE,
               << Lever("dodo_retry", "none", "none", 20, -1, {"dodo:1"}),
                  Lever("dodo_dunning", "none", "none", 10, -1, {}) >>) EXCEPT !.long = TRUE],
          Lost("forecast", "json") }]
=============================================================================
