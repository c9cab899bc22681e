----------------------------- MODULE MCForecast ------------------------------
(***************************************************************************)
(* Companies for Variance.  Amounts are small; dates are real: the first   *)
(* version may start on any Monday of 2025, 2026 and 2027, so every US     *)
(* bank holiday of those years meets every edge of the horizon.            *)
(***************************************************************************)
EXTENDS Variance, TLC

Curve == [mixture |-> [default |-> <<[weight |-> 7000, lag |-> 3],
                                     [weight |-> 3000, lag |-> 45]>>,
                       slow |-> <<[weight |-> 3333, lag |-> 10],
                                  [weight |-> 3333, lag |-> 30],
                                  [weight |-> 3334, lag |-> 60]>>],
          probability |-> [current |-> 9800] @@ ("1-30" :> 9500) @@ ("31-60" :> 9000)
                            @@ ("61-90" :> 7500) @@ ("90+" :> 4000),
          haircut |-> 5000]

\* Everything is a schedule: the weeks two versions share must agree.
Scheduled ==
    [opening |-> 500, curve |-> Curve, invoices |-> {}, payables |-> {},
     subscriptions |-> {[ref |-> "s1", amount |-> 40, next |-> DateOf(11, 31),
                         interval |-> "monthly", status |-> "active"]},
     successBps |-> 9000, payoutLag |-> 2,
     dated |-> {[category |-> "capex", ref |-> "c1", amount |-> -70, due |-> 500]},
     payroll |-> [frequency |-> "semi_monthly", anchor |-> 0, hourlyAnchor |-> NoAnchor,
                  salaried |-> 50, hourly |-> 0, taxBps |-> 3000, benefits |-> 5, schedule |-> "monthly"],
     apWeekday |-> Thursday, rent |-> 30, rentDay |-> 1, quarterlyTax |-> 25,
     debt |-> {[id |-> "term", drawn |-> 1000, rateBps |-> 800, first |-> DateOf(13, 28),
                frequency |-> "quarterly", principal |-> 20]}]

\* Open items and hourly staff: balances age and rows leave the book.  Rent falls due
\* as late, and payments run as early in the week, as the engine can follow.
Trading ==
    [Scheduled EXCEPT
        !.invoices = {[ref |-> "i1", open |-> 97, due |-> 480, disputed |-> FALSE,
                       promise |-> NoPromise, segment |-> "slow"],
                      [ref |-> "i2", open |-> 101, due |-> 700, disputed |-> TRUE,
                       promise |-> NoPromise, segment |-> "retail"],
                      [ref |-> "i3", open |-> 55, due |-> 600, disputed |-> FALSE,
                       promise |-> 615, segment |-> "retail"]},
        !.payables = {[ref |-> "p1", open |-> 60, due |-> 640]},
        !.rentDay = 22, !.apWeekday = 1,
        !.payroll = [frequency |-> "biweekly", anchor |-> 4, hourlyAnchor |-> 11,
                     salaried |-> 50, hourly |-> 20, taxBps |-> 3000, benefits |-> 0, schedule |-> "semi_weekly"],
        !.debt = {[id |-> "term", drawn |-> 1000, rateBps |-> 800, first |-> DateOf(14, 31),
                   frequency |-> "monthly", principal |-> 0]}]

Companies == {Scheduled, Trading}

Mondays == {n \in FirstOf(12)..(FirstOf(48) - 1) : Weekday(n) = Monday}

Cells == {<<"capex", 3>>, <<"receipts_trade_ar", 1>>}

Adjustments == {-15}

\* what the bank holds when the forecast is rolled
Balances == {495}

PolicyMateriality == [absolute |-> 30, pctBps |-> 2500]

LastWeek == [receipts_trade_ar |-> 63, payroll_salaried |-> -50, rent_leases |-> -31]
==============================================================================
