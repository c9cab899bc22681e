---------------------------- MODULE MCWeeklyCycle ----------------------------
(***************************************************************************)
(* Books for WeeklyCycle.  Day 28 is the Monday of the cycle.  TopN is     *)
(* smaller than the number of categories, as 10 is smaller than 14.        *)
(***************************************************************************)
EXTENDS WeeklyCycle

CategoryOrder == <<"receipts", "payroll", "payables">>

Flat(receipts, payroll, payables) ==
    [cell \in CategorySet \X Weeks |->
        CASE cell[1] = "receipts" -> receipts
          [] cell[1] = "payroll" -> -payroll
          [] OTHER -> -payables]

Published(id, monday, opening, lines) ==
    [id |-> id, asOf |-> monday, first |-> monday, opening |-> opening, lines |-> lines]

Moved(id, day, category, amount) ==
    [id |-> id, day |-> day, category |-> category, amount |-> amount, pending |-> FALSE]

Rules(version, effective, floor) ==
    [version |-> version, effective |-> effective, floor |-> floor, min30 |-> floor + 20,
     maxUtil |-> 7000, absolute |-> 5, pctBps |-> 100, protected |-> {"payroll", "tax"}]

Terms == [probability |-> <<9200, 8600, 7000, 5200, 3000>>, disputed |-> 4500,
          delay |-> [standard |-> 21, critical |-> 7], staleAfter |-> 10]

Owes(ref, open, due, issued, disputed, status) ==
    [ref |-> ref, open |-> open, due |-> due, issued |-> issued, disputed |-> disputed,
     status |-> status]
Invoices ==
    {Owes(1, 40, 20, 10, FALSE, "open"), Owes(2, 33, 45, 14, TRUE, "open"),
     Owes(3, 0, 30, 5, FALSE, "paid"), Owes(4, 27, -70, -90, FALSE, "part_paid")}

Bill(ref, open, due, issued, vendor, status) ==
    [ref |-> ref, open |-> open, due |-> due, issued |-> issued, vendor |-> vendor,
     status |-> status]
Payables ==
    {Bill(11, 50, 37, 20, 21, "open"), Bill(12, 30, 22, 8, 22, "open"),
     Bill(13, 20, 90, 27, 23, "open"), Bill(14, 15, -170, -200, 21, "disputed")}

Subscribed(id, status) == [id |-> id, amount |-> 20, status |-> status]

\* A modelled tenant, three versions old, whose cash holds.
Steady ==
    [kind |-> "engine", asOf |-> 28,
     policies |-> {Rules(1, 0, 30), Rules(2, 28, 40), Rules(3, 35, 500)},
     accounts |-> {[id |-> 31, restricted |-> FALSE, balance |-> 90],
                   [id |-> 32, restricted |-> TRUE, balance |-> 500]},
     txns |-> {Moved(1, 15, "receipts", 30), Moved(2, 23, "receipts", 12),
               Moved(3, 24, "payroll", -21), Moved(4, 25, "payables", -16),
               [id |-> 5, day |-> 26, category |-> "receipts", amount |-> 99, pending |-> TRUE]},
     facilities |-> {[id |-> "rcf", limit |-> 100, drawn |-> 50, maxUtil |-> 6500]},
     covenants |-> {[id |-> "lev", inMoney |-> FALSE, words |-> {"net", "debt"}, threshold |-> 30000],
                    [id |-> "liq", inMoney |-> TRUE, words |-> {"liquidity", "cash"}, threshold |-> 60],
                    [id |-> "cov", inMoney |-> FALSE, words |-> {"interest"}, threshold |-> 20000]},
     ebitda |-> 40, rateBps |-> 800,
     versions |-> {Published(1, 14, 60, Flat(25, 20, 10)), Published(2, 21, 80, Flat(30, 20, 10)),
                   [Published(4, 21, 80, Flat(12, 21, 16)) EXCEPT !.asOf = 24],
                   Published(3, 28, 90, Flat(28, 20, 10))},
     assumptions |-> {[key |-> 1, taken |-> 0, reviewDue |-> 20],
                      [key |-> 2, taken |-> 21, reviewDue |-> 60]},
     invoices |-> Invoices, payables |-> Payables,
     vendors |-> {[id |-> 21, class |-> "trade", criticality |-> "standard", singleSource |-> TRUE],
                  [id |-> 22, class |-> "payroll", criticality |-> "critical", singleSource |-> FALSE],
                  [id |-> 23, class |-> "tax", criticality |-> "critical", singleSource |-> FALSE]},
     subscriptions |-> {Subscribed("s1", "active"), Subscribed("s2", "cancelled")},
     processor |-> [success |-> 9200, softShare |-> 6000, recovery |-> 5000],
     terms |-> Terms]

\* Dips below the floor and the thirty-day requirement in week 2, recovered by week 4.
Dipping ==
    [Steady EXCEPT
        !.subscriptions = {Subscribed("s1", "active"), Subscribed("s2", "active"),
                           Subscribed("s3", "active")},
        !.versions = {Published(2, 21, 80, Flat(30, 20, 10)),
                      Published(3, 28, 90,
                          [cell \in CategorySet \X Weeks |->
                              CASE cell = <<"payables", 2>> -> -120
                                [] cell = <<"receipts", 3>> -> 140
                                [] OTHER -> 0])}]

\* Holds its floor, but not the thirty-day requirement on the way.
Tight ==
    [Steady EXCEPT
        !.facilities = {[id |-> "rcf", limit |-> 100, drawn |-> 65, maxUtil |-> 6500]},
        !.versions = {Published(3, 28, 40,
                          [cell \in CategorySet \X Weeks |->
                              CASE cell = <<"receipts", 3>> -> 60 [] OTHER -> 0])}]

\* Draws more than policy allows, and has no bank account to show for it.
Overdrawn ==
    [Steady EXCEPT !.facilities = {[id |-> "rcf", limit |-> 100, drawn |-> 75, maxUtil |-> 9000]},
                   !.subscriptions = {Subscribed("s2", "past_due")}]
Unbanked == [Steady EXCEPT !.accounts = {}]

\* Holds every threshold of its policy and breaches a covenant.
Unearning == [Steady EXCEPT !.ebitda = 0]

\* Onboarded this morning.
Fresh ==
    [Steady EXCEPT !.kind = "tenant", !.policies = {Rules(1, 0, 30)},
        !.facilities = {}, !.covenants = {}, !.versions = {}, !.assumptions = {},
        !.subscriptions = {}]
FreshSolvent == [Fresh EXCEPT !.txns = {Moved(1, 15, "receipts", 300)}]

AllBooks == {Steady, Dipping, Tight, Overdrawn, Unbanked, Unearning, Fresh, FreshSolvent}
==============================================================================
