-------------------------- MODULE OrchestratorProofs --------------------------
(***************************************************************************)
(* Proofs about backend/orchestrator and the tools it reads through.       *)
(*                                                                         *)
(* One Monday (WeeklyCycle, Toolset), for any categories, horizon and      *)
(* books that satisfy BookOK, and any reloads between two reads; and the   *)
(* war room a breach of its policy opens (Investigation), for any menu of  *)
(* stressors, any number of bundles and any bound on the replans.          *)
(***************************************************************************)
EXTENDS WeeklyCycle, Investigation, TallyProofs, SequenceTheorems

-----------------------------------------------------------------------------
(* What the tools answer from a book in order *)

LEMMA InOrderBook ==
    ASSUME NEW b \in Books
    PROVE  /\ b.kind \in {"engine", "tenant"} /\ b.asOf \in Int
           /\ RulesOK(b) /\ ForecastOK(b) /\ CashOK(b) /\ LedgersOK(b)
  BY CycleAssumption DEF BookOK

\* _policy: the newest policy in force is one of the tenant's.
LEMMA PolicyInForce ==
    ASSUME NEW b \in Books
    PROVE  /\ Policy(b) \in b.policies
           /\ Policy(b).floor \in Int /\ Policy(b).min30 \in Int /\ Policy(b).maxUtil \in Int
<1>. DEFINE effective == {p \in b.policies : p.effective <= b.asOf}
            version == [p \in effective |-> p.version]
<1>1. RulesOK(b)
  BY InOrderBook
<1>2. IsFiniteSet(effective) /\ effective # {} /\ \A p \in effective : p.version \in Int
  BY <1>1, FS_Subset DEF RulesOK
<1>3. PICK p \in effective : \A q \in effective : version[q] <= version[p]
  <2>1. \A q \in effective : version[q] \in Int
    BY <1>2
  <2>. HIDE DEF effective, version
  <2>. QED
    BY <1>2, <2>1, MostOf
<1>4. \A q \in effective : q.version <= p.version
  BY <1>3
<1>5. Policy(b) \in effective
  BY <1>4 DEF Policy
<1>. QED
  BY <1>1, <1>5 DEF RulesOK

\* _forecast_version: so is the newest version taken by the as-of day.
LEMMA VersionTaken ==
    ASSUME NEW b \in Books, b.kind = "engine"
    PROVE  Version(b) \in b.versions
<1>. DEFINE taken == {v \in b.versions : v.asOf <= b.asOf}
            asOf == [v \in taken |-> v.asOf]
<1>1. ForecastOK(b)
  BY InOrderBook
<1>2. IsFiniteSet(taken) /\ taken # {} /\ \A v \in taken : v.asOf \in Int
  BY <1>1, FS_Subset DEF ForecastOK
<1>3. PICK v \in taken : \A w \in taken : asOf[w] <= asOf[v]
  <2>1. \A w \in taken : asOf[w] \in Int
    BY <1>2
  <2>. HIDE DEF taken, asOf
  <2>. QED
    BY <1>2, <2>1, MostOf
<1>4. \A w \in taken : w.asOf <= v.asOf
  BY <1>3
<1>5. Version(b) \in taken
  BY <1>4 DEF Version
<1>. QED
  BY <1>5

\* The version a closed week is measured against is one that covered it.
LEMMA BaselineCovers ==
    ASSUME NEW b \in Books, NEW monday \in Int, Covering(b, monday) # {}
    PROVE  /\ Baseline(b, monday) \in Covering(b, monday)
           /\ (monday - Baseline(b, monday).first) \div 7 + 1 \in Weeks
<1>. DEFINE covering == Covering(b, monday)
            asOf == [v \in covering |-> v.asOf]
<1>1. ForecastOK(b)
  BY InOrderBook
<1>2. IsFiniteSet(covering) /\ \A v \in covering : v.asOf \in Int
  <2>1. covering \subseteq b.versions
    BY DEF Covering
  <2>. HIDE DEF covering
  <2>. QED
    BY <1>1, <2>1, FS_Subset DEF ForecastOK
<1>3. PICK v \in covering : \A w \in covering : asOf[w] <= asOf[v]
  <2>1. \A w \in covering : asOf[w] \in Int
    BY <1>2
  <2>. HIDE DEF covering, asOf
  <2>. QED
    BY <1>2, <2>1, MostOf DEF covering
<1>4. \A w \in covering : w.asOf <= v.asOf
  BY <1>3
<1>5. Baseline(b, monday) \in covering
  <2>. HIDE DEF covering
  <2>. QED
    BY <1>4 DEF Baseline, covering
<1>6. (monday - Baseline(b, monday).first) \div 7 + 1 \in Weeks
  <2>. DEFINE first == Baseline(b, monday).first
  <2>1. first \in Int /\ first <= monday /\ monday < first + 7 * Horizon
    BY <1>1, <1>5 DEF Covering, ForecastOK
  <2>. HIDE DEF first
  <2>2. Horizon \in Nat
    BY ToolsetAssumption
  <2>3. (monday - first) \div 7 + 1 \in 1..Horizon
    BY <2>1, <2>2
  <2>. QED
    BY <2>3 DEF first, Weeks
<1>. QED
  BY <1>5, <1>6

\* A running balance exists and is a whole number in every week.
LEMMA RunningIs ==
    ASSUME NEW opening \in Int, NEW net \in [Weeks -> Int]
    PROVE  Running(opening, net) \in [Weeks -> Int]
<1>. DEFINE Part(g, n) == g = [w \in 0..n |-> IF w = 0 THEN opening ELSE g[w - 1] + net[w]]
            Upto == {n \in Nat : n <= Horizon => \E g : Part(g, n)}
<1>1. Horizon \in Nat /\ Weeks = 1..Horizon
  BY ToolsetAssumption DEF Weeks
<1>2. 0 \in Upto
  <2>. DEFINE g == [w \in 0..0 |-> opening]
  <2>1. Part(g, 0)
    OBVIOUS
  <2>2. \E k : Part(k, 0)
    BY <2>1, Zenon
  <2>. HIDE DEF Part
  <2>. QED
    BY <2>2
<1>3. ASSUME NEW n \in Nat, n \in Upto PROVE n + 1 \in Upto
  <2>. SUFFICES ASSUME n + 1 <= Horizon PROVE \E g : Part(g, n + 1)
    OBVIOUS
  <2>1. PICK g : Part(g, n)
    BY <1>1, <1>3
  <2>. DEFINE h == [w \in 0..(n + 1) |-> IF w = 0 THEN opening ELSE g[w - 1] + net[w]]
  <2>2. \A w \in 0..n : h[w] = g[w]
    BY <2>1
  <2>3. \A w \in 0..(n + 1) : w # 0 => h[w - 1] = g[w - 1]
    <3>. HIDE DEF h
    <3>. QED
      BY <2>2
  <2>4. Part(h, n + 1)
    BY <2>3
  <2>. HIDE DEF Part
  <2>. QED
    BY <2>4, Zenon
<1>4. Nat \subseteq Upto
  <2>. HIDE DEF Upto
  <2>. QED
    BY <1>2, <1>3, Counting
<1>. DEFINE balance == CHOOSE g : Part(g, Horizon)
<1>5. Part(balance, Horizon)
  <2>1. \E g : Part(g, Horizon)
    BY <1>1, <1>4
  <2>. HIDE DEF Part
  <2>. QED
    BY <2>1
<1>6. \A w \in 0..Horizon : balance[w] \in Int
  <2>. HIDE DEF balance
  <2>. DEFINE Typed == {n \in Nat : n <= Horizon => balance[n] \in Int}
  <2>1. 0 \in Typed
    BY <1>1, <1>5
  <2>2. ASSUME NEW n \in Nat, n \in Typed PROVE n + 1 \in Typed
    <3>. SUFFICES ASSUME n + 1 <= Horizon PROVE balance[n + 1] \in Int
      OBVIOUS
    <3>1. balance[n + 1] = balance[n] + net[n + 1]
      BY <1>1, <1>5
    <3>2. balance[n] \in Int /\ net[n + 1] \in Int
      BY <1>1, <2>2
    <3>. QED
      BY <3>1, <3>2
  <2>3. Nat \subseteq Typed
    <3>. HIDE DEF Typed
    <3>. QED
      BY <2>1, <2>2, Counting
  <2>. QED
    BY <1>1, <2>3
<1>7. Running(opening, net) = [w \in Weeks |-> balance[w]]
  BY DEF Running
<1>. QED
  BY <1>1, <1>6, <1>7

\* What is drawn, the limits, and what may still be drawn are whole numbers.
LEMMA RevolverIs ==
    ASSUME NEW b \in Books
    PROVE  Drawn(b) \in Int /\ Limit(b) \in Int /\ SafeRevolver(b) \in Int
<1>. DEFINE util == Policy(b).maxUtil
            safe == [f \in b.facilities |->
                       Max({0, (f.limit * Min({util, f.maxUtil})) \div Bps - f.drawn})]
<1>1. CashOK(b)
  BY InOrderBook
<1>2. util \in Int
  BY PolicyInForce
<1>. HIDE DEF util
<1>3. ASSUME NEW f \in b.facilities PROVE safe[f] \in Int
  <2>1. f.limit \in Int /\ f.drawn \in Int /\ f.maxUtil \in Int
    BY <1>1 DEF CashOK
  <2>2. Min({util, f.maxUtil}) \in Int
    BY <1>2, <2>1, SmallerOfTwo
  <2>. DEFINE k == (f.limit * Min({util, f.maxUtil})) \div Bps - f.drawn
  <2>3. k \in Int
    <3>. DEFINE m == f.limit * Min({util, f.maxUtil})
    <3>1. m \in Int
      BY <2>1, <2>2
    <3>. HIDE DEF m
    <3>2. m \div Bps \in Int
      BY <3>1 DEF Bps
    <3>. QED
      BY <2>1, <3>2 DEF m
  <2>. HIDE DEF k
  <2>4. Max({0, k}) \in Int
    BY <2>3, LargerOfTwo
  <2>. QED
    BY <2>4 DEF k
<1>4. SafeRevolver(b) = SumOver(safe, b.facilities)
  BY DEF SafeRevolver, Total, util
<1>. HIDE DEF safe
<1>5. SafeRevolver(b) \in Int
  BY <1>1, <1>3, <1>4, SumIsNumber DEF CashOK
<1>6. Drawn(b) = SumOver([f \in b.facilities |-> f.drawn], b.facilities)
        /\ Limit(b) = SumOver([f \in b.facilities |-> f.limit], b.facilities)
  BY DEF Drawn, Limit, Total
<1>7. \A f \in b.facilities : /\ [g \in b.facilities |-> g.drawn][f] \in Int
                              /\ [g \in b.facilities |-> g.limit][f] \in Int
  BY <1>1 DEF CashOK
<1>. QED
  BY <1>1, <1>5, <1>6, <1>7, SumIsNumber DEF CashOK

LEMMA CategoriesFinite ==
    /\ IsFiniteSet(CategorySet) /\ CategorySet # {}
    /\ \A c \in CategorySet : RankOf(c) \in DOMAIN Categories /\ Categories[RankOf(c)] = c
    /\ DOMAIN Categories = 1..Len(Categories) /\ Len(Categories) \in Nat
<1>1. DOMAIN Categories = 1..Len(Categories) /\ Len(Categories) \in Nat /\ Len(Categories) # 0
  BY ToolsetAssumption
<1>2. IsFiniteSet(DOMAIN Categories)
  BY <1>1, FS_Interval
<1>3. Categories \in Surjection(DOMAIN Categories, CategorySet)
  <2>1. Categories \in [DOMAIN Categories -> CategorySet]
    BY ToolsetAssumption DEF CategorySet
  <2>. QED
    BY <2>1 DEF Surjection, CategorySet
<1>4. IsFiniteSet(CategorySet)
  BY <1>2, <1>3, FS_Surjection
<1>5. \A c \in CategorySet : RankOf(c) \in DOMAIN Categories /\ Categories[RankOf(c)] = c
  BY DEF RankOf, CategorySet
<1>6. CategorySet # {}
  <2>1. 1 \in DOMAIN Categories
    BY <1>1
  <2>. QED
    BY <2>1 DEF CategorySet
<1>. QED
  BY <1>1, <1>4, <1>5, <1>6

\* The week something due falls in is a week, or none.
LEMMA SharesOf ==
    ASSUME NEW b \in Books, NEW i \in b.invoices
    PROVE  Probability(b, i) \in Share /\ Expected(b, i) \in Int
<1>1. LedgersOK(b) /\ b.asOf \in Int
  BY InOrderBook
<1>2. i.open \in Int /\ i.due \in Int
  BY <1>1 DEF LedgersOK
<1>. DEFINE base == b.terms.probability[Band(b.asOf - i.due)]
            cut == b.terms.disputed
<1>3. base \in Share /\ cut \in Share
  <2>1. b.asOf - i.due \in Int
    BY <1>1, <1>2
  <2>2. Band(b.asOf - i.due) \in 1..5
    BY <2>1 DEF Band
  <2>. QED
    BY <1>1, <2>2 DEF LedgersOK
<1>4. Probability(b, i) = IF i.disputed THEN (base * cut) \div Bps ELSE base
  BY DEF Probability
<1>. HIDE DEF base, cut
<1>5. (base * cut) \div Bps \in Share
  <2>. DEFINE B == 10000
  <2>0. B \in Nat \ {0} /\ Bps = B
    BY DEF Bps
  <2>. HIDE DEF B
  <2>1. base \in Nat /\ cut \in Nat /\ cut <= B /\ base <= B
    BY <1>3, <2>0 DEF Share
  <2>2. (base * cut) \div B \in Nat /\ (base * cut) \div B <= base
    BY <2>0, <2>1, PartOf
  <2>. QED
    BY <2>0, <2>1, <2>2 DEF Share
<1>6. Probability(b, i) \in Share
  BY <1>3, <1>4, <1>5
<1>7. Expected(b, i) \in Int
  <2>. DEFINE m == i.open * Probability(b, i)
  <2>0. Probability(b, i) \in Int
    BY <1>6 DEF Share
  <2>1. m \in Int
    BY <1>2, <2>0
  <2>. HIDE DEF m
  <2>2. m \div Bps \in Int
    BY <2>1 DEF Bps
  <2>. QED
    BY <2>2 DEF Expected, m
<1>. QED
  BY <1>6, <1>7

\* Both forecast series are whole numbers in every week.
LEMMA BalancesAre ==
    ASSUME NEW b \in Books
    PROVE  Balances(b) \in [Weeks -> Int]
<1>1. CASE b.kind = "engine"
  <2>. DEFINE v == Version(b)
              line(w) == [c \in CategorySet |-> v.lines[<<c, w>>]]
  <2>1. v \in b.versions /\ ForecastOK(b)
    BY <1>1, VersionTaken, InOrderBook
  <2>2. v.opening \in Int /\ \A w \in Weeks : \A c \in CategorySet : line(w)[c] \in Int
    BY <2>1 DEF ForecastOK
  <2>3. EngineBalances(b) = Running(v.opening, [w \in Weeks |-> SumOver(line(w), CategorySet)])
    BY DEF EngineBalances, Total
  <2>. HIDE DEF v, line
  <2>4. \A w \in Weeks : SumOver(line(w), CategorySet) \in Int
    BY <2>2, CategoriesFinite, SumIsNumber
  <2>5. [w \in Weeks |-> SumOver(line(w), CategorySet)] \in [Weeks -> Int]
    BY <2>4
  <2>. QED
    BY <1>1, <2>2, <2>3, <2>5, RunningIs DEF Balances
<1>2. CASE b.kind # "engine"
  <2>. DEFINE settled == {t \in b.txns : ~t.pending}
              moved == [t \in settled |-> t.amount]
              due(w) == {i \in OpenInvoices(b) : LandsIn(b, i.due) = w}
              in(w) == [i \in due(w) |-> Expected(b, i)]
              owed(w) == {p \in OpenPayables(b) : LandsIn(b, p.due) = w}
              out(w) == [p \in owed(w) |-> p.open]
  <2>1. CashOK(b) /\ LedgersOK(b)
    BY InOrderBook
  <2>2. SettledCash(b) = SumOver(moved, settled)
    BY DEF SettledCash, Total
  <2>3. SettledCash(b) \in Int
    <3>1. IsFiniteSet(settled) /\ \A t \in settled : moved[t] \in Int
      BY <2>1, FS_Subset DEF CashOK
    <3>. HIDE DEF settled, moved
    <3>. QED
      BY <2>2, <3>1, SumIsNumber
  <2>4. TenantBalances(b)
          = Running(SettledCash(b),
                    [w \in Weeks |-> SumOver(in(w), due(w)) - SumOver(out(w), owed(w))])
    BY DEF TenantBalances, Total
  <2>5. ASSUME NEW w \in Weeks
        PROVE  SumOver(in(w), due(w)) \in Int /\ SumOver(out(w), owed(w)) \in Int
    <3>1. IsFiniteSet(b.invoices) /\ IsFiniteSet(b.payables) /\ \A p \in b.payables : p.open \in Int
      BY <2>1 DEF LedgersOK, Key
    <3>2. due(w) \subseteq b.invoices /\ owed(w) \subseteq b.payables
      BY DEF OpenInvoices, OpenPayables
    <3>3. IsFiniteSet(due(w)) /\ IsFiniteSet(owed(w))
      BY <3>1, <3>2, FS_Subset
    <3>4. (\A i \in due(w) : in(w)[i] \in Int) /\ \A p \in owed(w) : out(w)[p] \in Int
      BY <3>1, <3>2, SharesOf
    <3>. HIDE DEF due, in, owed, out
    <3>. QED
      BY <3>3, <3>4, SumIsNumber
  <2>. HIDE DEF due, in, owed, out
  <2>6. [w \in Weeks |-> SumOver(in(w), due(w)) - SumOver(out(w), owed(w))] \in [Weeks -> Int]
    BY <2>5
  <2>. QED
    BY <1>2, <2>3, <2>4, <2>6, RunningIs DEF Balances
<1>. QED
  BY <1>1, <1>2

\* The trough of some weeks: the earliest of the lowest.
LEMMA TroughIs ==
    ASSUME NEW series \in [Weeks -> Int], NEW weeks \in SUBSET Weeks, weeks # {}
    PROVE  /\ TroughWeek(series, weeks) \in weeks
           /\ \A x \in weeks : series[TroughWeek(series, weeks)] <= series[x]
<1>0. Horizon \in Nat /\ Weeks = 1..Horizon
  BY ToolsetAssumption DEF Weeks
<1>1. IsFiniteSet(weeks)
  BY <1>0, Places
<1>. DEFINE down == [w \in weeks |-> -series[w]]
<1>2. PICK w \in weeks : \A x \in weeks : series[w] <= series[x]
  <2>1. \A x \in weeks : down[x] \in Int
    OBVIOUS
  <2>2. PICK w \in weeks : \A x \in weeks : down[x] <= down[w]
    <3>. HIDE DEF down
    <3>. QED
      BY <1>1, <2>1, MostOf
  <2>. QED
    BY <2>2
<1>. DEFINE lowest == {x \in weeks : series[x] = series[w]}
<1>3. PICK t \in lowest : \A u \in lowest : t <= u
  <2>1. w \in lowest /\ \A x \in lowest : x \in Nat
    BY <1>0
  <2>2. lowest \in SUBSET Nat /\ lowest # {}
    BY <2>1
  <2>. HIDE DEF lowest
  <2>. QED
    BY <2>2, LeastOf
<1>4. t \in weeks /\ \A x \in weeks : \/ series[t] < series[x]
                                      \/ series[t] = series[x] /\ t <= x
  <2>. SUFFICES ASSUME NEW x \in weeks
                PROVE  series[t] < series[x] \/ (series[t] = series[x] /\ t <= x)
    BY <1>3
  <2>1. series[t] = series[w] /\ series[w] <= series[x] /\ series[w] \in Int /\ series[x] \in Int
    BY <1>2, <1>3
  <2>2. series[x] = series[w] => t <= x
    BY <1>3
  <2>. QED
    BY <2>1, <2>2
<1>5. /\ TroughWeek(series, weeks) \in weeks
      /\ \A x \in weeks : \/ series[TroughWeek(series, weeks)] < series[x]
                          \/ series[TroughWeek(series, weeks)] = series[x] /\ TroughWeek(series, weeks) <= x
  BY <1>4 DEF TroughWeek
<1>. QED
  BY <1>5

-----------------------------------------------------------------------------
(* The bridge *)

\* A cut list is the beginning of the list, and says how long the list was.
LEMMA CapIs ==
    ASSUME NEW S, NEW rows \in Seq(S)
    PROVE  Cap(rows, TopN).rows \in Seq(S) /\ Cap(rows, TopN).of = Len(rows)
<1>. DEFINE m == Min({Len(rows), TopN})
<1>1. Len(rows) \in Nat /\ TopN \in Nat
  BY ToolsetAssumption
<1>2. m \in Nat /\ m <= Len(rows)
  BY <1>1, SmallerOfTwo
<1>3. Cap(rows, TopN).rows = SubSeq(rows, 1, m) /\ Cap(rows, TopN).of = Len(rows)
  BY DEF Cap
<1>. HIDE DEF m
<1>4. SubSeq(rows, 1, m) \in Seq(S)
  BY <1>2
<1>. QED
  BY <1>3, <1>4

\* What settled in a category in a week is a whole number.
LEMMA ActualIs ==
    ASSUME NEW b \in Books, NEW c, NEW monday
    PROVE  Actual(b, c, monday) \in Int
<1>. DEFINE S == {t \in b.txns : ~t.pending /\ t.category = c /\ WeekStart(t.day) = monday}
            f == [t \in S |-> t.amount]
<1>1. CashOK(b)
  BY InOrderBook
<1>2. IsFiniteSet(S) /\ \A t \in S : f[t] \in Int
  BY <1>1, FS_Subset DEF CashOK
<1>3. Actual(b, c, monday) = SumOver(f, S)
  BY DEF Actual, Total
<1>. HIDE DEF S, f
<1>. QED
  BY <1>2, <1>3, SumIsNumber

\* The delta of a category in the closed week, and its row.
Delta(b, c) ==
    LET monday == ClosedWeek(b)
        baseline == Baseline(b, monday)
    IN  Actual(b, c, monday) - baseline.lines[<<c, (monday - baseline.first) \div 7 + 1>>]

RowOf(b, c) ==
    [category |-> c, delta |-> Delta(b, c),
     material |-> Abs(Delta(b, c)) >= Threshold(Policy(b))]

\* There is one row for each category, with a whole delta.
LEMMA RowsAre ==
    ASSUME NEW b \in Books, Covering(b, ClosedWeek(b)) # {}
    PROVE  /\ BridgeRows(b) = {RowOf(b, c) : c \in CategorySet}
           /\ ClosedWeek(b) \in Int
           /\ \A c \in CategorySet : Delta(b, c) \in Int
           /\ Baseline(b, ClosedWeek(b)) \in Covering(b, ClosedWeek(b))
           /\ IsFiniteSet(BridgeRows(b)) /\ BridgeRows(b) # {}
<1>. DEFINE monday == ClosedWeek(b)
            baseline == Baseline(b, monday)
            week == (monday - baseline.first) \div 7 + 1
<1>1. monday \in Int
  BY InOrderBook DEF ClosedWeek, WeekStart
<1>2. BridgeRows(b) = {RowOf(b, c) : c \in CategorySet}
  BY DEF BridgeRows, RowOf, Delta
<1>3. baseline \in Covering(b, monday) /\ week \in Weeks
  <2>. HIDE DEF monday
  <2>. QED
    BY <1>1, BaselineCovers DEF monday
<1>4. baseline \in b.versions
  BY <1>3 DEF Covering
<1>5. ASSUME NEW c \in CategorySet PROVE Delta(b, c) \in Int
  <2>1. Delta(b, c) = Actual(b, c, monday) - baseline.lines[<<c, week>>]
    BY DEF Delta
  <2>. HIDE DEF monday, baseline, week
  <2>2. baseline.lines[<<c, week>>] \in Int
    BY <1>3, <1>4, InOrderBook DEF ForecastOK
  <2>3. Actual(b, c, monday) \in Int
    BY ActualIs
  <2>. QED
    BY <2>1, <2>2, <2>3
<1>6. IsFiniteSet(BridgeRows(b)) /\ BridgeRows(b) # {}
  <2>. DEFINE h == [c \in CategorySet |-> RowOf(b, c)]
  <2>1. h \in Surjection(CategorySet, BridgeRows(b))
    BY <1>2 DEF Surjection
  <2>. HIDE DEF h
  <2>. QED
    BY <1>2, <2>1, CategoriesFinite, FS_Surjection
<1>. QED
  BY <1>1, <1>2, <1>3, <1>5, <1>6

LEMMA AbsIs == ASSUME NEW n \in Int PROVE Abs(n) \in Int
  BY DEF Abs

\* get_variance_bridge: what it shows are rows of the closed week, and it is
\* never taken for the empty bridge of a week that could not be measured.
LEMMA BridgeIs ==
    ASSUME NEW b \in Books, Bridge(b) # Refused
    PROVE  /\ Covering(b, ClosedWeek(b)) # {}
           /\ Bridge(b) # EmptyBridge
           /\ Bridge(b).shown.rows \in Seq(BridgeRows(b))
<1>1. ~(b.kind = "tenant" \/ Covering(b, ClosedWeek(b)) = {})
  BY DEF Bridge
<1>. DEFINE rows == BridgeRows(b)
            figure == [r \in rows |-> -Abs(r.delta)]
            key == [r \in rows |-> RankOf(r.category)]
            pairs == Keyed(rows, figure, key)
            sorted == Sequenced(rows, pairs)
            cut == Cap(sorted, TopN)
<1>2. /\ rows = {RowOf(b, c) : c \in CategorySet} /\ IsFiniteSet(rows) /\ rows # {}
      /\ \A c \in CategorySet : Delta(b, c) \in Int
  BY <1>1, RowsAre
<1>3. \A r \in rows : /\ r.category \in CategorySet /\ r = RowOf(b, r.category)
                      /\ r.delta \in Int
  BY <1>2 DEF RowOf
<1>4. Sorted(rows, LAMBDA r : -Abs(r.delta), LAMBDA r : RankOf(r.category)) = sorted
  <2>. DEFINE unfolded == {p \in rows \X rows :
                 /\ p[1] # p[2]
                 /\ \/ -Abs(p[1].delta) < -Abs(p[2].delta)
                    \/ -Abs(p[1].delta) = -Abs(p[2].delta)
                         /\ RankOf(p[1].category) < RankOf(p[2].category)}
  <2>1. Sorted(rows, LAMBDA r : -Abs(r.delta), LAMBDA r : RankOf(r.category))
          = Sequenced(rows, unfolded)
    BY DEF Sorted, SortedBy
  <2>2. \A p \in rows \X rows : /\ figure[p[1]] = -Abs(p[1].delta)
                                /\ figure[p[2]] = -Abs(p[2].delta)
                                /\ key[p[1]] = RankOf(p[1].category)
                                /\ key[p[2]] = RankOf(p[2].category)
    <3>. HIDE DEF rows
    <3>. QED
      OBVIOUS
  <2>3. unfolded = pairs
    <3>. HIDE DEF rows, figure, key
    <3>. QED
      BY <2>2 DEF Keyed
  <2>. QED
    BY <2>1, <2>3
<1>5. Bridge(b) = [total |-> Total(rows, LAMBDA r : r.delta), shown |-> cut]
  BY <1>1, <1>4 DEF Bridge
<1>6. Orders(pairs, rows)
  <2>1. \A r \in rows : figure[r] \in Int /\ key[r] \in Int
    <3>1. \A r \in rows : Abs(r.delta) \in Int /\ RankOf(r.category) \in Int
      <4>1. \A c \in CategorySet : RankOf(c) \in Int
        BY CategoriesFinite
      <4>. QED
        BY <1>3, <4>1, AbsIs
    <3>. HIDE DEF rows
    <3>. QED
      BY <3>1
  <2>2. \A r, s \in rows : figure[r] = figure[s] /\ key[r] = key[s] => r = s
    <3>. SUFFICES ASSUME NEW r \in rows, NEW s \in rows, key[r] = key[s] PROVE r = s
      OBVIOUS
    <3>1. RankOf(r.category) = RankOf(s.category)
      OBVIOUS
    <3>2. r.category = s.category
      BY <1>3, <3>1, CategoriesFinite
    <3>. QED
      BY <1>3, <3>2
  <2>. HIDE DEF rows, figure, key
  <2>. QED
    BY <2>1, <2>2, KeyedOrder
<1>7. sorted \in Seq(rows) /\ Len(sorted) = Cardinality(rows) /\ Cardinality(rows) # 0
  <2>. HIDE DEF rows, pairs
  <2>. QED
    BY <1>2, <1>6, SequencedSeq, FS_EmptySet
<1>. HIDE DEF rows, sorted
<1>8. cut.rows \in Seq(rows) /\ cut.of # 0
  BY <1>7, CapIs
<1>. HIDE DEF cut
<1>9. Bridge(b).shown = cut
  BY <1>5
<1>10. EmptyBridge.shown.of = 0
  BY DEF EmptyBridge
<1>. QED
  BY <1>1, <1>8, <1>9, <1>10 DEF rows

-----------------------------------------------------------------------------
(* The invariant of one Monday *)

Steps == {"actuals", "bridge", "explain", "explaining", "drivers", "reforecast",
          "accuracy", "surface", "review", "published", "checked", "failed"}
AfterActuals == Steps \ {"actuals", "failed"}
AfterBridge == AfterActuals \ {"bridge"}
AfterDrivers == AfterBridge \ {"explain", "explaining", "drivers"}
AfterForecast == AfterDrivers \ {"reforecast"}
AfterAccuracy == AfterForecast \ {"accuracy"}

Lane(what) == <<"lane", what>>
\* The announcements the invariant counts.
Watched == {<<"degraded", "variance">>, <<"degraded", "accuracy">>, <<"degraded", "cycle">>,
            Lane("started"), Lane("timeout"), Lane("failed"), Lane("complete")}
Events == {<<"step", n>> : n \in Nat} \cup Watched
Gaps == {"variance", "explanation", "accuracy"}

Typed ==
    /\ book \in Books /\ reloads \in Nat /\ pc \in Steps
    /\ gaps \in SUBSET Gaps /\ feed \in Seq(Events)

\* What was read came from one of the tenant's books, and from the present one
\* if it was never loaded again.
Source(b) == b \in Books /\ b.kind = book.kind /\ (reloads = 0 => b = book)

Sources ==
    /\ pc \in AfterActuals => \E b : Source(b) /\ position = Position(b) /\ position # Refused
    /\ pc \notin AfterBridge => bridge = Nothing
    /\ pc \in AfterBridge =>
          bridge = EmptyBridge \/ \E b : Source(b) /\ bridge = Bridge(b) /\ bridge # Refused
    /\ pc \in AfterDrivers => \E b : Source(b) /\ drivers = Drivers(b)
    /\ pc \in AfterForecast => \E b : Source(b) /\ forecast = Summary(b)

\* Where the gaps come from, and that the feed has announced each of them.
Gapped ==
    /\ pc \notin AfterBridge => gaps = {}
    /\ pc \notin AfterAccuracy => "accuracy" \notin gaps
    /\ pc \in {"actuals", "bridge", "explain", "explaining"} =>
          cited = {} /\ "explanation" \notin gaps
    /\ "explanation" \in gaps => cited = {}
    /\ pc \in AfterBridge => ("variance" \in gaps) = (bridge = EmptyBridge)
    /\ pc \in AfterAccuracy /\ reloads = 0 =>
          ("accuracy" \in gaps) = (Percentiles(book, 1) = Refused)

Heard(e) == Occurs(e, feed)

Announced ==
    /\ Heard(<<"degraded", "variance">>) = IF "variance" \in gaps THEN 1 ELSE 0
    /\ Heard(<<"degraded", "accuracy">>) = IF "accuracy" \in gaps THEN 1 ELSE 0
    /\ Heard(<<"degraded", "cycle">>) = IF AtReview THEN Cardinality(gaps) ELSE 0
    /\ Heard(Lane("started"))
         = Heard(Lane("timeout")) + Heard(Lane("failed")) + Heard(Lane("complete"))
             + IF pc = "explaining" THEN 1 ELSE 0

Surfaced == AtReview => queue = Exceptions

Ruled == pc = "checked" => check = CheckPolicy(Constraints(book), CovenantStatus(book))

CycleInv == Typed /\ Sources /\ Gapped /\ Announced /\ Surfaced /\ Ruled

\* What the feed gains from an emission.
LEMMA Emitted ==
    ASSUME Typed, NEW s \in Seq(Events), feed' = feed \o s
    PROVE  /\ feed' \in Seq(Events)
           /\ \A e : /\ Heard(e) \in Nat /\ Occurs(e, s) \in Nat
                     /\ Occurs(e, feed') = Heard(e) + Occurs(e, s)
<1>1. feed \in Seq(Events)
  BY DEF Typed
<1>2. feed \o s \in Seq(Events)
  BY <1>1
<1>. QED
  BY <1>1, <1>2, OccursConcat DEF Heard

LEMMA OneEvent ==
    ASSUME NEW x \in Events
    PROVE  <<x>> \in Seq(Events) /\ \A e : Occurs(e, <<x>>) = IF x = e THEN 1 ELSE 0
<1>1. <<x>> \in Seq(Events)
  OBVIOUS
<1>2. ASSUME NEW e PROVE Occurs(e, <<x>>) = IF x = e THEN 1 ELSE 0
  BY OccursOne
<1>. QED
  BY <1>1, <1>2

LEMMA StepDone ==
    ASSUME NEW n \in Nat
    PROVE  Done(n) \in Seq(Events) /\ \A e \in Watched : Occurs(e, Done(n)) = 0
<1>1. <<"step", n>> \in Events
  BY DEF Events
<1>2. Done(n) \in Seq(Events) /\ \A e : Occurs(e, Done(n)) = IF <<"step", n>> = e THEN 1 ELSE 0
  BY <1>1, OneEvent DEF Done
<1>3. \A e \in Watched : <<"step", n>> # e
  BY DEF Watched, Lane
<1>. QED
  BY <1>2, <1>3

LEMMA EventAndDone ==
    ASSUME NEW x \in Events, NEW n \in Nat
    PROVE  /\ <<x>> \o Done(n) \in Seq(Events)
           /\ \A e \in Watched : Occurs(e, <<x>> \o Done(n)) = IF x = e THEN 1 ELSE 0
<1>1. <<x>> \in Seq(Events) /\ \A e : Occurs(e, <<x>>) = IF x = e THEN 1 ELSE 0
  BY OneEvent
<1>2. Done(n) \in Seq(Events) /\ \A e \in Watched : Occurs(e, Done(n)) = 0
  BY StepDone
<1>3. \A e : Occurs(e, <<x>> \o Done(n)) = Occurs(e, <<x>>) + Occurs(e, Done(n))
  BY <1>1, <1>2, OccursConcat
<1>4. <<x>> \o Done(n) \in Seq(Events)
  BY <1>1, <1>2
<1>. QED
  BY <1>1, <1>2, <1>3, <1>4

LEMMA RepeatedEvent ==
    ASSUME NEW x \in Events, NEW n \in Nat
    PROVE  /\ Repeated(x, n) \in Seq(Events)
           /\ \A e : Occurs(e, Repeated(x, n)) = IF x = e THEN n ELSE 0
<1>1. Repeated(x, n) \in Seq(Events)
  BY DEF Repeated
<1>2. ASSUME NEW e PROVE Occurs(e, Repeated(x, n)) = IF x = e THEN n ELSE 0
  BY OccursRepeated
<1>. QED
  BY <1>1, <1>2

LEMMA ResultEvents ==
    ASSUME NEW n \in Nat
    PROVE  LET s == Done(7) \o [i \in 1..n |-> <<"degraded", "cycle">>]
           IN  /\ s \in Seq(Events)
               /\ \A e \in Watched : Occurs(e, s) = IF e = <<"degraded", "cycle">> THEN n ELSE 0
<1>. DEFINE t == Repeated(<<"degraded", "cycle">>, n)
            s == Done(7) \o t
<1>1. <<"degraded", "cycle">> \in Events
  BY DEF Events, Watched
<1>2. t \in Seq(Events) /\ \A e : Occurs(e, t) = IF <<"degraded", "cycle">> = e THEN n ELSE 0
  BY <1>1, RepeatedEvent
<1>3. Done(7) \in Seq(Events) /\ \A e \in Watched : Occurs(e, Done(7)) = 0
  BY StepDone
<1>. HIDE DEF t
<1>4. \A e : Occurs(e, s) = Occurs(e, Done(7)) + Occurs(e, t)
  BY <1>2, <1>3, OccursConcat
<1>5. s \in Seq(Events)
  BY <1>2, <1>3
<1>6. \A e \in Watched : Occurs(e, s) = IF e = <<"degraded", "cycle">> THEN n ELSE 0
  BY <1>2, <1>3, <1>4
<1>. QED
  BY <1>5, <1>6 DEF t, Repeated

LEMMA CycleStarts == CycleInit => CycleInv
<1>. SUFFICES ASSUME CycleInit PROVE CycleInv
  OBVIOUS
<1>1. Typed
  BY DEF CycleInit, Typed, Steps, Gaps
<1>2. Sources
  BY DEF CycleInit, Sources, AfterActuals, AfterBridge, AfterDrivers, AfterForecast, Steps
<1>3. Gapped
  BY DEF CycleInit, Gapped, AfterActuals, AfterBridge, AfterDrivers, AfterForecast,
         AfterAccuracy, Steps
<1>4. Announced
  <2>1. \A e : Heard(e) = 0
    <3>1. feed = <<>>
      BY DEF CycleInit
    <3>. QED
      BY <3>1, OccursNone DEF Heard
  <2>2. gaps = {} /\ pc = "actuals"
    BY DEF CycleInit
  <2>. QED
    BY <2>1, <2>2 DEF Announced, AtReview
<1>5. Surfaced /\ Ruled
  BY DEF CycleInit, Surfaced, Ruled, AtReview
<1>. QED
  BY <1>1, <1>2, <1>3, <1>4, <1>5 DEF CycleInv

\* What the book's reload, or a step that leaves it alone, keeps of a source.
LEMMA SourceKept ==
    ASSUME NEW b, Source(b), UNCHANGED <<book, reloads>>
    PROVE  Source(b)'
  BY DEF Source

\* A step that announces nothing the invariant counts.
LEMMA QuietStep ==
    ASSUME Typed, Announced, NEW n \in Nat, feed' = feed \o Done(n), gaps' = gaps,
           pc # "explaining", pc' # "explaining", AtReview' = AtReview
    PROVE  Announced' /\ feed' \in Seq(Events)
<1>1. Done(n) \in Seq(Events) /\ \A e \in Watched : Occurs(e, Done(n)) = 0
  BY StepDone
<1>2. feed' \in Seq(Events) /\ \A e : Heard(e) \in Nat /\ Occurs(e, feed') = Heard(e) + Occurs(e, Done(n))
  BY <1>1, Emitted
<1>3. \A e \in Watched : Occurs(e, feed') = Heard(e)
  BY <1>1, <1>2
<1>4. \A e \in Watched : Heard(e)' = Heard(e)
  BY <1>3 DEF Heard
<1>. QED
  BY <1>2, <1>4 DEF Announced, Watched

\* A step that announces one thing the invariant counts.
LEMMA LoudStep ==
    ASSUME Typed, NEW x \in Watched, NEW n \in Nat, feed' = feed \o (<<x>> \o Done(n))
    PROVE  /\ feed' \in Seq(Events)
           /\ Heard(x) \in Nat /\ Heard(x)' = Heard(x) + 1
           /\ \A e \in Watched \ {x} : Heard(e)' = Heard(e)
<1>1. x \in Events
  BY DEF Events
<1>2. /\ <<x>> \o Done(n) \in Seq(Events)
      /\ \A e \in Watched : Occurs(e, <<x>> \o Done(n)) = IF x = e THEN 1 ELSE 0
  BY <1>1, EventAndDone
<1>3. /\ feed' \in Seq(Events)
      /\ \A e : Heard(e) \in Nat /\ Occurs(e, feed') = Heard(e) + Occurs(e, <<x>> \o Done(n))
  BY <1>2, Emitted
<1>4. \A e \in Watched : Heard(e)' = Heard(e) + IF x = e THEN 1 ELSE 0
  BY <1>2, <1>3 DEF Heard
<1>. QED
  BY <1>3, <1>4

\* The figures read so far stay where they came from.
LEMMA SourcesKept ==
    ASSUME Sources, UNCHANGED <<book, reloads, position, bridge, drivers, forecast>>,
           pc' \in AfterActuals => pc \in AfterActuals,
           pc' \in AfterBridge <=> pc \in AfterBridge,
           pc' \in AfterDrivers => pc \in AfterDrivers,
           pc' \in AfterForecast => pc \in AfterForecast
    PROVE  Sources'
<1>1. \A b : Source(b)' <=> Source(b)
  BY DEF Source
<1>. QED
  BY <1>1 DEF Sources

LEMMA ActualsStep ==
    ASSUME CycleInv, RefreshActuals PROVE CycleInv'
<1>1. Typed /\ Sources /\ Gapped /\ Announced
  BY DEF CycleInv
<1>2. /\ pc = "actuals" /\ position' = Position(book)
      /\ UNCHANGED <<book, reloads, bridge, drivers, forecast, cited, gaps, queue, check>>
      /\ \/ position' = Refused /\ pc' = "failed" /\ feed' = feed
         \/ position' # Refused /\ pc' = "bridge" /\ feed' = feed \o Done(1)
  BY DEF RefreshActuals, Emit
<1>3. Announced' /\ feed' \in Seq(Events)
  <2>1. CASE feed' = feed
    BY <1>1, <1>2, <2>1 DEF Announced, Heard, AtReview, Typed
  <2>2. CASE feed' = feed \o Done(1)
    <3>1. AtReview' = AtReview /\ pc # "explaining" /\ pc' # "explaining"
      BY <1>2 DEF AtReview
    <3>. QED
      BY <1>1, <1>2, <2>2, <3>1, QuietStep
  <2>. QED
    BY <1>2, <2>1, <2>2
<1>4. Typed'
  BY <1>1, <1>2, <1>3 DEF Typed, Steps
<1>5. Sources'
  <2>1. pc' = "bridge" => Source(book)'
    BY <1>1, <1>2 DEF Source, Typed
  <2>2. pc' \notin AfterBridge /\ pc' \notin AfterDrivers /\ pc' \notin AfterForecast
    BY <1>2 DEF AfterActuals, AfterBridge, AfterDrivers, AfterForecast
  <2>3. bridge' = Nothing
    BY <1>1, <1>2 DEF Sources, AfterBridge, AfterActuals
  <2>4. pc' \in AfterActuals => \E b : Source(b)' /\ position' = Position(b) /\ position' # Refused
    <3>1. pc' \in AfterActuals => pc' = "bridge" /\ position' # Refused
      BY <1>2 DEF AfterActuals
    <3>. QED
      BY <1>2, <2>1, <3>1
  <2>. QED
    BY <2>2, <2>3, <2>4 DEF Sources
<1>6. Gapped'
  BY <1>1, <1>2 DEF Gapped, AfterActuals, AfterBridge, AfterDrivers, AfterForecast, AfterAccuracy
<1>7. Surfaced' /\ Ruled'
  BY <1>2 DEF Surfaced, Ruled, AtReview
<1>. QED
  BY <1>3, <1>4, <1>5, <1>6, <1>7 DEF CycleInv

LEMMA BridgeStep ==
    ASSUME CycleInv, BuildBridge PROVE CycleInv'
<1>1. Typed /\ Sources /\ Gapped /\ Announced
  BY DEF CycleInv
<1>. DEFINE x == <<"degraded", "variance">>
<1>2. /\ pc = "bridge" /\ pc' = "explain"
      /\ UNCHANGED <<book, reloads, position, drivers, forecast, cited, queue, check>>
      /\ \/ /\ bridge' = EmptyBridge /\ gaps' = gaps \cup {"variance"}
            /\ feed' = feed \o (<<x>> \o Done(2))
         \/ /\ Bridge(book) # Refused /\ bridge' = Bridge(book) /\ gaps' = gaps
            /\ feed' = feed \o Done(2)
  BY DEF BuildBridge, Emit, DegradedBy
<1>3. gaps = {} /\ book \in Books
  BY <1>1, <1>2 DEF Gapped, Typed, AfterBridge
<1>4. Announced' /\ feed' \in Seq(Events)
  <2>1. CASE gaps' = gaps /\ feed' = feed \o Done(2)
    <3>1. AtReview' = AtReview /\ pc # "explaining" /\ pc' # "explaining"
      BY <1>2 DEF AtReview
    <3>. QED
      BY <1>1, <1>2, <2>1, <3>1, QuietStep
  <2>2. CASE gaps' = gaps \cup {"variance"} /\ feed' = feed \o (<<x>> \o Done(2))
    <3>1. x \in Watched
      BY DEF Watched
    <3>2. /\ feed' \in Seq(Events)
          /\ Heard(x) \in Nat /\ Heard(x)' = Heard(x) + 1
          /\ \A e \in Watched \ {x} : Heard(e)' = Heard(e)
      BY <1>1, <2>2, <3>1, LoudStep
    <3>6. gaps' = {"variance"}
      BY <1>3, <2>2
    <3>7. Heard(<<"degraded", "variance">>) = 0
      BY <1>1, <1>3 DEF Announced
    <3>8. Heard(<<"degraded", "variance">>)' = IF "variance" \in gaps' THEN 1 ELSE 0
      BY <3>2, <3>6, <3>7
    <3>9. \A e \in Watched \ {<<"degraded", "variance">>} : Heard(e)' = Heard(e)
      BY <3>2
    <3>10. /\ Heard(<<"degraded", "accuracy">>)' = IF "accuracy" \in gaps' THEN 1 ELSE 0
           /\ Heard(<<"degraded", "cycle">>)' = IF AtReview' THEN Cardinality(gaps') ELSE 0
      BY <1>1, <1>2, <1>3, <3>6, <3>9 DEF Announced, AtReview, Watched
    <3>11. Heard(Lane("started"))'
             = Heard(Lane("timeout"))' + Heard(Lane("failed"))' + Heard(Lane("complete"))'
                 + IF pc' = "explaining" THEN 1 ELSE 0
      BY <1>1, <1>2, <3>9 DEF Announced, Watched, Lane
    <3>. QED
      BY <3>2, <3>8, <3>10, <3>11 DEF Announced
  <2>. QED
    BY <1>2, <2>1, <2>2
<1>5. Typed'
  BY <1>1, <1>2, <1>4 DEF Typed, Steps, Gaps
<1>6. Sources'
  <2>1. \A b : Source(b)' <=> Source(b)
    BY <1>2 DEF Source
  <2>2. Source(book)
    BY <1>3 DEF Source
  <2>3. pc' \in AfterActuals /\ pc' \in AfterBridge /\ pc' \notin AfterDrivers
          /\ pc' \notin AfterForecast /\ pc \in AfterActuals
    BY <1>2 DEF AfterActuals, AfterBridge, AfterDrivers, AfterForecast, Steps
  <2>4. \E b : Source(b)' /\ position' = Position(b) /\ position' # Refused
    BY <1>1, <1>2, <2>1, <2>3 DEF Sources
  <2>5. bridge' = EmptyBridge \/ \E b : Source(b)' /\ bridge' = Bridge(b) /\ bridge' # Refused
    BY <1>2, <2>1, <2>2
  <2>. QED
    BY <2>3, <2>4, <2>5 DEF Sources
<1>7. Gapped'
  <2>1. ("variance" \in gaps') = (bridge' = EmptyBridge)
    BY <1>2, <1>3, BridgeIs
  <2>2. "explanation" \notin gaps' /\ "accuracy" \notin gaps' /\ cited' = {}
    BY <1>1, <1>2, <1>3 DEF Gapped
  <2>3. pc' \in AfterBridge /\ pc' \notin AfterAccuracy
    BY <1>2 DEF AfterActuals, AfterBridge, AfterDrivers, AfterForecast, AfterAccuracy, Steps
  <2>. QED
    BY <2>1, <2>2, <2>3 DEF Gapped
<1>8. Surfaced' /\ Ruled'
  BY <1>2 DEF Surfaced, Ruled, AtReview
<1>. QED
  BY <1>4, <1>5, <1>6, <1>7, <1>8 DEF CycleInv

\* Closing the lane, whatever became of the model call.
LEMMA LaneCloses ==
    ASSUME Typed, Announced, NEW x \in {Lane("timeout"), Lane("failed"), Lane("complete")},
           feed' = feed \o (<<x>> \o Done(3)), pc = "explaining", pc' = "drivers",
           \A g \in {"variance", "accuracy"} : g \in gaps' <=> g \in gaps
    PROVE  Announced' /\ feed' \in Seq(Events)
<1>1. x \in Watched
  BY DEF Watched
<1>2. /\ feed' \in Seq(Events) /\ Heard(x) \in Nat /\ Heard(x)' = Heard(x) + 1
      /\ \A e \in Watched \ {x} : Heard(e)' = Heard(e)
  BY <1>1, LoudStep
<1>3. \A e : Heard(e) \in Nat
  <2>1. Done(3) \in Seq(Events) /\ <<>> \in Seq(Events)
    BY StepDone
  <2>. QED
    BY <2>1, OccursConcat DEF Heard, Typed
<1>4. ~AtReview /\ ~AtReview' /\ pc' # "explaining"
  BY DEF AtReview
<1>5. /\ Heard(<<"degraded", "variance">>)' = Heard(<<"degraded", "variance">>)
      /\ Heard(<<"degraded", "accuracy">>)' = Heard(<<"degraded", "accuracy">>)
      /\ Heard(<<"degraded", "cycle">>)' = Heard(<<"degraded", "cycle">>)
      /\ Heard(Lane("started"))' = Heard(Lane("started"))
  BY <1>2 DEF Watched, Lane
<1>6. Heard(Lane("timeout"))' + Heard(Lane("failed"))' + Heard(Lane("complete"))'
        = Heard(Lane("timeout")) + Heard(Lane("failed")) + Heard(Lane("complete")) + 1
  <2>1. Lane("timeout") # Lane("failed") /\ Lane("timeout") # Lane("complete")
          /\ Lane("failed") # Lane("complete")
    BY DEF Lane
  <2>2. {Lane("timeout"), Lane("failed"), Lane("complete")} \subseteq Watched
    BY DEF Watched
  <2>3. CASE x = Lane("timeout")
    BY <1>2, <1>3, <2>1, <2>2, <2>3
  <2>4. CASE x = Lane("failed")
    BY <1>2, <1>3, <2>1, <2>2, <2>4
  <2>5. CASE x = Lane("complete")
    BY <1>2, <1>3, <2>1, <2>2, <2>5
  <2>. QED
    BY <2>3, <2>4, <2>5
<1>7. Heard(Lane("started"))' = Heard(Lane("timeout"))' + Heard(Lane("failed"))'
                                  + Heard(Lane("complete"))' + IF pc' = "explaining" THEN 1 ELSE 0
  BY <1>3, <1>4, <1>5, <1>6 DEF Announced
<1>. QED
  BY <1>2, <1>4, <1>5, <1>7 DEF Announced

\* The steps up to the drivers change nothing that was read.
LEMMA ExplainSources ==
    ASSUME Sources, UNCHANGED <<book, reloads, position, bridge, drivers, forecast>>,
           pc \in {"explain", "explaining"}, pc' \in {"explaining", "drivers"}
    PROVE  Sources'
<1>1. /\ pc \in AfterBridge /\ pc' \in AfterBridge /\ pc \in AfterActuals
      /\ pc' \notin AfterDrivers /\ pc' \notin AfterForecast
  BY DEF AfterActuals, AfterBridge, AfterDrivers, AfterForecast, Steps
<1>. QED
  BY <1>1, SourcesKept

LEMMA ExplainGapped ==
    ASSUME Gapped, bridge' = bridge,
           pc \in {"explain", "explaining"}, pc' \in {"explaining", "drivers"},
           \A g \in {"variance", "accuracy"} : g \in gaps' <=> g \in gaps,
           "explanation" \in gaps' => cited' = {},
           pc' = "explaining" => cited' = {} /\ "explanation" \notin gaps'
    PROVE  Gapped'
<1>1. /\ pc \in AfterBridge /\ pc' \in AfterBridge
      /\ pc' \notin AfterAccuracy /\ pc \notin AfterAccuracy
      /\ pc' \notin {"actuals", "bridge", "explain"}
  BY DEF AfterActuals, AfterBridge, AfterDrivers, AfterForecast, AfterAccuracy, Steps
<1>. QED
  BY <1>1 DEF Gapped

LEMMA AskStep ==
    ASSUME CycleInv, AskForExplanation PROVE CycleInv'
<1>1. Typed /\ Sources /\ Gapped /\ Announced
  BY DEF CycleInv
<1>2. /\ pc = "explain"
      /\ UNCHANGED <<book, reloads, position, bridge, drivers, forecast, cited, queue, check>>
      /\ \/ /\ pc' = "drivers" /\ feed' = feed \o Done(3)
            /\ gaps' = gaps \/ gaps' = gaps \cup {"explanation"}
         \/ pc' = "explaining" /\ gaps' = gaps /\ feed' = feed \o <<Lane("started")>>
  BY DEF AskForExplanation, Emit, read, Lane
<1>3. cited = {} /\ "explanation" \notin gaps
  BY <1>1, <1>2 DEF Gapped
<1>4. Announced' /\ feed' \in Seq(Events)
  <2>0. ~AtReview /\ ~AtReview' /\ pc # "explaining"
    BY <1>2 DEF AtReview
  <2>1. CASE pc' = "drivers" /\ feed' = feed \o Done(3)
    <3>1. Done(3) \in Seq(Events) /\ \A e \in Watched : Occurs(e, Done(3)) = 0
      BY StepDone
    <3>2. feed' \in Seq(Events)
            /\ \A e : Heard(e) \in Nat /\ Occurs(e, feed') = Heard(e) + Occurs(e, Done(3))
      BY <1>1, <2>1, <3>1, Emitted
    <3>3. \A e \in Watched : Heard(e)' = Heard(e)
      BY <3>1, <3>2 DEF Heard
    <3>4. \A g \in {"variance", "accuracy"} : g \in gaps' <=> g \in gaps
      BY <1>2
    <3>. QED
      BY <1>1, <2>0, <2>1, <3>2, <3>3, <3>4 DEF Announced, Watched
  <2>2. CASE pc' = "explaining" /\ gaps' = gaps /\ feed' = feed \o <<Lane("started")>>
    <3>0. Lane("started") \in Watched /\ Lane("started") \in Events
      BY DEF Watched, Events
    <3>1. <<Lane("started")>> \in Seq(Events)
            /\ \A e : Occurs(e, <<Lane("started")>>) = IF Lane("started") = e THEN 1 ELSE 0
      BY <3>0, OneEvent
    <3>2. feed' \in Seq(Events)
            /\ \A e : Heard(e) \in Nat
                        /\ Occurs(e, feed') = Heard(e) + Occurs(e, <<Lane("started")>>)
      BY <1>1, <2>2, <3>1, Emitted
    <3>3. /\ Heard(Lane("started"))' = Heard(Lane("started")) + 1
          /\ \A e \in Watched \ {Lane("started")} : Heard(e)' = Heard(e)
      BY <3>1, <3>2 DEF Heard
    <3>4. /\ Heard(<<"degraded", "variance">>)' = Heard(<<"degraded", "variance">>)
          /\ Heard(<<"degraded", "accuracy">>)' = Heard(<<"degraded", "accuracy">>)
          /\ Heard(<<"degraded", "cycle">>)' = Heard(<<"degraded", "cycle">>)
          /\ Heard(Lane("timeout"))' = Heard(Lane("timeout"))
          /\ Heard(Lane("failed"))' = Heard(Lane("failed"))
          /\ Heard(Lane("complete"))' = Heard(Lane("complete"))
      BY <3>3 DEF Watched, Lane
    <3>. QED
      BY <1>1, <2>0, <2>2, <3>2, <3>3, <3>4 DEF Announced
  <2>. QED
    BY <1>2, <2>1, <2>2
<1>5. Typed'
  BY <1>1, <1>2, <1>4 DEF Typed, Steps, Gaps
<1>6. Sources' /\ Gapped'
  BY <1>1, <1>2, <1>3, ExplainSources, ExplainGapped
<1>7. Surfaced' /\ Ruled'
  BY <1>2 DEF Surfaced, Ruled, AtReview
<1>. QED
  BY <1>4, <1>5, <1>6, <1>7 DEF CycleInv

LEMMA ExplanationStep ==
    ASSUME CycleInv,
           \/ ExplanationTimesOut \/ ExplanationFails
           \/ \E rows \in SUBSET CategorySet : ExplanationArrives(rows)
    PROVE  CycleInv'
<1>1. Typed /\ Sources /\ Gapped /\ Announced
  BY DEF CycleInv
<1>2. /\ pc = "explaining" /\ pc' = "drivers"
      /\ UNCHANGED <<book, reloads, position, bridge, drivers, forecast, queue, check>>
      /\ \/ gaps' = gaps \cup {"explanation"} /\ cited' = cited
         \/ gaps' = gaps
      /\ \/ feed' = feed \o (<<Lane("timeout")>> \o Done(3))
         \/ feed' = feed \o (<<Lane("failed")>> \o Done(3))
         \/ feed' = feed \o (<<Lane("complete")>> \o Done(3))
  BY DEF ExplanationTimesOut, ExplanationFails, ExplanationArrives, LaneClosedByCycle, Emit,
         read, Lane
<1>3. cited = {} /\ "explanation" \notin gaps
  BY <1>1, <1>2 DEF Gapped
<1>4. \A g \in {"variance", "accuracy"} : g \in gaps' <=> g \in gaps
  BY <1>2
<1>5. Announced' /\ feed' \in Seq(Events)
  <2>1. PICK x \in {Lane("timeout"), Lane("failed"), Lane("complete")} :
           feed' = feed \o (<<x>> \o Done(3))
    BY <1>2
  <2>. QED
    BY <1>1, <1>2, <1>4, <2>1, LaneCloses
<1>6. Typed'
  BY <1>1, <1>2, <1>5 DEF Typed, Steps, Gaps
<1>7. Sources' /\ Gapped'
  <2>1. "explanation" \in gaps' => cited' = {}
    BY <1>2, <1>3
  <2>. QED
    BY <1>1, <1>2, <1>4, <2>1, ExplainSources, ExplainGapped
<1>8. Surfaced' /\ Ruled'
  BY <1>2 DEF Surfaced, Ruled, AtReview
<1>. QED
  BY <1>5, <1>6, <1>7, <1>8 DEF CycleInv

\* Steps 4 and 5 read one more figure from the book as it stands.
LEMMA ReadingStep ==
    ASSUME CycleInv, RefreshDrivers \/ Reforecast PROVE CycleInv'
<1>1. Typed /\ Sources /\ Gapped /\ Announced
  BY DEF CycleInv
<1>2. /\ UNCHANGED <<book, reloads, position, bridge, cited, gaps, queue, check>>
      /\ \/ /\ pc = "drivers" /\ pc' = "reforecast" /\ feed' = feed \o Done(4)
            /\ drivers' = Drivers(book) /\ forecast' = forecast
         \/ /\ pc = "reforecast" /\ pc' = "accuracy" /\ feed' = feed \o Done(5)
            /\ forecast' = Summary(book) /\ drivers' = drivers
  BY DEF RefreshDrivers, Reforecast, Emit
<1>3. Announced' /\ feed' \in Seq(Events)
  <2>1. AtReview' = AtReview /\ pc # "explaining" /\ pc' # "explaining"
    BY <1>2 DEF AtReview
  <2>. QED
    BY <1>1, <1>2, <2>1, QuietStep
<1>4. Typed'
  BY <1>1, <1>2, <1>3 DEF Typed, Steps
<1>5. Sources'
  <2>1. \A b : Source(b)' <=> Source(b)
    BY <1>2 DEF Source
  <2>2. Source(book)
    BY <1>1 DEF Source, Typed
  <2>3. /\ pc \in AfterActuals /\ pc \in AfterBridge
        /\ pc' \in AfterActuals /\ pc' \in AfterBridge /\ pc' \in AfterDrivers
        /\ (pc' \in AfterForecast => pc = "reforecast" /\ pc \in AfterDrivers)
        /\ pc = "reforecast" => pc \in AfterDrivers
    BY <1>2 DEF AfterActuals, AfterBridge, AfterDrivers, AfterForecast, Steps
  <2>4. \E b : Source(b)' /\ position' = Position(b) /\ position' # Refused
    BY <1>1, <1>2, <2>1, <2>3 DEF Sources
  <2>5. bridge' = EmptyBridge \/ \E b : Source(b)' /\ bridge' = Bridge(b) /\ bridge' # Refused
    BY <1>1, <1>2, <2>1, <2>3 DEF Sources
  <2>6. \E b : Source(b)' /\ drivers' = Drivers(b)
    <3>1. CASE pc = "drivers"
      BY <1>2, <2>1, <2>2, <3>1
    <3>2. CASE pc = "reforecast"
      BY <1>1, <1>2, <2>1, <2>3, <3>2 DEF Sources
    <3>. QED
      BY <1>2, <3>1, <3>2
  <2>7. pc' \in AfterForecast => \E b : Source(b)' /\ forecast' = Summary(b)
    BY <1>2, <2>1, <2>2, <2>3
  <2>. QED
    BY <2>3, <2>4, <2>5, <2>6, <2>7 DEF Sources
<1>6. Gapped'
  <2>1. /\ pc \in AfterBridge /\ pc' \in AfterBridge
        /\ pc \notin AfterAccuracy /\ pc' \notin AfterAccuracy
        /\ pc' \notin {"actuals", "bridge", "explain", "explaining"}
    BY <1>2 DEF AfterActuals, AfterBridge, AfterDrivers, AfterForecast, AfterAccuracy, Steps
  <2>. QED
    BY <1>1, <1>2, <2>1 DEF Gapped
<1>7. Surfaced' /\ Ruled'
  BY <1>2 DEF Surfaced, Ruled, AtReview
<1>. QED
  BY <1>3, <1>4, <1>5, <1>6, <1>7 DEF CycleInv

LEMMA AccuracyStep ==
    ASSUME CycleInv, UpdateAccuracy PROVE CycleInv'
<1>1. Typed /\ Sources /\ Gapped /\ Announced
  BY DEF CycleInv
<1>. DEFINE x == <<"degraded", "accuracy">>
            refused == Percentiles(book, 1) = Refused
<1>2. /\ pc = "accuracy" /\ pc' = "surface"
      /\ UNCHANGED <<book, reloads, position, bridge, drivers, forecast, cited, queue, check>>
      /\ \/ refused /\ gaps' = gaps \cup {"accuracy"} /\ feed' = feed \o (<<x>> \o Done(6))
         \/ ~refused /\ gaps' = gaps \cup {} /\ feed' = feed \o (<<>> \o Done(6))
  BY DEF UpdateAccuracy, AccuracyGap, Emit, DegradedBy, read
<1>3. "accuracy" \notin gaps
  BY <1>1, <1>2 DEF Gapped, AfterAccuracy
<1>4. Announced' /\ feed' \in Seq(Events)
  <2>0. ~AtReview /\ ~AtReview' /\ pc # "explaining" /\ pc' # "explaining"
    BY <1>2 DEF AtReview
  <2>1. CASE gaps' = gaps \cup {} /\ feed' = feed \o (<<>> \o Done(6))
    <3>1. <<>> \o Done(6) = Done(6)
      BY StepDone
    <3>2. feed' = feed \o Done(6) /\ gaps' = gaps
      BY <2>1, <3>1
    <3>3. AtReview' = AtReview
      BY <1>2 DEF AtReview
    <3>. QED
      BY <1>1, <2>0, <3>2, <3>3, QuietStep
  <2>2. CASE gaps' = gaps \cup {"accuracy"} /\ feed' = feed \o (<<x>> \o Done(6))
    <3>1. x \in Watched
      BY DEF Watched
    <3>2. /\ feed' \in Seq(Events)
          /\ Heard(x) \in Nat /\ Heard(x)' = Heard(x) + 1
          /\ \A e \in Watched \ {x} : Heard(e)' = Heard(e)
      BY <1>1, <2>2, <3>1, LoudStep
    <3>3. Heard(<<"degraded", "accuracy">>) = 0
      BY <1>1, <1>3 DEF Announced
    <3>4. Heard(<<"degraded", "accuracy">>)' = IF "accuracy" \in gaps' THEN 1 ELSE 0
      BY <2>2, <3>2, <3>3
    <3>5. \A e \in Watched \ {<<"degraded", "accuracy">>} : Heard(e)' = Heard(e)
      BY <3>2
    <3>6. /\ Heard(<<"degraded", "variance">>)' = IF "variance" \in gaps' THEN 1 ELSE 0
          /\ Heard(<<"degraded", "cycle">>)' = IF AtReview' THEN Cardinality(gaps') ELSE 0
      BY <1>1, <2>0, <2>2, <3>5 DEF Announced, Watched
    <3>7. Heard(Lane("started"))'
             = Heard(Lane("timeout"))' + Heard(Lane("failed"))' + Heard(Lane("complete"))'
                 + IF pc' = "explaining" THEN 1 ELSE 0
      BY <1>1, <2>0, <3>5 DEF Announced, Watched, Lane
    <3>. QED
      BY <3>2, <3>4, <3>6, <3>7 DEF Announced
  <2>. QED
    BY <1>2, <2>1, <2>2
<1>5. Typed'
  BY <1>1, <1>2, <1>4 DEF Typed, Steps, Gaps
<1>6. Sources'
  <2>1. /\ pc \in AfterActuals /\ pc \in AfterBridge /\ pc \in AfterDrivers
        /\ pc \in AfterForecast /\ pc' \in AfterBridge
    BY <1>2 DEF AfterActuals, AfterBridge, AfterDrivers, AfterForecast, Steps
  <2>. QED
    BY <1>1, <1>2, <2>1, SourcesKept
<1>7. Gapped'
  <2>1. /\ pc \in AfterBridge /\ pc' \in AfterBridge /\ pc' \in AfterAccuracy
        /\ pc' \notin {"actuals", "bridge", "explain", "explaining"}
    BY <1>2 DEF AfterActuals, AfterBridge, AfterDrivers, AfterForecast, AfterAccuracy, Steps
  <2>2. ("accuracy" \in gaps') = (Percentiles(book', 1) = Refused)
    <3>1. "accuracy" \in gaps' <=> refused
      BY <1>2, <1>3
    <3>. QED
      BY <1>2, <3>1
  <2>3. /\ ("variance" \in gaps') = ("variance" \in gaps)
        /\ ("explanation" \in gaps') = ("explanation" \in gaps)
    BY <1>2
  <2>. QED
    BY <1>1, <1>2, <2>1, <2>2, <2>3 DEF Gapped
<1>8. Surfaced' /\ Ruled'
  BY <1>2 DEF Surfaced, Ruled, AtReview
<1>. QED
  BY <1>4, <1>5, <1>6, <1>7, <1>8 DEF CycleInv

LEMMA SurfaceStep ==
    ASSUME CycleInv, SurfaceExceptions PROVE CycleInv'
<1>1. Typed /\ Sources /\ Gapped /\ Announced
  BY DEF CycleInv
<1>. DEFINE n == Cardinality(gaps)
            s == Done(7) \o [i \in 1..n |-> <<"degraded", "cycle">>]
<1>2. /\ pc = "surface" /\ pc' = "review"
      /\ UNCHANGED <<book, reloads, position, bridge, drivers, forecast, cited, gaps, check>>
      /\ queue' = Exceptions /\ feed' = feed \o s
  BY DEF SurfaceExceptions, Emit, read
<1>3. n \in Nat
  <2>0. IsFiniteSet({"variance"}) /\ IsFiniteSet({"variance"} \cup {"explanation"})
          /\ IsFiniteSet(({"variance"} \cup {"explanation"}) \cup {"accuracy"})
    BY FS_Singleton, FS_AddElement
  <2>1. IsFiniteSet(Gaps)
    <3>1. Gaps = ({"variance"} \cup {"explanation"}) \cup {"accuracy"}
      BY DEF Gaps
    <3>. QED
      BY <2>0, <3>1
  <2>. QED
    BY <1>1, <2>1, FS_Subset, FS_CardinalityType DEF Typed
<1>4. Announced' /\ feed' \in Seq(Events)
  <2>0. ~AtReview /\ AtReview' /\ pc # "explaining" /\ pc' # "explaining"
    BY <1>2 DEF AtReview
  <2>1. /\ s \in Seq(Events)
        /\ \A e \in Watched : Occurs(e, s) = IF e = <<"degraded", "cycle">> THEN n ELSE 0
    <3>. HIDE DEF n
    <3>. QED
      BY <1>3, ResultEvents
  <2>. HIDE DEF s, n
  <2>2. feed' \in Seq(Events)
          /\ \A e : Heard(e) \in Nat /\ Occurs(e, feed') = Heard(e) + Occurs(e, s)
    BY <1>1, <1>2, <2>1, Emitted
  <2>3. \A e \in Watched : Heard(e)' = Heard(e) + IF e = <<"degraded", "cycle">> THEN n ELSE 0
    BY <2>1, <2>2 DEF Heard
  <2>4. \A e \in Watched \ {<<"degraded", "cycle">>} : Heard(e)' = Heard(e)
    BY <2>2, <2>3
  <2>5. Heard(<<"degraded", "cycle">>)' = n
    <3>1. <<"degraded", "cycle">> \in Watched /\ Heard(<<"degraded", "cycle">>) = 0
      BY <1>1, <2>0 DEF Watched, Announced
    <3>. QED
      BY <1>3, <2>3, <3>1
  <2>6. n = Cardinality(gaps') /\ gaps' = gaps
    BY <1>2 DEF n
  <2>7. /\ Heard(<<"degraded", "variance">>)' = IF "variance" \in gaps' THEN 1 ELSE 0
        /\ Heard(<<"degraded", "accuracy">>)' = IF "accuracy" \in gaps' THEN 1 ELSE 0
    BY <1>1, <2>4, <2>6 DEF Announced, Watched
  <2>8. Heard(Lane("started"))'
           = Heard(Lane("timeout"))' + Heard(Lane("failed"))' + Heard(Lane("complete"))'
               + IF pc' = "explaining" THEN 1 ELSE 0
    BY <1>1, <2>0, <2>4 DEF Announced, Watched, Lane
  <2>. QED
    BY <2>0, <2>2, <2>5, <2>6, <2>7, <2>8 DEF Announced
<1>5. Typed'
  BY <1>1, <1>2, <1>4 DEF Typed, Steps
<1>6. Sources'
  <2>1. /\ pc \in AfterActuals /\ pc \in AfterBridge /\ pc \in AfterDrivers
        /\ pc \in AfterForecast /\ pc' \in AfterBridge
    BY <1>2 DEF AfterActuals, AfterBridge, AfterDrivers, AfterForecast, Steps
  <2>. QED
    BY <1>1, <1>2, <2>1, SourcesKept
<1>7. Gapped'
  <2>1. /\ pc \in AfterBridge /\ pc' \in AfterBridge /\ pc \in AfterAccuracy /\ pc' \in AfterAccuracy
        /\ pc' \notin {"actuals", "bridge", "explain", "explaining"}
    BY <1>2 DEF AfterActuals, AfterBridge, AfterDrivers, AfterForecast, AfterAccuracy, Steps
  <2>. QED
    BY <1>1, <1>2, <2>1 DEF Gapped
<1>8. Surfaced' /\ Ruled'
  <2>1. Exceptions' = Exceptions
    BY <1>2 DEF Exceptions, StaleDrivers, Unexplained
  <2>. QED
    BY <1>2, <2>1 DEF Surfaced, Ruled
<1>. QED
  BY <1>4, <1>5, <1>6, <1>7, <1>8 DEF CycleInv

\* The signature and the check leave what the treasurer read as it is.
LEMMA SignedStep ==
    ASSUME CycleInv, Publish \/ PolicyCheck PROVE CycleInv'
<1>1. Typed /\ Sources /\ Gapped /\ Announced /\ Surfaced
  BY DEF CycleInv
<1>2. /\ UNCHANGED <<book, reloads, position, bridge, drivers, forecast, cited, gaps, queue>>
      /\ \/ pc = "review" /\ pc' = "published" /\ feed' = feed /\ check' = check
         \/ /\ pc = "published" /\ pc' = "checked" /\ feed' = feed \o Done(10)
            /\ check' = CheckPolicy(Constraints(book), CovenantStatus(book))
  BY DEF Publish, PolicyCheck, Emit, read
<1>3. AtReview /\ AtReview' /\ pc # "explaining" /\ pc' # "explaining"
  BY <1>2 DEF AtReview
<1>4. Announced' /\ feed' \in Seq(Events)
  <2>1. CASE feed' = feed
    BY <1>1, <1>2, <1>3, <2>1 DEF Announced, Heard, Typed
  <2>2. CASE feed' = feed \o Done(10)
    BY <1>1, <1>2, <1>3, <2>2, QuietStep
  <2>. QED
    BY <1>2, <2>1, <2>2
<1>5. Typed'
  BY <1>1, <1>2, <1>4 DEF Typed, Steps
<1>6. /\ pc \in AfterActuals /\ pc \in AfterBridge /\ pc \in AfterDrivers /\ pc \in AfterForecast
      /\ pc' \in AfterBridge /\ pc \in AfterAccuracy /\ pc' \in AfterAccuracy
      /\ pc' \notin {"actuals", "bridge", "explain", "explaining"}
  BY <1>2 DEF AfterActuals, AfterBridge, AfterDrivers, AfterForecast, AfterAccuracy, Steps
<1>7. Sources'
  BY <1>1, <1>2, <1>6, SourcesKept
<1>8. Gapped'
  BY <1>1, <1>2, <1>6 DEF Gapped
<1>9. Surfaced'
  <2>1. Exceptions' = Exceptions
    BY <1>2 DEF Exceptions, StaleDrivers, Unexplained
  <2>. QED
    BY <1>1, <1>2, <1>3, <2>1 DEF Surfaced
<1>10. Ruled'
  <2>1. pc' = "checked" => check' = CheckPolicy(Constraints(book), CovenantStatus(book))
    BY <1>2
  <2>2. CheckPolicy(Constraints(book), CovenantStatus(book))'
          = CheckPolicy(Constraints(book), CovenantStatus(book))
    BY <1>2 DEF CheckPolicy, CheckOne, CheckMinCash, Check30dLiquidity, CheckRevolver,
                CheckCovenants, LiquidityIn30Days
  <2>. QED
    BY <2>1, <2>2 DEF Ruled
<1>. QED
  BY <1>4, <1>5, <1>7, <1>8, <1>9, <1>10 DEF CycleInv

LEMMA ReloadStep ==
    ASSUME CycleInv, NEW b \in Books, Reload(b) PROVE CycleInv'
<1>1. Typed /\ Sources /\ Gapped /\ Announced /\ Surfaced
  BY DEF CycleInv
<1>2. /\ UNCHANGED <<pc, position, bridge, drivers, forecast, cited, gaps, queue, feed, check>>
      /\ book' = b /\ b.kind = book.kind /\ reloads' = reloads + 1 /\ pc # "checked"
  BY DEF Reload, read
<1>3. reloads' \in Nat /\ reloads' # 0
  BY <1>1, <1>2 DEF Typed
<1>4. Typed'
  BY <1>1, <1>2, <1>3 DEF Typed
<1>5. \A c : Source(c) => Source(c)'
  BY <1>2, <1>3 DEF Source
<1>6. Sources'
  BY <1>1, <1>2, <1>5 DEF Sources
<1>7. Gapped'
  BY <1>1, <1>2, <1>3 DEF Gapped
<1>8. Announced'
  BY <1>1, <1>2 DEF Announced, Heard, AtReview
<1>9. Surfaced' /\ Ruled'
  <2>1. Exceptions' = Exceptions
    BY <1>2 DEF Exceptions, StaleDrivers, Unexplained
  <2>. QED
    BY <1>1, <1>2, <2>1 DEF Surfaced, Ruled, AtReview
<1>. QED
  BY <1>4, <1>6, <1>7, <1>8, <1>9 DEF CycleInv

\* Any book, any reload, any answer of the model: the figures of one Monday, the
\* gaps, the feed, the queue and the check fit together after every step.
THEOREM MondayFits == CycleSpec => []CycleInv
<1>1. CycleInit => CycleInv
  BY CycleStarts
<1>2. CycleInv /\ [CycleNext]_CycleVars => CycleInv'
  <2>. SUFFICES ASSUME CycleInv, [CycleNext]_CycleVars PROVE CycleInv'
    OBVIOUS
  <2>1. CASE RefreshActuals
    BY <2>1, ActualsStep
  <2>2. CASE BuildBridge
    BY <2>2, BridgeStep
  <2>3. CASE AskForExplanation
    BY <2>3, AskStep
  <2>4. CASE \/ ExplanationTimesOut \/ ExplanationFails
             \/ \E rows \in SUBSET CategorySet : ExplanationArrives(rows)
    BY <2>4, ExplanationStep
  <2>5. CASE RefreshDrivers \/ Reforecast
    BY <2>5, ReadingStep
  <2>6. CASE UpdateAccuracy
    BY <2>6, AccuracyStep
  <2>7. CASE SurfaceExceptions
    BY <2>7, SurfaceStep
  <2>8. CASE Publish \/ PolicyCheck
    BY <2>8, SignedStep
  <2>9. CASE \E b \in Books : Reload(b)
    BY <2>9, ReloadStep
  <2>10. CASE UNCHANGED CycleVars
    <3>1. UNCHANGED <<book, reloads, pc, position, bridge, drivers, forecast, cited, gaps,
                      queue, feed, check>>
      BY <2>10 DEF CycleVars
    <3>2. Exceptions' = Exceptions
      BY <3>1 DEF Exceptions, StaleDrivers, Unexplained
    <3>3. CheckPolicy(Constraints(book), CovenantStatus(book))'
            = CheckPolicy(Constraints(book), CovenantStatus(book))
      BY <3>1 DEF CheckPolicy, CheckOne, CheckMinCash, Check30dLiquidity, CheckRevolver,
                  CheckCovenants, LiquidityIn30Days
    <3>4. \A b : Source(b)' <=> Source(b)
      BY <3>1 DEF Source
    <3>5. Typed' /\ Sources' /\ Gapped' /\ Announced'
      BY <3>1, <3>4 DEF CycleInv, Typed, Sources, Gapped, Announced, Heard, AtReview
    <3>6. Surfaced' /\ Ruled'
      BY <3>1, <3>2, <3>3 DEF CycleInv, Surfaced, Ruled, AtReview
    <3>. QED
      BY <3>5, <3>6 DEF CycleInv
  <2>. QED
    BY <2>1, <2>2, <2>3, <2>4, <2>5, <2>6, <2>7, <2>8, <2>9, <2>10 DEF CycleNext
<1>. QED
  BY <1>1, <1>2, PTL DEF CycleSpec

-----------------------------------------------------------------------------
(* The analyst's queue *)

LEMMA RangeConcat ==
    ASSUME NEW E, NEW s \in Seq(E), NEW t \in Seq(E)
    PROVE  s \o t \in Seq(E) /\ Range(s \o t) = Range(s) \cup Range(t)
<1>1. /\ Len(s) \in Nat /\ Len(t) \in Nat /\ DOMAIN s = 1..Len(s) /\ DOMAIN t = 1..Len(t)
      /\ DOMAIN (s \o t) = 1..(Len(s) + Len(t))
  OBVIOUS
<1>2. ASSUME NEW i \in DOMAIN (s \o t) PROVE (s \o t)[i] \in Range(s) \cup Range(t)
  <2>1. CASE i <= Len(s)
    <3>1. i \in DOMAIN s /\ (s \o t)[i] = s[i]
      BY <1>1, <2>1
    <3>. QED
      BY <3>1 DEF Range
  <2>2. CASE ~(i <= Len(s))
    <3>1. i - Len(s) \in DOMAIN t /\ (s \o t)[i] = t[i - Len(s)]
      BY <1>1, <2>2
    <3>. QED
      BY <3>1 DEF Range
  <2>. QED
    BY <2>1, <2>2
<1>3. ASSUME NEW i \in DOMAIN s PROVE s[i] \in Range(s \o t)
  <2>1. i \in DOMAIN (s \o t) /\ (s \o t)[i] = s[i]
    BY <1>1
  <2>. QED
    BY <2>1 DEF Range
<1>4. ASSUME NEW i \in DOMAIN t PROVE t[i] \in Range(s \o t)
  <2>1. Len(s) + i \in DOMAIN (s \o t) /\ (s \o t)[Len(s) + i] = t[i]
    BY <1>1
  <2>. QED
    BY <2>1 DEF Range
<1>5. \A x \in Range(s \o t) : x \in Range(s) \cup Range(t)
  BY <1>2 DEF Range
<1>6. \A x \in Range(s) \cup Range(t) : x \in Range(s \o t)
  <2>1. \A x \in Range(s) : \E i \in DOMAIN s : x = s[i]
    BY DEF Range
  <2>2. \A x \in Range(t) : \E i \in DOMAIN t : x = t[i]
    BY DEF Range
  <2>. QED
    BY <1>3, <1>4, <2>1, <2>2
<1>7. Range(s \o t) = Range(s) \cup Range(t)
  BY <1>5, <1>6
<1>. QED
  BY <1>7

\* A sorted list under one tag: every subject is on it, and nothing else.
LEMMA TaggedIs ==
    ASSUME NEW kind, NEW S, IsFiniteSet(S), NEW pairs, Orders(pairs, S)
    PROVE  /\ Tagged(kind, Sequenced(S, pairs)) \in Seq({kind} \X S)
           /\ Range(Tagged(kind, Sequenced(S, pairs))) = {<<kind, x>> : x \in S}
<1>. DEFINE s == Sequenced(S, pairs)
            n == Cardinality(S)
            t == Tagged(kind, s)
<1>1. s \in Seq(S) /\ Len(s) = n /\ n \in Nat /\ \A x \in S : \E k \in 1..n : s[k] = x
  BY SequencedSeq
<1>. HIDE DEF s, n
<1>2. DOMAIN s = 1..n /\ \A i \in 1..n : s[i] \in S
  BY <1>1
<1>3. t = [i \in 1..n |-> <<kind, s[i]>>]
  BY <1>2 DEF Tagged
<1>4. t \in Seq({kind} \X S)
  BY <1>1, <1>2, <1>3
<1>5. Range(t) = {<<kind, s[i]>> : i \in 1..n}
  BY <1>3 DEF Range
<1>6. {<<kind, s[i]>> : i \in 1..n} = {<<kind, x>> : x \in S}
  BY <1>1, <1>2
<1>. QED
  BY <1>4, <1>5, <1>6 DEF s

\* Tens and ones name a number.
LEMMA TensAndOnes ==
    ASSUME NEW m \in Nat
    PROVE  m % 10 \in 0..9 /\ m = 10 * (m \div 10) + (m % 10)
<1>1. m % 10 \in 0..9
  OBVIOUS
<1>2. m = 10 * (m \div 10) + (m % 10)
  OBVIOUS
<1>. QED
  BY <1>1, <1>2

\* Weeks have one order as text.
LEMMA WeeksAsText ==
    ASSUME NEW S \in SUBSET Weeks
    PROVE  Orders({p \in S \X S : p[1] # p[2] /\ TextBefore(p[1], p[2])}, S)
<1>. DEFINE figure == [n \in S |-> IF n < 10 THEN n ELSE n \div 10]
            key == [n \in S |-> IF n < 10 THEN -1 ELSE n % 10]
            pairs == Keyed(S, figure, key)
<1>1. \A n \in S : n \in Nat
  BY ToolsetAssumption DEF Weeks
<1>2. \A n \in S : figure[n] \in Int /\ key[n] \in Int
  BY <1>1
<1>3. \A m, n \in S : figure[m] = figure[n] /\ key[m] = key[n] => m = n
  <2>. SUFFICES ASSUME NEW m \in S, NEW n \in S, figure[m] = figure[n], key[m] = key[n]
                PROVE  m = n
    OBVIOUS
  <2>1. m \in Nat /\ n \in Nat
    BY <1>1
  <2>2. /\ (IF m < 10 THEN m ELSE m \div 10) = (IF n < 10 THEN n ELSE n \div 10)
        /\ (IF m < 10 THEN -1 ELSE m % 10) = (IF n < 10 THEN -1 ELSE n % 10)
    OBVIOUS
  <2>3. /\ m % 10 \in 0..9 /\ n % 10 \in 0..9
        /\ m = 10 * (m \div 10) + (m % 10) /\ n = 10 * (n \div 10) + (n % 10)
    BY <2>1, TensAndOnes
  <2>. QED
    BY <2>1, <2>2, <2>3
<1>4. Orders(pairs, S)
  <2>. HIDE DEF figure, key
  <2>. QED
    BY <1>2, <1>3, KeyedOrder
<1>5. ASSUME NEW m \in S, NEW n \in S
      PROVE  TextBefore(m, n) <=> \/ figure[m] < figure[n]
                                  \/ figure[m] = figure[n] /\ key[m] < key[n]
  BY DEF TextBefore
<1>6. {p \in S \X S : p[1] # p[2] /\ TextBefore(p[1], p[2])} = pairs
  <2>. HIDE DEF figure, key
  <2>. QED
    BY <1>5 DEF Keyed
<1>. QED
  BY <1>4, <1>6

\* So have categories, by their place among the forecast's.
LEMMA CategoriesInOrder ==
    ASSUME NEW S \in SUBSET CategorySet
    PROVE  Orders({p \in S \X S : p[1] # p[2] /\ RankOf(p[1]) < RankOf(p[2])}, S)
<1>. DEFINE figure == [c \in S |-> 0]
            key == [c \in S |-> RankOf(c)]
            pairs == Keyed(S, figure, key)
<1>1. \A c \in S : RankOf(c) \in Int
  BY CategoriesFinite
<1>2. \A c \in S : figure[c] \in Int /\ key[c] \in Int
  BY <1>1
<1>3. \A c, d \in S : figure[c] = figure[d] /\ key[c] = key[d] => c = d
  <2>. SUFFICES ASSUME NEW c \in S, NEW d \in S, key[c] = key[d] PROVE c = d
    OBVIOUS
  <2>1. RankOf(c) = RankOf(d)
    OBVIOUS
  <2>. QED
    BY <2>1, CategoriesFinite
<1>4. Orders(pairs, S)
  <2>. HIDE DEF figure, key
  <2>. QED
    BY <1>2, <1>3, KeyedOrder
<1>5. ASSUME NEW c \in S, NEW d \in S
      PROVE  RankOf(c) < RankOf(d) <=> \/ figure[c] < figure[d]
                                       \/ figure[c] = figure[d] /\ key[c] < key[d]
  OBVIOUS
<1>6. {p \in S \X S : p[1] # p[2] /\ RankOf(p[1]) < RankOf(p[2])} = pairs
  <2>. HIDE DEF figure, key
  <2>. QED
    BY <1>5 DEF Keyed
<1>. QED
  BY <1>4, <1>6

\* _surface_exceptions: a week is on the queue exactly when it breaches, a
\* category exactly when nobody explained it.
LEMMA ListedIs ==
    ASSUME NEW breaching \in SUBSET Weeks, NEW stale, IsFiniteSet(stale),
           NEW unexplained \in SUBSET CategorySet
    PROVE  /\ \A w : <<"breach", w>> \in Range(Listed(breaching, stale, unexplained))
                       <=> w \in breaching
           /\ \A c : <<"unexplained", c>> \in Range(Listed(breaching, stale, unexplained))
                       <=> c \in unexplained
<1>. DEFINE first == {p \in breaching \X breaching : p[1] # p[2] /\ TextBefore(p[1], p[2])}
            mid == Sequenced(stale, {p \in stale \X stale : p[1] # p[2] /\ p[1] < p[2]})
            last == {p \in unexplained \X unexplained : p[1] # p[2] /\ RankOf(p[1]) < RankOf(p[2])}
            a == Tagged("breach", Sequenced(breaching, first))
            b == Tagged("stale", mid)
            c == Tagged("unexplained", Sequenced(unexplained, last))
<1>1. Listed(breaching, stale, unexplained) = (a \o b) \o c
  BY DEF Listed, SortedBy
<1>2. IsFiniteSet(breaching) /\ IsFiniteSet(unexplained)
  BY CategoriesFinite, ToolsetAssumption, Places, FS_Subset DEF Weeks
<1>3. Orders(first, breaching) /\ Orders(last, unexplained)
  BY WeeksAsText, CategoriesInOrder
<1>4. /\ a \in Seq({"breach"} \X breaching) /\ Range(a) = {<<"breach", x>> : x \in breaching}
      /\ c \in Seq({"unexplained"} \X unexplained)
      /\ Range(c) = {<<"unexplained", x>> : x \in unexplained}
  <2>. HIDE DEF first, last
  <2>. QED
    BY <1>2, <1>3, TaggedIs
<1>5. \E E : b \in Seq(E) /\ \A x \in Range(b) : x[1] = "stale"
  <2>. DEFINE n == Cardinality(stale)
  <2>1. n \in Nat /\ DOMAIN mid = 1..n
    BY FS_CardinalityType DEF Sequenced
  <2>. HIDE DEF mid, n
  <2>2. b = [i \in 1..n |-> <<"stale", mid[i]>>]
    BY <2>1 DEF Tagged
  <2>. DEFINE E == {<<"stale", mid[i]>> : i \in 1..n}
  <2>3. b \in Seq(E)
    BY <2>1, <2>2
  <2>4. \A x \in Range(b) : \E i \in 1..n : x = <<"stale", mid[i]>>
    BY <2>2 DEF Range
  <2>5. \A x \in Range(b) : x[1] = "stale"
    BY <2>4
  <2>. QED
    BY <2>3, <2>5
<1>. HIDE DEF a, b, c
<1>6. PICK M : b \in Seq(M) /\ \A x \in Range(b) : x[1] = "stale"
  BY <1>5
<1>. DEFINE E == (({"breach"} \X breaching) \cup M) \cup ({"unexplained"} \X unexplained)
<1>7. a \in Seq(E) /\ b \in Seq(E) /\ c \in Seq(E)
  BY <1>4, <1>6
<1>. HIDE DEF E
<1>8. Range((a \o b) \o c) = (Range(a) \cup Range(b)) \cup Range(c)
  <2>1. a \o b \in Seq(E) /\ Range(a \o b) = Range(a) \cup Range(b)
    BY <1>7, RangeConcat
  <2>2. ASSUME NEW s \in Seq(E) PROVE Range(s \o c) = Range(s) \cup Range(c)
    BY <1>7, RangeConcat
  <2>3. Range((a \o b) \o c) = Range(a \o b) \cup Range(c)
    BY <2>1, <2>2, Zenon
  <2>. QED
    BY <2>1, <2>3, Zenon
<1>9. ASSUME NEW w
      PROVE  /\ <<"breach", w>> \in (Range(a) \cup Range(b)) \cup Range(c) <=> w \in breaching
             /\ <<"unexplained", w>> \in (Range(a) \cup Range(b)) \cup Range(c) <=> w \in unexplained
  <2>1. <<"breach", w>> \notin Range(b) /\ <<"unexplained", w>> \notin Range(b)
    <3>1. <<"breach", w>>[1] # "stale" /\ <<"unexplained", w>>[1] # "stale"
      OBVIOUS
    <3>. QED
      BY <1>6, <3>1, Zenon
  <2>2. <<"breach", w>> \notin Range(c) /\ <<"unexplained", w>> \notin Range(a)
    BY <1>4
  <2>3. /\ <<"breach", w>> \in Range(a) <=> w \in breaching
        /\ <<"unexplained", w>> \in Range(c) <=> w \in unexplained
    BY <1>4
  <2>. QED
    BY <2>1, <2>2, <2>3
<1>. QED
  BY <1>1, <1>8, <1>9

\* What a list holds is finite.
LEMMA HoldsFinite ==
    ASSUME NEW S, NEW s \in Seq(S)
    PROVE  IsFiniteSet(Range(s))
<1>. DEFINE n == Len(s)
            h == [i \in 1..n |-> s[i]]
<1>1. n \in Nat /\ DOMAIN s = 1..n
  OBVIOUS
<1>2. h \in Surjection(1..n, Range(s))
  BY <1>1 DEF Surjection, Range
<1>3. IsFiniteSet(1..n)
  BY <1>1, FS_Interval
<1>. HIDE DEF h, n
<1>. QED
  BY <1>2, <1>3, FS_Surjection

\* Rows put in any order are a list, of whatever the order left at each place.
LEMMA ListOf ==
    ASSUME NEW S, NEW pairs, Cardinality(S) \in Nat
    PROVE  Sequenced(S, pairs) \in Seq({Sequenced(S, pairs)[k] : k \in 1..Cardinality(S)})
<1>. DEFINE e(k) == CHOOSE x \in S : Cardinality({y \in S : <<y, x>> \in pairs}) = k - 1
            n == Cardinality(S)
            f == [k \in 1..n |-> e(k)]
<1>1. Sequenced(S, pairs) = f
  BY DEF Sequenced
<1>. HIDE DEF e, n
<1>2. f \in Seq({f[k] : k \in 1..n})
  BY DEF n
<1>. QED
  BY <1>1, <1>2 DEF n

\* list_driver_assumptions answers with a list, and what is stale on it is finite.
LEMMA DriversAre ==
    ASSUME NEW b \in Books
    PROVE  IsFiniteSet({r.driver : r \in {d \in Range(Drivers(b).rows) : d.stale}})
<1>1. \E S : Drivers(b).rows \in Seq(S)
  <2>1. CASE b.kind = "engine"
    <3>. DEFINE rows == {[driver |-> a.key, age |-> Max({0, b.asOf - a.taken}),
                          stale |-> a.reviewDue < b.asOf] : a \in b.assumptions}
                pairs == {p \in rows \X rows :
                            /\ p[1] # p[2]
                            /\ \/ -p[1].age < -p[2].age
                               \/ -p[1].age = -p[2].age /\ p[1].driver < p[2].driver}
                f == Sequenced(rows, pairs)
                n == Cardinality(rows)
    <3>1. Drivers(b) = Cap(f, TopN)
      BY <2>1 DEF Drivers, EngineDrivers, Sorted, SortedBy
    <3>2. IsFiniteSet(rows)
      <4>. DEFINE A == b.assumptions
                  h == [a \in A |-> [driver |-> a.key, age |-> Max({0, b.asOf - a.taken}),
                                     stale |-> a.reviewDue < b.asOf]]
      <4>1. IsFiniteSet(A)
        BY InOrderBook DEF ForecastOK
      <4>2. h \in Surjection(A, rows)
        BY DEF Surjection
      <4>. HIDE DEF h, rows, A
      <4>. QED
        BY <4>1, <4>2, FS_Surjection
    <3>3. n \in Nat
      <4>. HIDE DEF rows
      <4>. QED
        BY <3>2, FS_CardinalityType
    <3>5. f \in Seq({f[k] : k \in 1..n})
      <4>. HIDE DEF rows, pairs
      <4>. QED
        BY <3>3, ListOf DEF n
    <3>. HIDE DEF rows, pairs, f, n
    <3>. QED
      BY <3>1, <3>5, CapIs
  <2>2. CASE b.kind # "engine"
    <3>1. \E p, q, r, s : Drivers(b) = Cap(<<p, q, r, s>>, TopN)
      BY <2>2 DEF Drivers, TenantDrivers
    <3>2. PICK p, q, r, s : Drivers(b) = Cap(<<p, q, r, s>>, TopN)
      BY <3>1
    <3>3. <<p, q, r, s>> \in Seq({p, q, r, s})
      OBVIOUS
    <3>. QED
      BY <3>2, <3>3, CapIs
  <2>. QED
    BY <2>1, <2>2
<1>2. PICK S : Drivers(b).rows \in Seq(S)
  BY <1>1
<1>. DEFINE all == Range(Drivers(b).rows)
            stale == {d \in all : d.stale}
            h == [r \in stale |-> r.driver]
            keys == {r.driver : r \in stale}
<1>3. IsFiniteSet(all)
  BY <1>2, HoldsFinite
<1>4. IsFiniteSet(stale)
  <2>. HIDE DEF all
  <2>. QED
    BY <1>3, FS_Subset
<1>5. h \in Surjection(stale, keys)
  BY DEF Surjection
<1>6. IsFiniteSet(keys)
  <2>. HIDE DEF stale, h, keys
  <2>. QED
    BY <1>4, <1>5, FS_Surjection
<1>. QED
  BY <1>6

\* The bridge a Monday works with shows categories of the forecast.
LEMMA MaterialIs ==
    ASSUME CycleInv, pc \in AfterBridge
    PROVE  Material(bridge) \in SUBSET CategorySet
<1>1. CASE bridge = EmptyBridge
  <2>1. bridge.shown.rows = <<>>
    BY <1>1 DEF EmptyBridge
  <2>2. Shown(bridge) = {}
    BY <2>1 DEF Shown, Range
  <2>. QED
    BY <2>2 DEF Material
<1>2. CASE bridge # EmptyBridge
  <2>1. PICK b : Source(b) /\ bridge = Bridge(b) /\ bridge # Refused
    BY <1>2 DEF CycleInv, Sources
  <2>2. b \in Books
    BY <2>1 DEF Source
  <2>3. /\ bridge.shown.rows \in Seq(BridgeRows(b))
        /\ BridgeRows(b) = {RowOf(b, c) : c \in CategorySet}
    BY <2>1, <2>2, BridgeIs, RowsAre
  <2>4. Shown(bridge) \subseteq BridgeRows(b)
    BY <2>3 DEF Shown, Range
  <2>5. \A r \in BridgeRows(b) : r.category \in CategorySet
    BY <2>3 DEF RowOf
  <2>. QED
    BY <2>4, <2>5 DEF Material
<1>. QED
  BY <1>1, <1>2

\* At the review the queue has the weeks that breach and the rows nobody explained.
LEMMA QueueIs ==
    ASSUME CycleInv, AtReview
    PROVE  /\ \A w : <<"breach", w>> \in Range(queue) <=> w \in forecast.breaching
           /\ \A c : <<"unexplained", c>> \in Range(queue) <=> c \in Unexplained
<1>1. pc \in AfterBridge /\ pc \in AfterDrivers /\ pc \in AfterForecast
  BY DEF AtReview, AfterBridge, AfterDrivers, AfterForecast, AfterActuals, Steps
<1>2. Material(bridge) \in SUBSET CategorySet
  BY <1>1, MaterialIs
<1>3. Unexplained \in SUBSET CategorySet
  BY <1>2 DEF Unexplained
<1>4. IsFiniteSet(StaleDrivers)
  <2>1. PICK b : Source(b) /\ drivers = Drivers(b)
    BY <1>1 DEF CycleInv, Sources
  <2>2. b \in Books
    BY <2>1 DEF Source
  <2>. QED
    BY <2>1, <2>2, DriversAre DEF StaleDrivers
<1>5. forecast.breaching \in SUBSET Weeks
  <2>1. PICK b : Source(b) /\ forecast = Summary(b)
    BY <1>1 DEF CycleInv, Sources
  <2>. QED
    BY <2>1 DEF Summary
<1>6. queue = Listed(forecast.breaching, StaleDrivers, Unexplained)
  BY DEF CycleInv, Surfaced, Exceptions
<1>. QED
  BY <1>3, <1>4, <1>5, <1>6, ListedIs

LEMMA AccountedFor == CycleInv => MaterialRowsAccountedFor
<1>. SUFFICES ASSUME CycleInv, AtReview PROVE MaterialRowsAccountedFor
  BY DEF MaterialRowsAccountedFor
<1>1. \A c : <<"unexplained", c>> \in Range(queue) <=> c \in Unexplained
  BY QueueIs
<1>2. ASSUME NEW c \in Material(bridge)
      PROVE  (c \in cited) # (<<"unexplained", c>> \in Range(queue))
  BY <1>1 DEF Unexplained
<1>3. "explanation" \in gaps => cited = {}
  BY DEF CycleInv, Gapped
<1>. QED
  BY <1>2, <1>3 DEF MaterialRowsAccountedFor

LEMMA AllAnnounced == CycleInv => GapsAreAnnounced
<1>. SUFFICES ASSUME CycleInv, AtReview PROVE GapsAreAnnounced
  BY DEF GapsAreAnnounced
<1>1. pc \in AfterBridge /\ pc \in AfterAccuracy /\ pc # "explaining"
  BY DEF AtReview, AfterBridge, AfterAccuracy, AfterDrivers, AfterForecast, AfterActuals, Steps
<1>2. \A e : Count(e) = Heard(e) /\ Heard(e) \in Nat
  <2>1. feed \in Seq(Events)
    BY DEF CycleInv, Typed
  <2>2. \A e : Occurs(e, feed) \in Nat
    BY <2>1, OccursConcat
  <2>. QED
    BY <2>2 DEF Count, Heard, Occurs
<1>3. ("variance" \in gaps) = (bridge = EmptyBridge)
  BY <1>1 DEF CycleInv, Gapped
<1>4. reloads = 0 => ("accuracy" \in gaps) = (Percentiles(book, 1) = Refused)
  BY <1>1 DEF CycleInv, Gapped
<1>5. ASSUME NEW gap \in gaps \ {"explanation"} PROVE Count(<<"degraded", gap>>) = 1
  <2>1. gap = "variance" \/ gap = "accuracy"
    BY DEF CycleInv, Typed, Gaps
  <2>2. Heard(<<"degraded", gap>>) = 1
    BY <2>1 DEF CycleInv, Announced
  <2>. QED
    BY <1>2, <2>2
<1>6. Count(<<"degraded", "cycle">>) = Cardinality(gaps)
  BY <1>2 DEF CycleInv, Announced
<1>7. Count(<<"lane", "started">>)
        = Count(<<"lane", "timeout">>) + Count(<<"lane", "failed">>)
            + Count(<<"lane", "complete">>)
  <2>1. Heard(Lane("started"))
          = Heard(Lane("timeout")) + Heard(Lane("failed")) + Heard(Lane("complete"))
    BY <1>1, <1>2 DEF CycleInv, Announced
  <2>. QED
    BY <1>2, <2>1 DEF Lane
<1>. QED
  BY <1>3, <1>4, <1>5, <1>6, <1>7 DEF GapsAreAnnounced

\* What the treasurer is not told is nothing: with any books, reloaded at any await,
\* and whatever becomes of the model call, every material row the bridge shows is
\* explained by a citation of that row or waits in the queue, and every reading the
\* cycle did without is a degradation the feed has announced (cycle.py).
THEOREM NothingStaysSilent == CycleSpec => []NothingIsSilent
<1>1. CycleInv => NothingIsSilent
  BY AccountedFor, AllAnnounced DEF NothingIsSilent
<1>. QED
  BY <1>1, MondayFits, PTL

-----------------------------------------------------------------------------
(* The policy check *)

\* The position of step 1 is in whole numbers.
LEMMA PositionIs ==
    ASSUME NEW b \in Books, Position(b) # Refused
    PROVE  /\ Position(b).revolver \in Int /\ Position(b).drawn \in Int
           /\ Position(b).limit \in Int
<1>1. CASE b.kind = "engine"
  <2>1. Position(b) = EnginePosition(b) /\ b.accounts # {}
    BY <1>1 DEF Position, EnginePosition
  <2>2. /\ EnginePosition(b).revolver = SafeRevolver(b) /\ EnginePosition(b).drawn = Drawn(b)
        /\ EnginePosition(b).limit = Limit(b)
    BY <2>1 DEF EnginePosition
  <2>. QED
    BY <2>1, <2>2, RevolverIs
<1>2. CASE b.kind # "engine"
  <2>1. /\ TenantPosition(b).revolver = 0 /\ TenantPosition(b).drawn = 0
        /\ TenantPosition(b).limit = 0
    BY DEF TenantPosition
  <2>. QED
    BY <1>2, <2>1 DEF Position
<1>. QED
  BY <1>1, <1>2

\* The trough is below a floor exactly when some week is.
LEMMA TroughBelow ==
    ASSUME NEW series \in [Weeks -> Int], NEW weeks \in SUBSET Weeks, weeks # {},
           NEW more \in Int, NEW floor \in Int
    PROVE  series[TroughWeek(series, weeks)] + more >= floor
             <=> ~ \E w \in weeks : series[w] + more < floor
<1>. DEFINE t == TroughWeek(series, weeks)
<1>1. t \in weeks /\ \A x \in weeks : series[t] <= series[x]
  BY TroughIs
<1>. HIDE DEF t
<1>2. \A x \in weeks : series[x] \in Int
  OBVIOUS
<1>. QED
  BY <1>1, <1>2 DEF t

\* _check_one, rule by rule, for the figures a Monday has read.
LEMMA RulesJudged ==
    ASSUME CycleInv, pc = "checked", NEW covenants
    PROVE  LET p == Policy(book) IN
           /\ CheckOne(Rule("min_cash", "", p.floor), covenants)
                = Judged(~ \E w \in Weeks : forecast.closing[w] < p.floor)
           /\ CheckOne(Rule("min_30d_liquidity", "", p.min30), covenants)
                = Judged(~ \E w \in Weeks : /\ w <= LiquidityWeeks
                                            /\ forecast.closing[w] + position.revolver < p.min30)
           /\ CheckOne(Rule("max_revolver_utilization", "", p.maxUtil), covenants)
                = Judged(~(position.drawn * Bps > position.limit * p.maxUtil))
           /\ \A class : CheckOne(Rule("protected_payment_class", class, 0), covenants) = "unchecked"
<1>. DEFINE p == Policy(book)
            closing == forecast.closing
            more == position.revolver
            weeks == 1..Min({LiquidityWeeks, Horizon})
<1>1. book \in Books /\ pc \in AfterActuals /\ pc \in AfterForecast
  BY DEF CycleInv, Typed, AfterForecast, AfterDrivers, AfterBridge, AfterActuals, Steps
<1>2. p.floor \in Int /\ p.min30 \in Int /\ p.maxUtil \in Int
  BY <1>1, PolicyInForce
<1>3. closing \in [Weeks -> Int]
  <2>1. PICK b : Source(b) /\ forecast = Summary(b)
    BY <1>1 DEF CycleInv, Sources
  <2>2. closing = Balances(b) /\ b \in Books
    BY <2>1 DEF Summary, Source
  <2>. QED
    BY <2>2, BalancesAre
<1>4. position.revolver \in Int /\ position.drawn \in Int /\ position.limit \in Int
  <2>1. PICK b : Source(b) /\ position = Position(b) /\ position # Refused
    BY <1>1 DEF CycleInv, Sources
  <2>. QED
    BY <2>1, PositionIs DEF Source
<1>5. /\ weeks \in SUBSET Weeks /\ weeks # {} /\ Weeks # {}
      /\ \A w \in Weeks : w \in weeks <=> w <= LiquidityWeeks
  <2>1. LiquidityWeeks \in Nat \ {0} /\ Horizon \in Nat \ {0}
    BY CycleAssumption, ToolsetAssumption
  <2>2. Min({LiquidityWeeks, Horizon}) = IF LiquidityWeeks <= Horizon THEN LiquidityWeeks ELSE Horizon
    BY <2>1, SmallerOfTwo
  <2>3. 1 \in weeks /\ 1 \in Weeks
    BY <2>1, <2>2 DEF Weeks
  <2>. QED
    BY <2>1, <2>2, <2>3 DEF Weeks
<1>6. CheckOne(Rule("min_cash", "", p.floor), covenants)
        = Judged(~ \E w \in Weeks : closing[w] < p.floor)
  <2>1. CheckOne(Rule("min_cash", "", p.floor), covenants)
          = Judged(closing[TroughWeek(closing, Weeks)] >= p.floor)
    BY DEF CheckOne, Rule, CheckMinCash
  <2>. HIDE DEF p, closing
  <2>. PICK none \in Int : none = 0
    OBVIOUS
  <2>2. closing[TroughWeek(closing, Weeks)] + none >= p.floor
          <=> ~ \E w \in Weeks : closing[w] + none < p.floor
    BY <1>2, <1>3, <1>5, TroughBelow
  <2>3. TroughWeek(closing, Weeks) \in Weeks /\ \A w \in Weeks : closing[w] \in Int
    BY <1>3, <1>5, TroughIs
  <2>4. closing[TroughWeek(closing, Weeks)] >= p.floor <=> ~ \E w \in Weeks : closing[w] < p.floor
    BY <1>2, <2>2, <2>3
  <2>. QED
    BY <2>1, <2>4 DEF Judged
<1>7. CheckOne(Rule("min_30d_liquidity", "", p.min30), covenants)
        = Judged(~ \E w \in Weeks : w <= LiquidityWeeks /\ closing[w] + more < p.min30)
  <2>1. CheckOne(Rule("min_30d_liquidity", "", p.min30), covenants)
          = Judged(closing[TroughWeek(closing, weeks)] + more >= p.min30)
    BY DEF CheckOne, Rule, Check30dLiquidity, LiquidityIn30Days
  <2>2. more \in Int
    BY <1>4
  <2>. HIDE DEF p, closing, weeks, more
  <2>3. closing[TroughWeek(closing, weeks)] + more >= p.min30
          <=> ~ \E w \in weeks : closing[w] + more < p.min30
    BY <1>2, <1>3, <2>2, <1>5, TroughBelow
  <2>4. (\E w \in weeks : closing[w] + more < p.min30)
          <=> \E w \in Weeks : w <= LiquidityWeeks /\ closing[w] + more < p.min30
    BY <1>5
  <2>. QED
    BY <2>1, <2>3, <2>4 DEF Judged
<1>8. CheckOne(Rule("max_revolver_utilization", "", p.maxUtil), covenants)
        = Judged(~(position.drawn * Bps > position.limit * p.maxUtil))
  <2>. DEFINE drawn == position.drawn
              limit == position.limit
              util == p.maxUtil
  <2>1. CheckOne(Rule("max_revolver_utilization", "", util), covenants)
          = Judged(drawn * Bps <= util * limit)
    BY DEF CheckOne, Rule, CheckRevolver
  <2>2. drawn \in Int /\ limit \in Int /\ util \in Int /\ Bps \in Int
    BY <1>2, <1>4 DEF Bps
  <2>. HIDE DEF drawn, limit, util
  <2>3. drawn * Bps \in Int /\ util * limit \in Int /\ util * limit = limit * util
    BY <2>2
  <2>4. drawn * Bps <= util * limit <=> ~(drawn * Bps > limit * util)
    BY <2>3
  <2>. QED
    BY <2>1, <2>4 DEF Judged, drawn, limit, util
<1>9. \A class : CheckOne(Rule("protected_payment_class", class, 0), covenants) = "unchecked"
  BY DEF CheckOne, Rule
<1>. QED
  BY <1>6, <1>7, <1>8, <1>9

LEMMA SignedIsJudged == CycleInv => PolicyJudgesWhatWasSigned
<1>. SUFFICES ASSUME CycleInv, pc = "checked" PROVE PolicyJudgesWhatWasSigned
  BY DEF PolicyJudgesWhatWasSigned
<1>. DEFINE p == Policy(book)
            covenants == CovenantStatus(book)
            rules == Constraints(book)
            floor == Rule("min_cash", "", p.floor)
            liquid == Rule("min_30d_liquidity", "", p.min30)
            asked == CheckPolicy(rules \cup {CovenantRule}, covenants)
            revolver == Rule("max_revolver_utilization", "", p.maxUtil)
            class(c) == Rule("protected_payment_class", c, 0)
            Short == \E w \in Weeks : forecast.closing[w] < p.floor
            Illiquid == \E w \in Weeks : /\ w <= LiquidityWeeks
                                         /\ forecast.closing[w] + position.revolver < p.min30
            Drawnout == position.drawn * Bps > position.limit * p.maxUtil
<1>1. /\ CheckOne(floor, covenants) = Judged(~Short)
      /\ CheckOne(liquid, covenants) = Judged(~Illiquid)
      /\ CheckOne(revolver, covenants) = Judged(~Drawnout)
      /\ \A c : CheckOne(class(c), covenants) = "unchecked"
  BY RulesJudged
<1>2. /\ check.violations = {c \in rules : CheckOne(c, covenants) = "breached"}
      /\ check.unchecked = {c \in rules : CheckOne(c, covenants) = "unchecked"}
      /\ check.checked = {c \in rules : CheckOne(c, covenants) # "unchecked"}
  <2>1. check = CheckPolicy(rules, covenants)
    BY DEF CycleInv, Ruled
  <2>. QED
    BY <2>1 DEF CheckPolicy
<1>3. rules = ({floor, liquid} \cup {class(c) : c \in p.protected})
                \cup (IF book.kind = "engine" THEN {revolver} ELSE {})
  BY DEF Constraints, EngineConstraints, TenantConstraints
<1>4. \A c : class(c).of = c
  BY DEF Rule
<1>10. CovenantRule \notin rules
  BY DEF Constraints, EngineConstraints, TenantConstraints, CovenantRule, Rule
<1>11. /\ asked.violations = {c \in rules \cup {CovenantRule} : CheckOne(c, covenants) = "breached"}
       /\ asked.unchecked = {c \in rules \cup {CovenantRule} : CheckOne(c, covenants) = "unchecked"}
  BY DEF CheckPolicy
<1>12. covenants = Refused => CovenantRule \in asked.unchecked
  <2>1. CheckOne(CovenantRule, Refused) = "unchecked"
    BY DEF CheckOne, CovenantRule, Rule, CheckCovenants
  <2>. QED
    BY <1>11, <2>1
<1>13. covenants # Refused => (CovenantRule \in asked.violations) = (covenants.breached # {})
  <2>. SUFFICES ASSUME covenants # Refused
                PROVE  (CovenantRule \in asked.violations) = (covenants.breached # {})
    OBVIOUS
  <2>1. covenants.breached \subseteq covenants.tested
    BY DEF CovenantStatus
  <2>. HIDE DEF covenants
  <2>2. (CheckOne(CovenantRule, covenants) = "breached") = (covenants.breached # {})
    BY <2>1 DEF CheckOne, CovenantRule, Rule, CheckCovenants, Judged
  <2>. QED
    BY <1>11, <2>2
<1>. HIDE DEF asked
<1>. HIDE DEF p, covenants, rules, floor, liquid, revolver, class, Short, Illiquid, Drawnout
<1>5. /\ CheckOne(floor, covenants) = "breached" <=> Short
      /\ CheckOne(liquid, covenants) = "breached" <=> Illiquid
      /\ CheckOne(revolver, covenants) = "breached" <=> Drawnout
      /\ \A c : CheckOne(class(c), covenants) # "breached"
  BY <1>1 DEF Judged
<1>6. check.violations # {} <=> \/ Short \/ Illiquid \/ (book.kind = "engine" /\ Drawnout)
  BY <1>2, <1>3, <1>5
<1>7. \A c \in p.protected : \E r \in check.unchecked : r.of = c
  <2>. SUFFICES ASSUME NEW c \in p.protected PROVE \E r \in check.unchecked : r.of = c
    OBVIOUS
  <2>1. class(c) \in check.unchecked
    BY <1>1, <1>2, <1>3
  <2>. QED
    BY <2>1, <1>4
<1>8. Escalates(check) = (Short \/ Illiquid \/ (book.kind = "engine" /\ Drawnout))
  BY <1>6 DEF Escalates
<1>. QED
  BY <1>2, <1>7, <1>8, <1>10, <1>12, <1>13
     DEF PolicyJudgesWhatWasSigned, p, covenants, rules, asked, Short, Illiquid, Drawnout

\* The war room opens exactly when a figure the treasurer published crosses a threshold
\* of the policy in force when it is checked, whatever was loaded in between; and a rule
\* nobody can judge is listed, not passed (policy.py, check_policy).
THEOREM WhatWasSignedIsJudged == CycleSpec => []PolicyJudgesWhatWasSigned
  BY SignedIsJudged, MondayFits, PTL

-----------------------------------------------------------------------------
(* The figures of one Monday agree *)

\* weeks of runway: all of the horizon exactly when no week fails.
LEMMA RunwayIs ==
    ASSUME NEW series, NEW failsAt
    PROVE  Runway(series, failsAt) < Horizon <=> \E w \in Weeks : series[w] <= failsAt
<1>. DEFINE failing == {w \in Weeks : series[w] <= failsAt}
<1>1. Horizon \in Nat /\ Weeks = 1..Horizon
  BY ToolsetAssumption DEF Weeks
<1>2. Runway(series, failsAt) = IF failing = {} THEN Horizon ELSE Min(failing) - 1
  BY DEF Runway
<1>3. CASE failing = {}
  BY <1>1, <1>2, <1>3
<1>4. CASE failing # {}
  <2>1. failing \in SUBSET Nat /\ \A w \in failing : w <= Horizon
    BY <1>1
  <2>. HIDE DEF failing
  <2>2. \E t \in failing : \A u \in failing : t <= u
    BY <1>4, <2>1, LeastOf
  <2>3. Min(failing) \in failing
    BY <2>2 DEF Min
  <2>4. Min(failing) - 1 < Horizon
    <3>. DEFINE m == Min(failing)
    <3>1. m \in Nat /\ m <= Horizon
      BY <2>1, <2>3
    <3>. HIDE DEF m
    <3>2. m - 1 < Horizon
      BY <1>1, <3>1
    <3>. QED
      BY <3>2 DEF m
  <2>. QED
    BY <1>2, <1>4, <2>4 DEF failing
<1>. QED
  BY <1>3, <1>4

\* What the three readings say, for the book they were all taken from.
LEMMA PositionOf ==
    ASSUME NEW b \in Books, Position(b) # Refused
    PROVE  LET t == TroughWeek(Balances(b), Weeks) IN
           /\ Position(b).min = Balances(b)[t] /\ Position(b).minWeek = t
           /\ Position(b).floor = Policy(b).floor
           /\ b.kind = "tenant" =>
                 Position(b).runway = Runway(Balances(b), Policy(b).floor - 1)
<1>1. CASE b.kind = "engine"
  <2>1. Position(b) = EnginePosition(b) /\ b.accounts # {} /\ Balances(b) = EngineBalances(b)
    BY <1>1 DEF Position, EnginePosition, Balances
  <2>2. /\ EnginePosition(b).min = EngineBalances(b)[TroughWeek(EngineBalances(b), Weeks)]
        /\ EnginePosition(b).minWeek = TroughWeek(EngineBalances(b), Weeks)
        /\ EnginePosition(b).floor = Policy(b).floor
    BY <2>1 DEF EnginePosition
  <2>. QED
    BY <1>1, <2>1, <2>2
<1>2. CASE b.kind # "engine"
  <2>1. Position(b) = TenantPosition(b) /\ Balances(b) = TenantBalances(b)
    BY <1>2 DEF Position, Balances
  <2>2. /\ TenantPosition(b).min = TenantBalances(b)[TroughWeek(TenantBalances(b), Weeks)]
        /\ TenantPosition(b).minWeek = TroughWeek(TenantBalances(b), Weeks)
        /\ TenantPosition(b).floor = Policy(b).floor
        /\ TenantPosition(b).runway = Runway(TenantBalances(b), Policy(b).floor - 1)
    BY DEF TenantPosition
  <2>. QED
    BY <2>1, <2>2
<1>. QED
  BY <1>1, <1>2

LEMMA StoryIsOne == CycleInv => OneStory
<1>. SUFFICES ASSUME CycleInv, pc = "checked", reloads = 0 PROVE OneStory
  BY DEF OneStory
<1>. DEFINE p == Policy(book)
            closing == Balances(book)
            t == TroughWeek(closing, Weeks)
            Short == \E w \in Weeks : closing[w] < p.floor
            breached == \E c \in check.violations : c.kind = "min_cash"
<1>1. book \in Books /\ AtReview /\ pc \in AfterActuals /\ pc \in AfterBridge
        /\ pc \in AfterDrivers /\ pc \in AfterForecast
  BY DEF CycleInv, Typed, AtReview, AfterForecast, AfterDrivers, AfterBridge, AfterActuals, Steps
<1>2. position = Position(book) /\ position # Refused
  BY <1>1 DEF CycleInv, Sources, Source
<1>3. forecast = Summary(book)
  BY <1>1 DEF CycleInv, Sources, Source
<1>4. forecast.closing = closing /\ forecast.breaching = {w \in Weeks : closing[w] < p.floor}
  BY <1>3 DEF Summary
<1>5. /\ position.min = closing[t] /\ position.minWeek = t /\ position.floor = p.floor
      /\ book.kind = "tenant" => position.runway = Runway(closing, p.floor - 1)
  BY <1>1, <1>2, PositionOf
<1>6. p.floor \in Int /\ closing \in [Weeks -> Int] /\ Weeks # {}
  <2>1. 1 \in Weeks
    BY ToolsetAssumption DEF Weeks
  <2>. QED
    BY <1>1, <2>1, PolicyInForce, BalancesAre
<1>7. breached <=> Short
  <2>. DEFINE covenants == CovenantStatus(book)
              rules == Constraints(book)
              floor == Rule("min_cash", "", p.floor)
              liquid == Rule("min_30d_liquidity", "", p.min30)
              revolver == Rule("max_revolver_utilization", "", p.maxUtil)
              class(c) == Rule("protected_payment_class", c, 0)
  <2>1. CheckOne(floor, covenants) = Judged(~Short)
    BY <1>4, RulesJudged
  <2>2. check.violations = {c \in rules : CheckOne(c, covenants) = "breached"}
    BY DEF CycleInv, Ruled, CheckPolicy
  <2>3. floor \in rules /\ \A c \in rules : c.kind = "min_cash" => c = floor
    <3>1. rules = ({floor, liquid} \cup {class(c) : c \in p.protected})
                    \cup (IF book.kind = "engine" THEN {revolver} ELSE {})
      BY DEF Constraints, EngineConstraints, TenantConstraints
    <3>2. /\ liquid.kind # "min_cash" /\ revolver.kind # "min_cash"
          /\ \A c : class(c).kind # "min_cash"
      BY DEF Rule
    <3>. HIDE DEF rules, floor, liquid, revolver, class
    <3>. QED
      BY <3>1, <3>2
  <2>4. floor.kind = "min_cash"
    BY DEF Rule
  <2>. HIDE DEF covenants, rules, floor, Short
  <2>5. CheckOne(floor, covenants) = "breached" <=> Short
    BY <2>1 DEF Judged
  <2>. QED
    BY <2>2, <2>3, <2>4, <2>5
<1>8. t \in Weeks /\ \A x \in Weeks : closing[t] <= closing[x]
  <2>. HIDE DEF closing
  <2>. QED
    BY <1>6, TroughIs
<1>9. Short <=> closing[t] < p.floor
  <2>. HIDE DEF closing, t, p
  <2>1. closing[t] \in Int /\ \A x \in Weeks : closing[x] \in Int
    BY <1>6, <1>8
  <2>. QED
    BY <1>6, <1>8, <2>1
<1>10. <<"breach", t>> \in Range(queue) <=> closing[t] < p.floor
  <2>1. /\ \A w : <<"breach", w>> \in Range(queue) <=> w \in forecast.breaching
    BY <1>1, QueueIs
  <2>. QED
    BY <1>4, <1>8, <2>1
<1>11. book.kind = "tenant" => (Short <=> position.runway < Horizon)
  <2>. HAVE book.kind = "tenant"
  <2>1. position.runway < Horizon <=> \E w \in Weeks : closing[w] <= p.floor - 1
    BY <1>5, RunwayIs
  <2>. HIDE DEF closing, p
  <2>2. \A w \in Weeks : closing[w] \in Int
    BY <1>6
  <2>3. \A w \in Weeks : closing[w] <= p.floor - 1 <=> closing[w] < p.floor
    BY <1>6, <2>2
  <2>. QED
    BY <2>1, <2>3
<1>. HIDE DEF breached, Short, closing, t, p
<1>12. /\ breached = (position.min < position.floor)
       /\ breached = (<<"breach", position.minWeek>> \in Range(queue))
       /\ book.kind = "tenant" => breached = (position.runway < Horizon)
  <2>1. breached \in BOOLEAN
    BY DEF breached
  <2>. QED
    BY <1>5, <1>7, <1>9, <1>10, <1>11, <2>1
<1>. QED
  BY <1>12 DEF OneStory, breached

LEMMA HindsightIsNot == CycleInv => NoHindsight
<1>. SUFFICES ASSUME CycleInv, bridge \notin {Nothing, EmptyBridge}, reloads = 0
              PROVE  NoHindsight
  BY DEF NoHindsight
<1>. DEFINE monday == ClosedWeek(book)
            baseline == Baseline(book, monday)
<1>1. bridge = Bridge(book) /\ bridge # Refused /\ book \in Books
  BY DEF CycleInv, Typed, Sources, Source
<1>2. /\ BridgeRows(book) = {RowOf(book, c) : c \in CategorySet}
      /\ \A c \in CategorySet : Delta(book, c) \in Int
      /\ baseline \in Covering(book, monday)
      /\ bridge.shown.rows \in Seq(BridgeRows(book))
  BY <1>1, BridgeIs, RowsAre
<1>3. Shown(bridge) \subseteq BridgeRows(book)
  BY <1>2 DEF Shown, Range
<1>4. ASSUME NEW r \in Shown(bridge)
      PROVE  /\ Actual(book, r.category, monday) - r.delta
                  = baseline.lines[<<r.category, (monday - baseline.first) \div 7 + 1>>]
  <2>1. PICK c \in CategorySet : r = RowOf(book, c)
    BY <1>2, <1>3
  <2>2. r.category = c /\ r.delta = Delta(book, c)
    BY <2>1 DEF RowOf
  <2>. DEFINE line == baseline.lines[<<c, (monday - baseline.first) \div 7 + 1>>]
              actual == Actual(book, c, monday)
  <2>3. Delta(book, c) = actual - line
    BY DEF Delta
  <2>4. actual \in Int /\ line \in Int
    <3>1. ForecastOK(book) /\ baseline \in book.versions /\ ClosedWeek(book) \in Int
      BY <1>1, <1>2, InOrderBook, BridgeIs, RowsAre DEF Covering
    <3>2. (monday - baseline.first) \div 7 + 1 \in Weeks
      BY <1>1, <3>1, BridgeIs, BaselineCovers
    <3>3. line \in Int
      <4>. HIDE DEF baseline
      <4>. DEFINE week == (monday - baseline.first) \div 7 + 1
      <4>1. week \in Weeks
        BY <3>2
      <4>. HIDE DEF week
      <4>2. baseline.lines[<<c, week>>] \in Int
        BY <3>1, <4>1 DEF ForecastOK
      <4>. QED
        BY <4>2 DEF week
    <3>. QED
      BY <1>1, <3>3, ActualIs
  <2>. HIDE DEF actual, line
  <2>5. actual - Delta(book, c) = line
    BY <2>3, <2>4
  <2>. QED
    BY <2>2, <2>5 DEF actual, line
<1>5. baseline \in {w \in book.versions : w.asOf <= monday /\ w.first <= monday}
  BY <1>2 DEF Covering
<1>. QED
  BY <1>4, <1>5 DEF NoHindsight

\* What the engine toolset cites names a row of the book, but for its padding.
LEMMA EngineCites ==
    ASSUME NEW b \in Books, b.kind = "engine", NEW ref \in EngineReferences(b)
    PROVE  EngineResolves(b, ref) = (ref \notin Dangling("engine"))
<1>1. /\ OpenInvoices(b) \subseteq b.invoices /\ OpenPayables(b) \subseteq b.payables
      /\ Active(b) \subseteq b.subscriptions
  BY DEF OpenInvoices, OpenPayables, Active
<1>2. \A s \in b.subscriptions : s.id \notin Unavailable
  BY InOrderBook DEF LedgersOK
<1>. DEFINE Padding == Dangling("engine")
<1>3. Padding = {<<"dodo", id, NoField>> : id \in Unavailable}
  BY DEF Dangling, Cite
<1>4. /\ \A id \in {p.version : p \in b.policies} : EngineResolves(b, <<"policy", id, NoField>>)
      /\ \A id \in {a.id : a \in b.accounts} : EngineResolves(b, <<"bank", id, NoField>>)
      /\ \A id \in {c.id : c \in b.covenants} : EngineResolves(b, <<"debt", id, NoField>>)
      /\ \A id \in ForecastIds(b) : EngineResolves(b, <<"forecast", id, NoField>>)
      /\ \A id \in {i.ref : i \in b.invoices} : EngineResolves(b, <<"ar_ledger", id, NoField>>)
      /\ \A id \in {p.ref : p \in b.payables} \cup {v.id : v \in b.vendors} :
            EngineResolves(b, <<"ap_ledger", id, NoField>>)
      /\ \A id : EngineResolves(b, <<"dodo", id, NoField>>) = (id \in {s.id : s \in b.subscriptions})
  BY DEF EngineResolves
<1>5. \A source \in {"policy", "bank", "debt", "forecast", "ar_ledger", "ap_ledger"} :
         \A id : <<source, id, NoField>> \notin Padding
  BY <1>3
<1>10. Version(b) \in b.versions
  BY VersionTaken
<1>6. CASE ref \in PositionCites(b) \cup ConstraintCites(b) \cup CovenantCites(b)
  <2>1. Policy(b) \in b.policies
    BY PolicyInForce
  <2>. QED
    BY <1>4, <1>5, <1>6, <2>1 DEF PositionCites, ConstraintCites, CovenantCites, Cite
<1>7. CASE ref \in SummaryCites(b) \cup DriverCites(b) \cup BridgeCites(b)
  <2>1. CASE ref \in SummaryCites(b)
    <3>1. PICK c \in CategorySet, w \in Weeks :
                  ref = <<"forecast", LineId(Version(b), c, w), NoField>>
      BY <2>1 DEF SummaryCites, Cite
    <3>2. LineId(Version(b), c, w) \in ForecastIds(b)
      BY <1>10, <3>1 DEF ForecastIds
    <3>. QED
      BY <1>4, <1>5, <3>1, <3>2
  <2>2. CASE ref \in DriverCites(b)
    <3>1. PICK a \in b.assumptions : ref = <<"forecast", AssumptionId(a), NoField>>
      BY <2>2 DEF DriverCites, Cite
    <3>2. AssumptionId(a) \in ForecastIds(b)
      BY <3>1 DEF ForecastIds
    <3>. QED
      BY <1>4, <1>5, <3>1, <3>2
  <2>3. CASE ref \in BridgeCites(b)
    <3>. DEFINE monday == ClosedWeek(b)
                baseline == Baseline(b, monday)
                week == (monday - baseline.first) \div 7 + 1
    <3>1. Covering(b, monday) # {}
      BY <2>3 DEF BridgeCites
    <3>2. monday \in Int
      BY <3>1, RowsAre
    <3>3. baseline \in Covering(b, monday) /\ week \in Weeks
      <4>. HIDE DEF monday
      <4>. QED
        BY <3>1, <3>2, BaselineCovers DEF monday
    <3>4. baseline \in b.versions
      BY <3>3 DEF Covering
    <3>5. PICK c \in CategorySet : ref = <<"forecast", LineId(baseline, c, week), NoField>>
      BY <2>3, <3>1 DEF BridgeCites, Cite
    <3>. HIDE DEF baseline, week
    <3>6. LineId(baseline, c, week) \in ForecastIds(b)
      BY <3>3, <3>4 DEF ForecastIds
    <3>. QED
      BY <1>4, <1>5, <3>5, <3>6
  <2>. QED
    BY <1>7, <2>1, <2>2, <2>3
<1>8. CASE ref \in CollectionCites(b) \cup DeferralCites(b) \cup SupplierCites(b)
  BY <1>1, <1>4, <1>5, <1>8 DEF CollectionCites, DeferralCites, SupplierCites, Cite
<1>9. CASE ref \in DeclineCites(b)
  <2>1. CASE \E s \in Active(b) : ref = <<"dodo", s.id, NoField>>
    BY <1>1, <1>2, <1>3, <1>4, <2>1
  <2>2. CASE \E id \in Unavailable : ref = <<"dodo", id, NoField>>
    BY <1>2, <1>3, <1>4, <2>2
  <2>. QED
    BY <1>9, <2>1, <2>2 DEF DeclineCites, Unavailable, Cite
<1>. QED
  BY <1>6, <1>7, <1>8, <1>9 DEF EngineReferences

LEMMA CitedIsFound == CycleInv => CitationsResolve
<1>. SUFFICES ASSUME CycleInv, NEW ref \in References(book)
              PROVE  Resolves(book, ref) = (ref \notin Dangling(book.kind))
  BY DEF CitationsResolve
<1>1. book \in Books /\ book.kind \in {"engine", "tenant"}
  BY InOrderBook DEF CycleInv, Typed
<1>2. OpenInvoices(book) \subseteq book.invoices /\ OpenPayables(book) \subseteq book.payables
  BY DEF OpenInvoices, OpenPayables
<1>3. CASE book.kind = "engine"
  BY <1>1, <1>3, EngineCites DEF References, Resolves
<1>4. CASE book.kind = "tenant"
  <2>1. ref \in TenantReferences(book)
    BY <1>4 DEF References
  <2>. DEFINE floor == <<"policy", "min_unrestricted_cash", NoField>>
  <2>2. CASE ref # floor
    <3>1. TenantResolves(book, ref)
      BY <1>2, <2>1, <2>2 DEF TenantReferences, TenantResolves, Cite, PolicyFields
    <3>. QED
      BY <1>4, <2>2, <3>1 DEF Resolves, Dangling, Cite
  <2>3. CASE ref = floor
    <3>1. TenantResolves(book, floor) = FALSE
      BY DEF TenantResolves, PolicyFields, NoField
    <3>2. Resolves(book, ref) = FALSE
      BY <1>4, <2>3, <3>1 DEF Resolves
    <3>3. ref \in Dangling(book.kind)
      BY <1>4, <2>3 DEF Dangling, Cite
    <3>. QED
      BY <3>2, <3>3
  <2>. QED
    BY <2>2, <2>3
<1>. QED
  BY <1>1, <1>3, <1>4

\* What the ledgers of a book guarantee of the rows that are open.
LEMMA OpenRows ==
    ASSUME NEW b \in Books
    PROVE  /\ IsFiniteSet(OpenInvoices(b)) /\ IsFiniteSet(OpenPayables(b))
           /\ \A i \in OpenInvoices(b) :
                 i \in b.invoices /\ i.open \in Nat /\ i.due \in Int /\ i.ref \in Int
           /\ \A i, j \in OpenInvoices(b) : i.ref = j.ref => i = j
           /\ \A p \in OpenPayables(b) : p.open \in Nat /\ p.ref \in Int
           /\ \A p, q \in OpenPayables(b) : p.ref = q.ref => p = q
           /\ IsFiniteSet(b.vendors) /\ \A v, w \in b.vendors : v.id = w.id => v = w
           /\ \A p \in OpenPayables(b) : Vendor(b, p) \in b.vendors /\ Vendor(b, p).id = p.vendor
<1>1. LedgersOK(b)
  BY InOrderBook
<1>2. /\ IsFiniteSet(b.invoices) /\ IsFiniteSet(b.payables) /\ IsFiniteSet(b.vendors)
      /\ \A i, j \in b.invoices : i.ref \in Int /\ (i.ref = j.ref => i = j)
      /\ \A p, q \in b.payables : p.ref \in Int /\ (p.ref = q.ref => p = q)
      /\ \A v, w \in b.vendors : v.id \in Int /\ (v.id = w.id => v = w)
  BY <1>1 DEF LedgersOK, Key
<1>3. /\ \A i \in b.invoices : i.open \in Int /\ i.due \in Int
      /\ \A p \in b.payables : p.open \in Int /\ \E v \in b.vendors : v.id = p.vendor
  BY <1>1 DEF LedgersOK
<1>4. /\ OpenInvoices(b) \subseteq b.invoices /\ OpenPayables(b) \subseteq b.payables
      /\ \A i \in OpenInvoices(b) : i.open > 0
      /\ \A p \in OpenPayables(b) : p.open > 0
  BY DEF OpenInvoices, OpenPayables, Counted
<1>5. IsFiniteSet(OpenInvoices(b)) /\ IsFiniteSet(OpenPayables(b))
  BY <1>2, <1>4, FS_Subset
<1>6. \A p \in OpenPayables(b) : Vendor(b, p) \in b.vendors /\ Vendor(b, p).id = p.vendor
  BY <1>3, <1>4 DEF Vendor
<1>7. /\ \A i \in OpenInvoices(b) : i.open \in Nat
      /\ \A p \in OpenPayables(b) : p.open \in Nat
  BY <1>3, <1>4
<1>. QED
  BY <1>2, <1>3, <1>4, <1>5, <1>6, <1>7

\* get_ar_aging_summary adds up to what rank_collection_opportunities ranks.
LEMMA AgingTies ==
    ASSUME NEW b \in Books
    PROVE  Total(1..5, LAMBDA k : Aging(b)[k]) = Collections(b).totalOpen
<1>. DEFINE S == OpenInvoices(b)
            f == [i \in S |-> i.open]
            class == [i \in S |-> Band(b.asOf - i.due)]
            In(k) == {i \in S : class[i] = k}
            part == [k \in 1..5 |-> Aging(b)[k]]
            row == [i \in S |-> [ref |-> i.ref, open |-> i.open, expected |-> Expected(b, i)]]
            rows == {[ref |-> i.ref, open |-> i.open, expected |-> Expected(b, i)] : i \in S}
            f2 == [r \in rows |-> r.open]
<1>1. /\ IsFiniteSet(S) /\ \A i \in S : f[i] \in Int /\ i.due \in Int
      /\ \A i, j \in S : i.ref = j.ref => i = j
  BY OpenRows
<1>2. b.asOf \in Int
  BY InOrderBook
<1>3. \A i \in S : class[i] \in 1..5
  <2>. SUFFICES ASSUME NEW i \in S PROVE Band(b.asOf - i.due) \in 1..5
    OBVIOUS
  <2>1. b.asOf - i.due \in Int
    BY <1>1, <1>2
  <2>. QED
    BY <2>1 DEF Band
<1>4. ASSUME NEW k \in 1..5 PROVE part[k] = SumOver(f, In(k))
  <2>. DEFINE fk == [i \in In(k) |-> i.open]
  <2>1. In(k) = {i \in OpenInvoices(b) : Band(b.asOf - i.due) = k}
    OBVIOUS
  <2>2. part[k] = SumOver(fk, In(k))
    BY <2>1 DEF Aging, Total
  <2>3. (\A i \in In(k) : fk[i] = f[i]) /\ IsFiniteSet(In(k))
    BY <1>1, FS_Subset
  <2>. DEFINE T == In(k)
  <2>. HIDE DEF fk, f, T, part
  <2>4. SumOver(fk, T) = SumOver(f, T)
    BY <2>3, SumSame DEF T
  <2>. QED
    BY <2>2, <2>4 DEF T
<1>5. SumOver(part, 1..5) = SumOver(f, S)
  <2>. DEFINE K == 1..5
  <2>1. IsFiniteSet(K)
    <3>1. 1 \in Int /\ 5 \in Int
      OBVIOUS
    <3>. QED
      BY <3>1, FS_Interval
  <2>2. \A k \in K : part[k] = SumOver(f, OfClass(S, class, k))
    BY <1>4 DEF OfClass
  <2>3. \A i \in S : class[i] \in K
    BY <1>3
  <2>. HIDE DEF S, f, class, part, K
  <2>4. SumOver(part, K) = SumOver(f, S)
    <3>1. IsFiniteSet(S) /\ \A x \in S : f[x] \in Int
      BY <1>1
    <3>. QED
      BY <2>1, <2>2, <2>3, <3>1, SumByClass
  <2>. QED
    BY <2>4 DEF K
<1>6. SumOver(f2, {row[i] : i \in S}) = SumOver(f, S)
  <2>1. \A i \in S : f[i] \in Int /\ f2[row[i]] = f[i]
    BY <1>1
  <2>2. \A i, j \in S : row[i] = row[j] => i = j
    <3>. SUFFICES ASSUME NEW i \in S, NEW j \in S, row[i] = row[j] PROVE i = j
      OBVIOUS
    <3>1. row[i].ref = i.ref /\ row[j].ref = j.ref
      OBVIOUS
    <3>. QED
      BY <1>1, <3>1
  <2>. HIDE DEF S, f, f2, row
  <2>. QED
    BY <1>1, <2>1, <2>2, SumMoved
<1>7. {row[i] : i \in S} = rows
  OBVIOUS
<1>8. Collections(b).totalOpen = SumOver(f2, rows)
  BY DEF Collections, Total
<1>9. Total(1..5, LAMBDA k : Aging(b)[k]) = SumOver(part, 1..5)
  BY DEF Total
<1>. QED
  BY <1>5, <1>6, <1>7, <1>8, <1>9

LEMMA ShareIs == Bps \in Nat \ {0} /\ \A s \in Share : s \in Nat /\ s <= Bps
<1>1. Bps \in Nat \ {0}
  BY DEF Bps
<1>. QED
  BY <1>1 DEF Share

\* No receivable is expected at more than its face, so neither are all of them.
LEMMA ExpectedWithinFace ==
    ASSUME NEW b \in Books
    PROVE  Collections(b).totalExpected <= Collections(b).totalOpen
<1>. DEFINE S == OpenInvoices(b)
            rows == {[ref |-> i.ref, open |-> i.open, expected |-> Expected(b, i)] : i \in S}
            f == [r \in rows |-> r.expected]
            f2 == [r \in rows |-> r.open]
<1>1. /\ Collections(b).totalOpen = SumOver(f2, rows)
      /\ Collections(b).totalExpected = SumOver(f, rows)
  BY DEF Collections, Total
<1>2. ASSUME NEW i \in S PROVE i.open \in Nat /\ Expected(b, i) \in Nat /\ Expected(b, i) <= i.open
  <2>1. i \in b.invoices /\ i.open \in Nat
    BY OpenRows
  <2>2. Probability(b, i) \in Share
    BY <2>1, SharesOf
  <2>. DEFINE n == i.open
              s == Probability(b, i)
              B == Bps
  <2>3. n \in Nat /\ s \in Nat /\ s <= B /\ B \in Nat \ {0}
    BY <2>1, <2>2, ShareIs
  <2>4. Expected(b, i) = (n * s) \div B
    BY DEF Expected
  <2>. HIDE DEF n, s, B
  <2>5. (n * s) \div B \in Nat /\ (n * s) \div B <= n
    BY <2>3, PartOf
  <2>. QED
    BY <2>1, <2>4, <2>5 DEF n
<1>3. IsFiniteSet(rows)
  <2>. DEFINE h == [i \in S |-> [ref |-> i.ref, open |-> i.open, expected |-> Expected(b, i)]]
  <2>1. h \in Surjection(S, rows)
    BY DEF Surjection
  <2>2. IsFiniteSet(S)
    BY OpenRows
  <2>. HIDE DEF h, rows, S
  <2>. QED
    BY <2>1, <2>2, FS_Surjection
<1>4. ASSUME NEW r \in rows PROVE f[r] \in Nat /\ f2[r] \in Nat /\ f[r] * 1 <= f2[r] * 1
  <2>1. PICK i \in S : r = [ref |-> i.ref, open |-> i.open, expected |-> Expected(b, i)]
    OBVIOUS
  <2>2. r.open = i.open /\ r.expected = Expected(b, i)
    BY <2>1
  <2>3. f[r] = r.expected /\ f2[r] = r.open
    OBVIOUS
  <2>. HIDE DEF f, f2, rows, S
  <2>. QED
    BY <1>2, <2>2, <2>3
<1>. HIDE DEF f, f2, rows
<1>5. SumOver(f, rows) \in Nat /\ SumOver(f2, rows) \in Nat
  BY <1>3, <1>4, SumIsNumber
<1>. PICK one \in Nat : one = 1
  OBVIOUS
<1>6. SumOver(f, rows) * one <= SumOver(f2, rows) * one
  BY <1>3, <1>4, SumsCompare
<1>. QED
  BY <1>1, <1>5, <1>6

\* Rows with the largest amount first, ties by their reference.
ByAmount(T) ==
    Sequenced(T, {p \in T \X T :
                    /\ p[1] # p[2]
                    /\ \/ -p[1].open < -p[2].open
                       \/ -p[1].open = -p[2].open /\ p[1].ref < p[2].ref})

LEMMA ByAmountIs ==
    ASSUME NEW T, IsFiniteSet(T), \A r \in T : r.open \in Int /\ r.ref \in Int,
           \A r, s \in T : r.ref = s.ref => r = s
    PROVE  ByAmount(T) \in Seq(T)
<1>. DEFINE figure == [r \in T |-> -r.open]
            key == [r \in T |-> r.ref]
            pairs == Keyed(T, figure, key)
            given == {p \in T \X T :
                        /\ p[1] # p[2]
                        /\ \/ -p[1].open < -p[2].open
                           \/ -p[1].open = -p[2].open /\ p[1].ref < p[2].ref}
<1>1. \A r \in T : figure[r] \in Int /\ key[r] \in Int
  OBVIOUS
<1>2. \A r, s \in T : figure[r] = figure[s] /\ key[r] = key[s] => r = s
  OBVIOUS
<1>3. given = pairs
  <2>1. \A p \in T \X T : /\ figure[p[1]] = -p[1].open /\ figure[p[2]] = -p[2].open
                           /\ key[p[1]] = p[1].ref /\ key[p[2]] = p[2].ref
    OBVIOUS
  <2>. HIDE DEF figure, key
  <2>. QED
    BY <2>1 DEF Keyed
<1>4. Orders(pairs, T)
  <2>. HIDE DEF figure, key
  <2>. QED
    BY <1>1, <1>2, KeyedOrder
<1>. HIDE DEF pairs, given
<1>5. Sequenced(T, pairs) \in Seq(T)
  BY <1>4, SequencedSeq
<1>. QED
  BY <1>3, <1>5 DEF ByAmount, given

\* Two groups of rows, one after the other, and cut, are still those rows.
LEMMA RankedRows ==
    ASSUME NEW rows, IsFiniteSet(rows), \A r \in rows : r.open \in Int /\ r.ref \in Int,
           (\A r, s \in rows : r.ref = s.ref => r = s), NEW A \in SUBSET rows, NEW B \in SUBSET rows
    PROVE  Range(Cap(ByAmount(A) \o ByAmount(B), TopN).rows) \subseteq rows
<1>1. IsFiniteSet(A) /\ IsFiniteSet(B)
  BY FS_Subset
<1>2. ByAmount(A) \in Seq(A) /\ ByAmount(B) \in Seq(B)
  BY <1>1, ByAmountIs
<1>. DEFINE s == ByAmount(A)
            t == ByAmount(B)
<1>3. s \in Seq(rows) /\ t \in Seq(rows)
  <2>. HIDE DEF s, t
  <2>1. s \in Seq(A) /\ t \in Seq(B)
    BY <1>2 DEF s, t
  <2>. QED
    BY <2>1
<1>. HIDE DEF s, t
<1>4. s \o t \in Seq(rows)
  BY <1>3
<1>. DEFINE u == s \o t
<1>. HIDE DEF u
<1>5. Cap(u, TopN).rows \in Seq(rows)
  BY <1>4, CapIs DEF u
<1>6. Range(Cap(u, TopN).rows) \subseteq rows
  BY <1>5 DEF Range
<1>. QED
  BY <1>6 DEF u, s, t

\* What may wait is what is open and not protected, whatever the days are.
LEMMA DeferralRows ==
    ASSUME NEW b \in Books, NEW days
    PROVE  LET rows == {DeferralRow(b, p, days[p]) : p \in OpenPayables(b)}
               free == {r \in rows : ~r.protected}
               may == {p \in OpenPayables(b) : ~Protected(b, p)}
           IN  /\ IsFiniteSet(rows) /\ \A r \in rows : r.open \in Int /\ r.ref \in Int
               /\ \A r, s \in rows : r.ref = s.ref => r = s
               /\ \A r \in rows : r.protected => r.days = 0
               /\ SumOver([r \in free |-> r.open], free) = SumOver([p \in may |-> p.open], may)
<1>. DEFINE S == OpenPayables(b)
            row == [p \in S |-> DeferralRow(b, p, days[p])]
            rows == {DeferralRow(b, p, days[p]) : p \in S}
            free == {r \in rows : ~r.protected}
            may == {p \in S : ~Protected(b, p)}
            f == [p \in may |-> p.open]
            f2 == [r \in free |-> r.open]
<1>1. /\ IsFiniteSet(S) /\ \A p \in S : p.open \in Nat /\ p.ref \in Int
      /\ \A p, q \in S : p.ref = q.ref => p = q
  BY OpenRows
<1>2. \A p \in S : /\ row[p].ref = p.ref /\ row[p].open = p.open
                   /\ row[p].protected = Protected(b, p)
                   /\ Protected(b, p) => row[p].days = 0
  BY DEF DeferralRow
<1>3. rows = {row[p] : p \in S}
  OBVIOUS
<1>4. IsFiniteSet(rows)
  <2>1. row \in Surjection(S, rows)
    BY DEF Surjection
  <2>. HIDE DEF S, rows, row
  <2>. QED
    BY <1>1, <2>1, FS_Surjection
<1>. HIDE DEF S, row, rows
<1>5. \A r \in rows : r.open \in Int /\ r.ref \in Int /\ (r.protected => r.days = 0)
  BY <1>1, <1>2, <1>3
<1>6. \A r, s \in rows : r.ref = s.ref => r = s
  BY <1>1, <1>2, <1>3
<1>7. free = {row[p] : p \in may}
  BY <1>2, <1>3
<1>8. SumOver(f2, {row[p] : p \in may}) = SumOver(f, may)
  <2>1. IsFiniteSet(may)
    BY <1>1, FS_Subset
  <2>2. \A p \in may : f[p] \in Int /\ f2[row[p]] = f[p]
    BY <1>1, <1>2, <1>7
  <2>3. \A p, q \in may : row[p] = row[q] => p = q
    BY <1>1, <1>2
  <2>. HIDE DEF may, f, f2
  <2>. QED
    BY <2>1, <2>2, <2>3, SumMoved
<1>. QED
  BY <1>4, <1>5, <1>6, <1>7, <1>8 DEF S, rows

LEMMA DeferralsTie ==
    ASSUME NEW b \in Books
    PROVE  LET may == {p \in OpenPayables(b) : ~Protected(b, p)} IN
           /\ Deferrals(b, 30).deferrable = SumOver([p \in may |-> p.open], may)
           /\ \A r \in Range(Deferrals(b, 30).shown.rows) : r.protected => r.days = 0
<1>1. CASE b.kind = "engine"
  <2>. DEFINE days == [p \in OpenPayables(b) |-> 30]
              given == {DeferralRow(b, p, 30) : p \in OpenPayables(b)}
              rows == {DeferralRow(b, p, days[p]) : p \in OpenPayables(b)}
              A == {r \in rows : r.protected}
              B == {r \in rows : ~r.protected}
  <2>1. Deferrals(b, 30) = [deferrable |-> SumOver([r \in {r \in given : ~r.protected} |-> r.open],
                                                   {r \in given : ~r.protected}),
                            shown |-> Cap(ByAmount({r \in given : r.protected})
                                            \o ByAmount({r \in given : ~r.protected}), TopN)]
    BY <1>1 DEF Deferrals, EngineDeferrals, Ranked, Total, Sorted, SortedBy, ByAmount
  <2>2. given = rows
    OBVIOUS
  <2>. HIDE DEF days, given
  <2>3. /\ IsFiniteSet(rows) /\ \A r \in rows : r.open \in Int /\ r.ref \in Int
        /\ \A r, s \in rows : r.ref = s.ref => r = s
        /\ \A r \in rows : r.protected => r.days = 0
        /\ SumOver([r \in B |-> r.open], B)
             = SumOver([p \in {p \in OpenPayables(b) : ~Protected(b, p)} |-> p.open],
                       {p \in OpenPayables(b) : ~Protected(b, p)})
    BY DeferralRows
  <2>4. Range(Cap(ByAmount(A) \o ByAmount(B), TopN).rows) \subseteq rows
    <3>1. A \in SUBSET rows /\ B \in SUBSET rows
      OBVIOUS
    <3>. HIDE DEF A, B, rows
    <3>. QED
      BY <2>3, <3>1, RankedRows
  <2>. HIDE DEF rows
  <2>5. /\ Deferrals(b, 30).deferrable = SumOver([r \in B |-> r.open], B)
        /\ Deferrals(b, 30).shown = Cap(ByAmount(A) \o ByAmount(B), TopN)
    BY <2>1, <2>2
  <2>. QED
    BY <2>3, <2>4, <2>5
<1>2. CASE b.kind # "engine"
  <2>. DEFINE days == [p \in OpenPayables(b) |-> Min({b.terms.delay[Vendor(b, p).criticality], 30})]
              given == {DeferralRow(b, p, Min({b.terms.delay[Vendor(b, p).criticality], 30})) :
                           p \in OpenPayables(b)}
              rows == {DeferralRow(b, p, days[p]) : p \in OpenPayables(b)}
              A == {r \in rows : ~r.protected}
              B == {r \in rows : ~(~r.protected)}
  <2>1. Deferrals(b, 30) = [deferrable |-> SumOver([r \in {r \in given : ~r.protected} |-> r.open],
                                                   {r \in given : ~r.protected}),
                            shown |-> Cap(ByAmount({r \in given : ~r.protected})
                                            \o ByAmount({r \in given : ~(~r.protected)}), TopN)]
    BY <1>2 DEF Deferrals, TenantDeferrals, Ranked, Total, Sorted, SortedBy, ByAmount
  <2>2. given = rows
    OBVIOUS
  <2>. HIDE DEF days, given
  <2>3. /\ IsFiniteSet(rows) /\ \A r \in rows : r.open \in Int /\ r.ref \in Int
        /\ \A r, s \in rows : r.ref = s.ref => r = s
        /\ \A r \in rows : r.protected => r.days = 0
        /\ SumOver([r \in A |-> r.open], A)
             = SumOver([p \in {p \in OpenPayables(b) : ~Protected(b, p)} |-> p.open],
                       {p \in OpenPayables(b) : ~Protected(b, p)})
    BY DeferralRows
  <2>4. Range(Cap(ByAmount(A) \o ByAmount(B), TopN).rows) \subseteq rows
    <3>1. A \in SUBSET rows /\ B \in SUBSET rows
      OBVIOUS
    <3>. HIDE DEF A, B, rows
    <3>. QED
      BY <2>3, <3>1, RankedRows
  <2>. HIDE DEF rows
  <2>5. /\ Deferrals(b, 30).deferrable = SumOver([r \in A |-> r.open], A)
        /\ Deferrals(b, 30).shown = Cap(ByAmount(A) \o ByAmount(B), TopN)
    BY <2>1, <2>2
  <2>. QED
    BY <2>3, <2>4, <2>5
<1>. QED
  BY <1>1, <1>2

\* What a supplier's share is taken of: rows of the company, each with its vendor.
LEMMA OwedRows ==
    ASSUME NEW b \in Books
    PROVE  /\ IsFiniteSet(Owed(b)) /\ IsFiniteSet(b.vendors)
           /\ \A p \in Owed(b) : p.open \in Nat
           /\ \A v, w \in b.vendors : v.id = w.id => v = w
           /\ \A p \in Owed(b) : Vendor(b, p) \in b.vendors /\ Vendor(b, p).id = p.vendor
<1>1. LedgersOK(b)
  BY InOrderBook
<1>2. /\ IsFiniteSet(b.payables) /\ IsFiniteSet(b.vendors)
      /\ \A v, w \in b.vendors : v.id = w.id => v = w
      /\ \A p \in b.payables : p.open \in Nat /\ \E v \in b.vendors : v.id = p.vendor
  BY <1>1 DEF LedgersOK, Key
<1>3. Owed(b) \subseteq b.payables
  BY DEF Owed, OpenPayables
<1>4. IsFiniteSet(Owed(b))
  BY <1>2, <1>3, FS_Subset
<1>5. \A p \in Owed(b) : Vendor(b, p) \in b.vendors /\ Vendor(b, p).id = p.vendor
  BY <1>2, <1>3 DEF Vendor
<1>. QED
  BY <1>2, <1>3, <1>4, <1>5

\* get_supplier_risk_profile: the vendors' shares of the payables stay within the whole.
LEMMA ConcentrationIs ==
    ASSUME NEW b \in Books
    PROVE  SumOver([v \in b.vendors |-> SupplierRisk(b, v).concentration], b.vendors) <= 100
<1>. DEFINE S == Owed(b)
            K == b.vendors
            f == [p \in S |-> p.open]
            class == [p \in S |-> Vendor(b, p)]
            part == [v \in K |-> SumOver(f, {p \in S : class[p] = v})]
            all == SumOver(f, S)
            m == Max({1, all})
            share == [v \in K |-> SupplierRisk(b, v).concentration]
<1>1. /\ IsFiniteSet(S) /\ IsFiniteSet(K) /\ \A p \in S : f[p] \in Nat
      /\ \A v, w \in K : v.id = w.id => v = w
      /\ \A p \in S : class[p] \in K /\ class[p].id = p.vendor
  BY OwedRows
<1>2. all \in Nat
  <2>. HIDE DEF S, f
  <2>. QED
    BY <1>1, SumIsNumber
<1>3. m \in Nat \ {0} /\ all <= m /\ (all = 0 \/ m = all)
  <2>1. m = IF 1 >= all THEN 1 ELSE all
    <3>1. 1 \in Int /\ all \in Int
      BY <1>2
    <3>. HIDE DEF all
    <3>. QED
      BY <3>1, LargerOfTwo
  <2>. HIDE DEF all, m
  <2>. QED
    BY <1>2, <2>1
<1>4. SumOver(part, K) = all
  <2>1. \A v \in K : part[v] = SumOver(f, OfClass(S, class, v))
    BY DEF OfClass
  <2>2. \A p \in S : f[p] \in Int
    BY <1>1
  <2>3. \A p \in S : class[p] \in K
    BY <1>1
  <2>4. IsFiniteSet(S) /\ IsFiniteSet(K)
    BY <1>1
  <2>. HIDE DEF S, K, f, class, part
  <2>5. SumOver(part, K) = SumOver(f, S)
    BY <2>1, <2>2, <2>3, <2>4, SumByClass
  <2>. QED
    BY <2>5
<1>5. ASSUME NEW v \in K PROVE part[v] \in Nat /\ share[v] = (part[v] * 100) \div m
  <2>. DEFINE theirs == {p \in Owed(b) : p.vendor = v.id}
              ft == [p \in theirs |-> p.open]
  <2>1. theirs = {p \in S : class[p] = v}
    BY <1>1
  <2>2. share[v] = (SumOver(ft, theirs) * 100) \div m
    BY DEF SupplierRisk, Total
  <2>3. IsFiniteSet(theirs) /\ \A p \in theirs : ft[p] = f[p] /\ f[p] \in Nat
    BY <1>1, FS_Subset
  <2>4. part[v] = SumOver(f, theirs)
    BY <2>1
  <2>. HIDE DEF theirs, ft, f, part, m
  <2>5. SumOver(ft, theirs) = SumOver(f, theirs)
    BY <2>3, SumSame
  <2>6. SumOver(f, theirs) \in Nat
    BY <2>3, SumIsNumber
  <2>. QED
    BY <2>2, <2>4, <2>5, <2>6
<1>. HIDE DEF part, share, m, all, K
<1>6. ASSUME NEW v \in K PROVE share[v] \in Nat /\ share[v] * m <= part[v] * 100
  <2>. DEFINE n == part[v] * 100
  <2>1. n \in Nat /\ share[v] = n \div m
    BY <1>5
  <2>. HIDE DEF n
  <2>2. n \div m \in Nat /\ (n \div m) * m <= n
    BY <1>3, <2>1, Floor
  <2>. QED
    BY <2>1, <2>2 DEF n
<1>7. SumOver(share, K) \in Nat /\ SumOver(part, K) \in Nat
  BY <1>1, <1>5, <1>6, SumIsNumber
<1>. PICK hundred \in Nat : hundred = 100
  OBVIOUS
<1>8. SumOver(share, K) * m <= SumOver(part, K) * hundred
  BY <1>1, <1>3, <1>5, <1>6, SumsCompare
<1>. DEFINE sum == SumOver(share, K)
<1>9. sum \in Nat /\ sum * m <= all * hundred
  BY <1>4, <1>7, <1>8
<1>. HIDE DEF sum
<1>10. all * hundred <= m * hundred
  BY <1>2, <1>3, Times
<1>11. sum * m <= hundred * m
  BY <1>2, <1>3, <1>9, <1>10
<1>12. sum <= hundred
  <2>1. SUFFICES ASSUME hundred + 1 <= sum PROVE FALSE
    BY <1>9
  <2>2. (hundred + 1) * m <= sum * m
    BY <1>3, <1>9, <2>1, Times
  <2>3. (hundred + 1) * m = hundred * m + m /\ hundred * m \in Nat
    BY <1>3
  <2>. QED
    BY <1>3, <1>9, <1>11, <2>2, <2>3
<1>. QED
  BY <1>12 DEF sum, share, K

\* get_dodo_decline_breakdown: what is at risk is soft or hard, and no more than
\* the soft part can be recovered.
LEMMA DeclinesTie ==
    ASSUME NEW b \in Books, b.kind = "engine"
    PROVE  /\ Declines(b).soft + Declines(b).hard = Declines(b).atRisk
           /\ Declines(b).recoverable <= Declines(b).soft
<1>. DEFINE active == Active(b)
            amount == [s \in active |-> s.amount]
            scheduled == SumOver(amount, active)
            success == b.processor.success
            softShare == b.processor.softShare
            recovery == b.processor.recovery
            B == Bps
            atRisk == (scheduled * (B - success)) \div B
            soft == (atRisk * softShare) \div B
            recoverable == (soft * recovery) \div B
<1>1. Declines(b) = [atRisk |-> atRisk, soft |-> soft, hard |-> atRisk - soft,
                     recoverable |-> recoverable]
  BY DEF Declines, Total
<1>2. LedgersOK(b)
  BY InOrderBook
<1>3. /\ IsFiniteSet(b.subscriptions) /\ \A s \in b.subscriptions : s.amount \in Nat
      /\ success \in Share /\ softShare \in Share /\ recovery \in Share
  BY <1>2 DEF LedgersOK
<1>4. scheduled \in Nat
  <2>1. IsFiniteSet(active) /\ \A s \in active : amount[s] \in Nat
    BY <1>3, FS_Subset DEF Active
  <2>. HIDE DEF active, amount
  <2>. QED
    BY <2>1, SumIsNumber
<1>5. /\ B \in Nat \ {0} /\ success \in Nat /\ success <= B /\ softShare \in Nat /\ softShare <= B
      /\ recovery \in Nat /\ recovery <= B
  BY <1>3, ShareIs
<1>. HIDE DEF scheduled, success, softShare, recovery, B
<1>6. atRisk \in Nat
  <2>. DEFINE s == B - success
  <2>1. s \in Nat /\ s <= B
    BY <1>5
  <2>. HIDE DEF s
  <2>2. (scheduled * s) \div B \in Nat
    BY <1>4, <1>5, <2>1, PartOf
  <2>. QED
    BY <2>2 DEF s
<1>. HIDE DEF atRisk
<1>7. soft \in Nat /\ soft <= atRisk
  BY <1>5, <1>6, PartOf
<1>. HIDE DEF soft
<1>8. recoverable \in Nat /\ recoverable <= soft
  BY <1>5, <1>7, PartOf
<1>. HIDE DEF recoverable
<1>9. soft + (atRisk - soft) = atRisk
  BY <1>6, <1>7
<1>. QED
  BY <1>1, <1>8, <1>9

LEMMA PanesDoTie == CycleInv => PanesTie
<1>. SUFFICES ASSUME CycleInv PROVE PanesTie
  OBVIOUS
<1>0. book \in Books /\ book.kind \in {"engine", "tenant"}
  BY InOrderBook DEF CycleInv, Typed
<1>1. Total(1..5, LAMBDA b : Aging(book)[b]) = Collections(book).totalOpen
  BY <1>0, AgingTies
<1>2. Collections(book).totalExpected <= Collections(book).totalOpen
  BY <1>0, ExpectedWithinFace
<1>. DEFINE may == {p \in OpenPayables(book) : ~Protected(book, p)}
            given == {p \in OpenPayables(book) :
                        \A v \in book.vendors : v.id = p.vendor => v.class \notin Policy(book).protected}
<1>3. /\ Deferrals(book, 30).deferrable = SumOver([p \in may |-> p.open], may)
      /\ \A r \in Range(Deferrals(book, 30).shown.rows) : r.protected => r.days = 0
  BY <1>0, DeferralsTie
<1>4. may = given
  <2>1. /\ \A p \in OpenPayables(book) :
              Vendor(book, p) \in book.vendors /\ Vendor(book, p).id = p.vendor
        /\ \A v, w \in book.vendors : v.id = w.id => v = w
    BY <1>0, OpenRows
  <2>. QED
    BY <2>1 DEF Protected
<1>5. Deferrals(book, 30).deferrable = Total(given, LAMBDA p : p.open)
  <2>. HIDE DEF may, given
  <2>. QED
    BY <1>3, <1>4 DEF Total
<1>6. Total(book.vendors, LAMBDA v : SupplierRisk(book, v).concentration) <= 100
  BY <1>0, ConcentrationIs DEF Total
<1>7. "debt" \in Available(book) => CovenantStatus(book) # Refused
  <2>1. "debt" \in Available(book) => book.kind = "engine"
    BY <1>0 DEF Available, TenantAvailable
  <2>2. book.kind = "engine" => CovenantStatus(book) # Refused
    <3>. DEFINE s == [tested |-> book.covenants,
                      breached |-> {c \in book.covenants : ~CovenantPasses(book, c)}]
    <3>1. book.kind = "engine" => CovenantStatus(book) = s
      BY DEF CovenantStatus
    <3>2. "refused" \notin DOMAIN s /\ "refused" \in DOMAIN Refused
      BY DEF Refused
    <3>. HIDE DEF s
    <3>. QED
      BY <3>1, <3>2
  <2>. QED
    BY <2>1, <2>2
<1>8. "dodo" \in Available(book) =>
          /\ Declines(book).soft + Declines(book).hard = Declines(book).atRisk
          /\ Declines(book).recoverable <= Declines(book).soft
  <2>1. "dodo" \in Available(book) => book.kind = "engine"
    BY <1>0 DEF Available, TenantAvailable
  <2>. QED
    BY <1>0, <2>1, DeclinesTie
<1>. QED
  BY <1>1, <1>2, <1>3, <1>5, <1>6, <1>7, <1>8 DEF PanesTie

\* The figures of one Monday agree: with books of any size, position, exceptions and
\* policy check tell one story when the book stood still, no closed week is measured
\* against a plan taken after it began, the panes of the tools add up, and what the
\* tools cite can be looked up (tools/engine.py, tools/tenant.py, cycle.py).
THEOREM TheFiguresAgree == CycleSpec => []FiguresAgree
<1>1. CycleInv => FiguresAgree
  BY StoryIsOne, HindsightIsNot, PanesDoTie, CitedIsFound DEF FiguresAgree
<1>. QED
  BY <1>1, MondayFits, PTL

-----------------------------------------------------------------------------
(* The war room                                                            *)
(*                                                                         *)
(* What is recommended is fixed by the step that closes the room, so the   *)
(* invariant is about the loop before it: how far the tester has come      *)
(* (Testing), that every attempt so far is a bundle that failed (Failed)   *)
(* and what has been streamed for it (Streamed).                           *)

\* run() has not reached the loop over the candidates.
Before == {"new", "planning", "investigating", "resolving", "generating", "position"}

\* The opening phases and n times `replanning`.
Streaming(s, n) ==
    /\ Len(s) = 5 + n
    /\ \A i \in 1..(5 + n) : s[i] = IF i <= 5 THEN Opening[i] ELSE "replanning"

\* The entries of the replan history are bundles that failed, by rank.
Failed(reps, atts) ==
    \A i \in 1..Len(atts) :
        /\ atts[i].attempt = i /\ atts[i].bundle = i /\ reps[i].bundle = i
        /\ atts[i].tightened \in reps[i].tested \ survives[i]

\* The first n of the opening phases.
Opened(n) == Len(shown) = n /\ \A i \in 1..n : shown[i] = Opening[i]

\* What has been streamed at each point where run() is suspended.
Streamed ==
    /\ at = "new" => Opened(0)
    /\ at = "planning" => Opened(1)
    /\ at = "investigating" => Opened(2)
    /\ at = "resolving" => Opened(3)
    /\ at = "generating" => Opened(4)
    /\ at = "position" => Opened(5)
    /\ at \in {"menu", "choosing"} => Streaming(shown, Len(attempts))

\* Before the loop nothing has been tested.
Untested ==
    at \in Before \cup {"raised"} => reports = <<>> /\ attempts = <<>> /\ testing = 0

\* In the loop the bundle in hand is the one after those that failed.
Testing ==
    at \in {"menu", "choosing"} =>
        /\ testing \in 1..Len(survives) /\ testing <= MaxReplans + 1
        /\ Len(reports) = testing - 1 /\ Len(attempts) = testing - 1
        /\ Failed(reports, attempts)

\* Only a closed room has a recommendation.
Answered == recommendation # None => at = "closed"

\* The inductive invariant.
WarRoom ==
    /\ TypeOK /\ Streamed /\ Untested /\ Testing /\ Answered
    /\ CleanMeansSurvived /\ HistoryIsComplete /\ PhaseOrder

-----------------------------------------------------------------------------
(* What is streamed *)

\* The documented opening.
LEMMA OpeningIs ==
    /\ Opening[1] = "planning" /\ Opening[2] = "investigating"
    /\ Opening[3] = "resolving_conflicts" /\ Opening[4] = "generating_scenarios"
    /\ Opening[5] = "stress_testing"
  BY DEF Opening

\* One phase more.
LEMMA OpenedMore ==
    ASSUME NEW n \in 0..4, Opened(n), shown \in Seq(Phases), Opening[n + 1] \in Phases,
           shown' = Append(shown, Opening[n + 1])
    PROVE  Opened(n + 1)'
  BY DEF Opened

\* One more bundle failed, one more `replanning`.
LEMMA StreamingMore ==
    ASSUME NEW s \in Seq(Phases), NEW n \in Nat, Streaming(s, n)
    PROVE  /\ Append(s, "replanning") \in Seq(Phases)
           /\ Streaming(Append(s, "replanning"), n + 1)
<1>1. Append(s, "replanning") \in Seq(Phases)
  BY DEF Phases
<1>. QED
  BY <1>1 DEF Streaming

\* The end of run() streams its two phases after them.
LEMMA StreamingEnds ==
    ASSUME NEW s \in Seq(Phases), NEW n \in Nat, Streaming(s, n)
    PROVE  LET e == s \o <<"recommending", "closed">> IN
           /\ e \in Seq(Phases) /\ Len(e) = 7 + n
           /\ \A i \in 1..(5 + n) : e[i] = IF i <= 5 THEN Opening[i] ELSE "replanning"
           /\ SubSeq(e, 6 + n, Len(e)) = <<"recommending", "closed">>
<1>. DEFINE e == s \o <<"recommending", "closed">>
<1>1. Len(s) = 5 + n
  BY DEF Streaming
<1>2. <<"recommending", "closed">> \in Seq(Phases)
  BY DEF Phases
<1>3. e \in Seq(Phases) /\ Len(e) = 7 + n
  BY <1>1, <1>2
<1>4. \A i \in 1..(5 + n) : e[i] = IF i <= 5 THEN Opening[i] ELSE "replanning"
  BY <1>1, <1>2 DEF Streaming
<1>5. e[6 + n] = "recommending" /\ e[7 + n] = "closed"
  BY <1>1, <1>2
<1>6. SubSeq(e, 6 + n, Len(e)) = <<"recommending", "closed">>
  <2>. HIDE DEF e
  <2>1. SubSeq(e, 6 + n, 7 + n) \in Seq(Phases) /\ Len(SubSeq(e, 6 + n, 7 + n)) = 2
    BY <1>3
  <2>2. /\ SubSeq(e, 6 + n, 7 + n)[1] = "recommending"
        /\ SubSeq(e, 6 + n, 7 + n)[2] = "closed"
    BY <1>3, <1>5
  <2>3. \A i \in 1..2 : SubSeq(e, 6 + n, 7 + n)[i] = <<"recommending", "closed">>[i]
    BY <2>2
  <2>4. SubSeq(e, 6 + n, 7 + n) = <<"recommending", "closed">>
    BY <1>2, <2>1, <2>3, SeqEqual
  <2>. QED
    BY <1>3, <2>4
<1>. QED
  BY <1>3, <1>4, <1>6

\* The order of the phases, while the room is open.
LEMMA OpenOrder ==
    ASSUME TypeOK, Streamed, Untested, at \notin {"closed", "raised"}
    PROVE  PhaseOrder
<1>1. CASE at \in {"menu", "choosing"}
  <2>1. Streaming(shown, Len(attempts)) /\ Len(attempts) \in Nat /\ shown \in Seq(Phases)
    BY <1>1 DEF Streamed, TypeOK
  <2>2. Len(shown) = 5 + Len(attempts)
    BY <2>1 DEF Streaming
  <2>3. SubSeq(shown, 6 + Len(attempts), Len(shown)) = <<>>
    BY <2>1, <2>2
  <2>4. DOMAIN shown = 1..(5 + Len(attempts))
    BY <2>1, <2>2
  <2>5. \A i \in DOMAIN shown : shown[i] = IF i <= 5 THEN Opening[i] ELSE "replanning"
    BY <2>1, <2>4 DEF Streaming
  <2>. QED
    BY <1>1, <2>3, <2>4, <2>5 DEF PhaseOrder
<1>2. CASE at \in Before
  <2>1. attempts = <<>>
    BY <1>2 DEF Untested
  <2>2. /\ Len(shown) <= 5 /\ shown \in Seq(Phases)
        /\ \A i \in DOMAIN shown : shown[i] = Opening[i]
    <3>1. shown \in Seq(Phases)
      BY DEF TypeOK
    <3>2. \E n \in 0..5 : Opened(n)
      BY <1>2 DEF Streamed, Before
    <3>. QED
      BY <3>1, <3>2 DEF Opened
  <2>. QED
    BY <2>1, <2>2 DEF PhaseOrder
<1>. QED
  BY <1>1, <1>2 DEF TypeOK, Points, Before

-----------------------------------------------------------------------------
(* The step that closes the room *)

\* The recommendation is of the bundle that passed, or of the best one for
\* review, and never without a mark when none passed.
LEMMA RecommendationIs ==
    ASSUME TypeOK, NEW passed \in 0..Len(survives), NEW reasons \in SUBSET Reasons,
           NEW atts \in Seq(Attempts)
    PROVE  LET r == Recommendation(passed, reasons, atts) IN
           /\ r \in Answers
           /\ r.replans = atts /\ r.passed = (passed # 0)
           /\ r.degraded = (passed = 0 \/ reasons # {})
           /\ passed # 0 => r.chosen = passed
<1>. DEFINE chosen == IF passed # 0 THEN passed ELSE IF survives = <<>> THEN 0 ELSE 1
<1>1. survives \in Seq(Survivals) /\ Len(survives) <= MaxBundles /\ MaxBundles \in Nat
  BY InvestigationAssumption DEF TypeOK
<1>2. survives # <<>> => Len(survives) >= 1
  BY <1>1, EmptySeq
<1>3. chosen \in 0..MaxBundles
  BY <1>1, <1>2
<1>. HIDE DEF chosen
<1>4. Recommendation(passed, reasons, atts) =
        [chosen |-> chosen, passed |-> passed # 0,
         degraded |-> passed = 0 \/ reasons # {}, reasons |-> reasons, replans |-> atts]
  BY DEF Recommendation, chosen
<1>5. Recommendation(passed, reasons, atts) \in Answers
  BY <1>3, <1>4 DEF Answers
<1>6. passed # 0 => chosen = passed
  BY DEF chosen
<1>. QED
  BY <1>4, <1>5, <1>6

\* From the loop's arguments to the closed room.
LEMMA CloseHolds ==
    ASSUME WarRoom, NEW passed \in 0..Len(survives), NEW phases \in Seq(Phases),
           NEW reps \in Seq(Reports), NEW atts \in Seq(Attempts),
           NEW reasons \in SUBSET Reasons,
           Close(passed, phases, reps, atts, reasons),
           Len(reps) <= MaxReplans + 1,
           Streaming(phases, Len(atts)), Failed(reps, atts),
           passed = 0 => Len(atts) = Len(reps),
           passed # 0 => Len(reps) = passed /\ Len(atts) = passed - 1,
           passed # 0 /\ reasons = {} =>
               /\ Last(reps).bundle = passed /\ Last(reps).selected
               /\ Last(reps).tested # {} /\ Last(reps).tested \subseteq survives[passed]
    PROVE  WarRoom'
<1>1. /\ at' = "closed" /\ testing' = 0 /\ reports' = reps /\ attempts' = atts
      /\ degradations' = reasons /\ shown' = phases \o <<"recommending", "closed">>
      /\ recommendation' = Recommendation(passed, reasons, atts)
      /\ late' = late /\ survives' = survives
  BY DEF Close
<1>2. Len(atts) \in Nat /\ Len(reps) \in Nat /\ Len(survives) \in Nat
  BY DEF WarRoom, TypeOK
<1>3. /\ recommendation' \in Answers
      /\ recommendation'.replans = atts /\ recommendation'.passed = (passed # 0)
      /\ recommendation'.degraded = (passed = 0 \/ reasons # {})
      /\ passed # 0 => recommendation'.chosen = passed
  BY <1>1, RecommendationIs DEF WarRoom
<1>4. /\ shown' \in Seq(Phases) /\ Len(shown') = 7 + Len(atts)
      /\ \A i \in 1..(5 + Len(atts)) : shown'[i] = IF i <= 5 THEN Opening[i] ELSE "replanning"
      /\ SubSeq(shown', 6 + Len(atts), Len(shown')) = <<"recommending", "closed">>
  BY <1>1, <1>2, StreamingEnds
<1>5. TypeOK'
  BY <1>1, <1>2, <1>3, <1>4 DEF WarRoom, TypeOK, Points
<1>6. Streamed' /\ Untested' /\ Testing' /\ Answered'
  BY <1>1 DEF Streamed, Untested, Testing, Answered, Before
<1>7. CleanMeansSurvived'
  <2>. SUFFICES ASSUME ~recommendation'.degraded
                PROVE  /\ reports' # <<>>
                       /\ Last(reports)'.bundle = recommendation'.chosen
                       /\ Last(reports)'.selected /\ Last(reports)'.tested # {}
                       /\ Last(reports)'.tested \subseteq survives'[recommendation'.chosen]
    BY DEF CleanMeansSurvived
  <2>1. passed # 0 /\ reasons = {} /\ recommendation'.chosen = passed
    BY <1>3
  <2>2. Last(reports)' = Last(reps)
    BY <1>1 DEF Last
  <2>3. reps # <<>>
    BY <1>2, <2>1
  <2>. QED
    BY <1>1, <2>1, <2>2, <2>3
<1>8. HistoryIsComplete'
  <2>1. (IF recommendation'.passed THEN Len(reports') - 1 ELSE Len(reports')) = Len(atts)
    BY <1>1, <1>2, <1>3
  <2>2. \A i \in 1..Len(atts) : /\ atts[i].attempt = i /\ atts[i].bundle = reps[i].bundle
                                /\ atts[i].tightened \in reps[i].tested \ survives[i]
    BY DEF Failed
  <2>3. recommendation'.passed => recommendation'.chosen = Len(atts) + 1
    <3>1. CASE passed = 0
      BY <1>3, <3>1
    <3>2. CASE passed # 0
      <4>1. passed = Len(atts) + 1
        BY <1>2, <3>2
      <4>. QED
        BY <1>3, <3>2, <4>1
    <3>. QED
      BY <3>1, <3>2
  <2>. QED
    BY <1>1, <1>3, <2>1, <2>2, <2>3 DEF HistoryIsComplete
<1>9. PhaseOrder'
  <2>1. DOMAIN shown' = 1..(7 + Len(atts))
    BY <1>4
  <2>2. \A i \in DOMAIN shown' :
            /\ i <= 5 => shown'[i] = Opening[i]
            /\ i > 5 /\ i <= 5 + Len(atts) => shown'[i] = "replanning"
    BY <1>2, <1>4, <2>1, SMTT(40)
  <2>. QED
    BY <1>1, <1>4, <2>2 DEF PhaseOrder
<1>. QED
  BY <1>5, <1>6, <1>7, <1>8, <1>9 DEF WarRoom

\* A step that leaves the room open keeps what is said of a recommendation.
LEMMA StillOpen ==
    ASSUME TypeOK', Streamed', Untested', Testing', recommendation' = None,
           at' \notin {"closed", "raised"}
    PROVE  WarRoom'
<1>1. PhaseOrder'
  <2>1. (TypeOK /\ Streamed /\ Untested /\ at \notin {"closed", "raised"} => PhaseOrder)'
    BY OpenOrder, PTL
  <2>. QED
    BY <2>1
<1>. QED
  BY <1>1 DEF WarRoom, Answered, CleanMeansSurvived, HistoryIsComplete

\* The head of the loop, after i - 1 bundles that failed.
LEMMA LoopHolds ==
    ASSUME WarRoom, recommendation = None,
           NEW i \in 1..(Len(survives) + 1), i <= MaxReplans + 2,
           NEW phases \in Seq(Phases), NEW reps \in Seq(Reports), NEW atts \in Seq(Attempts),
           NEW reasons \in SUBSET Reasons,
           Len(reps) = i - 1, Len(atts) = i - 1,
           Streaming(phases, Len(atts)), Failed(reps, atts),
           Loop(i, phases, reps, atts, reasons)
    PROVE  WarRoom'
<1>1. MaxReplans \in Nat /\ Len(survives) \in Nat /\ i \in Nat
  BY InvestigationAssumption DEF WarRoom, TypeOK
<1>2. /\ reasons \cup Unpassed(reps, atts) \in SUBSET Reasons
      /\ reasons \cup {"wall clock"} \cup Unpassed(reps, atts) \in SUBSET Reasons
  BY DEF Unpassed, Reasons
<1>3. CASE i > Smaller(Len(survives), MaxReplans + 1)
  <2>. DEFINE all == reasons \cup Unpassed(reps, atts)
  <2>1. Close(0, phases, reps, atts, all) /\ all \in SUBSET Reasons
    BY <1>2, <1>3 DEF Loop
  <2>2. 0 \in 0..Len(survives) /\ Len(reps) <= MaxReplans + 1 /\ Len(atts) = Len(reps)
    BY <1>1
  <2>. HIDE DEF all
  <2>. QED
    BY <2>1, <2>2, CloseHolds
<1>4. CASE ~(i > Smaller(Len(survives), MaxReplans + 1)) /\ late
  <2>. DEFINE all == reasons \cup {"wall clock"} \cup Unpassed(reps, atts)
  <2>1. Close(0, phases, reps, atts, all) /\ all \in SUBSET Reasons
    BY <1>2, <1>4 DEF Loop
  <2>2. 0 \in 0..Len(survives) /\ Len(reps) <= MaxReplans + 1 /\ Len(atts) = Len(reps)
    BY <1>1
  <2>. HIDE DEF all
  <2>. QED
    BY <2>1, <2>2, CloseHolds
<1>5. CASE ~(i > Smaller(Len(survives), MaxReplans + 1)) /\ ~late
  <2>1. /\ at' = "menu" /\ testing' = i /\ reports' = reps /\ attempts' = atts
        /\ degradations' = reasons /\ shown' = phases
        /\ UNCHANGED <<late, survives, recommendation>>
    BY <1>5 DEF Loop
  <2>2. i <= Len(survives) /\ i <= MaxReplans + 1
    BY <1>1, <1>5 DEF Smaller
  <2>3. TypeOK'
    BY <1>1, <2>1, <2>2 DEF WarRoom, TypeOK, Points
  <2>4. Streamed' /\ Untested'
    BY <2>1 DEF Streamed, Streaming, Untested, Before
  <2>5. Testing'
    BY <1>1, <2>1, <2>2 DEF Testing, Failed
  <2>. QED
    BY <2>1, <2>3, <2>4, <2>5, StillOpen
<1>. QED
  BY <1>3, <1>4, <1>5

-----------------------------------------------------------------------------
(* The steps of run() *)

\* One of the phases before the loop.
LEMMA PhaseHolds ==
    ASSUME WarRoom, NEW from \in Before, NEW to \in Before, NEW phase \in Phases,
           NEW reason \in Reasons,
           Phase(from, to, phase, reason),
           UNCHANGED <<late, survives, testing, reports, attempts, recommendation>>,
           Streamed'
    PROVE  WarRoom'
<1>1. /\ at = from /\ at' = to /\ shown' = Append(shown, phase)
      /\ degradations' \subseteq Reasons
  BY DEF Phase, WarRoom, TypeOK
<1>2. TypeOK'
  BY <1>1 DEF WarRoom, TypeOK, Before, Points
<1>3. Untested' /\ Testing' /\ recommendation' = None
  BY <1>1 DEF WarRoom, Untested, Testing, Answered, Before
<1>. QED
  BY <1>1, <1>2, <1>3, StillOpen DEF Before

\* What compose() builds is a sequence of bundles.
LEMMA ComposeHolds ==
    ASSUME WarRoom, Compose
    PROVE  WarRoom'
<1>1. /\ at = "generating" /\ at' = "position" /\ shown' = Append(shown, "stress_testing")
      /\ UNCHANGED <<late, degradations, testing, reports, attempts, recommendation>>
  BY DEF Compose
<1>2. PICK n \in 0..MaxBundles : survives' \in [1..n -> Survivals]
  BY DEF Compose
<1>3. survives' \in Seq(Survivals) /\ Len(survives') = n
  BY <1>2, InvestigationAssumption
<1>4. testing = 0 /\ shown \in Seq(Phases)
  BY <1>1 DEF WarRoom, Untested, TypeOK, Before
<1>5. shown' \in Seq(Phases)
  BY <1>1, <1>4 DEF Phases
<1>6. TypeOK'
  BY <1>1, <1>2, <1>3, <1>4, <1>5, InvestigationAssumption DEF WarRoom, TypeOK, Points
<1>7. Streamed'
  <2>1. Opened(5)'
    BY <1>1, <1>4, OpeningIs, OpenedMore DEF WarRoom, Streamed, Phases
  <2>. QED
    BY <1>1, <2>1 DEF Streamed
<1>8. Untested' /\ Testing' /\ recommendation' = None
  BY <1>1 DEF WarRoom, Untested, Testing, Answered, Before
<1>. QED
  BY <1>1, <1>6, <1>7, <1>8, StillOpen

\* A ToolError leaves run() with what was streamed and nothing recommended.
LEMMA RaisesHolds ==
    ASSUME WarRoom, Raises
    PROVE  WarRoom'
<1>1. /\ at \in Before /\ at' = "raised"
      /\ UNCHANGED <<late, shown, degradations, survives, testing, reports, attempts,
                     recommendation>>
  BY DEF Raises, Before
<1>2. recommendation = None /\ at \notin {"menu", "choosing", "closed"}
  BY <1>1 DEF WarRoom, Answered, Before
<1>3. TypeOK'
  BY <1>1 DEF WarRoom, TypeOK, Points
<1>4. Streamed' /\ Untested' /\ Testing' /\ Answered'
  BY <1>1, <1>2 DEF WarRoom, Streamed, Untested, Testing, Answered
<1>5. CleanMeansSurvived' /\ HistoryIsComplete'
  BY <1>1, <1>2 DEF CleanMeansSurvived, HistoryIsComplete
<1>6. PhaseOrder'
  BY <1>1, <1>2 DEF WarRoom, PhaseOrder
<1>. QED
  BY <1>3, <1>4, <1>5, <1>6 DEF WarRoom

\* A step inside the loop: the tester waits, or the clock runs out.
LEMMA WaitHolds ==
    ASSUME WarRoom, at \notin {"closed", "raised"},
           UNCHANGED <<shown, degradations, survives, testing, reports, attempts,
                       recommendation>>,
           \/ at' = at /\ late' \in BOOLEAN
           \/ at = "menu" /\ at' = "choosing" /\ late' = late
    PROVE  WarRoom'
<1>1. TypeOK'
  BY DEF WarRoom, TypeOK, Points
<1>2. Streamed'
  BY DEF WarRoom, Streamed, Opened, Streaming
<1>3. Untested' /\ Testing'
  BY DEF WarRoom, Untested, Testing, Failed, Before
<1>4. recommendation' = None /\ at' \notin {"closed", "raised"}
  BY DEF WarRoom, Answered
<1>. QED
  BY <1>1, <1>2, <1>3, <1>4, StillOpen

\* The position is read and the loop entered, with nothing tested.
LEMMA PositionReadHolds ==
    ASSUME WarRoom, PositionRead
    PROVE  WarRoom'
<1>1. at = "position" /\ Loop(1, shown, reports, attempts, degradations)
  BY DEF PositionRead
<1>2. /\ Opened(5) /\ reports = <<>> /\ attempts = <<>> /\ recommendation = None
  BY <1>1 DEF WarRoom, Streamed, Untested, Answered, Before
<1>3. /\ shown \in Seq(Phases) /\ reports \in Seq(Reports) /\ attempts \in Seq(Attempts)
      /\ degradations \in SUBSET Reasons /\ Len(survives) \in Nat /\ MaxReplans \in Nat
  BY InvestigationAssumption DEF WarRoom, TypeOK
<1>4. Len(reports) = 1 - 1 /\ Len(attempts) = 1 - 1
  BY <1>2
<1>5. Streaming(shown, Len(attempts)) /\ Failed(reports, attempts)
  BY <1>2, <1>4 DEF Failed, Streaming, Opened
<1>6. 1 \in 1..(Len(survives) + 1) /\ 1 <= MaxReplans + 2
  BY <1>3
<1>. QED
  BY <1>1, <1>2, <1>3, <1>4, <1>5, <1>6, LoopHolds

\* What the tester has in hand while it waits for the menu or for the choice.
LEMMA InHand ==
    ASSUME WarRoom, at \in {"menu", "choosing"}
    PROVE  /\ testing \in 1..Len(survives) /\ testing <= MaxReplans + 1 /\ testing \in Bundles
           /\ testing \in Nat /\ MaxReplans \in Nat /\ Len(survives) \in Nat
           /\ shown \in Seq(Phases) /\ reports \in Seq(Reports) /\ attempts \in Seq(Attempts)
           /\ degradations \in SUBSET Reasons /\ survives[testing] \in Survivals
           /\ Len(reports) = testing - 1 /\ Len(attempts) = testing - 1
           /\ Failed(reports, attempts) /\ Streaming(shown, Len(attempts))
           /\ recommendation = None
<1>1. /\ testing \in 1..Len(survives) /\ testing <= MaxReplans + 1
      /\ Len(reports) = testing - 1 /\ Len(attempts) = testing - 1
      /\ Failed(reports, attempts)
      /\ Streaming(shown, Len(attempts)) /\ recommendation = None
  BY DEF WarRoom, Testing, Streamed, Answered
<1>2. /\ shown \in Seq(Phases) /\ reports \in Seq(Reports) /\ attempts \in Seq(Attempts)
      /\ degradations \in SUBSET Reasons
      /\ survives \in Seq(Survivals) /\ Len(survives) <= MaxBundles /\ Len(survives) \in Nat
      /\ MaxReplans \in Nat /\ MaxBundles \in Nat
  BY InvestigationAssumption DEF WarRoom, TypeOK
<1>3. testing \in Bundles /\ testing \in Nat /\ survives[testing] \in Survivals
  BY <1>1, <1>2 DEF Bundles
<1>. QED
  BY <1>1, <1>2, <1>3

\* One more report leaves the entries so far where they are.
LEMMA FailedStill ==
    ASSUME NEW reps \in Seq(Reports), NEW atts \in Seq(Attempts), Failed(reps, atts),
           NEW n \in Nat, Len(reps) = n, Len(atts) = n, NEW r \in Reports
    PROVE  /\ Append(reps, r) \in Seq(Reports) /\ Len(Append(reps, r)) = n + 1
           /\ Last(Append(reps, r)) = r
           /\ Failed(Append(reps, r), atts)
<1>1. /\ Append(reps, r) \in Seq(Reports) /\ Len(Append(reps, r)) = n + 1
      /\ \A i \in 1..n : Append(reps, r)[i] = reps[i]
      /\ Append(reps, r)[n + 1] = r
  OBVIOUS
<1>. QED
  BY <1>1 DEF Failed, Last

\* Nothing could be calibrated: the bundle passes, and the room says so.
LEMMA MenuMissingHolds ==
    ASSUME WarRoom, MenuMissing
    PROVE  WarRoom'
<1>. DEFINE r == [bundle |-> testing, tested |-> {}, selected |-> FALSE]
            reps == Append(reports, r)
            reasons == degradations \cup {"selection"}
<1>1. at = "menu" /\ Close(testing, shown, reps, attempts, reasons)
  BY DEF MenuMissing
<1>2. r \in Reports
  BY <1>1, InHand DEF Reports
<1>. HIDE DEF r
<1>3. reps \in Seq(Reports) /\ Len(reps) = testing /\ Failed(reps, attempts)
  <2>1. Len(reports) \in Nat /\ Len(attempts) = Len(reports) /\ Len(reports) + 1 = testing
    BY <1>1, InHand
  <2>. QED
    BY <1>1, <1>2, <2>1, InHand, FailedStill
<1>4. reasons \in SUBSET Reasons /\ reasons # {}
  BY <1>1, InHand DEF Reasons
<1>. HIDE DEF reps, reasons
<1>5. testing \in 0..Len(survives) /\ testing # 0 /\ Len(reps) <= MaxReplans + 1
  BY <1>1, <1>3, InHand
<1>. QED
  BY <1>1, <1>3, <1>4, <1>5, InHand, CloseHolds

\* The bundle in hand is tested: it passes and the room closes, or it joins the
\* history and the loop goes round.
LEMMA StressHolds ==
    ASSUME WarRoom, NEW picked \in SUBSET Stressors, Stress(picked)
    PROVE  WarRoom'
<1>. DEFINE report == Report(picked)
            reps == Append(reports, report)
            reasons == degradations \cup Reason(report)
            failed == report.tested \ survives[testing]
<1>1. at = "choosing"
  BY DEF Stress
<1>. DEFINE tested == IF picked = {} THEN Stressors ELSE picked
<1>2. /\ report \in Reports /\ report.bundle = testing
      /\ report.tested = tested /\ tested \subseteq Stressors /\ tested # {}
      /\ report.selected = (picked # {})
  <2>1. tested \subseteq Stressors /\ tested # {}
    BY InvestigationAssumption
  <2>2. report = [bundle |-> testing, tested |-> tested, selected |-> picked # {}]
    BY DEF Report
  <2>. HIDE DEF tested, report
  <2>. QED
    BY <1>1, <2>1, <2>2, InHand DEF Reports
<1>3. reasons \in SUBSET Reasons /\ (reasons = {} => report.selected)
  <2>. HIDE DEF report
  <2>. QED
    BY <1>1, InHand DEF Reason, Reasons
<1>. HIDE DEF tested
<1>4. \/ failed = {} /\ Close(testing, shown, reps, attempts, reasons)
      \/ \E worst \in failed :
            Loop(testing + 1, Append(shown, "replanning"), reps,
                 Append(attempts, Replan(report, worst)), reasons)
  BY DEF Stress
<1>. HIDE DEF report
<1>5. /\ reps \in Seq(Reports) /\ Len(reps) = testing /\ Failed(reps, attempts)
      /\ Last(reps) = report
  <2>1. Len(reports) \in Nat /\ Len(attempts) = Len(reports) /\ Len(reports) + 1 = testing
    BY <1>1, InHand
  <2>. QED
    BY <1>1, <1>2, <2>1, InHand, FailedStill
<1>6. testing \in 0..Len(survives) /\ testing # 0 /\ Len(reps) <= MaxReplans + 1
  BY <1>1, <1>5, InHand
<1>7. CASE failed = {} /\ Close(testing, shown, reps, attempts, reasons)
  <2>1. /\ Last(reps).bundle = testing /\ Last(reps).tested # {}
        /\ Last(reps).tested \subseteq survives[testing]
        /\ reasons = {} => Last(reps).selected
    BY <1>2, <1>3, <1>5, <1>7
  <2>. HIDE DEF reps, reasons
  <2>. QED
    BY <1>1, <1>3, <1>5, <1>6, <1>7, <2>1, InHand, CloseHolds
<1>8. ASSUME NEW worst \in failed,
             Loop(testing + 1, Append(shown, "replanning"), reps,
                  Append(attempts, Replan(report, worst)), reasons)
      PROVE  WarRoom'
  <2>. DEFINE a == Replan(report, worst)
              atts == Append(attempts, a)
              phases == Append(shown, "replanning")
  <2>1. /\ a \in Attempts /\ a.attempt = testing /\ a.bundle = testing
        /\ a.tightened = worst
    <3>1. a = [attempt |-> testing, bundle |-> testing, tightened |-> worst]
      BY DEF Replan
    <3>2. testing \in 1..(MaxReplans + 1) /\ testing \in Bundles /\ worst \in Stressors
      BY <1>1, <1>2, InHand
    <3>. HIDE DEF a
    <3>. QED
      BY <3>1, <3>2 DEF Attempts
  <2>. HIDE DEF a
  <2>2. Len(attempts) \in Nat /\ Len(attempts) + 1 = testing /\ attempts \in Seq(Attempts)
    BY <1>1, InHand
  <2>3. /\ atts \in Seq(Attempts) /\ Len(atts) = testing /\ atts[testing] = a
        /\ \A i \in 1..Len(attempts) : atts[i] = attempts[i]
    BY <2>1, <2>2
  <2>4. phases \in Seq(Phases) /\ Streaming(phases, Len(atts))
    BY <1>1, <2>2, <2>3, InHand, StreamingMore
  <2>5. reps[testing] = report
    BY <1>5 DEF Last
  <2>. HIDE DEF atts, phases, reps, reasons
  <2>6. Failed(reps, atts)
    <3>. SUFFICES ASSUME NEW i \in 1..testing
                  PROVE  /\ atts[i].attempt = i /\ atts[i].bundle = i /\ reps[i].bundle = i
                         /\ atts[i].tightened \in reps[i].tested \ survives[i]
      BY <2>3 DEF Failed
    <3>1. CASE i = testing
      BY <1>2, <2>1, <2>3, <2>5, <3>1
    <3>2. CASE i # testing
      <4>1. i \in 1..Len(attempts)
        BY <2>2, <3>2
      <4>. QED
        BY <1>5, <2>3, <4>1 DEF Failed
    <3>. QED
      BY <3>1, <3>2
  <2>7. /\ testing + 1 \in 1..(Len(survives) + 1) /\ testing + 1 <= MaxReplans + 2
        /\ Len(reps) = (testing + 1) - 1 /\ Len(atts) = (testing + 1) - 1
        /\ recommendation = None
    BY <1>1, <1>5, <2>3, InHand
  <2>8. Loop(testing + 1, phases, reps, atts, reasons)
    BY <1>8 DEF phases, atts, a
  <2>. QED
    BY <1>3, <1>5, <2>3, <2>4, <2>6, <2>7, <2>8, LoopHolds
<1>. QED
  BY <1>4, <1>7, <1>8

-----------------------------------------------------------------------------
(* The theorems *)

\* The loop's history, the stream and the recommendation agree in every state of
\* a war room, wherever the clock runs out and whatever fails or raises.
THEOREM WarRoomHolds == Spec => []WarRoom
<1>1. Init => WarRoom
  <2>. SUFFICES ASSUME Init PROVE WarRoom
    OBVIOUS
  <2>1. TypeOK
    <3>1. /\ <<>> \in Seq(Survivals) /\ <<>> \in Seq(Reports) /\ <<>> \in Seq(Attempts)
          /\ <<>> \in Seq(Phases) /\ Len(<<>>) = 0
      BY EmptySeq
    <3>2. Len(survives) = 0 /\ Len(reports) = 0
      BY <3>1 DEF Init
    <3>3. /\ Len(survives) <= MaxBundles /\ testing \in 0..Len(survives)
          /\ Len(reports) <= MaxReplans + 1
      BY <3>2, InvestigationAssumption DEF Init
    <3>4. /\ at \in Points /\ late \in BOOLEAN /\ degradations \subseteq Reasons
          /\ recommendation \in Answers \cup {None}
      BY DEF Init, Points
    <3>. QED
      BY <3>1, <3>3, <3>4 DEF Init, TypeOK
  <2>2. Streamed /\ Untested /\ Testing /\ Answered
    BY DEF Init, Streamed, Opened, Untested, Testing, Answered
  <2>3. CleanMeansSurvived /\ HistoryIsComplete
    BY DEF Init, CleanMeansSurvived, HistoryIsComplete
  <2>4. PhaseOrder
    BY <2>1, <2>2, OpenOrder DEF Init
  <2>. QED
    BY <2>1, <2>2, <2>3, <2>4 DEF WarRoom
<1>2. WarRoom /\ [Next]_vars => WarRoom'
  <2>. SUFFICES ASSUME WarRoom, [Next]_vars PROVE WarRoom'
    OBVIOUS
  <2>1. CASE Open
    <3>1. /\ at = "new" /\ at' = "planning" /\ shown' = <<"planning">>
          /\ UNCHANGED <<late, degradations, survives, testing, reports, attempts,
                         recommendation>>
      BY <2>1 DEF Open
    <3>2. TypeOK'
      BY <3>1 DEF WarRoom, TypeOK, Points, Phases
    <3>3. Streamed' /\ Untested' /\ Testing' /\ recommendation' = None
      BY <3>1, OpeningIs DEF WarRoom, Streamed, Opened, Untested, Testing, Answered, Before
    <3>. QED
      BY <3>1, <3>2, <3>3, StillOpen
  <2>2. CASE Plan
    <3>1. Opened(2)'
      BY <2>2, OpeningIs, OpenedMore DEF WarRoom, TypeOK, Streamed, Plan, Phase, Phases
    <3>2. Streamed'
      BY <2>2, <3>1 DEF Streamed, Plan, Phase
    <3>. QED
      BY <2>2, <3>2, PhaseHolds DEF Plan, Before, Phases, Reasons
  <2>3. CASE Investigate
    <3>1. Opened(3)'
      BY <2>3, OpeningIs, OpenedMore DEF WarRoom, TypeOK, Streamed, Investigate, Phase, Phases
    <3>2. Streamed'
      BY <2>3, <3>1 DEF Streamed, Investigate, Phase
    <3>. QED
      BY <2>3, <3>2, PhaseHolds DEF Investigate, Before, Phases, Reasons
  <2>4. CASE Resolve
    <3>1. Opened(4)'
      BY <2>4, OpeningIs, OpenedMore DEF WarRoom, TypeOK, Streamed, Resolve, Phase, Phases
    <3>2. Streamed'
      BY <2>4, <3>1 DEF Streamed, Resolve, Phase
    <3>. QED
      BY <2>4, <3>2, PhaseHolds DEF Resolve, Before, Phases, Reasons
  <2>5. CASE MenuRead
    BY <2>5, WaitHolds DEF MenuRead
  <2>6. CASE Tick
    BY <2>6, WaitHolds DEF Tick
  <2>7. ASSUME NEW picked \in SUBSET Stressors, Stress(picked) PROVE WarRoom'
    BY <2>7, StressHolds
  <2>8. CASE UNCHANGED vars
    <3>. USE <2>8 DEF vars
    <3>1. TypeOK' /\ Streamed' /\ Untested' /\ Testing' /\ Answered'
      BY SMTT(40) DEF WarRoom, TypeOK, Streamed, Opened, Streaming, Untested, Testing, Failed,
         Answered
    <3>2. CleanMeansSurvived' /\ HistoryIsComplete' /\ PhaseOrder'
      BY DEF WarRoom, CleanMeansSurvived, HistoryIsComplete, PhaseOrder, Last
    <3>. QED
      BY <3>1, <3>2 DEF WarRoom
  <2>. QED
    BY <2>1, <2>2, <2>3, <2>4, <2>5, <2>6, <2>7, <2>8, ComposeHolds, RaisesHolds,
       PositionReadHolds, MenuMissingHolds DEF Next, Run
<1>. QED
  BY <1>1, <1>2, PTL DEF Spec

\* What reaches the treasurer is what happened: unmarked only when the bundle
\* shown survived stressors a model picked, with every attempt that failed.
THEOREM RecommendationsAreHonest == Spec => []ReportIsHonest
<1>1. WarRoom => ReportIsHonest
  BY DEF WarRoom, ReportIsHonest
<1>. QED
  BY <1>1, WarRoomHolds, PTL
=============================================================================
