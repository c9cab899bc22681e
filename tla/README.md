# Luma: a TLA+ verification project

Luma runs one company's treasury Monday: it reads the ledgers, rolls a 13-week
forecast, has a treasurer sign it, checks it against policy, and on a hard
breach opens a *war room*, in which language-model agents investigate, their
contradictions are settled, bundles of actions are composed and stress-tested,
and a recommendation goes to people who approve and execute it row by row. A
company gets there by *onboarding* its own database.

Money is only moved behind a chain of gates that live in different files and are
driven by HTTP handlers, agents, webhooks and a browser that interleave freely,
and every gate compares figures that other files computed, at another moment.
This project models the chain, the figures, and what can come between them.

## 1. The system's parts

Everything in the API process runs on **one asyncio loop**. There are no
threads, so two handlers interleave only where one of them awaits. Nothing of
the session is persisted: a restart is a new, empty session. The tenant store,
the frozen mappings, the approvals and the audit log are.

| Part | Source | State it keeps | Operations | Modelled by |
|---|---|---|---|---|
| Event bus, War Room stream | `orchestrator/bus.py`, `api/warroom.py`, `contracts/events.py` | next seq, ring of the last events, one queue per subscriber, each generator's cursor | emit, subscribe, replay, live loop, heartbeat, unsubscribe; resume by `Last-Event-ID` | `EventBus` |
| Session | `api/session.py`, `api/cycle.py`, `api/approvals.py`, `api/agents.py` | the process-wide session: cycle, result, check, investigation, pack, manual runs, one lock | bind, clear, run_agent, run_cycle, record_override, publish, check_policy, open_war_room, approval_pack, decide, execute | `MondaySession` |
| Review ledger | `orchestrator/review.py` | overrides, the published version | record_override, publish | `MondaySession`, `WeeklyCycle` |
| Approvals and execution | `orchestrator/approvals.py`, `contracts/approvals.py`, `config/doa_matrix.yaml` | requests, decisions, audit log, executed rows | classify, route, prepare, register, decide, execute | `MondaySession` (ledger), `Recommendation` (classes and bands) |
| Commander, executor, token bucket, run store | `orchestrator/commander.py`, `executor.py`, `runs.py` | semaphore, tokens, attempts, stored runs | plan, two waves, retry, collect | `AgentWave` |
| Plans menu | `orchestrator/plans.py`, `agents/choice.py` | none | filter by capability and breach, fall back, say who was skipped | `Plans` |
| Specialists, runner, evidence gate, providers | `agents/` | one attempt | gather, ask, repair, review, validate, record | `Specialists` (data), `AgentWave` (concurrency) |
| Investigation | `orchestrator/investigation.py` | phase, degradations, candidates, reports, attempts | plan, investigate, resolve, compose, stress and replan, recommend | `Investigation` (control), `Recommendation` (data) |
| Stress tester | `orchestrator/stress.py` | the menu, one report per bundle | calibrate, choose, test | the same two |
| Conflicts | `orchestrator/conflicts.py` | conflicts, resolutions | detect, follow up, rule, default | `Conflicts` |
| Constraint gate, composition | `orchestrator/worklist.py`, `config/scoring.yaml` | levers kept and refused; bundles | gate, compose, price, score, order | `Worklist` |
| Weekly cycle, policy check | `orchestrator/cycle.py`, `policy.py` | the step log, the result | seven automated steps, publish, policy check | `WeeklyCycle` |
| Tool layer | `tools/toolset.py`, `engine.py`, `tenant.py`, `results.py`, `registry.py` | a ledger, read only | fourteen reads, twice | `Toolset` |
| Finance engine | `finance/cadence.py`, `forecast.py`, `variance.py`, `materiality.py`, `debt.py`, `money.py`, `cash.py`, `covenants.py`, `accuracy.py` | none (pure) | schedules, the grid, the roll, bridges, allocation, interest | `Cadence`, `Forecast`, `Variance`, `Debt`, `Money`; the rest inside `Toolset` |
| Controls, audit, draws | `finance/constraints.py`, `controls.py`, `execution.py`, `audit.py` | approvals, audit rows | validate, require approval, execute, append | `Draws` |
| Ingestion and onboarding | `ingest/`, `api/onboarding.py`, `api/datasource.py` | one onboarding; mapping files; the tenant store; what is bound | connect, introspect, classify, drift, load, reset, use demo, clear, set policy | `Cartographer`, `Onboarding`, `LedgerOfRecord` |
| Dodo integration | `integrations/dodo/`, `main.py` | seen webhook ids; last figures | verify, accept, list, normalise, compute, degrade | `Dodo` |
| Models, migrations, seed, scripts, frontend | `models/`, `alembic/`, `seed/`, `scripts/`, `frontend/` | | schema, generators, presentation | not modelled |

(Paths are under `src/backend/` unless they say otherwise.)

How they interact: an HTTP handler calls the session; `run_cycle` runs a
`WeeklyCycle`, whose steps read a toolset over the tenant's rows;
`open_war_room` runs an `Investigation` under the session's lock; the
investigation calls the Commander, whose executor runs agents concurrently;
every one of them emits on the bus, which never waits for anyone; browsers hold
a `stream()` generator each and come back with the id of the last frame they
saw. The recommendation's worklist comes back to the session, where
`approval_pack` turns it into cards, `decide` signs them and `execute` acts on
them. Onboarding commits rows and then binds a new session over them.

What is hard, and where:

* **Interleaving.** `publish` and `record_override` take no lock, so they run in
  the middle of a `run_cycle`. Events are emitted between a stream's opener, its
  replay and its live loop. Two workers number audit rows from the same maximum.
* **Reads at different moments.** A Monday is a dozen awaits over a book that a
  load may replace; a war room reads the deferral candidates three times; the
  Dodo refresh is three requests.
* **Order.** The challenger (Supplier Risk) must see a complete first wave.
* **Timeouts and retries.** `wait_for` cuts an attempt off at any await; the
  retry keeps its semaphore slot and pays a second token. The heartbeat timer
  races an event. The war room's wall clock is only read between bundles. A
  source is loaded again.
* **Partial failure.** A tool, a model, the evidence gate, a resolver, a
  request, a row of a load or a flush fails at any step.
* **Crashes.** Between freezing a mapping, committing the rows and binding the
  session.
* **Boundaries.** Month ends, holidays and window edges; half-open bands; bps
  floors against amount floors; cents left over; ring, queue, semaphore, bucket,
  conflict cap and replan bound.

`PROJECT.json` lists each of these at its line, with the properties aimed at it.

## 2. Modules

| Module | What it is |
|---|---|
| `EventBus` | the bus, its streams and the browsers |
| `MondaySession` | the session, the review and approval ledgers, the executor |
| `AgentWave`, `MCAgentWave` | the two waves of agents |
| `Investigation` | the war room's phases and replan loop |
| `Conflicts`, `MCConflicts` | detection, resolution and the gate |
| `Money`, `Cadence` (on `Money`), `Debt` and `Forecast` (on `Cadence`), `Variance` (on `Forecast`), `MCForecast` | the finance engine: split and round; dates; interest; the grid and its roll; the bridges and the properties of all of them |
| `Toolset`, `WeeklyCycle` (on `Toolset`), `MCWeeklyCycle` | both toolsets as operators on a book; the Monday that reads them |
| `Plans`, `Specialists` (on `Plans`), `Worklist`, `Recommendation` (on both), `MCRecommendation` | the data path of a war room, from the menu to the cards |
| `Cartographer`, `Onboarding` (on it), `MCOnboarding` | schema mapping; onboarding, loading and the data source |
| `LedgerOfRecord` | what onboarding promises; `Onboarding` implements it |
| `Dodo`, `MCDodo` | webhook intake and the refresh |
| `Draws`, `MCDraws` | constraint gate, approval, draw and audit |
| `Tallies` | sums, counts, places in a list and sorting, without a loop: what `Toolset`, `Worklist`, `Conflicts` and `Dodo` compute with, in a form that can be reasoned about |
| `EventBusProofs`, `MondaySessionProofs`, `ConflictsProofs`, `OnboardingProofs` | the inductive invariant of the component each is named after and its theorems (section 5) |
| `OrchestratorProofs` | the same for `WeeklyCycle` on `Toolset`, and for `Investigation` |
| `AgentProofs` | the same for `AgentWave`, and for `Recommendation` with what it is built on |
| `CashProofs` | the same for `Draws`, for `Dodo`, and for the finance engine up to `Variance` |
| `TallyProofs` | the lemmas about `Tallies` that they share |

An **action is the code between two awaits** (or the whole handler when it has
none). What a tool, a model, a provider or the source database answers is an
existential choice; the properties hold for all of them. A definition whose
comment begins with `mutant:` is a plausible wrong version of the definition that
follows it; it is used only to check that the property aimed at that code can
fail. Optional values are `<<>>` or `<<value>>`.

### EventBus

An event is its `seq`. `Emit` is `EventBus.emit` with `_publish`: stamp, append
to the ring (`Remember`), offer to every subscriber (`Offered`, `Refused`), no
await. A stream is a generator, so its `phase` is the `yield` or `await` it is
suspended on: `Connect` runs to the opener, `TakeReplay` evaluates
`history(since=...)`, `ReplaySkips`/`Replay` walk that list, `ReplayDone` enters
the live loop, `Live` takes one event with the `seq <= replayed` test,
`TimerFires` and `Heartbeat` are the two halves of the timeout (events may
arrive in between), `Disconnect` is the generator's `finally`. The browser
remembers the `id:` of any frame (`lastId`), which is what `Cursor` resumes
from; a tab that was open before the session was rebound brings an id of the old
bus (`OldIds`). `sent` and `oldest` are observations of one connection (`sent` is
what was written on it, `oldest` what the ring still held when the replay was
taken); `dropped` holds the seqs the code only counts.

### MondaySession

The variables are `Session`'s fields and those of its two ledgers. A step that
holds `_lock` across an await is a `...Begin` and a `...End`; `Fails(step)` is
the awaited call raising, after which `async with` releases the lock.
`RecordOverride`, `Publish`, `Decide` and `Execute` have no await; the last two
start with `approval_pack`, which waits for the lock (`CardsReady`). `Bind` and
`Clear` replace the process-wide session; a handler still running on the old one
can no longer be seen. A worklist row is what `prepare` distinguishes: auto-safe,
blocked, or the role its route makes accountable. A name is a person and a
spelling, because maker-checker compares names with `strip().lower()`.

### AgentWave

`phase[u]` is the await unit `u` is suspended on: the semaphore (`queued`), the
bucket (with a slot), the runner's three awaits (`gather`, `model`, `evidence`)
or the backoff. `Return` is any way out of `_run_unit`: it releases the slot,
records the run and closes the lane. `TimedOut` is `LLMTimeout` or `wait_for`.
`FirstReturns` and `ChallengeReturns` are `run_wave` after its `gather`.

### Investigation

`at` is where `run()` is suspended. Each of the first four phases may add its
reason to `degradations`. `Compose` fixes how many bundles there are and what
each survives; `Loop` is the head of the loop over
`candidates[:max_replans + 1]`, `MenuMissing` the report without results,
`Stress` one bundle's test with the stressors the model picked (none picked, or
the call failed: all of them, and a degradation). `Close` is everything from the
loop's end to the end of `run()`. `Raises` are the three places a `ToolError`
leaves `run()`.

### Conflicts

All findings up to the bounds are initial states; a lever may be without a document
or without an amount. `Detect` builds both kinds of
conflict exactly as the dicts in the code do (last proposal per row for
semantic, the first two levers with a figure per row for structural) and applies the cap.
`Followup` and `Rule` resolve one conflict at a time; `Upheld` is the ruling or
the default. `Gate` refuses levers in the order the code asks.

### Money, Cadence, Debt, Forecast, Variance

`Money` has the two places a remainder can go: `DivRound` and `Allocate` (largest
remainder). `Cadence` is the calendar with real dates: a date is a day number,
day 0 is Monday 1 January 2024, the Federal holidays and their observation are
those of the code, and every schedule is the set of its dates in a window.
`Forecast` builds the drafts of each category from a company's drivers, keeps
those inside the horizon (`Kept`), sums them into cells, applies overrides and
closes each week (`Build`). Its first state is a version built for some company and
Monday; `Override` replaces one cell and builds again; `RollForward` builds a week
later with no overrides (`RolledOverrides`), from the opening cash its caller names:
week 1's closing cash, or what the bank holds (`OpeningBalances`).
`Variance` compares a version with the actuals of its week and with the version before
it, over the weeks both have. `Debt` is interest and amortisation.

### Toolset, WeeklyCycle

A book is the rows a tenant has at one moment. `Engine...` and `Tenant...` are
the two implementations of one tool where they differ. A tool that raises
`ToolError` is `Refused`. `WeeklyCycle`'s variable `pc` is the step that awaits;
`read` holds what earlier steps kept; `feed` is the event feed; `Reload` replaces
the book between any two awaits, as a load from the onboarding screens does. The
policy check reads constraints and position again and judges the forecast that
was signed.

### Plans, Specialists, Worklist, Recommendation

`Plans` and `Worklist` are operators. `Specialists` is one run as a function of
what its gather read, the world when its evidence is resolved and what the model
sent (`raw`: a timeout, an error, no JSON, a payload short of a field, a finding
with or without evidence). `Recommendation` is the sequence of reads: plan, first
wave gathers and answers, Supplier Risk gathers and answers, resolve, compose,
read the position, test up to `MaxReplans + 1` bundles, recommend, prepare the
pack; `WorldMoves` may come between any two. Which side a conflict overruled is
free here and settled in `Conflicts`; which stressors are run is free; the clock
and the phases are `Investigation`'s. Amounts are in units of 10 000 dollars and
sit on the boundaries of the delegation matrix.

A list comprehension with a condition is `Only` (the places that satisfy it, in
order), a stable `sorted(..., reverse=True)` is `LargestFirst` (a list of places),
both from `Tallies`. A lever that names nobody has `"none"` in the field; a
discount the lever does not carry is -1. A stress test rounds nothing until its
headroom is compared, so the shifted amounts are kept in hundredths.

### Cartographer, Onboarding, LedgerOfRecord

An identifier is the set of its words. `Cartographer` scores tables and columns
with the code's lexicons and takes them greedily, as the code does; its constants
are the code's own. `Onboarding` has one action per endpoint, except that a load
is one action per entity (`LoadEntity`), because the source database changes
between two of its SELECTs, and the commit, its failure and a crash are actions
of their own. `ahead` remembers the tenants whose mapping file is ahead of their rows:
a load froze it and did not commit. `Outcome` is what becomes of one source row: written, or rejected
with the reason left out. `LedgerOfRecord` knows only the rows of record, the load that
reconciled and may land (`offer`) and the tenant on the screens: an offer lands whole
or is withdrawn whole, touches no other tenant's rows, and shows its tenant only if it
leaves it rows. `Onboarding` implements it under the mapping at the end of the module
(`KeepsTheRecord`).

### Dodo

Two halves without common state. Intake: deliveries are sent, repeated, delayed,
reordered, lost, wrongly signed or malformed; `Receive` verifies, parses, asks
the store, marks it. Reads: the provider's books move between the three requests
of a refresh, each of which may fail in any of the ways `_get` and `_items` tell
apart, or come with items that are no objects, which `_items` leaves out (`Absent`,
`dropped`). No caller in the repository puts the three requests together and keeps the
last figures; the docstrings of `client.py` and `metrics.py` say how it is meant
(`degrade_metrics`), and the scenario `dodo_down_metrics` of
`backend/finance/failures.py` comes closest. `Refresh` and its sequence are therefore
the model's, and marked external. `source` says where the figures on the screen are
from.

### Draws

Each worker has a transaction (`flushed` until it commits) and may open an audit log,
which reads the highest sequence number then. `Validate` evaluates every hard
constraint. `Execute` asks for the approval, appends the audit row (`Flush` may collide
with the unique id, which fails the transaction) and returns a result; an adapter that
was given no log does the same without the row (`ExecuteUnlogged`, whose result is
`unlogged`). The approvals table is written by nobody in the repository; its rows are
whatever its constraints allow, inserted in any state (`InsertApproval`) and changed in
any way at any moment (`UpdateApproval`). An adapter and the log it is given are taken
to be of one company.

## 3. Runs

| Run | States | Question | Result |
|---|---|---|---|
| `bus` | 297 909 | order, no duplicates, only known holes, nothing lost between replay and queue, catching up, whatever id a client brings | holds |
| `session` | 573 968 | nothing is executed without its own clean approval; the audit log is the ledger; cards belong to the recommendation beside them and name the signed version; every later step stands on the signature; the lock is always released | holds |
| `session_policy` | | "Run against the version the Treasurer actually published, never a draft" | violated |
| `wave` | 155 258 | slots, tokens and lanes are accounted for; the challenge sees a complete wave; one stored run per agent; both waves end | holds |
| `war_room` | 291 545 | an unmarked recommendation was really tested, the replan history is complete, phases come in order; it ends | holds |
| `conflicts` | 8 695 723 | objections are not crowded out and stand by default, rulings are for parties; the overruled side has no lever left, on rows with two conflicts too, and every refusal is on the record | holds |
| `forecast` | 4 992 | a schedule does not depend on the window it is asked for; every payday is taxed and every loan serviced in its month; invoices, weeks and loans keep their cents; a roll restates nothing, bridges tie, overrides lapse | holds |
| `cycle` | 2 275 | material variances and missing readings are never silent; the policy check is about what was signed; the panes of one Monday agree, owe nothing to hindsight and cite rows that resolve; review is reached | holds |
| `onboarding` | 222 040 | every row read is rejected or of record, itself or as the last with its key; parents exist, the mapping rows were read by is on disk, no column feeds two fields; one tenant on the screens; loading again changes nothing; loads land whole or not at all (`LedgerOfRecord`) | holds |
| `recommendation` | 351 516 | every specialist ran or is named as skipped; a protected payment is out of reach even if it became one late; the draw closes the gap and no more, rows make up the total; every row has exactly one band | holds |
| `dodo` | 1 804 126 | accepted once; an outage shows the last figures and marks them; while the lists come whole a cash stage never goes back | holds |
| `draws` | 1 165 470 | the largest safe draw passes the gate; every execution, with a log or without, is covered by an approval of another person when it happens; what is committed and logged is audited, exactly once each | holds |

Several properties are conjunctions of named parts; the parts carry the comments.
`TypeOK` of `MondaySession`, `AgentWave`, `Investigation` and `Conflicts` is part
of the inductive invariants of section 5; the runs do not list it.

### Bounds, and why they are enough

The theorems of section 5 remove the bounds for every safety property they state;
for the others, and for liveness, these are the instances:

* `bus`: two clients, a ring of 2, queues of 1, 3 events, old ids inside and past
  the log. Three events overflow both; a client reconnects with a cursor below,
  inside and past the ring; with a queue of 1 an event is refused at every
  suspension point.
* `session`: two runs (the second started before the signature), one override,
  two war rooms of at most one row, three kinds of row, two people with two
  spellings each, one replacement of the session. Two war rooms are what it
  takes for a card to outlive its recommendation; one row suffices because rows
  never touch one another's cards.
* `wave`: three agents for two slots, two attempts each, three tokens and five
  refills: eight attempts are possible, so the bucket runs dry and every wait
  happens. `MaxRefills` is `8 - 3`: with fewer the wave could stop for lack of
  modelled time.
* `war_room`: three stressors (one of them the combination), three bundles, one
  replan, so that the bound, exhaustion, a pass and the clock each end the loop.
* `conflicts`: three agents, up to three levers and two objections on two rows
  (one protected), two figures, a cap of two: more contradictions than places,
  two conflicts on one row, and levers on no document or with no
  figure. Figures are interchangeable, which is the
  symmetry.
* `forecast`: the real horizon of 13 weeks from **every** Monday of three years,
  two companies (all schedules; open items, hourly pay on a cycle of its own,
  semi-weekly deposits), one override, one roll, reopened at week 1's close or at
  another balance. Every holiday meets every edge of the horizon.
* `cycle`: books on either side of each threshold, both toolsets, a bridge with
  more categories than rows shown, 5 weeks (the code's 30 days are 4), one reload
  at any await.
* `onboarding`: two tenants, a schema before and after a column was dropped, rows
  before and after a settlement, a duplicate key, an orphan, an unreadable
  amount, a status the store refuses; two loads and one change of the source,
  which is what a reload, a failed second load and a change between two SELECTs
  need.
* `recommendation`: every capability set that matters to a plan, both providers,
  answers of every kind for each role, two worlds and one move between them, one
  replan (two bundles tested, and the bound reached), amounts on each band's edge.
* `dodo`: two ids, two deliveries in flight, a clock that leaves the tolerance on
  both sides; two payments of one amount and two payouts, a Friday before a
  holiday; a list may come with any of its items left out.
* `draws`: two workers and two companies, limits that do not divide into basis
  points, two sequence numbers and three logs opened (`MaxLogs`): two logs of one
  company meet, and one is opened after a rollback.

### Fairness

* Streams: the server pulls an open generator and the loop runs ready tasks, so
  each stream's steps are weakly fair together. Connecting, disconnecting and
  emitting are not.
* Session: only the end of a locked step is fair. Tool calls are local reads and
  model calls carry a timeout, so the awaited call returns or raises.
* Wave: each unit, the return of each wave and the bucket's refill are weakly
  fair: `wait_for` bounds every attempt and time passes.
* War room: the coroutine itself is weakly fair; the clock is not.
* Cycle: the automated steps are weakly fair together; a model's answer is not,
  its timeout is. Publishing, checking and reloading are not fair.

## 4. Where the code and its comments disagree

With a run: **the policy check may read an unsigned result** (`session_policy`).
Sign the first run while a second is awaiting: the second replaces
`cycle_result`, and the check evaluates it under the first one's signature.

Met while modelling; the models have the code's behaviour, and the properties are
stated so that they hold of it:

*Stream and war room.*
`bus.py:4-5` says a resuming client "misses nothing", but the opener's and the
heartbeat's ids are cursors too: a connection lost right after one skips an
event. A subscriber whose queue overflowed is not dropped or marked (`bus.py:12`).
`investigation.py:15-16`: nothing reads `tightened_constraint`; the next bundle is
tested against whatever stressors are picked for it. `investigation.py:5-6`: a
`ToolError` while planning or composing ends the war room without a
recommendation or a closing event. `worklist.py:16` says a conflict that was resolved
against a lever removes it, but `gate` keeps one resolution per row
(`worklist.py:171`): of two that overrule different sides only the later is carried
out. `conflicts.py:420-422`: an unsettled
dispute about figures keeps both figures. A manual agent whose model call times
out leaves no run record (`api/agents.py:297`). Every Commander makes its own
bucket although it is called process-wide (`executor.py:50`). When the clock runs
out before the first test the reason given is that no bundle was feasible
(`investigation.py:346`). An empty stress menu passes `StressReport.passed`.
A complete finding that cites nothing is repaired to a degraded one and its
levers reach the cards. Agent-proposed accelerations, draws and assumption
reviews end in no bundle and in no rejection. One document proposed by two agents
counts twice. A stress test does not subtract the discount forgone. Nothing asks
that a proposed amount be positive (`Money` in `contracts/money.py` has no lower
bound): a lever of a negative amount passes the schema, makes the combined stress
milder than one of its parts, and, if its row has to be signed, falls below every
band, so that `route_approval` raises and there is no approval pack.

*Policy check.*
`docs/WORKFLOW.md:130` lists covenant headroom among what escalates, and
`orchestrator/cycle.py:311-312` says that covenants that cannot be read "are reported as
unchecked by `check_policy`, which is the honest outcome -- not a silent pass".
`check_policy` does both for a rule of the kind `COVENANT_RATIO`, and neither toolset
hands out one: a breached covenant opens no war room and an unreadable one is in no
list. `PolicyJudgesWhatWasSigned` states what holds: the escalation rule over the
rules handed out, and what would happen to a covenant if its rule were.

*Finance.*
`forecast.py:789-792` says a payable is paid "in the first run on or after" its
due date; with no such run in the window it takes the first run, before the due
date. The engine's bridge shows ten rows, so its rows need not sum to its total,
which `variance.assert_ties` asks of the other bridge. `doa_matrix.yaml` comments
"<=" where the bands are half-open. The gate floors utilisation to a basis point
and so lets a draw exceed the ceiling by less than one. The runway of the engine
counts to zero, the tenant's to the floor; the engine ranks protected payables
first, the tenant last. Exceptions are sorted as text (`breach-w10` before
`breach-w2`). `policy:min_unrestricted_cash` (`tenant.py:348`) is cited and does
not resolve; nor does `dodo:unavailable-N`, with which the engine fills up the
references of its two decline rows when a company has fewer than two active
subscriptions (`engine.py:948-950`). The engine ages, ranks and defers documents whose
status is "open" (`engine.py:736`, `engine.py:822`), while `models/invariants.py:199`
and `:216` count "part_paid" ones as open too: what is still owed on those is in no pane. `amortisation_schedule`, `distribute_over_week` and
`finance/variance.py` are reached from tests only.
Four dates are lost at an edge of the horizon, each met when a proof failed
(section 5): a schedule asks which raw dates lie in its window, then moves them.
`monthly_dates` (`cadence.py:464`) looks at the months the window touches, so rent of
the 31st of May 2025, a Saturday, is paid on 2 June and is in no grid that starts that
Monday. `ap_run_dates` (`cadence.py:439`) looks at the weekdays of the window, so the
run of Memorial Day 2025, pulled "earlier when closed" to Friday 23 May, is not in
the grid that ends with that week. A biweekly payday on such a Monday
(`cadence.py:373`) is lost alike, which is why `NothingRestated` is about
semi-monthly pay. `_build_payroll` (`forecast.py:675`) looks 45 days back, and a
deposit on "the 15th of the next" month (`cadence.py:419`) may come 47 days after a
biweekly payday: withheld on 2 January 2025, deposited on 18 February, in no grid
that starts on the 17th. `debt_service_dates` (`cadence.py:502`) stops at the first
anniversary past the window, so one that modified-following brings back into it (31
May 2027, Memorial Day, paid on the 28th) shows only in the next version.

*Onboarding.*
`ingest/loader.py:16-18` says that a rejected row is "reported, never dropped" and the
report counts every row: of two rows with one key the second overwrites the first
(`_upsert`, `loader.py:258-264`), which is neither rejected nor of record, and is
counted as loaded. A mapping's version is always 1 (`mapping.py:176`), so freezing one
overwrites the file before it (`mapping.py:69`): when the load that froze it does not
commit, the file on disk is not the one the rows of record were read by.
The drift digest includes row counts. `load` does not consult `hold_ingestion`. A
mapping is frozen before the commit that may still fail. A floor set with
`set_policy` is lost on the next load. Reads stop silently at 50 000 rows. A
payable that is "written_off" passes the loader and violates the store's
vocabulary, which aborts the load. Rows gone from the source stay. Coverage by
value is 0 or 100 %. `api/onboarding.py:12-16` promises a ledger that ties out;
what is compared is the load's own totals.

*Dodo and draws.*
Cash timing compares a status as written, the metrics fold its case. Two payments
of one amount share one payout, so both may show as settled. A body that is not
JSON raises instead of degrading, and an item that cannot be read raises too, so the
figures shown stay unmarked. Entries of a list that are no objects are left out without
a word (`client.py:160-168`): figures computed without them are not marked, and a
payment may seem to fall back. Lists are not paginated. The seen ids are in
memory, so a restart accepts again. `DebtDrawAdapter` may be given no audit log
(`execution.py:60`): then a draw leaves no row. Nothing consumes an approval; its
currency is not compared with the request's; an approval may be withdrawn or lowered
after a draw was made on it; the audit row of a blocked attempt is lost if the caller rolls
back; two audit rows of different types may carry one sequence number; the
schema's maker-checker is case-sensitive, the code's is not.

## 5. What is proved

TLC settles each property on one small instance; the theorems settle it for every
value of the constants: any clients, people, tenants, books, facilities, bounds.
Seven modules hold them, and `TallyProofs` the lemmas about sums and sorting.

| Module | Theorem | States | Inductive invariant |
|---|---|---|---|
| `EventBusProofs` | `TypeCorrect` | `[]TypeOK` | itself |
| | `DeliveryHolds` | `[]Delivery` | `Delivery` |
| | `RingIsSuffix`, `HolesAreKnown`, `InFlightIsSafe` | `[]HistoryIsSuffix`, `[]HolesAreCounted`, `[]NothingInFlightIsLost` | `Delivery` |
| | `NeverGoesBack` | `InOrderOnce` (an action property) | `Delivery` |
| `MondaySessionProofs` | `MondayHolds` | `[]Monday` | `Monday` |
| | `NothingRunsUnapproved` | `[]ExecutionGate` | `Monday` |
| | `AuditTellsTheDecisions` | `[]AuditIsTheLedger` | `Monday` |
| | `BoardIsCurrent` | `[]CardsOfTheSignedVersion` | `Monday` |
| | `StagesStandOnTheSignature` | `[]EveryStepStandsOnTheSignature` | `Monday` |
| `CashProofs` | `SafeDrawsPass` | `[]SafeDrawPassesTheGate` | arithmetic, see below |
| | `DrawsAreCovered` | `EveryExecutionIsCovered` (an action property) | `Tables` |
| | `DrawsAreAudited` | `[]DoneIsAudited` | `Tables /\ Audited` |
| | `EventsAreAcceptedOnce` | `[]AcceptedOnce` | `Intake` |
| | `OutagesKeepTheFigures` | `[]FiguresSurviveAnOutage` | `Outage` |
| | `PaymentsNeverFallBack` | `StagesOnlyAdvance` (an action property) | `Timing` |
| | `SplitsConserveCash` | `[]CashIsConserved` | `OnMondays` |
| | `WindowsDoNotMatter` | `[]SchedulesAreWindowIndependent` | `OnMondays` |
| | `ObligationsFallDue` | `[]EveryObligationFallsDue` | `OnMondays /\ GridIsBuilt` |
| | `RollsAreExplained` | `RollIsExplained` (an action property) | `OnMondays /\ GridIsBuilt /\ Numbers` |
| `AgentProofs` | `ThrottledHolds` | `[]Throttled` | `Throttled` |
| | `NothingOutrunsTheBucket` | `[]WhatIsHeldIsAccountedFor` | `Throttled` |
| | `EveryAgentEndsOnOneRecord` | `[]EveryAgentAccountedFor` | `Throttled` |
| | `ThreadHolds` | `[]Thread` | `Thread` |
| | `NoSpecialistIsForgotten` | `[]EverySpecialistAccountedFor` | `Thread` |
| | `ProtectedIsOutOfReach` | `[]ProtectedStaysProtected` | `Thread` |
| | `FiguresHold` | `[]Figures` | `Figures` |
| | `RecommendationsAddUp` | `[]FiguresAddUp` | `Figures` |
| | `BandsLeaveNoGap` | `[]EveryRowFindsItsBand` | `Figures` |
| `OrchestratorProofs` | `MondayFits` | `[]CycleInv` | `CycleInv` |
| | `NothingStaysSilent` | `[]NothingIsSilent` | `CycleInv` |
| | `WhatWasSignedIsJudged` | `[]PolicyJudgesWhatWasSigned` | `CycleInv` |
| | `TheFiguresAgree` | `[]FiguresAgree` | `CycleInv` |
| | `WarRoomHolds` | `[]WarRoom` | `WarRoom` |
| | `RecommendationsAreHonest` | `[]ReportIsHonest` | `WarRoom` |
| `ConflictsProofs` | `RulingsHold` | `[]Rulings` | `Rulings` |
| | `EveryObjectionIsHeard` | `[]ObjectionsAreHeard` | `Rulings` |
| | `TheGateExecutes` | `[]RulingsAreCarriedOut` | `Rulings` |
| `OnboardingProofs` | `SoundHolds` | `[]Sound` | `Sound` |
| | `OnlyTheConnectedTenantIsShown` | `[]NobodyElsesNumbers` | `Sound` |
| | `NoRowGoesMissing` | `[](RowsAreAccountedFor /\ NoOrphans /\ RowsHaveAMapping)` | `Sound` |
| | `ColumnsFeedOneField` | `[]OneColumnOneField` | `Sound /\ Printed` |
| | `TheRecordIsSound` | `[]RecordIsSound`, the two before it together | |
| | `LoadingAgainChangesNothing` | `ReloadIsIdempotent` (an action property) | `Sound /\ Traced /\ Kept` |
| | `OnboardingKeepsTheRecord` | `KeepsTheRecord`: `Onboarding` implements `LedgerOfRecord` | `Sound` |

### Why the properties are not inductive, and what makes them so

**Stream.** That a connection never goes back depends on what the queue holds
compared with what the replay wrote, which depends on the ring having been a
suffix of the log when the replay was taken. `Delivery` says, next to `TypeOK`
and `HistoryIsSuffix`, for each stream:

* `Consecutive`: what is left of the replay is a stretch of consecutive events;
* `Replaying`: everything owed up to `replayed`, and up to the head of what is
  left, has been written, and nothing written is beyond that head;
* `Queued`: the queue is in order, and what was written came with the replay or
  is older than everything queued;
* `Covered`: from the moment the history is taken, every owed event is written,
  refused, queued or still in the replay;
* `AtPhase`: what a generator holds at each suspension point.

These are operators of plain values (a sequence, a set, a cursor), so each step
of the argument is a lemma about sequences without primes (`OfferKeepsQueued`,
`WriteKeepsReplaying`, `TakeFromQueueKeepsCovered`, ...). One lemma per action
applies them to one client's stream; `OthersKeepStream` covers everybody else.
The crux is `LiveKeepsStream`: an event the live loop passes over is at or below
`replayed`, hence written if it was owed.

**Session.** What a handler does after its await is right only because of what was
true when it took the lock. `InFlight` says what the holder of the lock still
knows (a cycle run excludes a policy check, the result under check is the result
on the screens), `Gates` that each stage stands on the one before, `Board` that
no card is made twice or for a war room that is not over, `Ledger` that a decided
card, its audit entry and what was executed on it agree. The step that carries
the weight is `ApprovalPackEnd`: the cards it adds belong to the newest war room,
so no decision or execution on record can be about them.

**Draws.** `SafeDrawPassesTheGate` is about two floors: `max_safe_draw` rounds an
amount down, the utilization constraint rounds a ratio down. The proof is the
lemma `Floor` (a quotient is the number of divisors that fit) and monotonicity of
multiplication; nothing about the facilities but their database constraints.
Approvals may change after a draw was made on one, so `EveryExecutionIsCovered` is about
the step that makes it: the approval `execute` found is of the table as it is in that
step (`FoundCovers`, `MadeCovered`). `Audited` adds what the
unique index and the per-session counter give: two committed rows never share an
id, and what is flushed in a transaction is mirrored by what `execute` returned in
it, so a commit moves both together and a rollback drops both.

**Waves.** Slots are counted over units, so the proof is about the cardinality of
`InFlight` when one unit enters or leaves; tokens are one per attempt, so
`Attempting` says how many attempts a unit has left at each point where it waits;
`Waves` and `Stored` say which units may be where, and what is stored, while each
`gather` is awaited.

**War room.** What is recommended is fixed by the step that closes the room; the
invariant is about the loop before it: the bundle in hand is the one after those
that failed, each failure is on the replan history, and what was streamed is the
opening and one `replanning` per failure.

**Conflicts.** `Grounded` says where each conflict comes from, `Ruled` that each
ruling is about the conflict in its place and for a party to it, `Judged` that the
gate ran over those rulings. The gate reads the last ruling on a row that overrules
anybody (`LastAgainst`), so an earlier one is carried out unless that one is against
another side. The proof of `ObjectionsComeFirst` counts: the
semantic conflicts are listed in the order of the rejections (`InOrder`), so with
no more rejections than places none is cut off.

**Data path.** `Thread` says of every agent that has answered that its run is what
the runner made of *its own* gather and answer, though another wave has gathered
since. With it, `WholeOrNothing` (the AP review refuses the whole proposal,
whatever the payload repair did before) gives the agent's half of
`ProtectedStaysProtected`, and `PreparedCleared` (the band of the protected class
is the blocked one, and a pack is made only if each row has exactly one band) the
half about the cards. `SelectedRuns` is the menu: whatever is connected and
whatever the model answers, the plan is a runnable one of the catalogue, and the
fallback is as wide as any that could run.

**Figures.** What the recommendation prints is computed in one step from what
earlier steps kept, so the invariant carries the pricing along: `Manned` (a plan
invokes specialists, and every run on record has typed levers), `Composed` (each
bundle was priced on the rows and the position the composition keeps, not on those
of the world now), `Tested` (each report is of the bundle at its own place in the
ranking), `Listing` (a row says what kind of action it is). Under it:

* `DrawIsSizedToTheGap`: pricing is a sum over the levers, and the draw is cut to
  what the other levers leave open (`DrawClosesTheGap`).
* `CombinedIsTheWorst`: each stressor changes a lever's amount by a non-negative
  share (`HitByAll`), sums keep the order of their terms (`SumsInOrder`), and the
  combined case applies all the shares.
* `RowsAddUpToTheBundle`: the worklist has one row per lever of the bundle, sorted
  by amount (`WorklistIs`); a sum carried along a one-to-one map onto other places
  is unchanged (`SumMovedOnto`).
* `EveryRowFindsItsBand`: the bands of each class cover the amounts from zero
  without overlap (`BandCovers`, `OneBand`) and their signers ascend
  (`SignersInOrder`).

The library's induction theorems take the property as a parameter and are out of
the provers' reach. What they rest on is not: `TallyProofs` takes from the library
that `<` on the naturals is well-founded, a statement about sets, and derives
`Counting` (a set of naturals with 0 and closed under successor has them all) and
from it, by cardinality, `Growing` (a family of sets with the empty one, closed
under adding an element, has every finite set). Each use names the set of numbers
or of sets for which its claim holds. That gives what a sum is when a term is
added, moved or grouped; that every finite total order has a list
(`SequencedSeq`); and that such a list has each element once.

**Weekly cycle.** A Monday reads a book at a dozen moments and a load may replace
it between any two, so nothing is true of *the* book. `Sources` says that each
reading came from some book of the tenant, and from the present one if nothing was
reloaded; `Gapped` which reading was refused for each gap; `Announced` counts the
feed: one announcement per gap, and one more for each on reaching the review; every
lane that was opened has been closed unless the model is still being asked.
`Surfaced` and `Ruled` tie the queue and the policy check to the readings they
were computed from. `FiguresAgree` then needs the tools themselves. Position,
exceptions and policy check tell one story because each was derived from the same
reading (`OneStory`, `NoHindsight`); the panes tie because the buckets of an aging
are a partition of the open rows, the deferrable payables are the open ones without
the protected ones, an expected amount is a share of its face, and one customer's
part of a sum of non-negative terms is at most the sum (`PanesTie`).

**Dodo.** `Intake`: an id is marked exactly when it was accepted, whatever is
still under way. `Outage`: what is kept is always the result of some complete
read, so degrading it changes no figure but the mark, and `source` says whether the
mark belongs there. `Timing`: a refresh is three requests
and the provider's books grow between them, so what it has read is no older than
what is shown and no newer than the books (`Between`), and what is shown is borne
out by the books as they are now (`Reached`). A refresh one of whose lists came short
may show less, which is why the property is about refreshes that came whole.

**Finance engine.** A version is a function of the drivers and its Monday
(`GridIsBuilt`), so the invariant is short and the work is in the calendar and in the
remainders.

* Remainders: `Allocate` gives each place the floor of its exact share and one unit more
  to as many places as units are left, largest remainder first. There are fewer of
  those than places, because each remainder is less than the divisor
  (`LargestRemainders`, `AllocateIs`), so what is handed out is the amount
  (`AllocateConserves`) and nobody is a whole unit off. From that: lag modes, the open days
  of a week and the instalments of a loan.
* Months: `FirstOf` is a closed form; `MonthLength` finds 28 to 31 days in every month,
  hence `MonthOf` and `MonthIs`: every day lies in exactly the month `MonthNo` names.
* Holidays: each Federal holiday has its place in its month (`HolidayIs`, `Place`), and no
  two places, in one month or in two that meet, are less than six days apart
  (`HolidaysApart`). So of any five days in a row one is open (`OpenWithin`): a
  date moves by at most four days, and modified-following never leaves the month
  (`ModifiedFollowing`).
* Windows: a date that is paid in the month it falls due in is found by looking at the
  months a window touches (`WindowedDates`); of a Monday and the Tuesday after it one is
  open, so a run of the week after the horizon stays there (`RunWindow`).
* Obligations: a deposit follows its payday by eleven days at most, or comes by the
  nineteenth of the next month and then after a payday past the tenth, so both are
  within the lookback of 45 days (`WithinLookback`); each anniversary of a loan lies in
  the month it is counted to (`AnniversaryIs`).
* Sums: `Numbers` says that the opening cash and the overrides are numbers. Every builder
  makes finitely many drafts of whole amounts (`AllDraftsOK`), so the cells and balances
  of a version are numbers (`GridFigures`), and that keeps `Numbers` over a roll, at
  whatever number it reopens. What
  the weeks of a category add up to is what the categories of a week add up to
  (`RowsAndColumns`), and folding the lines below the threshold into one changes no sum
  (`GateKeeps`): both bridges tie, to each other and to the closing balances (`RollTies`).
* Two versions: for each kind of schedule, two versions a week apart make the same drafts
  for the days both cover (`Agree`). For dated schedules that is two uses of the window
  lemmas; a deposit inside the grid is of a payday inside both lookbacks; of any seven
  days three are open (`ThreeOpen`), so a payout of at most five business days lands
  within the fourteen days the engine looks back (`SettlesSoon`); and the walk of a
  subscription from one billing to the next, a recursive function as long as its window
  asks, is the beginning of any longer one and long enough (`WalksAgree`, `BillingIs`).
  The cell of a category and week is then a sum of the same drafts (`CellsCarryOver`).

**Onboarding.** `Sound` says of a load under way that its rows are the connected
tenant's, each under a parent loaded before it, and of the rows of record whose
they are. Refinement then goes action by action: passing the gate offers the rows of
one tenant, a commit lands them all and shows it if that leaves it rows, a failed
commit or a crash withdraws them all, connecting and resetting hide, everything else
stutters. For `RowsAreAccountedFor` it also says of each entity read that every row of
it is rejected or written, by itself or by the last row with its key; for
`RowsHaveAMapping`, that only a load that froze and did not commit (`ahead`) parts the
file from the rows.

That a reload changes nothing compares two runs of a loop that other tenants' loads
and changes of the source may have come between. `BaseKeys` and `RowsOf` say, as
sets, what a load writes for an entity: what becomes of a row depends on what was
read and on the keys its parents were given, and those depend on no further parent
(`OutcomeByParents`), so the rows are a function of what was read, the plans and the
tenant. `Traced` says that the load under way has written exactly that for the
entities behind it, `Kept` that the ledger has it for each tenant's accepted load.

That no column feeds two fields is an invariant of `map_columns`' greedy loop:
`Matched` says that the column chosen for a field is claimed by that field, and that
a claim, once made, stays. `MapColumnsIs` carries it through the recursive function
by `Counting`; `ProposeIs` and `DraftIs` carry it to a mapping, and `Printed` says
that the schema a draft is made from was some snapshot's, so a list.

### Assumptions

Each is in the module that declares the constants, and TLC evaluates it on every
run. Besides the types of the bounds:

* `NoneIsNoObject` (`MondaySession`), `None` in `ConflictsAssumption`: Python's
  `None` is not one of the objects stored in its place.
* `DrawsAssumption`: the check constraints of the tables
  (`backend/models/debt.py`, `backend/models/policy.py`): a utilization limit is
  0 to 10 000 basis points, no facility is drawn beyond its limit, amounts are
  not negative.
* `OnboardingAssumption`: what a source database answers is a list, of tables, of
  columns and of rows, and an identifier has finitely many words.
* `RecommendationAssumption`: a payload handed on by a provider has the fields of
  an `AgentFinding`, by default if the model left them out, and its levers the
  types of a `ProposedAction` (an amount may be negative); the tools answer with
  rows and a position of the contracts' types; error percentiles are those of
  absolute errors, hence not negative (`backend/models/forecast.py`,
  `non_negative("mape_bps")`).
* `CycleAssumption`, through `BookOK` of `Toolset`: what the schema gives a
  tenant's rows: unique keys, references that resolve, shares of 0 to 10 000 basis
  points, amounts of the sign their check constraints ask. It also says that a
  policy is in force and, for the engine's tenant, that a forecast version was
  taken: the `ToolError` of a company without either is not modelled.
* `DodoAssumption`: finitely many payments and holidays, amounts not
  negative.
* `CadenceAssumption`: bank holidays are asked for up to a year of the 21st century, and the
  search for an open day is as long as a week (`MaxClosedRun`), which is enough because of
  `OpenWithin`.
* `ForecastAssumption`, through `DriversOK` and `CurveOK`: the types of
  `ForecastInputs`, an anchor wherever a schedule is biweekly (without one the build
  raises `PolicyError`), and what `CollectionCurve.__post_init__` raises for: each mixture
  is complete and there is a default. `VarianceAssumption`: the first Monday is at least
  90 days after day 0, which is where the calendar starts, and the horizon is at least two
  weeks: with one, two versions share no week and `forecast_vs_prior` raises.
* `WaveAssumption`: no role is dispatched twice in a wave, and the challenger is
  not in the first.

### What the proofs found

* `RowsHaveAMapping` used to say that a committed load has a coverage above zero.
  The proof failed, rightly: coverage is floored to basis points and the loader
  takes up to 50 000 rows of an entity (`backend/ingest/loader.py`,
  `MAX_ROWS_PER_ENTITY`), so one row in 50 000 is 0 basis points. The property now
  says what the code ensures: the mapping was accepted and is on disk.
* `EveryRowFindsItsBand` used to say of every kind that the larger of two rows
  never needs the lesser signature. Early-pay is banded on its rate, not on its
  amount (`controls.route_approval`, `doa_matrix.yaml`): a large cheap discount
  goes to the treasurer, a small dear one to the CFO. It is now excepted.
* `EveryRowFindsItsBand` also said that the pack never fails. With levers of any
  amount the schema admits it can: a row below zero is in no band. The property
  now says that this is the only way: the pack fails exactly when a row to be
  signed has an amount below zero.
* `CombinedIsTheWorst` failed for the same reason: withholding a share of a
  negative lever improves the position. It is now about bundles of levers that
  are not negative.
* `SchedulesAreWindowIndependent` held of the run's companies and is false of others:
  rent due after the 22nd may be paid in the next month and a payment run on a
  Monday may be paid in the week before, and the engine loses both at the edge of the
  horizon. `PaydaysAreTaxed` is false of biweekly pay with monthly deposits, whose
  lookback is two days short, and `NothingRestated` of an anniversary
  brought back over the end of the horizon. Section 4 has the dates. The properties now
  name the exceptions, and the run's companies stand on their edges (rent on the 22nd,
  payment runs on Tuesday).
* Several `CASE`s had arms that overlapped (`Adjust`, `AgingBucket`, `Band`,
  `CovenantKind`, `ColumnScore`). TLC takes the first arm, TLA+ takes any: nothing could
  be proved of a value on an edge. The arms now exclude each other.

### Only model-checked

Every liveness property (`StreamCatchesUp`, `LockReleased`, `WaveEnds`,
`WarRoomEnds`, `MondayReachesReview`): they need fairness, and `ENABLED` is beyond the
prover. Every other property a passing run checks is a theorem.

## 6. Not modelled, and why

* Prompts, wording, token counting, HTTP: text and network I/O. The models only
  need what a call answers, and that it fails or times out.
* The model's share of a mapping (`columns.merge`), templates and CSV onboarding:
  the free choice of a proposal would replace what `Cartographer` computes.
* Splitting identifiers and parsing dates: character work. Currency conversion: no
  caller in the API process.
* Bank reconciliation statements (`cash.reconcile`) and persisted accuracy rows
  (`accuracy.compute`): nothing in the API process calls them.
* Closed accounting periods: the sessions the API makes have an empty close
  calendar, so that guard never refuses.
* Database models, migrations, seed data, scripts, frontend: no control of their
  own that a model of this size would tell apart.
  `orchestrator/weekly_cycle.py`, `session.py`, `policy_check.py` and
  `scenarios.py` are not reached from the API.

## 7. Open

* The exceptions of section 4 as findings of their own: with the engine's windows
  widened by a week on either side, `SchedulesAreWindowIndependent`, `PaydaysAreTaxed`
  and `NothingRestated` could be stated without exceptions.
* The components section 6 leaves out.
