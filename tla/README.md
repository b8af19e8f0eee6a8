# SixEase in TLA+

TLA+ specifications of the SixEase backend (`src/backend/app`), the
TLC configurations that model-check them on small instances, and theorems about
them with proofs that TLAPS checks.

SixEase is an assistant for a bank's relationship managers (RMs). One FastAPI
process serves the web application and runs, in the same event loop, the
background loops that make it proactive: it polls news, scans prices, runs
tasks with language-model agents, rebuilds a "Change Radar" and pushes critical
changes to the RM. State lives in PostgreSQL and Redis. Almost everything that
can go wrong goes wrong between two awaits: a row read before a call to a
language model and written after it, a queue element popped before the work on
it is committed, a cooldown recorded after the commit it belongs to, two
generators over one client at once. These are what the modules model.

Contents

1. [The system](#1-the-system)
2. [The modules](#2-the-modules)
3. [The runs](#3-the-runs)
4. [Fairness](#4-fairness)
5. [What is proved](#5-what-is-proved)
6. [What is only model-checked](#6-what-is-only-model-checked)
7. [Divergences](#7-divergences)
8. [What is not modelled](#8-what-is-not-modelled)
9. [Plan](#9-plan)

To check a run: `tlc -config TaskSafety.cfg MCTaskLifecycle.tla`; to check
the proofs of a module: `tlapm TaskLifecycleProofs.tla`. `PROJECT.json` lists
every run with its module and configuration, every mutant that a property must
catch, the source lines each definition translates, and the hazards.

## 1. The system

### Components, state, operations

| Component | State it keeps | Operations that change it | What makes it correct |
|---|---|---|---|
| Task API (`routers/tasks.py`, the swap decision of `routers/portfolio.py`, conversion in `routers/alerts.py`, `loaders/email_autodraft.py`) | rows of `tasks`, Redis list `task_queue` | create, patch a status, convert an alert, decide swaps, insert a prepared draft | the status table TK6; a converted alert has its task; an Auto task is queued |
| Task runner (`task_runner.py`, `agents/`) | the id in its hands, the graph's state | pop, load, claim, route, run an agent, reload, persist | only inward kinds run by themselves; a task runs once; nothing is forgotten |
| News poller (`poller.py`, `news.py`) | Redis `news:cursor`, `news:candidates` | fetch, push each article, save the cursor | the cursor never runs ahead of what was pushed |
| News fan-out (`loaders/news_fanout.py`) | Redis verdict cache, `news:alert_candidates`, rows of `news_items` | pop, index, filter, judge each client, remember, emit, upsert | the LLM is paid once per pair; a spurious pair never leaves; candidates have their row |
| Alert generators (`loaders/alerts.py`, `drift.py`, `price_watch.py`, `alert_noise.py`) | rows of `alerts`, Redis cooldown keys and price baselines | delete and reload a client's rows, check and record cooldowns, compare and replace a baseline | no repeat in a day, no silence without an alert, one row per key, real price moves |
| Alert ranking (`loaders/alert_rank.py`) | `alerts.rank_score` | score all rows of a client | severities are ordered |
| Alert API (`routers/alerts.py`) | `alerts.status` | patch, convert | an RM's decision stays |
| Change Radar builder (`loaders/change_radar.py`, `radar_refresh.py`) | rows of `change_events` | rebuild the table in one transaction | a whole snapshot, no alert dropped, nothing counted twice, demo rows kept |
| Radar dispatch (`radar_dispatch.py`, `radar_stream.py`, `notify.py`) | rows of `radar_deliveries`, a queue per open tab | a cycle a minute: push, mail, digest, commit the ledger | told once, told again only when the impact climbed, and told at all |
| Cross-client news matching (`loaders/watchlist.py`, `news_match.py`, `news_seed.py`) | rows of `client_watchlists` and `news_items`, a process flag for the embeddings | rebuild a watchlist; search, filter, match, judge and store the articles of a client; seed stories and tell their holders | one row per article; nothing unjudged reaches a client; holders of what a story names hear of it |
| E-mail (`graph_mail.py`, `loaders/email_*.py`, `demo_email.py`) | Redis set of drafted messages, demo marker, drafts and tasks | fetch, reduce to threads, classify, mark, draft, file a task; create and reset the demo rows | every message gets its draft once, and a task's draft is there |
| Graph sign-in (`graph_auth.py`, `routers/auth.py`) | token cache and flows in Redis | login, callback, silent refresh, sign out | a sign-out ends the session |
| Voice notes (`routers/voice_writeback.py`, `loaders/note_structure.py`) | notes, `client_dna`, calendar | transcribe, structure, commit note and DNA delta, create events, confirm | a note is a whole; what is reported happened |
| Client DNA and style (`loaders/dna.py`, `style_profile.py`) | lists, version, citations and style of a client | extract from all notes, apply a delta | approved items are not lost to other lists; every item has its source |
| Fit and swaps (`tags.py`, `loaders/fit.py`, `swap.py`) | scores of `enriched_holdings`, rows of `swap_proposals` | score, delete and insert proposals | nothing excluded is offered; a holding has one answer and keeps one |
| Message drafts (`loaders/fact_sheet.py`, `message_render.py`, `routers/messages.py`) | rows of `message_drafts` | assemble a sheet, render, edit, approve, send | no number that the sheet does not have; sent means mailed |
| LLM client (`llm.py`) | tokens spent today, in Redis | check, ask, charge, retry | the daily cap |
| Orchestration, book, follows, seeding, frontend, data model | see `PROJECT.json` | mostly reads | |

### How they interact

- **One process, many tasks.** `main.py` starts the loops (task runner, news
  poller, fan-out, price refresh, radar refresh, radar dispatch) in the server's
  event loop and cancels them at shutdown. Each `await` is a point where any
  other loop or request may run; nothing between two awaits is interrupted.
- **PostgreSQL** under READ COMMITTED, one session per request or cycle, no row
  locks requested: a handler reads a row, checks it, and commits a write later,
  whatever the row has become. A DELETE sees the rows its statement finds and
  waits for a transaction that has deleted one of them.
- **Redis** lists are popped destructively (BRPOP): from the pop to the commit
  the only copy is in the process's memory.
- **Calls between components.** Conversion of an alert inserts a task; the
  e-mail auto-draft inserts a finished task; generated alerts, news items and
  e-mails are the input of the radar's rebuild, whose rows are the input of
  dispatch; a push goes to the queue of every open tab. A note's delta and an
  extraction change the DNA; scoring reads the DNA, swaps read DNA and scores, a
  sheet reads all three. Mailbox cycles, scans, extractions and renders all go
  through one LLM client and its meter; calendar, mailbox and mails through one
  token cache.
- **External services** (LLM, Event Registry, SIX, Microsoft Graph, SMTP) are
  awaited with timeouts; they answer or fail.

### What is hard about it

Stale reads across awaits (task persist, alert conversion, radar cycle);
destructive pops and crashes; ledgers and cooldowns written after the effect they
stand for; generators that overlap each other and the RM; a cooldown of a day
against a scan of minutes; deliveries that repeat after a restart; a baseline
shared by several readers; a token cache that whole operations load, change and
save; scores, proposals and sheets computed from different versions of one DNA;
a meter checked before a request and charged after it. `PROJECT.json` lists each hazard at its line with the
properties that watch it.

## 2. The modules

```
TaskTable  <-- compared to --  TaskLifecycle    <- TaskLifecycleProofs
                              NewsPipeline     <- NewsPipelineProofs
                              AlertEngine, AlertRules, PriceWatch <- AlertProofs
RadarDispatch <- refined by -- Radar = ChangeRadar + RadarDispatch <- RadarProofs
                               (RadarTable: the variable they share)
GraphAuth  <-- refined by --  NoteWriteback    <- NoteWritebackProofs
SwapAdvice <-- extended by -- MessageDraft     <- AdviceProofs
LlmBudget  <-- refined by --  Intake = EmailIntake + NewsScan <- IntakeProofs
SetSums: lemmas about numbers, finite sets and sums  <- used by the Radar, Advice
         and Intake proofs
```

"Refined by" is a statement that is proved, and but for the sign-in also checked by
a run: an `INSTANCE ... WITH` whose specification is the property
(`SpendsAsBudgeted`), or, where the two modules share their variables, the
specification of the more abstract one itself (`DispatchSpec`, `AuthRefinement`).

Each module with a run has an `MC...` module that gives the constants values for TLC.
Conventions: a variable is named after the column, key or local variable it
stands for; an action is one step between two awaits of the code, or several
awaits when nothing shared is touched in between; variables under "history" do
not exist in the program and record what happened, for the properties to speak
about; every constant that bounds a run is called `Max...` or `Num...`, or is
marked "bound" in the declaration. An operator that stands directly before
the definition it resembles and is used nowhere (`ClaimableUnlessClosed` before
`Claimable`) is a plausible mistake in that definition: `PROJECT.json` lists
which property notices when one replaces the other.

### TaskLifecycle, TaskTable

`TaskLifecycle` follows a row of `tasks` from every way it can be created to
its last status, through `task_queue` and `run_one_task`.

| Code | Module |
|---|---|
| `create_task`: commit, then `enqueue` | `CreateTask`, `EnqueueTask`: two steps, and `EnqueueFault` or `Restart` may come between |
| `transition_task`: load and check, then commit | `TransitionRead`, `TransitionCommit`; what was read stays in `req[r]` |
| `update_alert_status`, `convert_alert_to_task` | `AlertRead`/`AlertCommit`, `ConvertRead`/`ConvertCommit` |
| swap decision, e-mail draft | `DecideSwaps`, `PrepareDraft` |
| `run_one_task`: BRPOP; load; claim; `route_intent` and the autonomy check; the agent; reload; persist | `RunnerDequeue`, `RunnerLoad`, `RunnerClaim`, `RunnerRoute`, `RunnerAgent`, `RunnerReload`, `RunnerPersist` |
| exception caught by `_runner_loop`; process restart | `RunnerFault`; `Restart` |

`Flushed` is SQLAlchemy's unit of work: an assignment that does not change the
loaded value writes nothing. What the agents compute is left out: what counts
is under which kind one ran, and whether it ended in an output or an error.
The kind the model finds behind a title is arbitrary.

`TaskTable` is the abstract specification: one row per task, moving only along
`_VALID_TRANSITIONS`. `TaskLifecycle` does not implement it, as the code overwrites a
closed task with the runner's outcome (see Divergences). `TableUnlessOvertaken` uses
the table's actions, by INSTANCE, to say what is true: every change of a row is
a step of the table, but where a writer overwrites what another process wrote after
its own read (`Overtaken`: a PATCH, the runner's claim, the runner's outcome).

### NewsPipeline

The poller and the fan-out, cut at their awaits. Articles are the numbers
1..`NumArticles` in the order of their publication, so the cursor is a number.
Which clients' watchlists an article hits, by a holding (`Own`) or a theme
(`Care`), and whether the pair is worth an LLM call (`Shortlisted`) are
constants; a request brings a page of at most `PageSize` articles. The gates that depend on a model's numbers (embedding distance,
cross-encoder) may drop a theme match or not. `verdict` is the Redis cache with
its expiry; `paid` counts answers of the LLM for which a verdict is, or is about
to be, remembered. `UniqueIndex` is FALSE for the schema the migrations create
(`ix_news_event_cluster` is not unique, and PostgreSQL refuses `ON CONFLICT`
on it), and every run has it FALSE: an article that concerns somebody ends in
`refused`. TRUE is the schema the upsert was written for; the theorems hold for both.

### AlertEngine, AlertRules, PriceWatch

The alert component is cut in three along the state that matters.

`AlertEngine` has the transactions. A generator call goes client by client:
its DELETE sees rows (`BeginClient`), ends and takes them (`DeleteRows`), each
item is skipped or emitted (`SkipItem`, `EmitItem`, `EmitBlind` when Redis is
away), the transaction commits (`CommitClient`), cooldowns are recorded one by
one (`RecordCooldown`). `Wipes` distinguishes the generators: `alerts.py` and
`drift.py` delete rows of every status, `price_watch.py` open ones only. What an
item is (a position, a promise, a news item) is abstract: it shows a signal or
not (`live`). A row is named by the commit that wrote it, and `NumBatches`
bounds how many commits have rows in the table together; a number is used again
when its rows are gone, as a database's ids are never needed to be the same.
`disturbed` (a history variable) has the calls of `alerts.py` that share a client with
another, `overlapped` the clients where such a call was the last to commit.

`AlertRules` has the rules: one pass of the helpers of `generate_alerts` and of
`drift.py` over a client, one item at a time with the keys seen so far (which
`drift.py` does not look at: `Known`), and then `alert_rank.py` over all rows. Thresholds are those of the code, in
integers: hundredths for sentiment, confidence and fit, amounts against
percents for drift.

`PriceWatch` has the baseline. Its steps are the awaits of `_check_price_move`:
fetch the snapshot, read the baseline, replace it, judge, and, at the end of the
client, commit and record cooldowns. Any number of scans may be under way: the
price loop and an admin request do not exclude each other. `Anonymous` are the positions
without an ISIN, for which the baseline is replaced and no alert raised. `lapped`
names the snapshots that met a baseline another scan had replaced since.

### ChangeRadar, RadarDispatch, Radar

`ChangeRadar` is the rebuild. `Signals` turns what was read (alerts, news,
e-mails) into one record per channel and client; `Strongest` and `OnePerPair`
keep one per entity and client (when two are equally strong the order in which
the database returns rows decides: the model takes either); `EntityRow` and
`Impact` are the scoring; `UnresolvedRow` is the alert whose entity cannot be
told. As a transaction a rebuild is `Begin` (read the e-mails, send the
DELETE), `DeleteAndRead`, `CommitBuild` or `Abort`; several may be under way.
Rows carry the rebuild that wrote them.

`RadarDispatch` is the cycle over a table it does not control: `Refresh` may
turn `events` into any set of rows at any time. `StartCycle` reads the rows and
the clock; each critical row is skipped or pushed (`SkipRow`, `PushRow`), then
the digest, then the commit of the ledger. `Visible` is what the cycle's own
queries see (the session flushes before a query). A push, its mail and its
ledger row are one step because the cycle shares nothing in between.

`Radar` composes the two: `events`, which both take from `RadarTable`, is one
variable, the builder's steps leave the dispatcher alone and the other way round,
a restart stops both, and the clock is the same. It implements `RadarDispatch`'s
specification (`DispatchSpec`; checked by its run and proved), so what is proved of
dispatch over any table holds of dispatch over the builder's table.

### GraphAuth, NoteWriteback

`GraphAuth` is the token cache: an operation loads the Redis key into a copy
(`call[c].cache`), lets MSAL work on it, and saves the copy if it changed. A
*grant* is an account with its refresh token, one per sign-in flow. `TokenLoad`,
`TokenSilent`, `TokenSave` are `get_access_token`; `Login`, `CallbackLoad`,
`Exchange`, `SignInSave` the two sign-in endpoints; `SignOutLoad`,
`SignOutSave`, `SignOutDelete` the sign-out. A silent refresh ends in one of four
`Answers`; the copy it changed is saved before the result is looked at, so that a
refused refresh is saved too. `revoked` records which grants no
operation had a copy of when a sign-out ended.

`NoteWriteback` extends it with what needs a token and what does not, for one
client:

| Code | Module |
|---|---|
| `POST .../voice-notes/commit`: flush the note, read the DNA row, merge, commit | `BeginCommit`, `CommitNote` (with `ApplyDelta`); from the upsert on the row is locked, so that part is one step |
| `_save_events_to_calendar`: per event a token and a call | `AskToken` and the token steps of `GraphAuth`, `CreateEvent`, `EventFails`, `NotSignedIn` |
| the confirmation mail and the answer | `EventsTried`, `Confirm` |
| `extract_dna`, `extract_style_profiles` | `BeginExtract`, `CommitExtract`, `CommitStyle` |
| `GET .../dna` | `Sources` |

A DNA item is the note it names as its source; one whose note indices are all invalid
stays in its list without a source, and is `Unsourced`. `bare` has the lists that the
latest extraction left with such an item. A calendar call that raises may have
created the event all the same (`EventFails`). `hist` records who wrote which
lists and what they had read (`base`), which is what `LostToSameList` speaks of.

### SwapAdvice, MessageDraft

`SwapAdvice` goes from the DNA to proposals: `Tags`, `Score`, `Offered` and
`Answer` are the rules (`tags.py`, `_score_holding`, E3 to E12), and a run is cut
where the code awaits: `FitRead`, `FitCommit`; `SwapRead`, `SwapConflicts`,
`SwapDelete`, `SwapCommit`. A task runs both (`PortfolioAgent`), an admin either.
`SwapDelete` remembers the rows its statement saw (`got`); rows another run
commits in between survive, and the positions where that can happen are
`crossed`. `ver` and `by` of a proposal are not columns: they name the DNA and the
run it comes from.

`MessageDraft` extends it with the sheet (`SheetRead`, `SheetScores`,
`SheetCommit`: three statements that may see three moments), the render around
its LLM call with the number guardrail, and edit, approve and send over each
other. A profile says for which of its tags a note stands behind (`noted`): a
sheet's `points` are those only. A text is the set of numbers it shows.

### LlmBudget, EmailIntake, NewsScan, Intake

`LlmBudget` is the meter: `Check`, then a request, then `Answer` with its cost,
`Retry` when `json_chat` cannot parse it, `ProviderFails`, `Midnight`. A caller is
`Free`, `Running` by itself, or at a step of a call.

`EmailIntake` is a cycle over the mailbox: `Fetch` with one representative per
thread, `Classified`, `Mark` (SADD tells who was first), `Reply`, or `Sheet`,
`Render` and `FileTask`, each its own commit; and the demo rows, whose marker in
Redis is set before and removed before the commit it stands for. The reset of the demo
is three steps, `ResetRead`, `ResetUnmark` and `ResetCommit`, and deletes only the rows
it saw.

`NewsScan` is watchlists (`WatchRead`, `WatchCommit`; for clients with holdings
and a DNA only), the scan of a client
(`ScanRead`, `Filtered`, the gates, `AskVerdict`, `Verdict`, `RowsCommit`) and the
seeded stories (`SeedRead`, `SeedCommit`, `FanRead`, `FanCommit`). A text is the set
of its words; `Strong`, `Weak`, `Own`, `Care` and `Shortlisted` are the two-signal
match.

`Intake` composes the two: callers and their calls are shared, so that a scan can
exhaust the budget a mailbox cycle needs, and `SpendsAsBudgeted` says that
whatever they do with their calls is what `LlmBudget` allows.

## 3. The runs

| Run | Specification and bounds | Shows |
|---|---|---|
| `task_safety` | `Spec`; one task, one alert, two RM requests at once, two failures, one re-delivered id; 1.3 million states | `NothingFallsOut`, `AgentRunsOnce`, `AutonomyBoundary`, `ConvertedHasTask`, `TableUnlessOvertaken` |
| `task_queue` | `FairSpec`; two tasks behind one runner, one RM who patches either of them, one re-delivery; 1.8 million | `AutoTaskFinishes` |
| `news` | `FairSpec`, the schema as it is; four articles in pages of two, two clients, one failure, one failed LLM call, one expired verdict; 350 thousand | `CursorCovers`, `PaidOnce`, `NoSpuriousCandidate`, `ArticleSettles` |
| `news_upsert_refused` | the schema as the migrations make it, nothing fails | a counterexample to `CandidateHasItem` |
| `alert` | `FairSpec`; a bond and a promise extracted twice, one call at a time, an RM who dismisses, reopens and converts, one failure; 91 thousand | `CooldownSound`, `OneRowPerKey`, `DecisionKept`, `SignalSurfaces` |
| `alert_rules` | 31 752 situations: every two articles, and every mix of 54 books, contacts, promises and proposals; 730 thousand | `PairSurvives` |
| `price_scan` | two scans over each other; two clients with one listing, the first in a position without an ISIN, two prices, two price changes, one failure; 4.0 million | `PricesTold` |
| `radar_build` | the refresh loop and an admin, two admin requests, one failed rebuild, three sources that come or go, a day passing; 1.1 million | `TableSound`, `NothingDropped` |
| `radar` | `FairRadarSpec`; builder and dispatcher over a day of two hours (one of them quiet) and the morning after, one failure, two sources that come or go; 120 thousand | `TellsOnce`, refinement `DispatchSpec`, `CriticalSurfaces` |
| `advice` | `Spec`; two requests at once over a technology and an energy holding with four candidates, three profiles, one of them with no note behind it, one draft, five operations; 900 thousand | `OfferSound`, `OneAnswer`, `AnswerStays`, `FitFalls`, `DraftFaithful`, `SentMeansMailed` |
| `notes` | `Spec`; two requests at once and the RM's browser, two lists, one imported note and two new ones, two events a note, answers of up to two items a list, two grants, three operations; 2.3 million | `SignOutSticks`, `NoteIsWhole`, `LostToSameList`, `SourcesStand`, `ReportIsTrue` |
| `intake` | `Spec`; two callers, two operations, three mails of two threads, two articles and a story, a cap of two answers, three attempts; 840 thousand | `BudgetHolds`, refinement `SpendsAsBudgeted`, `EachAnsweredOnce`, `NoDuplicateRow`, `RowsJudged`, `MatchGrows`, `SeededReaches` |

What each property says stands before its definition. Some are conjunctions
of named parts, each with its own comment (`NothingFallsOut` is `NoSilentLoss` and
`RunningIsHeld`, `CooldownSound` is `CooldownEarned` and `OncePerWindow`,
`EachAnsweredOnce` is `OneAnswerEach` and `NothingMissed`, and so on): one hazard,
seen from both ends. The type invariants are `TypeOK`, `RulesTypeOK`,
`PriceTypeOK`, `AuthTypeOK` and `BudgetTypeOK`; they are theorems or conjuncts of
the inductive invariants of section 5.

### Why the bounds are enough

- *Tasks.* The interference the code allows is between the runner and requests
  on one row; two requests suffice for every pair of read-then-write windows, and
  rows share nothing but the queue. Two tasks in `task_queue` let one block
  the other. Two failures cover a failure during the recovery from one. One
  re-delivery puts an id twice in the queue while its task is in any phase.
- *News.* Pairs of an article and a client are independent but for the loop
  over clients, the queue and the cursor: two clients give the loop two
  iterations, two articles give the queue an order, and four in pages of two a page
  that follows a saved cursor and leaves one behind. The articles differ in kind: one concerns a client by a
  holding and another by a theme, one is a keyword hit by accident, one concerns
  nobody.
- *Alerts.* Calls interfere with an RM, with failures and with the call
  before them through rows, and through cooldowns of one key: one client with a key
  of `price_watch.py` (deletes open rows only) and one of `alerts.py` (deletes
  all). Calls that overlap are not in the run, as its liveness needs them one
  after the other; `CooldownTheorem`, `DecisionTheorem` and `OneRowTheorem` are proved
  for any number of them. `NumBatches` leaves room for the rows of a call and of an earlier one.
- *Prices.* Two prices a threshold apart: every change is a jump, the case where
  something can be lost. Two changes let a scan hold a snapshot that is older than the
  one another scan has written, two scans are the smallest overlap, and one of
  the two holders of the listing has no ISIN. Moves below the threshold are left to
  the theorem.
- *Radar.* The margin compares two impacts; conflict and sale on one security
  bring the impact above the margin, each alone does not. One rebuild overlapping
  another is the smallest overlap, a third rebuild after them the smallest
  recovery.
- *Advice.* Every hazard is a pair: a scoring run against a swap run, a sheet
  against either, a render against an edit, a mail against a mark. Two requests
  and five operations give each pair a DNA change in between. One holding has a
  candidate that is compliant, one that is not and one that is held; the other
  has none, so both answers of E11 occur.
- *Notes.* Two commits, or a commit and an extraction, of one client over one or
  two lists are every overlap of two readings; two events let the token run out
  between them. Three operations (`MaxOps` counts commits, extractions, sign-ins
  and sign-outs, failures and restarts) make two requests and one thing that
  happens to them.
- *Intake.* Two operations at once (`MaxOps`), each of which is a whole cycle or
  scan with all its calls. A cap that the second answer reaches makes the third
  check refuse; three attempts let a retry meet the cap that another caller used
  up. `EarlyMails` of the three mails are there at the start and one may arrive; the first
  and the third are one thread. Two securities share an issuer, one name is
  an ordinary word, one pair of article and client is far apart, `Loaded` is the
  book that is seeded and `Books` what it may become.

Three more assumptions hide in definitions. `AlertEngine` needs room for a commit
(`Room`) before a call takes a client, so that the bound never blocks an open
transaction. `RadarDispatch`'s clock stops after `MaxDays`. `NoteWriteback`'s requests
answer with one of `Replies`, in the run the sets of up to two items.

## 4. Fairness

Safety runs assume none. Liveness is stated under the fairness that the loops
give, and, where failures are part of the run, for behaviours without one
(`[](faults = 0) => ...`): a pop that is lost stays lost, by design.

- *Task runner, poller, fan-out* (`FairSpec` of `TaskLifecycle` and `NewsPipeline`):
  weakly fair. Each is a `while True` loop in its own asyncio task that catches
  exceptions and goes on; every await in it is bounded by a client's timeout. A
  handler that has begun finishes; nobody has to call one.
- *Price loop* (`FairSpec` of `AlertEngine`): the steps of a call are weakly fair.
  Its start is strongly fair: the loop calls the generator every few minutes
  whatever else runs, and waits for nobody; that `Runs` may all be taken by
  admin calls is a bound of the model, not a wait in the code. Expiry of a
  cooldown is weakly fair: Redis keys have a time to live.
- *Radar* (`FairRadarSpec`): the dispatch cycle and the refresh loop's rebuilds are
  weakly fair; a rebuild an admin began proceeds; sources and requests owe
  nothing.

## 5. What is proved

TLAPS checks these for every value of the constants that satisfies the named
assumptions, each stated in the module that declares the constants and evaluated
by TLC in the runs. Most (`TaskAssumption`, `NewsAssumption`, `AlertAssumption`,
`RadarAssumption`, `GrantsAssumption`, `WritebackAssumption`, `DraftAssumption`,
`MailAssumption`) say that sets of names are disjoint and that bounds are numbers. The others add:

- `RulesAssumption`: the articles of a client form a sequence, and sentiments lie
  between -1 and 1 (in hundredths), which `news.py:21` states of the provider; only
  `RulesTypeTheorem` uses the range.
- `BuildAssumption`, `RadarBuildAssumption`: sources and positions are finitely
  many, their CHF values natural numbers; the demo rows are well-formed rows with a
  key; a decay is given for every day of the run. Tables and payloads are finite,
  and an unknown value counts as none in the code.
- `SwapAssumption`: finitely many holdings, worth natural numbers.
- `PriceAssumption`: closes and threshold are positive; the scan's order is of
  clients, and their holdings of listings.
- `ScanAssumption`: finitely many articles, and securities of one issuer have the
  same name words, as `significant_name_tokens` (`news_match.py:543`) computes them
  from the issuer.
- `BudgetAssumption`: finitely many callers, a cap of one token at least, and a
  cost of at most `MostTokens` an answer.

None restricts how many tasks, clients, requests, keys, callers or failures there
are, whether they overlap, or which unique index the schema has. Every invariant and
every action property of a passing run is a theorem about the whole specification,
under no further hypothesis.

**TaskLifecycleProofs** - `TypeCorrect`, `AutonomyTheorem`, `RunsOnceTheorem`,
`FallsOutTheorem` (from `NoLossTheorem` and `HeldTheorem`), `ConvertTheorem` and
`TableTheorem`. `TypeOK` is not inductive: what a commit writes is what its
request kept from a read, so `RequestsInv` says what an in-flight request may
hold; what an agent may run for depends on what gets into the queue, so
`QueueInv` says that only Auto tasks do, and `RunnerInv` that the runner's
hands hold one of them in the phase they are in; that a task runs once rests on
`FreshInv` (a task that can still be claimed has seen no agent). Losses add
`WriterInv`: while the runner works on a row, a status other than running was put
there by an RM. `ConvertedHasTask` needs only `SourceInv`. `TableTheorem` adds `ReadsInv`: what a request
is about to write was a step of the table from what it read, and a claim was from
created.

**NewsPipelineProofs** - `TypeCorrect`, `CoverTheorem`, `PaidOnceTheorem`,
`NoSpuriousTheorem`. `CoverInv` strengthens `CursorCovers` by what the poller has pushed for
a cursor it has not saved; `PaidInv` gives `paid` its value (one exactly while a
verdict is remembered or about to be), from which the bound follows, and that of the pair about to be
pushed no spurious verdict is remembered. That candidates have a row is no
theorem: it is false (`news_upsert_refused`).

**AlertProofs** - `TypeCorrect`, `CooldownTheorem` (from `EarnedTheorem` and
`OncePerWindowTheorem`), `DecisionTheorem` and
`OneRowTheorem`, all for calls that overlap as they like.
`WindowInv` relates the rows committed, the cooldowns on and those still owed;
`HeldInv` says that no two open transactions have deleted one row and that a
price scan has deleted open rows only, from which `DecisionKept` follows;
`AloneInv` that a call of `alerts.py` that has had its client to itself since its DELETE
has every row of it in that DELETE, and so leaves one row per key, also after calls that
overlapped (`overlapped`) left two.

Of the pass over a client, `PairTheorem`. `PairSurvives`
speaks of the end of the pass: `NewsInv` says of every article gone by that it is
dealt with. Its step is the case where an article finds a key taken by an earlier
one, and `KeyInv` shows that the key's owner is then the very alert (the action)
the article asks for (`NewsRaised`); no other helper raises an alert of that class
(`OtherRaised`). `RulesTypeTheorem` adds what a row may hold and that each gets a
score.

Of the price scan, `PricesTheorem`, for any number of scans over each other. `SeenInv` orders in time what the market, the
baseline and the scan have: the baseline that is replaced is the one that was read,
and never newer, unless another scan has written it meanwhile, and then the snapshot is
`lapped`. `JumpInv` follows a jump through the scan: silenced, lapped, reported,
in the collected moves, or in the hands of the scan, which is about to judge it
with the very readings that made it a jump. `PriceTypeTheorem`'s
invariant says that a scan between a fetch and a judgement is at a listing its
client holds.

**RadarProofs** - of the dispatcher: `TypeCorrect`, `TellsOnceTheorem` (from
`LedgerTheorem` and `NoRepeatTheorem`), for any table, any clock and any margin. The
cycle compares an impact with the last
delivery only, and the property speaks of all earlier ones: `SoundInv` keeps
the ledger, and what the cycle sees of it, climbing for every key, so that the
last is the highest (`ClimbedTransitive`, `AboveAll`), and keeps a last delivery for
every key that has one (`HasLast`), which avoids an induction over the sequence.
`HeardInv` ties what was announced since the last failure to the ledger the
cycle sees.

Of the builder: `TableTheorem` and `NothingDroppedTheorem`. `WholeSnapshot` is about
a rebuild that ran alone, and is not inductive: `AloneInv` says that such a rebuild
has taken every row there was to take and that no other is at work, so that its
commit replaces the table; `KeptInv` that no rebuild has a demo row among those it is
about to delete; `ReadInv` that what it has read are sources of today or earlier.
The rest is about the rows themselves, as a function of what was read: one row per
entity, because a group's signals have its key; every plain alert is in a group or
has a row of its own (`AllRepresented`); and `CountedOnce`, by the lemmas on sums:
the exposure of an entity adds up what one signal per client stands for, and its
bound adds up each position once.

Of the two together: `DispatchRefinement`, step by step (a commit of the builder is a
`Refresh`, every other step of it a stutter, for which the rows a commit
writes must be rows the dispatcher can read); `RadarTellsOnce`, which follows; and
`RadarTableSound`.

**SetSums** - the lemmas these and the next need about `SumFunctionOnSet`. The
library defines it by recursion over a set and has no theorem about it, and the
induction theorems take an operator, which the provers cannot instantiate. A set of
numbers, or of subsets of a finite set, can be passed: `Counting` (a set with 0 and
the successor of each member has all numbers) and `MinimalSet` (a counterexample
among the subsets of a finite set has a minimal one) do instead. `SumExists` shows
that the recursion defines a function, `SumRemove` that any element may be taken out
first; `SumDisjoint`, `SumSubset` and `SumMonotone` follow.

**NoteWritebackProofs** - `SignOutTheorem` and the refinement `AuthRefinement`.
`RevokedInv` adds to `SignOutSticks` that no copy of the cache has a revoked grant;
`StepIsAuth` shows that every step of the notes is a step of the sign-in or
leaves it alone, from which both theorems follow.
`WholeTheorem`, `LostTheorem`, `SourcesTheorem` and `ReportTheorem` are about the
note commits. `BaseInv` says what a request may hold and that no two requests
have one note, a commit's not yet and its calendar part's already in the CRM.
`LostToSameList` is not inductive, as a merge writes what its request read:
`SeenInv` says that what a commit has read is what the lists were at its position of
the history, `ListsInv` the same of the row now (`DnaSteps` reduces every step to a
read, a merge, a replacement or none of them). `ItemsInv` adds for the sources that what a
commit has read is cited, and has items without a source in the lists of `bare` only,
unless an extraction came after its reading; and `ReportInv` that while a note is
in its calendar part the calendar has at least the events the request counts.

**AdviceProofs** - about the composed advice and drafts: `OfferTheorem`,
`AnswerTheorem`, `OneAnswerTheorem`, `DraftTheorem`, `SentTheorem`, `FitTheorem`. `VersionInv` says that whoever
holds a profile of one version holds the same profile, so that "the version of
the DNA now" decides whether an old reading still counts; `FitInv` that a conflict has a
tag its profile excludes. `OneAnswer` needs `CrossInv`: a run about to write has deleted
every row of the positions it answers, unless another run was answering them.
`ListInv` says of a sheet that scores and DNA of one version give it a tag of the conflict
among its points, or among those with no note behind them (`unsourced`).
`MailInv` keeps a mail under way right for its draft while the draft changes. The
lemmas `ScoreTells` and `AnswersAgree` are about the scores and the rows of one
run. `FitTheorem` rests on `FittedInv`, that the stored scores are all of one
profile; each score falls when that profile excludes more and tilts to less
(`ScoreFalls`), so the weighted sum does, and its quotient by the unchanged value.

**IntakeProofs** - `BudgetTheorem`, about the meter by itself. A bound on `spent`
alone is not inductive: a
request that passed the check may answer at any time. `Reserved` charges every
caller that has asked for `MostTokens` in advance, `spent + MostTokens *
Cardinality(Asked) <= Cap - 1 + MostTokens * Cardinality(Callers)`; a check
that passes finds `spent < Cap`, and at most all callers have asked
(`Counted`). `HasLeft` says that a call under check has a request left. The
refinement `BudgetRefinement`, from which `SpendingTheorem`
carries the bound over to mailbox cycles, demo and scans; `GrowsTheorem`; and
`AnsweredTheorem`. `EachAnsweredOnce` is not inductive: `BusyInv` says that a caller
does one thing, so that no scan ends a cycle; `HandsInv` that a message in hand is
marked, has no task yet and is in no other caller's hands, which is what the SADD is
for; `RowsInv` that an advice in hand has its draft, with its text before the task is
filed; `IdsInv` that what the demo's marker or a reset names is a row of the demo, so
that a reset never deletes an answer. Ids have to be fresh for that (`FreshIs`): as the
marker outlives the rows it names, a new id must differ from the marker too.

`OneRowTheorem`, `JudgedTheorem` and `ReachTheorem` are about the news. `NoDuplicateRow`
is not inductive: `OnceInv` says of every article that it is in one place once - in
a row, to be judged, judged and not yet written, with this worker or another -
unless it is `crossed`. `JobsInv` says that what is to be judged was kept by the filter
of the same scan, and that each row in hand has its verdict, which is `RowsJudged` one
step ahead. `ReachInv` is about the holders a row was told to; the security that
stands for its issuer is named whenever another one is, which is where
`ScanAssumption` comes in. `SetAsSeq` says of `SetToSeq` that it lists each element once;
the operators that drop known articles are sets for that reason.

## 6. What is only model-checked

- Liveness (`AutoTaskFinishes`, `ArticleSettles`, `SignalSurfaces`,
  `CriticalSurfaces`): out of the prover's reach, as it needs `ENABLED` and
  fairness.
- The scores of `AlertRules` (`RankScore`) and the order of its rows: computed in every
  situation of the run; of their values it is only proved that they are numbers.

## 7. Divergences

Where a comment, document or test says one thing and the code does another. One
is a run of its own, with a counterexample TLC finds:

- `news_upsert_refused`. The upsert of `news_fanout.py:301-327` names
  `event_cluster_id` as its conflict target, and no unique index covers the
  column (`models/derived.py:111`, `migrations`): PostgreSQL refuses every such
  statement. The candidates were pushed before it, the article is gone from the queue.
  `news_fanout.py:108` says "Idempotent: ... upserts the existing NewsItem row".
The others were met while modelling; the modules follow the code:

| Where | The code | What is said |
|---|---|---|
| `task_runner.py:156` | persists done or closed over whatever the row has become: a task closed during its run becomes done; `TableUnlessOvertaken` names the case | `routers/tasks.py:37`, `tests/test_tasks.py:356` "closed → anything is 409." |
| `task_runner.py:173` | an error at the persist, or a restart after the claim, leaves the row running for ever | `task_runner.py:10-11` "never silently dropped" |
| `routers/alerts.py:354` | check and commit are apart, and a converted alert may be patched to open: two tasks from one alert | `routers/alerts.py:355` "Alert already converted to a task" |
| `loaders/alerts.py:81` | deletes a client's alerts, and the 24-hour cooldown of its own last run suppresses the new ones: run twice in a day, the client has none; `price_watch.py:74` does so to open `maturity_soon` alerts | `loaders/alerts.py:14` "Idempotent", `kanban/in-progress/TASK-032-alert-generate.md:241` |
| `loaders/alerts.py:81` | deletes dismissed alerts and their reasons with the others | `routers/alerts.py:284` "persisted as a calibration signal", `docs/Requirements.md:470` |
| `loaders/drift.py:201` | two positions of one security insert two `stale_sell` rows | `kanban/in-progress/TASK-033-alert-noise.md:75` |
| `loaders/alerts.py:250` | waits for the impact "non-financial moment"; the classifier says "moment" (`news_match.py:164`): a moment raises nothing | `loaders/alerts.py:249` "opportunity/moment on care-axis themes" |
| `loaders/alert_rank.py:27` | keys CRITICAL and ATTENTION; the values are "Critical" and "Attention": every severity weighs 1.0 | `alert_rank.py:6` |
| `loaders/alert_rank.py:63` | compares with "REACH_OUT"; the value is "ReachOut" | `alert_rank.py:9` |
| `loaders/alerts.py:470` | promises are told apart by their first 64 characters | `alerts.py:455` "one overdue_promise alert per open promise" |
| `loaders/price_watch.py:160` | the baseline is replaced without a look at its timestamp: of two overlapping scans one reports a move that ran the other way, or a jump is lost between them | `price_watch.py:141` "never fabricated" |
| `loaders/price_watch.py:169` | for a position without an ISIN the baseline is replaced and no alert raised: the next holder of the listing in the scan sees no move | `price_watch.py:137` "if the position moved beyond the threshold" |
| `loaders/price_watch.py:160` | the baseline is per listing, replaced while the first holder is checked: a second holder in the same scan sees no move | `price_watch.py:137` "if the position moved beyond the threshold" |
| `radar_dispatch.py:154-180` | a critical change in quiet hours is recorded as delivered and never mailed, nor is one whose mail failed | `config.py:301` "deferred to the next digest", `radar_dispatch.py:7` |
| `radar_stream.py:45` | a push that no tab receives, or a full queue drops, is recorded as delivered | `radar_dispatch.py:154` "SSE always fires" |
| `radar_dispatch.py` | compares `now.hour` in UTC | `config.py:299` "local hour" |
| `loaders/email_ingest.py:354` | drops e-mails that resolve to nobody | `email_ingest.py:22` "surfaced as an explicit `email:unresolved:*` signal" |
| `loaders/news_match.py:369` | an article stored for any client is skipped for the next one | `models/derived.py:107` "UUID strings of clients this article matched" |
| `loaders/news_match.py:604` | of the securities of one issuer only the first counts for a seeded story: holders of another one hear nothing | `news_match.py:572` "**all holders** of those instruments" |
| `loaders/email_autodraft.py:36` | remembers message ids: a thread gets a draft for every inbound message that becomes its representative | `email_autodraft.py:11` "so a thread is auto-drafted once" |
| `loaders/dna.py:145` | keeps an item whose note indices are all invalid, with no source; the DNA of synthetic clients has no sources at all (`synthetic.py:206`) | `dna.py:4` "linking every attribute back to its source note" |
| `loaders/message_render.py:228` | writes the model's text over an edit the RM made during the call | `routers/messages.py:122` "RM edits the draft text" |
| `loaders/dna.py:397` | returns the version of the row as it was loaded, before the increment | `dna.py:311` "Returns the new version number" |
| `loaders/swap.py:108` | deletes the proposals of the holdings in conflict now; those of holdings that no longer are stay, and without a conflict nothing is deleted | `swap.py:10` "delete-and-reload per client", `routers/admin.py:228` |
| `loaders/swap.py:148` | the ten points never keep a holding: one in conflict scores 0 and what is compliant at least 50 | `swap.py:8` "improve fit score by more than FIT_GAIN_THRESHOLD (E12)" |
| `llm.py:185` | the retry sends the same messages | `llm.py:176` "appending the parse error as a user message" |

And, with nothing said against it, what a reader of the code may not expect:

- An index that the answer of the news filter repeats inserts the article
  twice (`news_match.py:86`); a verdict that fails leaves `impact` empty for good, as
  later scans skip what is stored; one failure of the embeddings turns the
  distance gate off until a restart; a scan of all clients survives a
  `RuntimeError` (`news_match.py:524`), and an exhausted budget ends it.
- The representative of a thread is its latest inbound message even when
  the RM has answered it since. An advice goes to the first holder only; when its
  render fails, a draft without text stays, and no task. The reset of the demo
  removes its marker before it commits, and deletes the rows its statements saw: of two
  made meanwhile it may take one and leave the other (`loaders/demo_email.py:193-206`).
- Two calls of `alerts.py` over one client leave two rows for a key, until the next call.
  A sheet of a conflict whose DNA items have no source has no `dna_points`
  (`fact_sheet.py:207`). That the pages of the news feed are gapless
  (`news.py:213`) is the feed's promise: the code follows the cursor it is given.
- A calendar call that raises may have created its event
  (`voice_writeback.py:314-325`), which neither the answer nor the mail mentions.
- A commit of a note answers 0 and mails nothing when the sign-in ends after some
  events were created, and, sent again after a lost answer, writes the note, its
  items and its events again.
- A render writes its text over an edit made during its call; `provenance` and
  `facts_used` stay those of the render after an edit; a sent draft may be
  approved; a draft whose text was cleared is mailed as its raw sheet.

## 8. What is not modelled

- *Texts*: prompts, labels, suggested actions, evidence, e-mail bodies, HTML.
  No control depends on them.
- *Numbers of models*: embedding distances, cross-encoder scores, sentiment,
  confidence. They enter as inputs, or as a choice where a gate compares them.
- *Read endpoints*: book, similarity, needs-attention, allocation, performance,
  live portfolio, the radar's read API. They write nothing and span no await
  between two reads that have to agree.
- *Orchestration*: one LLM call over a context, answered with a validated list of
  widgets or a fixed one.
- *Follows*: one table with a unique keyword; a check, an insert, and an index that
  refuses the second.
- *Transcription and structuring of a note*: calls whose answers an RM reviews; what
  is approved is any delta in `NoteWriteback`. The upload writes one audio object.
- *The cross-encoder gate*: off unless configured (`config.py:279`); its outcome is
  `GateDrop` in `NewsPipeline`.
- *Seeding and import*: run once per deployment, in a fixed order, from
  spreadsheets.
- *Frontend, demo film, infrastructure*.
- *The tabs' queues* of `radar_stream.py`: a push is one announcement.


## 9. Plan

Done, in this order: tasks (the autonomy boundary is the product's central
promise), news delivery, alert generation, radar building and dispatch; then
notes, DNA and sign-in, scores, swaps and drafts, the LLM budget with the mailbox
and the news scans that spend it. Each is checked, and proved but for what
section 6 names.

What is left, by worth:

1. Overlapping generator calls in a run of `AlertEngine` of their own: what is proved
   of them (`OneRowTheorem`, `CooldownTheorem`, `DecisionTheorem`) the run of today shows
   for calls one after the other.
2. One composition of mail and notes: both draw tokens from the one cache, in
   `EmailIntake` a fetch has one or has none.
3. The orchestrator's matching of a client's name, as an operator over small names.
