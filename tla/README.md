# DynamoUI in TLA+

DynamoUI is a Python (FastAPI, asyncio, PostgreSQL) backend that turns natural language into
queries over a tenant's database. This directory holds TLA+ models of the parts of it where
several requests, background tasks or restarts meet, the TLC runs that check them on small
instances, and TLAPS proofs of the properties that matter most for every instance.

All paths below are relative to `src/backend/` unless they begin with `src/`.

## 1. The system

The program is one process with one asyncio event loop. Code between two `await`s runs
undisturbed; at every `await` (a statement, a commit, a model call, a connectivity test) any
other request or task may run. PostgreSQL transactions run at READ COMMITTED, so a SELECT takes
no lock and may be out of date at the next statement of its own transaction.

| Component | State | Operations | Meets other components through | Models |
|---|---|---|---|---|
| Canvas (`canvas/`) | `canvas_sessions` row: state, partial intent, messages, preview cache; output directory | message turn, preview, generate | the language model | `CanvasIntent`, `CanvasConversation`, `CanvasSession` |
| Tenant registry (`tenants/registry/`) | four resource tables; an LRU of parsed views | get, load, upsert, delete, invalidate | tables shared by all requests | `TenantRegistry` |
| Tenant connections (`tenants/connections/`) | `tenant_db_connections` | create, update, delete, test | adapters' testers | `TenantConnections` |
| Scaffold jobs (`tenants/scaffold/`) | `tenant_scaffold_jobs`; background tasks | start, run | reads connections; their deletion cascades to jobs | `ScaffoldJobs` |
| v2 resolve pipeline (`query_engine/`) | verdict cache, `pattern_gap` table, gap tasks | resolve, verify, execute, record | pattern cache, synthesiser, adapters | `ResolvePipeline` |
| Pattern cache and promotion (`pattern_cache/`, v1 `/resolve` in `skill_registry/api/`) | `*.patterns.yaml`, trigger index, id map | resolve, promote, reload, start | synthesiser, `main.py` callback | `PatternPromotion` |
| Saved views (`personalisation/services/saved_view_service.py`) | `dui_saved_view`, its `stale` flag | create, get, list, update, delete, execute | skill hash, verifier, adapters | `SavedViews` |
| Dashboards, tiles, pins (`personalisation/`) | `dui_dashboard`, `dui_dashboard_tile`, `dui_pin` | CRUD; home reads all three | foreign key of tiles | `Dashboards` |
| Share tokens (`sharing/`) | `dui_share_token` | create, delete, resolve without authentication | points to a source nobody looks up | `ShareTokens` |
| Schedules and alerts (`scheduling/`) | `dui_schedule`, `dui_alert`, `dui_delivery_run` | CRUD, test fire | the worker that would run them is not in the repository | `Schedules` |
| Mutations (`adapters/.../mutation_executor.py`, `skill_registry/api/`) | a customer's table | preview, execute | any client | `Mutations` |
| Accounts (`auth/`) | tenants, users, memberships, identities; tokens outside | sign-up, login, Google login, the token check of the routes that have it | the context of those routes | `Accounts` |
| Metering (`metering/`) | operations, interactions, cost rates | start, record, complete, supersede | v1 model calls | `Metering` |
| Skill registry (`skill_registry/loader`, `models`, `registry`) | YAML files; a registry fixed from startup on | load, validate, refuse to start | everything reads it | `SkillRegistry` |
| Adapters' queries, crypto, CLI, scaffolder, seeder, formatters, settings | none of their own | | | not modelled, see the end |

### What is hard here, and what makes each component right

* **Canvas.** A turn reads the row, waits seconds for the model, and writes what it computed
  from what it read. Turns, previews and generations of one session overlap, a model may fail or
  clear a field that was set, and the process may stop, or the generator raise, while files are
  written. Right means: the
  state never claims less than the intent shows, nothing is generated from an incomplete intent,
  a preview shows the intent it was asked for; and with one request at a time the conversation
  only moves forward and the files of a generation that was answered stay.
* **Registry.** Views are loaded outside the lock, one query per type, while edits commit, fail
  half-way, or invalidate. Right means: bounded, least recently used goes first, and stale only
  in windows that can be named.
* **Connections and jobs.** Names are checked and then written; tests and scaffolds run long on
  what they read; deletes cascade under running tasks; a commit may go through and its
  statement raise. Right means: tenants stay apart, a status comes from a test of that row, new
  credentials are not overwritten, and a job agrees with where its task is.
* **Resolve pipeline.** Requests of one question race through a shared cache, the model times
  out or answers nonsense, gap tasks race each other. Right means: what is executed is justified
  for this request, no verdict is invented, counts add up, and a verification always ends (the
  execution that follows it has no timeout and need not).
* **Promotion.** The system rewrites the files it is served from while it runs. Right means: ids
  stay unique, the index follows the files across stops and failed reloads, only hand-written
  plans and plans derived from ones that ran are served, what waits for review is not lost but to a
  write to the file of the same entity and second, and what starts was loaded from sound files.
* **Workspace.** Handlers look at one row in one transaction and write another in the next; two
  writes forget the owner or the tenant; one route fails after it has committed; access counts are
  read and written back. Right means: rows change for their owner, answers are visible to who gets
  them, recorded drift surfaces, the tables agree, counts stay within their limits, and a
  mutation touches what it names.
* **Accounts.** Sign-ups race for an address and a slug, a first Google login takes two
  transactions, a token outlives the role it names. Right means: accounts stay distinct, tokens
  follow credentials, a revocation takes effect on the next request.
* **Metering.** Every write may be lost, or committed unseen, and rates are superseded
  concurrently or in the past. Right means: every day has its rate, and bills reconcile.

## 2. The modules

`CanvasIntent` (constants and pure operators) is extended by `CanvasConversation`, the abstract
specification, and by `CanvasSession`, the detailed one, which instantiates the abstract one with
a refinement mapping. `ScaffoldJobs` extends `TenantConnections`: a client's call and a job's task
share the connection rows, and deleting a connection composes the connection's action with the
cascade on jobs. `Workspace` composes `SavedViews`, `Dashboards`, `ShareTokens`, `Schedules` and
`Mutations`, which all extend `Requests`: the same clients use all of them, and a redeploy stops
the requests of all. `PatternPromotion` extends `SkillRegistry`, whose start is part of its own.
`Accounts`, `Metering`, `TenantRegistry` and `ResolvePipeline` stand alone. `MC*` modules add what TLC needs (symmetry,
definitions for structured constants); `*Proofs` modules hold theorems.
Operators named `X_Variant` are plausible mistakes in `X`; nothing uses them, they document
which mistake each property would expose.

A note on granularity that holds for all modules: an action is what runs between two awaits. Where
nothing another request does can matter between two awaits, or where the second await is a
read that changes nothing and is not answered, the handler is one action (`Once` in `Requests`).

### CanvasSession

One row of `canvas_sessions`; sessions are independent. `req[r]` is what request `r` is doing and
what its coroutine holds in local variables.

| Action | Code |
|---|---|
| `SendMessage` | `send_message`: read, cap, COMPLETE check; `driver.turn` up to the model call, or an affirmation |
| `LLMReply`, `LLMFail` | the rest of `driver.turn`: merge, validation, roll back, transitions |
| `WritebackSelect`, `WritebackUpdate` | the two statements of `turn_writeback` |
| `PreviewHit`, `PreviewMiss`, `PreviewStore` | `get_preview` |
| `GenerateRead`, `GenerateFiles`, `GenerateFinish` | `generate`; the generator has no `await`. `update_state` may raise, committed or not: the answer is then an error, and the files are there |
| `GenerateRaises` | the generator raises after some of its files; the row stays as it was |
| `Raises` | a statement of a turn or a preview raises |
| `Crash` | the process stops, possibly between two files |

Two fields stand for the required fields of an intent; the theme file is named after the mood and
the skill file after the entity, which is what lets files of different intents coexist. `bundle` is
the intent of the last generation that answered 200. The
abstract `CanvasConversation` has one step per answered turn and one per generation.

### TenantRegistry

`db` is the four tables, `order`/`views` the `OrderedDict`, `req` the coroutines. `GetHit`,
`GetMiss`, `LoadType`, `Insert` are `TenantRegistryCache.get` and `RegistryService.build_view`;
`UpsertSelect`, `UpsertWrite`, `UpsertReadback`, `Delete`, `Invalidate` are the edits; `Restart`
empties the cache. Nothing in the program calls `get`: the routes edit and invalidate, and only
the tests read. The model takes the cache for what its documents say it is for. A unique constraint rejects a second INSERT of a name; an UPDATE whose row is
gone changes nothing, and the read-back then fails. The history variable `recency` records
accesses, `tainted` marks views that missed an edit; neither influences a step.

### TenantConnections and ScaffoldJobs

A call holds what it has read; `CreateCheck`/`CreateInsert`, `UpdateCheck`/`UpdateWrite`,
`TestRead`/`TestRecord`, `Delete` are the service's methods cut at their awaits. A job's task goes
through `RunStart`, `RunRead`, `RunProgress`, `RunComplete`, and on an exception through
`RunRaises` and `RunFail`. A statement that raises may have committed (`CommittedUnseen`): `failed` is
then written over a `completed` nobody saw. The last write of a failing task may fail too (`"lost"`).
`CallRaises` is a statement of a call that raises, `start`'s read-back of its job included, which
leaves a pending job without a task. Credentials
are version numbers, so that a test of old credentials can be told from one of new ones.

### ResolvePipeline

`Submit` draws any candidate the pattern cache could give, since promotions change what it holds.
`Verify` is the part of `LLMVerifier.verify` before its `await`, shared by both sources of a
candidate. `VerdictApprove`, `VerdictReject`, `VerdictRaises`, `VerifierTimeout` are the ways the
call ends. `VerdictRaises` is a reply that parses as JSON but is no object: `data.get` raises and
nothing catches it, which the docstring of `verify` does not foresee. `GapSelect`, `GapUpdate`,
`GapInsert` are the statements of `PatternGapRecorder.record`, `GapFails` any of them that raises and
is swallowed, or a recorder without an engine. A plan is what `_plan_hash` covers
(entity, filters) and what it leaves out (`select`). `Cached`, `Others`, `Touch`, `Put` are the
`OrderedDict` of the verdict cache, as a sequence with the oldest entry first.

### PatternPromotion

`Score` says how well each input matches each trigger, of which a hit takes any of the best.
`Template` and `Parse` write a plan into a pattern and read it back: the selection is dropped, a filter
whose value is in braces is dropped, and an unknown operator becomes `eq`. So a served plan derives from
one that ran and may never have run itself.

`ResolveHit`, `ResolveMiss`, `SynthReply`, `SynthExecuted`, `SynthFailed` are v1 `/resolve`;
`Propose` is `/patterns/propose`: any plan of any user, at a fixed confidence of 0.91, which is
under the threshold of promotion. `PromoteElse`, `PromoteReview`, `PromoteCollides` and
`PromoteAppend` are the promotion task. A review file is named after the entity and the second
(`ReviewFile`), so `Tick` moves the clock; a write that fails or is cut short has already emptied the
file (`cut`). A promotion runs from its
read of the file to the reload without an `await` (the lock is free), so it is one action with
three outcomes: reloaded, not loadable, stopped after the rename. `Restart` rebuilds everything
from the files, and refuses when one does not load: an input whose first five words hold a letter
beyond a-z produces an id the model `Pattern` refuses.

### SkillRegistry

A catalog is what the directories of skill, enum and adapter files hold: each skill file parses or
not, refers to names, and has foreign keys. `Accepted` is `run_validation`: parsing
(`discover_all`), cross references (`EntitiesUnique`, `EnumsUnique`, `ReferencesResolve`), patterns that
belong to an entity and have an id of their own, and circular foreign keys. `DetectCircularFks` and `Dfs` are the walk of `validator.py` with its shared `visited` set and
per-branch path. `Dfs` is one recursive function over `Calls`: what the loop of a call of `dfs` has
left, the path to there, and what was visited and found so far; the loop over all entities is the call
with the empty path. `Targets` are the foreign keys that the loop follows; the order in which it meets
them is not observable. Entities and files are finitely many. The reference definition is
`Circular`: some set of entities in which each depends on another one. `LoadSkills` is a start,
`EditSkills` an operator's edit while the process is down; an edit while it runs waits for the
next start, so nothing is lost by that. Shadowed triggers and entities without mutations are
warnings and stop nothing; the connectivity phase is an option of the command line.

### Requests, SavedViews, Dashboards, ShareTokens, Schedules, Mutations: Workspace

`Requests` has the clients: `calls[c]` is the next step of a handler, its `AuthContext`, the row it
is about and what it carries across awaits; `by` records whose request took the last step, and is
`None` for those that ask for no user (a resolve of a share token, a mutation).

| Action | Code |
|---|---|
| `CreateView` | `create`: commits, then calls `get` without its `tenant_id` and raises, so it is never answered |
| `UpdateView`, `UpdateViewGet` | `update`; the owner's row or nothing, then `get` for the answer |
| `ExecuteRead`, `ExecuteMark`, `ExecuteAnswer` | `execute`: read and compare hashes, `_mark_stale`, answer with the flag that was read |
| `GetView`, `ListViews`, `DeleteView`, `HomeRead`, `HomeViews` | the routes of these names |
| `Deploy` | a new process with other skill files |
| `CreateDash`, `UpdateDash`, `DeleteDash` | `DashboardService`; the deletion drops the tiles by the dashboard's id alone |
| `AddTileCheck`/`AddTileInsert`, `UpdateTileCheck`/`UpdateTileWrite`, `DeleteTileCheck`/`DeleteTileWrite` | the tile handlers: `get`, then the write in a transaction of its own |
| `CreatePin`, `DeletePin` | pins |
| `CreateToken`, `DeleteToken`, `Expire`, `ResolveRead`, `ResolveWrite` | `ShareService`; the count is read without a lock and written back plus one, and the commit may go through without an answer |
| `CreateSchedule` ... `DeleteAlert`, `FireRead`, `FireInsert` | `SchedulingService`; only `test_fire` records a run |
| `PreviewMutation`, `ExecuteMutation` | `preview_mutation` with `DiffBuilder`, and `MutationExecutor.execute` |

A row holds what the properties tell apart: owner, tenant, name, sharing, skill hash and staleness
of a view; owner, name and layout of a dashboard. `next_run_at` is computed at creation only and
read by nobody. A layout is in tenths: `_validate_layout` checks `int()` of each number (`Whole`) and
the layout is stored as it was sent. The fields of a record hold values of a small set, one of them
what was there at first. A request may name any column, the primary key too (`KeyGiven`): then a
created row has that key, and an updated one moves to it, unless a row has it.

### Accounts

Users are numbered by the commit that creates them, as `created_at` orders them. An address is its
mailbox and whether it is written with capitals: the look-up compares in lower case, the unique
constraint does not, and only sign-up lower-cases what it stores.

| Action | Code |
|---|---|
| `Signup`, `Login`, `GoogleLogin`, `GoogleAddress` | the routes up to their first write |
| `ProbeSlug` | one probe of `_unique_slug`; `Candidates` gives the slugs of a name in order, and two names may share one |
| `CreateAccount` | `create_user_and_tenant`, one transaction, whose commit may go through unseen |
| `LinkIdentity` | `link_oauth_identity`, a transaction of its own |
| `IssueToken` | `list_memberships` and the token for the oldest tenant |
| `Authenticate`, `Authorise`, `Handled` | `get_current_context` in its two reads, `require_role`, the handler |
| `Cut` | a statement fails or the process stops; what is committed stays |
| `Edit` | from outside, since no handler does it: a membership changes, a user is deactivated |

A token is its claims, with the secret presented for it as a history field. A refused request
changes nothing and is not a step. `Login` takes any password and goes on with one that is the user's.
The token check is on the routes that depend on `get_current_context`; v1 resolve, mutate and patterns
and the metering routes (`metering/api/routes.py:6`) ask for no user at all. `last_login` is not
modelled.

### Metering

`rates` is the ledger of one model; rates of two models never meet. `StartOperation`, `CallModel`,
`RecordInteraction`, `Answer` are the operation around a model call, each write with the outcomes
done, failed and, for the interaction, committed unseen. `Supersede`, `CloseRates`, `InsertRate`
are `supersede_active_rate` under READ COMMITTED: the UPDATE picks the open rows committed when it
starts, waits for row locks, and re-checks; the INSERT meets the unique first day, the UPDATE the
check constraint on the range. An operation calls the model at most once, as every metered handler
does; the v2 pipeline and the canvas are not metered. Rates are above 0. Nothing in the code refuses
others; a cost that is not above 0 is told as none. Days stand for dates, a rate's price for its
id.

## 3. What is checked

| Run | Instance | Distinct states | Question |
|---|---|---|---|
| `race` | 2 requests, 2 fields, 1 value, cap 2, 3 answered turns, 1 preview, stops | 2.2 M | What survives any interleaving on one session? |
| `sequential` | 1 request, 2 values, cap 3, 4 answered turns, stops | 0.16 M | Does one request at a time implement the abstract conversation, and do answered files stay? |
| `lost_update` | as `race`, no previews or stops | violation | Are messages and intent in sync after concurrent turns? |
| `edits` | 3 tenants, cache of 2, 2 clients, 2 types, 2 edits, failures | 0.7 M | Is the cache bounded, LRU, and fresh but for named windows? |
| `stale` | 1 tenant, 2 clients | violation | Does the next read always reflect the latest state? |
| `verdicts` | 2 requests, 1 input, 2 filters, cache of 1, 3 queries | 0.3 M | Is what runs justified and counted, and does a verification end? |
| `learning` | 2 requests, 3 inputs, 3 entities, 5 plans, 3 queries, 8 catalogs, 2 seconds | 1.2 M | Do files, index, answers and review queue agree across promotions and restarts? |
| `workspace` | 2 clients, 2 users, 2 tenants, 1 or 2 rows of each table, 2 requests of any services or 3 or 4 of one, 2 redeploys | 0.23 M | Does the work of concurrent users on shared tables stay apart and consistent? |
| `accounts` | 2 clients, 2 mailboxes, 2 passwords, 2 subjects, 2 names with a slug in common, 3 users, 3 requests, 1 edit | 0.83 M | Do accounts stay distinct, and roles and tokens true? |
| `metering` | 2 clients, 3 days, 3 rates, 1 operation | 0.2 M | Does every day have its rate, and do bills reconcile? |
| `jobs` | 2 clients, 2 tenants, 1 name, 2 ids, 1 job, 1 stop | 1.25 M | Do tenants, statuses and jobs stay consistent? |
| `orphans` | 1 client, 1 job | violation | Does every job end? |

Properties worth a second look:

* `ElicitingMeansIncomplete` survives lost updates, which the code does have: each request carries
  a state and an intent that match, and the writeback puts both into the row together. The proof
  calls this `RequestsHoldConsistentPairs`.
* `ConversationSpec` is the refinement: the abstract specification with `intent` and `turns`
  mapped to the row's intent and the length of its messages. More turns than the cap are tried.
  The cap holds where requests follow each other; concurrent turns pass it together, in the code as
  in the model, and no property claims otherwise.
* `AnsweredBundleStays` speaks of the generation that was answered. The output directory may hold
  more: a generation that raises half-way leaves files of an intent that the next turn changes, and
  nothing removes them. That all files of the directory are of one intent is false with one request
  and no stop.
* `FreshUnlessOverlapped` names the three ways a cached view may be stale. The run `stale` shows
  that without them the statement is false.
* `ExecutedPlanJustified` allows a plan to differ from the candidate in `select_fields`, because
  the plan hash does; it excludes a verdict given for other filters or another input. The run has
  one selection, so it does not meet the difference; the theorem is about any.
* `GapsAccounted` is a conservation law: every rejection the model gave is counted, in a task, or
  lost to a failed statement.
* `TriggersStayInService`, `RowsChangeForTheirTenant`, `RowsChangeForTheirOwner` and
  `MutationsTouchWhatTheyName` are action properties. The second includes that no step puts older
  credentials back, and says nothing of deletions; the third names what happens in steps of others
  (`_mark_stale`, all tiles of a dashboard at once in anybody's delete, the count and expiry of a share
  token); the last says how much of what a dialog did not show may change, whose change that is, and
  that an update that gives another key overwrites no record.
* `StatusComesFromTest` is about the row. A status carries no version of the credentials, so a result
  for those of before an update is stored beside those of after it.
* `TasksAndJobsAgree` ties the status of a job to where its task is, and the job to a connection of
  its tenant. A task that is about to write its failure may have a job that says `completed`: the
  commit went through and was not seen.
* `ServedPlansDerived` is about where a served plan comes from. What a user proposes is never served.
* `CandidatesKept` allows a candidate to go to another one of its entity and second, also to one whose
  write was cut short, which leaves neither.
* `TablesConsistent` claims of a layout what the check sees: whole cells. Tiles that overlap by a
  fraction pass, and are stored.
* `FilesStaySound` joins the ids that promotions write, the cycle detection against its reference
  over every graph of three entities, and what a start accepted.
* `DriftSurfaces` allows the first execution after a drift to answer with the old flag, which it
  read before it wrote the new one, and nothing later. Four requests and two redeploys give room for an
  edit or a redeploy between the recorded drift and the next execution. It is about results: a failed
  execution (`saved_view_service.py:210-220`) answers an error without the flag. `AnswersVisible` allows a view that was
  shared at some time to reach a user whose request overlaps the end of the sharing.
* `AccessesCounted` allows answers that are not counted only for a token two resolves of which
  overlapped; the limit holds for the recorded count always. A resolve that is cut after its commit is
  counted and not answered.
* `AccountsDistinct` allows one mailbox for two users only if two requests found it free at the
  same time; the run has the case, with a Google address in capitals.
* `EveryDayHasItsRate` allows two rates in force only after two supersessions overlapped, and
  `BillsReconcile` a recorded price that is no longer in force only after a backdated rate. Gaps
  are never allowed.

### Bounds

Every bound is a constant. `MaxAnswered`, `MaxBuilds`, `MaxEdits`, `MaxQueries`, `MaxCrashes`,
`MaxCred`, `MaxCalls`, `Bounds`, `MaxDeploys`, `MaxSecond`, `MaxUsers`, `MaxDay`, `MaxRates` and `MaxOps`
limit how much happens in a behaviour; each is as large as the interesting cases need:
three answered turns let two concurrent turns follow or precede a third beyond a cap of two; in the
sequential run four turns may be answered, one more than its cap, so it is the cap that ends it. Two
edits are one before and one during a load; three tenants over a cache of two force evictions;
three queries are two concurrent ones and one served by what they left; a second id lets a name be
freed and taken again.

No step of the workspace reads the tables of two services, so `MCBounds` lets a behaviour make two
requests of any services, or three or four of one: four of the views, the dashboards or the share
tokens (two that made the rows and two that overlap; a drift that is recorded, an edit, and an
execution), three of the schedules or the records. Two redeploys make a drift and undo or repeat it.
Two ids each of views, dashboards, tiles and pins let their uniqueness be broken. A layout is one of
two: tiles side by side in whole cells that overlap by a fraction, and tiles that overlap. A request
on a record may give the key of another row.

Three requests of the accounts are two racing sign-ups, or logins, and one that uses what they left;
`SlugLimit` is 2 instead of 1000, so that the last probe is reached, and the second candidate of
"Acme" is the first of "Acme 2"; three users are two that race and one more. Three days and three
rates put a rate before, on and after another, with one being superseded twice; one operation
suffices, since operations share nothing but the ledger. Two seconds tell candidates of one second
from those of another. The `jobs` run has one name, so it races creations for it; two renames that
race are left to the theorem, which holds for any names. Two concurrent actors suffice for every race
between a read and the write that depends on it. Requests and interchangeable values are symmetric,
except in runs with liveness.

Deadlock checking says nothing about this system and no claim rests on it. It is off where the bounds
end a behaviour or the program may really stop (a process that refuses to start, a session that is
finished). Where it is on, in `edits` and `stale`, a restart or a read is always possible. No process
of this system waits for another but for row locks of one table at a time, so there is no cycle to
look for.

### Fairness

`ResolvePipeline!Fairness`: `asyncio.wait_for` fires its timeout whether or not the model answers.
Nothing is assumed of the model, nor of the execution: `adapter.execute_query`
(`query_engine/pipeline.py:159`) has no timeout and the engine sets none for its statements
(`adapters/postgresql/engine.py:51-77`), so a request may wait for ever after its verification.
`ScaffoldJobs!Fairness`: the event loop runs a task that is ready, and a scaffolder ends. The
counterexample of `orphans` needs no unfair scheduling.

## 4. Where documents and code disagree

* `lost_update`: `canvas/dao.py:168-171` promises an atomic writeback that keeps messages and
  intent in sync. The transaction is atomic; what it writes was computed before the model call.
* `stale`: `tenants/registry/service.py:5-6` promises that the next read after a mutation reflects
  it. A load that overlaps the mutation is inserted after the invalidation.
* `orphans`: `tenants/claude-tenants.md:31` promises a terminal state for every job. The statement
  that writes it is not itself guarded; a stop of the process has the same effect.


Five more were met while modelling and have no run of their own:

* The mutation gate is a convention: `adapters/claude-adapters.md:91` ("Never call
  `execute_mutation()` without a prior `preview_mutation()` confirmation"),
  `skill_registry/models/mutation.py:34` and `adapters/base.py:86` ask for a diff preview before
  every mutation. `ExecuteMutation` has no such guard, because `execute` asks for none; nothing
  ties it to a preview or to a caller. What holds without the gate is
  `MutationsTouchWhatTheyName`.
* An update or deletion of a record that is gone is answered as a success.
* A drifted view is executed: `src/01-backend-implementation-plan.md:109` says to resolve it anew and,
  if the plan differs, "mark the saved view `stale: true` and surface" it, "do not auto-execute".
  `saved_view_service.py:185-188` refers to that step, marks the view, and goes on to run the stored
  plan. `DriftSurfaces` states what is left: every result after the recorded drift carries the flag.
* `src/backend/metering/api/routes.py:6` announces authentication for a second phase; the metering
  routes, and v1 resolve, mutate and patterns, have none. `RevocationTakesEffect` is about the others.
* `LLMVerifier.verify` can raise (`VerdictRaises`), although its docstring says it does not for
  ordinary model failures.

## 5. What is proved

Each theorem holds for all values of the constants that satisfy the module's assumption; TLC
evaluates these assumptions in every run.

| Theorem | States | Inductive invariant |
|---|---|---|
| `SessionTypeOK` | type correctness of a session | itself |
| `ElicitingMeansIncompleteHolds` | ELICITING rows are incomplete | with `RequestsHoldConsistentPairs` |
| `ArtifactsComplete` | generated files come from complete intents | with what generating requests hold |
| `PreviewsMatchIntents` | a served preview is of the intent it was asked for | `PreviewInv` |
| `OneRequestImplementsConversation` | one request at a time implements `CanvasConversation` | `Serial` |
| `AnsweredBundlesStay` | one request at a time: the files of the last answered generation stay | `BundleInv`, with `Serial` |
| `MessagesAndIntentStayInSync` | one request at a time: the intent is what the messages add up to | the property, with `Serial` |
| `RegistryTypeOK` | type correctness of the registry | `TypeInv` |
| `RegistryCacheBounded` | the cache is within its bound | `CacheInv` |
| `RegistryViewsFresh` | freshness but for named windows | `FreshInv` |
| `OneClientReadsLatestState` | one request at a time, no failed invalidation: what is served is the latest state | `NothingBetween`, with `FreshInv` |
| `RegistryEvictsLeastRecentlyUsed` | what is evicted was used longest ago | `InAccessOrder`, with `CacheInv` |
| `JobsTypeOK` | types of connections and jobs, names unique per tenant | `TypeInv`: with what calls and tasks hold |
| `StatusesComeFromTests` | a status is a tester's answer for that row | itself |
| `TasksAndJobsAlwaysAgree` | a job is its tenant's and agrees with where its task is | `Inv` |
| `RowsAlwaysChangeForTheirTenant` | who changes a row (action property) | `Inv` |
| `JobsAlwaysMoveForward` | a job never goes back to pending; an ended job is written again only as `failed`, over an unseen `completed` (action property) | `Inv` |
| `PipelineTypeOK` | type correctness of the pipeline | `TypeInv`: with the bound and distinct keys of the cache |
| `GapsAlwaysAccounted` | every rejection is accounted for | itself, given the types |
| `ExecutedAlwaysJustified`, `VerdictsAlwaysComeFromCalls` | what runs and what is said is justified | `SoundInv` |
| `AccountsTypeOK` | the shape of tables, tokens and requests | itself |
| `AccountsStayDistinct` | no address or slug twice | `DistinctInv` |
| `RevocationAlwaysTakesEffect` | roles in use were held after the request came in | `RevocationInv` |
| `TokensAlwaysFollowCredentials` | a token answers for what was presented | `CredentialsInv` |
| `MeteringTypeOK` | the shape of ledger, bills and requests | `TypeInv` |
| `EveryDayAlwaysHasItsRate` | rates in force | `LedgerInv` |
| `BillsAlwaysReconcile` | told and recorded costs | `BillsInv` |
| `LearningTypeOK` | types of the learning loop | `TypeInv`: with what each phase of a request holds |
| `ServedPlansAlwaysDerived` | what is served is hand-written or derives from a plan that ran | `FileInv` and `CacheInv` |
| `IndexAlwaysFollowsFiles` | the index is that of the files | `CacheInv` |
| `TriggersAlwaysStay` | only a stop takes a trigger out of service (action property) | `CacheInv` |
| `CandidatesStayQueued` | review candidates go only to a write to the same file | itself, given the types |
| `FilesAndRegistryStaySound` | ids in files, the walk against its reference, references and circles in the registry | `FileInv`, that what runs was accepted, `CircularFksFound` |
| `CircularFksFound` | the walk reports a cycle exactly if there is a circle, in every finite graph | a lemma about `Dfs`: what each call `Finds` |
| `WorkspaceTypeOK` | types of all tables and calls | `Inv` |
| `TablesAlwaysConsistent` | names, pins, tiles, layouts, runs | `Inv` |
| `AccessesAlwaysCounted` | counts of share tokens | `Inv` (its part `TokenInv`) |
| `AnswersAlwaysVisible`, `DriftAlwaysSurfaces` | what reads and executions say | `Inv` (its part `ViewsInv`) |
| `RowsAlwaysChangeForTheirOwner` | who changes a row (action property) | `Inv` |
| `MutationsAlwaysTouchWhatTheyName` | what a mutation changes (action property) | `Inv` |

**Canvas.** The invariant conjoins the property of the row with the same property of what every
request holds: a request copies a matching pair from the row, a turn turns it into another
matching pair (`NextState` leaves ELICITING exactly when the intent is complete), and the writeback
copies the pair back. A preview or a generation changes one half only where that is harmless. For
previews it is enough that the cache entry was built from the intent it is keyed by. The
refinement assumes `Requests = {r}`: then what the one request holds is what the row holds
(`Serial`), so its writeback is a turn of the abstract conversation, the end of a generation a
generation, and everything else a stutter, stops included. For the files, `BundleInv` says that a
session with an answered generation is over and keeps its intent: turns are refused, and another
generation writes the same files again (`WritingKeeps`), however far it gets. With two requests it is false, as
`lost_update` shows. `MessagesAndIntentInSync` says of each field that it has the value of the last
message that names it. Appending a message that names some fields keeps that for them and
for the others (`AppendInSync`); `Serial` is what makes the writeback append to the messages its
request merged into.

**Registry.** The invariant adds to freshness what a load under way has seen: unless it is marked as
overlapped, every type it has listed so far still has that content, so the view it inserts is
current. An edit marks the loads of its tenant in the step that commits it. The cache bound needs
that `Evict` removes an element whenever `MoveToEnd` has added one too many. For the order of
eviction, the tenants in the cache are among those ever accessed and in the same order
(`InAccessOrder`): an access moves its tenant to the end of both, and what evictions and
invalidations take out leaves the rest in place. What the documents promise, that a read after a
mutation reflects it, is `OneClientReadsLatestState`: with `Clients = {c}` and no invalidation that
fails, no load is overlapped, an UPDATE finds the row its SELECT found, and the row is there when it
is read back, so every edit reaches its invalidation (`NothingBetween`). With `FreshInv` no window is
open at a read. The run `stale` shows that two clients are enough to break it.

**Connections and jobs.** Every action on a row goes through `WriteRow`: a row whose name is free for it
keeps the table's names apart, whatever its call had read. A tenant's row is never taken over:
between deletion and reuse an id that was given out stays empty (`RowsStay`), so that what
`StartCheck` learned about a connection still holds when `StartInsert` finds the row there
(`StartsKnown`). `TasksAndJobsAgree` also needs that a job whose `start` has not returned has no task
and is pending, and that no two calls hold one job (`StartedKnown`, `FreshTasks`). From the agreement
follows what remains of the order of statuses the documents give, `JobsMoveForward`: a task that still
works has a job that has not ended, and one that writes its failure has a job that does not say so
yet. That every job does end is false (`orphans`).

**Resolve pipeline.** `TypeInv` needs that the cache has one entry per key: `Others` removes one
index, and only then is what `Put` and `Touch` append new. `SoundInv` says that every cache entry,
everything a request is about to execute and every answer is sound for its key, and that a
request waiting for the model has been counted. Calls and proposals only grow, so what was sound
stays sound (`SoundKept`), also in an entry put by another request long before; a hit hands an
entry to a request whose key equals the entry's, which is all `VerdictCache._key` guarantees.
`GapsAccounted` is inductive: each statement moves one unit between two terms of the sum.

**Accounts.** `AccountsDistinct` needs `Contention`: of two requests that hold the same mailbox
as free, or one that holds it and a user who has it, the mailbox is marked as contested. The slug is
decided by the constraint alone. `RevocationInv` adds that a request between its two reads still
knows every role its user has now. `CredentialsInv` says of every request which secret it may turn
into a token, and that a link is to an account whose address was verified for the subject.

**Metering.** `DaysCovered` says that from the first rate on every day has a rate in force; it
survives overlapping supersessions, because one closes a rate only for the days the rate it inserts
covers. That there is only one needs `LedgerInOrder` (rates follow each other, the last is open),
which holds as long as no two supersessions have overlapped and the one under way knows the open
rate (`OneSupersedes`). Bills need that an operation is worked on by one request (`OneWorks`), and that
a priced rate, once it no longer covers its day, has a later rate that begins before
(`PricesStand`).

**Promotion.** `FileInv` gives every pattern in a file an origin: a person wrote it, or its plan ran
for its trigger with the confidence of a promotion. A file only grows, and by one promotion at a time,
because a promotion holds the lock from its read of the file to its rename. `CacheInv` says that what
the index and the cache hold came from the files (`FromFiles`, which growing files keep) and, while the
process is up, that each file that loads is there in full (`UpToDate`): a reload puts in exactly
what the file of its entity holds and leaves the other entities alone. So a hit leads to a pattern of a
file, and its origin is why its plan may be served: what `Parse` makes of `Template` still derives
from the plan that ran (`ParsedDerives`). `Score` is any matrix of numbers.

**Cycle detection.** A recursive function is a CHOOSE, so the first thing to prove is that it
exists. Every call that `dfs` makes is smaller than itself in `Most`: entities not visited yet times
one more than there are entities, plus what the loop has left. Functions that walk correctly exist
for all calls up to a measure (`Upto`), by the least counterexample (`LeastElement`, from the
well-foundedness of the naturals, which can be cited where the induction theorems cannot), and
`WalkExists`. Then, again by the least counterexample, what a call `Finds`: a cycle reported is one
that closes the path, and consecutive entities of a path are joined by foreign keys, so it is a
circle (`ClosedPath`); and if none is reported, the entities that are visited and no longer on
the path refer only to one another and hold no circle (`Clean`). An entity joins them once its
targets are among them; none of those refers back to it, so it closes no circle (`CleanAdd`). At the
end the path is empty and every entity is visited, so there is no circle at all. That is why the
`visited` set, which all branches share, hides no cycle.

**Workspace.** `Inv` has one part per service, about its tables and about the calls under way
in it: what a handler read before an `await` and still uses after it. Some facts about
rows must survive any step of anyone for that: ids are not given out twice, a row never changes its
owner, and what was shared is remembered (`ViewsStay`, `DashesStay`, `TokensStay`, `SchedulesStay`).
For each service there is one lemma per action, and one that every other step is a frame: it changes
none of its tables, and a client has one call at a time. `TokenInv` counts: an access that was answered
is recorded, or its token had two resolves at once, which any two clients that resolve the
same token are marked as (`OthersOverlap`). Layouts fit because the rectangle test of
`_validate_layout` refuses every pair that shares a cell (`ValidLayoutFits`), in the whole cells it
truncates them to. A mutation that moves a row finds its new key free, or fails. The assumptions are about
values only: `None` is no row, a layout is a sequence of rectangles in tenths, and the key is not one of
the other columns.

Only model-checked: liveness (`VerificationEnds`, and the counterexample `JobsEnd`), which is out of
the prover's reach. Every safety property and every action property of a passing run is a theorem.

## 6. What is left

The plan of the first version (canvas, registry, connections and jobs, pipeline, promotion; then the
workspace, accounts, metering, skill registry; then proofs of all of them) is done, and
every safety and action property that a passing run checks is proved.

Not modelled, and why:

* **Adapters' queries** (`query_translator.py`, `query_engine.py`): SQL text, counting and paging
  over a read, a pure function of a plan. The pipeline modules take an execution as success or failure.
* **Crypto** (`crypto/`): envelope encryption over library primitives, no state. Credentials are
  version numbers.
* **CLI, scaffolder, seeder**: one-shot programs that read a schema and write YAML text. The
  validation they share with the server is in `SkillRegistry`.
* **Formatters, prompts, themes, layout suggestions**: presentation.
* **Settings and wiring**: the settings that matter are constants.
* **Parameter extraction** of patterns, and how a score comes about: `Score` is any matrix.
* **What operators do with the review queue**, and the skill hash header of pattern files, which
  startup does not enforce: outside the running program.
* **Rates that are not above 0**: nothing refuses them, and nothing here is claimed about them.
* **What a deactivated user may still do**: `Deactivate` is a step, no property is about it.
* **The scheduling worker**, `search`, `evaluate_condition`, `clear()`: not in the repository, or
  without a caller. The parser of schedules in words (`nl_parser`) is a pure function of a text.
