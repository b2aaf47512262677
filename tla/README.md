# Verification of the trip agent's backend

TLA+ modules, TLC runs and TLAPS proofs about the Python backend under
`src/src/`: a FastAPI monolith in which a guest chats about a trip, confirms a
scope, has places acquired for it, and has an itinerary generated and revised.

## 1. The system

### Components, their state and operations

| component | code (under `src/src/`) | state | operations |
|---|---|---|---|
| Generate / revise runner | `modules/agents/runner.py`, `api/generate.py`, `api/revise.py` | in process memory: `_runs` (one `_RunState` per session: task, queue, abort flag and reason), the two bound dependency factories | start, start_revise, abort, consume, the pipeline task, its watchdog |
| Generate pipeline | `modules/agents/generate.py` | none of its own | load, retrieve, pack, validate, narrative, persist, with abort checks between |
| Revise pipeline, caps | `modules/agents/revise.py`, `modules/planner/caps.py` | `sessions.run` (loop count, baseline), `sessions.budget` | parse the text into a patch, count the attempt, check the caps, run the generate pipeline |
| Trips | `modules/trips/` | table `trips`; `sessions.itinerary`, `validation`, `trip_id` | persist_draft, ensure_trip_for_session (the backfill of a missing trip by a read), export |
| Catalog acquire | `modules/catalog/service.py`, `queue.py`, `workers/acquire.py` | `sessions.catalog`, table `places`, the arq queue | enqueue_acquire (API), acquire and mark_failed (worker), readiness, retrieve |
| Chat, sessions | `modules/chat/`, `api/sessions.py` | table `sessions`: messages, intent, hitl, trip_scope | create, message (SSE), HITL resume |
| Dialogue graph | `modules/agents/dialogue.py`, `intent.py` | one LangGraph thread per session: the graph's state and its pending interrupt | parse, geocode, ask for a choice, classify the scope, confirm |
| Geo scope | `modules/geo/` | none | classify_scope |
| Planner | `modules/planner/engine.py`, `matrix.py`, `validate.py` | none | pack_days, validate_itinerary |
| adapters, auth, settings, health, frontend | the rest | configuration | I/O |

### How they interact

Everything that survives a request is in Postgres (`sessions`, `trips`,
`places`), in the arq queue, or in the memory of the one API process (`_runs`,
the in-memory checkpointer).  Each HTTP request and each worker job opens a
SQLAlchemy session of its own.  That session keeps every row it has loaded:
reading the same row again returns the object in its identity map, not the
database's present content, and a save sends the columns that differ from what
was loaded.  Saves do not check versions.  The chat, the catalog requests and
jobs and the runs of the pipeline all load the session row, await something
slow and write the row's columns; they meet only there.

The runner joins requests to runs: a POST /generate creates a run or joins the
session's, a POST /revise creates one or is refused.  A run's events go through
one `asyncio.Queue`, read by every stream that follows the run.

### What is hard

* interleavings of requests, streams and tasks at every await, and of API
  requests with worker jobs at every commit;
* aborts, disconnects and the wall clock, which reach a run only at its abort
  checks, and requests that stop following a run without stopping it;
* copies of a row that are stale when they are written back: a chat's, a
  catalog job's, a run's, and the draft that a read found when it makes up for a
  missing trip;
* zeros and missing values that `or` and `is None` treat differently, in limits
  that come from a text, a model, a column or a default;
* one list of places shared by all days and all hubs of a plan;
* timeouts and restarts of the worker, which bypass the code that marks
  failures; a queue that fails after it took a job;
* the process dying between two commits; a failure after a commit.

`PROJECT.json` lists each of these at its line, with the properties about it.

### What makes each component correct

* Runner: one task per session, reached by every abort; a client is told the
  truth, once, and no stream hangs; a draft is replaced only by a run that
  reports it, and a revise at most `max_loops` times.
* Catalog: no success without stored places; no provider asked for a scope that
  forbids it; no "running" that nobody works on, no "pending" that nobody queued.
* Trips: the session's draft and its trips row are the same plan, under one id.
* Revisions: a revision does what was asked, to the days that were named and to
  no other, and never asks the packer for more than a first plan may have.
* Chat: after a request that ran alone the session row shows what the dialogue
  thread is in; the scope is never a place the user neither named alone nor
  picked; what a user said is kept.
* Planner: no place twice, every day within its own limits and none shorter than
  it need be, the hubs in their order, and a plan that the validator accepts.

## 2. The modules

### RunContract

What the expensive budget promises, without queues, tasks or requests: at most
one run per session, one replacement of the draft by a run while it is the
session's, an end that is true of it.  `GenerateRunner` implements it; the
mapping (`Contract`, `Phase`) reads the phase of a run from its stage, its
outcome and whether it has committed.

### GenerateRunner

One API process and its database.  `stage[r]` names the await at which the task
of run `r` is suspended; each task action is the code from that await to the
next.  Since the event loop runs nothing else in between, this is the grain at
which anything can interleave.  The lock of the runner is never held over an
await, so `start` and `start_revise` are one step.

| variable | code |
|---|---|
| `stream`, `gone`, `attached`, `got` | a request's `StreamingResponse`: its progress, whether the client has left, the run whose queue it reads, the last terminal event sent |
| `boundGenerate`, `boundRevise` | `runner._deps_factory`, `_revise_deps_factory`: the request whose DB session they close over |
| `current` | `runner._runs`; `Placeholder` is the `_RunState` that `abort` creates when there is no run |
| `abortReason`, `expired` | `abort_requested` / `abort_reason`, and whether the deadline has passed |
| `stage`, `outcome`, `queue`, `deps` | the task, `GenerateResult.status`, the event queue, the run's dependencies |
| `draft`, `trip`, `budget`, `loops` | `sessions.itinerary`…, the `trips` row, `sessions.budget`, `revise_loop_count` |
| `stored` | history: the runs that committed a draft |

A draft is the name of the run that wrote it; what is in it is the subject of
`DraftRevision` and `PackDays`.  An await may raise wherever the
code's `except` turns that into an error result, so each task action has an
error disjunct.  `save` commits and then refreshes, so one that raises may have
stored its values or not: `PersistReload`, `ReviseMark`, `ReviseUnmark` and
`ReviseBump` have both.  Progress events that wait together count as one event; the
terminal and the sentinel are kept in order.  Environment actions (abort,
disconnect, timeout, crash) are switched by `Faults`.

An abort that arrives after the last check, while the draft is being stored,
is acknowledged to its caller and has no effect: the code has no check there,
and the model follows it.  `AbortStopsTheRun` therefore speaks of aborts before
that check.

### CatalogAcquire

One chat session's catalog: requests `e` (the API) and jobs `j` (the worker); a
job has the name of the request that enqueued it.  A step ends at each commit
or call to the queue.  A refresh, a SELECT without effect of its own, is taken
together with the step that follows it.  The refresh after a commit belongs to
the save, so a save may raise before or after its commit.

| variable | code |
|---|---|
| `catalog`, `scope` | `sessions.catalog`, `sessions.trip_scope` |
| `stocked` | the scopes whose places `upsert_many` has committed |
| `ask`, `seen`, `reply` | the await of a request, the catalog in its identity map, the status it answered |
| `job`, `tries` | the await of a job or how it ended, arq's `job_try` |
| `held`, `fetchScope`, `found` | the catalog in the job's identity map, the scope it has read, what the providers gave |

`Update` is what a save does to the row: nothing is sent when the value equals
the copy, whatever the row holds by now.  `Settle` answers from the copy
`seen[e]` because the second `get` of `enqueue_acquire` returns the object its
DB session already holds.  `place_count` is none, zero or positive; a positive
one remembers, as history, the scope whose places it counts.

`Timeout` ends a job where it is: `CancelledError` is not an `Exception`, so
`mark_failed` does not run.  `RestartWorker` puts jobs back in the queue, which
is arq's treatment of a job cancelled by a shutdown; `Drop` is arq refusing one
that was picked up `max_tries` times.  A job whose `upsert_many` is failed by the database
is `"broken"`: the repository does not roll back, so `mark_failed` on the same DB
session raises as well.  `Fetch` and `Upsert` may also raise where the database
is not concerned (a provider's answer, the rows made of it): then the DB session
is usable, and `mark_failed` writes from the copy that it holds, without a
reload.

Sessions do not interact here, so one is enough.  The chat's replacement of the
scope is the action `Rescope`.  `InlineAcquireQueue`, the double of the
development and test setups, is not modelled.

### ChatDialogue

One chat session and its LangGraph thread: turns (POST /messages) and resumes
(POST /hitl).  `pc[q]` names the await a request is suspended at.

| variable | code |
|---|---|
| `row` | `sessions.messages`, `intent`, `hitl`, `trip_scope` |
| `thread` | the newest checkpoint: its values, the run that put it, whether an interrupt is pending on it |
| `pc`, `copy`, `outcome` | the await, the row in the request's identity map, its `DialogueOutcome` |
| `local` | the channel values of the request's graph run, with the node to run next |
| `grounded`, `said`, `overlapped`, `answered`, `last` | history: which places were a turn's only match or picked for it, whose text was committed, which requests overlapped, which picked an offered option, the last request to end well |

LangGraph is outside `src/`; the model takes from it what `dialogue.py` relies
on.  A run puts its values as the newest checkpoint after each node, and runs of
one thread do not wait for each other.  An interrupt is a pending write on the
run's own checkpoint, so it has no effect on the thread when another run's
checkpoint is newer.  A resume continues from the newest checkpoint.  A turn's
input replaces every key.  The checkpointer is the in-memory one, which is what
the settings select by default.

A text stands for its turn and a place for a geocoder's candidate.  `Vague` and
`Hubless` say what `classify_scope` does with it: places of no known class are
asked about, and so are countries without default hubs when the turn asks for a
long stay.  A scope remembers the turn whose intent it was made from, because
its day budget is that intent's.  Parsing chooses between asking and an intent;
geocoding between no, one and several matches.  The `missing_intent` and
`missing_trip_scope` branches of the nodes are left out: `TypeOK` shows that no
state reaches them.  `save` sends the columns that differ from the copy
(`Saved`).  After the outcome is applied a turn only streams its reply, which is
left out.  The graph is stepped even by a resume whose thread is not
interrupted: after a restart it runs on empty values and asks; while a turn is
running it carries that turn on.

### PlanLimits and PlanContract

The two limits of a day, which the packer and the caps both know: stops and
minutes, each possibly not given.  `Or` is Python's `or`, for which zero is not
given either, `Given` is the `is None` test, and `Stops` and `Minutes` are the
order in which `engine.py` looks for a day's limit: the day's override, the
trip's, the default.  `Plans` says which places the days of a plan may have: no
place twice, no day beyond its stops, and none left empty that had room while a
place was left.

`PlanContract` is the planner as the pipelines know it: called once, it answers
once, with one of `Plans`, or not at all.  It has no hubs, distances, loops or
validator.  `PackDays` implements it (`KeepsPlanContract`); `DraftRevision` takes
the packer by the same `Plans`, so what it shows of drafts holds for the packer
there is.

### PackDays

One call of `pack_days` and of the validator behind it, as `run_generate` makes
them.  The arguments are chosen once, in `Init`; then a step is one turn of the
packer's loops.

| variable | code |
|---|---|
| `input` | the catalogue places of the scope, `drop_place_ids`, the preferred tag and category, the days of the request and of the scope, its hubs, the coordinates, the limits in `prefs` and in `day_overrides` |
| `pc` | before a day, in the loop of one, after the last, after `validate_itinerary` |
| `plan`, `today` | the days packed so far, the one being filled |
| `pool`, `used`, `spent` | the candidates the loop has still to come to, `used`, `travel_used` |
| `errors` | `ValidateResult.errors`, by kind |

A place is its rank in the `(name, id)` order of the sort, so `Key` needs only
say what comes before that order.  A spot stands for a pair of coordinates and
`Walk` for the haversine distance at walking speed, in minutes.  The columns of
the catalogue's coordinates are not nullable, so the flat ten minutes for a place
without them (matrix.py 87-89), and the validator's skip of such a pair, are left
out.  `DayHub` deals
the days to the hubs; the code's corrections of the counts (engine.py 104-116)
are left out because `HubsInSequence` shows that they find nothing to correct.
Time limits are at most the default one (`Lowered`): the only caller that gives
any is a revision, and `WithinOriginalCaps` of `DraftRevision` is the reason
that it gives no more.  The routing table, an optional argument that no caller
passes, and the country filter of the validator, which `retrieve` has applied
already, are left out.

### DraftRevision

The draft of one session and its copies: what a generate packs and stores, what
a revision asks for and is refused, the artifact in the trips table, and the
reads of the session that make up for a missing one, while the chat goes on
confirming other trips.

| variable | code |
|---|---|
| `row` | `trip_scope` (as the days asked for), `itinerary`, `trip_id`, the baseline and the loop count in `sessions.run` |
| `art` | the itinerary of each row of `trips` |
| `run` | a run: its stage, the columns it holds, the text, the patch as asked and as sanitised, the `prefs` the caps let through, the plan |
| `get` | a `GET /sessions/{id}` in `ensure_trip_for_session`: its stage, the draft and the id it loaded |
| `runs`, `born`, `crossed` | history: how many runs, whether the session is new or older than the `trip_id` column or the trips table, whether a read and a storing run overlapped |

A draft is the limits that each of its days was packed with and the set of its
places; `Pack` may return any plan that `PlanContract` allows for some of the
places.  There is one
run at a time, by `LiveRunIsCurrent`.  A patch has the fields of the schema and
a text what the regular expressions can find in it; what either contains is a
choice.  Numbers are finite, as the schema's are.  The code would let a NaN
through: as a factor it asks for nothing, but as a time budget no comparison
refuses it (caps.py 149) and the packer's time limit would never be met
(engine.py 169), so `WithinOriginalCaps` relies on answers that keep to the
schema.  `Sanitized`, `HasSignal`, `Raises` and `Override` are the functions of
`revise.py` and `caps.py`; `Persist` is `persist_draft` as one commit, which
writes the trip id only if the run made it, because a save sends the columns
that differ.  The aborts and the failures between the stages are one action,
`RunFails`; `GenerateRunner` has them at each await.

### MC modules and proofs

Each module that is run has an `MC` module with the values its cfgs use and a
`Proofs` module that extends it with its theorems.  `RunnerPromisesProofs` and
`ChatPromisesProofs` extend `GenerateRunnerProofs` and `ChatDialogueProofs` with
what the runner and the chat owe to clients and to the session row.
`RunContract`, `PlanLimits` and `PlanContract` are used by other modules and have
none.  Definitions marked "Slip" are mistaken forms of
an action, kept beside it to show that the properties notice them; no
specification uses them.

## 3. The runs

All bounds are in the cfgs.  Deadlock is not checked: every request and job
ends, and with all of them ended the system is at rest.

| run | instance | question |
|---|---|---|
| `Runner_joins` | 2 generates and 1 revise, one session, aborts anywhere | who joins, who is refused, who gets the terminal event; one task per session; refinement of RunContract |
| `Runner_stops` | 2 revises with `MaxLoops` 1; aborts, timeouts, disconnects, crashes, database failures anywhere | what clients are told is true, and told once; a run told to stop in time stores nothing; what the database is left with: one plan, the loop cap, the budget |
| `Runner_live` | 2 generates, aborts, disconnects, fairness | streams end; an abort before the last check stops the run |
| `Catalog_safe` | 2 requests, a scope that allows acquiring and one that does not; queue, database and timeout failures; scope replaced at will; symmetric requests | what the catalog may claim |
| `Catalog_live` | 2 requests, 2 tries, API and worker restarts, fairness | every queued job ends, and every move of it lowers the measure that says why |
| `Pack_days` | 5 places at any of 4 spots on a line, 1 to 3 days, no hub or up to 3, with and without a box, limits for the trip and for a day that are absent, lower, zero or negative | what a plan may look like; whether the validator accepts it; refinement of PlanContract |
| `Draft_safe` | 1 place, trips of 2 and 3 days, 6 answers of the model and 3 texts, `MaxLoops` 2, 3 runs, 2 reads, sessions that are new, without a trip id or without an artifact; symmetric reads and ids | what a revision does to the draft; where the draft's copies may differ |
| `Chat_safe` | 2 turns, 1 resume, a vague place and a country that is hubless for one of the turns; cancelled streams, database and graph failures, restarts anywhere | where the scope comes from; what becomes of an answer; what the row shows of the thread; which messages may be lost and what never comes back |

Two actors per kind are enough for the races stated: each property relates at
most two runs, streams, requests or jobs of one session, and a third actor can
only repeat one of their roles; the theorems below remove the bound for the
most important of them.  Two places in `Chat_safe` give every outcome of
`classify_scope` and a question with two options.  `MaxLoops` 1 with two revises is the smallest instance
in which the cap bites.  In `Pack_days` five places are more than the four stops
of a default day, so that days end by their number of stops, by their time and
by running out of places; the four spots are within a walk of each other, at a
distance a day can cover once, and beyond any day.  Two of the three hubs have a
box and one has none, which is what the scope's own hubs look like.  In
`Draft_safe` a draft of three days can be followed by one of two, so that a
patch names a day that is there, one that is not and one that no longer is; the
answers are a limit and a factor at once, zeros, a negative limit, a drop, and
two that raise a cap.  Three runs are a plan, a revision and a revision of that;
`MaxLoops` 2 lets both of these through or refuses the second.  Two reads and one run can make
at most three ids, so the three of `Trips` never run out.  `MaxTries` 1 in `Catalog_safe` makes a retry
impossible there; retries are `Catalog_live`'s question, and the theorems cover
both together.

Fairness.  `GenerateRunner`: weak fairness of each task and each stream.  The
event loop is fair, the clients of the database, the model and the providers
have timeouts of their own, and a stream polls its queue once a second.  None is
assumed of aborts, disconnects, timeouts or the watchdog.  `CatalogAcquire`:
weak fairness of each request and of the worker for each job, arq's polling
loop; none of the faults.  `RestartWorker` may happen for ever; the bound on the
tries is what makes `JobsEnd` true.

### Disagreements between the documents and the code

Each of these runs checks one sentence of the repository and TLC shows a
behaviour of the code that contradicts it.

| run | what it shows |
|---|---|
| `Runner_abandoned` | the only client of a run disconnects; the stream is cancelled while it waits and nothing aborts the run, which stores its draft (generate-itinerary spec: a disconnect shares the abort path) |
| `Runner_deps` | the factory bound by one request is used by another session's run |
| `Catalog_clobber` | a job reports success before the request's last write; the request writes "pending" over it from its identity map, under a comment that says "do not clobber" |
| `Chat_hubs` | the only option of a question about hubs cannot be classified: the resume ends in an error and the question stays (spec: a valid resume resolves the pending HITL) |

More of them were met on the way.  They have no run of their own, as a run would
only show again what a property above already states in the form that holds, or
what the model was built from:

* Of two streams that read one queue, one ends without a terminal event
  (generate-itinerary spec, line 109).  `TerminalReachesOneClient` says so.
* arq drops a job after its last try and nothing marks it failed; "pending" or
  "running" stays (catalog-acquire-retrieve spec, line 58).  `RunningHasAJob`
  and `PendingWasQueued` allow for the dropped job.
* The hubs that the scope makes have no box and places no hub id, so in
  production nothing is ever near a hub and each hub's day takes from all places
  (adaptive-country-scope spec, lines 35 and 44).  The order of the hubs is one
  of labels.
* `RevisionIntent.day_budget` is never set, so the check of the day count cannot
  refuse; after the chat confirmed a longer trip a revision stores a longer draft than
  the baseline (in-chat-revision spec, line 44).
* A limit or a factor of zero counts as not given and gets the default.
* A read of a session older than the trips table that overlaps a run may put the
  older draft into the artifact or make a second trip id (in-chat-revision spec,
  lines 91 and 96).  `ExportShowsTheDraft` and `TripIdentityKept` say for which
  sessions.
* A revision forgets the limits and drops of the one before it, and one that
  names a day the plan does not have is applied to the whole trip
  (`PatchIsHonoured`).
* The validator takes the difference of two longitudes without wrapping it at
  the date line, so there it may refuse a short transfer (`MetricAssumption`
  leaves such trips out).

## 4. The proofs

Checked by `tlapm`, for every value of the constants allowed by the
`ConstantsAssumption` of the module.  These assumptions say only that the
special values are not requests, runs or scopes, that bounds are naturals and
which faults exist; TLC evaluates them in every run.  `PackDays` assumes besides
that distances are a metric and that what the validator finds too far takes more
than a day on foot (`MetricAssumption`).

GenerateRunner:

* `TypeCorrect`: `Spec => []TypeOK`.
* `Invariance`: the inductive invariant `IInv`, which is `TypeOK`,
  `LiveRunIsCurrent`, `OutcomeIsTrue` and `NoEarlyTask`.  The last one is the
  strengthening: a request whose stream has not begun has no task, so a start
  that replaces `current` cannot lose a live one.
* `OneTaskPerSession` and `TruthfulOutcome` follow from it.
* `RunnerKeepsContract`: the runner implements `RunContract`.  Initial states map
  to initial states; each action is a `Begin`, `Store`, `End` or `Crash`, or
  leaves phase and draft alone.  `Begin` needs `LiveRunIsCurrent`: a session
  whose current run is not live has no active run.

RunnerPromisesProofs adds two inductive invariants, proved on top of `IInv`:

* `DatabaseInvariance` is about the session row.  A count of loops is never
  below the number of the session's revises that passed the check of the caps,
  and that number is never above `MaxLoops` (`CountIsKept`).  Each was counted
  before it passed, so a crash or a failed save can waste an attempt but not win
  one: `RevisesAreCapped`.  `NoEarlyOutcome` (no outcome before the
  pipeline returns) gives `ReviseGivesItsBudgetBack`.  `TripFollowsDraft` needs
  no strengthening.
* `ClientInvariance` is about streams.  The terminal event of a run is put once,
  right before the sentinel; `MailIsKept` follows it: it is in the queue, or one
  stream has read it, whose client has it or has left.  From it `OneClientIsTold`,
  for any number of streams on one queue.  A client's last event is a run's
  outcome, which `OutcomeIsTrue` is about, and a recorded abort reason has its
  cause (`ReasonsAreTrue`); hence `ClientsAreToldTheTruth`.  The routes that a
  stream may follow are in `StreamsAreNotCrossed`.  `NobodyIsToldTwice` says of
  steps what `OneClientIsTold` says of states: once a client of a run has its
  end, no step tells another one or tells the same one again, since the terminal
  event is neither in the queue any more nor put again.
* `AnAbortIsFinal` is what an abort or a timeout achieves at once, without
  fairness: the flag is never taken back while the run lives, and only a check
  that finds it unset leads to `persist_draft` (`LastCheck`).  What is left of
  `AbortStopsTheRun` is that the run goes on to its next check.
* `RunsComeToAnEnd` counts down: `Weight` numbers the awaits of a task in the order
  it reaches them, and a queue holds at most three events, progress that waits
  together being one (`QueueLengths`, from `MailIsKept`).  Four times the weight
  plus the length of the queue falls in every step that touches the run or its
  queue, a crash included: a task never returns to an earlier await, and each may
  put events only by leaving one for good.  So the events of a run cannot keep a
  stream open for ever; what `StreamsEnd` adds is that enabled steps are taken.

CatalogAcquire:

* `TypeCorrect`: `Spec => []TypeOK`.
* `ReadyIsAlwaysBacked`: the row is overwritten from copies, so the invariant
  says the same of every copy (`CopiesBacked`), and that a job about to count
  places has committed them (`StockedBeforeWrite`).
* `ForeignScopesAreNotFetched`: the scope a job carries was checked by itself.
* `PendingIsQueued`: with `JobFollowsRequest`, which job states go with which
  request states.
* `RunningIsNotForgotten`: the strengthened `Behind` says of the job behind
  "running" that the copy it will report from says "running" too.  Otherwise
  its report could equal the copy, no UPDATE would be sent, and "running" would
  stay.
* `RetriesRunOut`: `StepsLeft` gives each state of a job a natural number, with a
  try worth more than all the awaits of one.  Each move of a job lowers it: a
  step, a failure, the timeout, and also the restart that puts the job back in
  the queue, because the try it had is spent.  A request can move a job only
  from nothing into the queue, by `JobFollowsRequest`.  `JobsEnd` is this and the
  fairness of the worker.

ChatDialogue:

* `Invariance`: `IInv` is `TypeOK`, `OwnCheckpoint` and `Grounded`.  The row's
  scope comes from an outcome, that from a run's values, those from the thread,
  which another run may have put; so `Grounded` says of every one of them that
  its scope and its choice were a turn's only match or picked for it.
  `OwnCheckpoint` (a checkpoint holds the values of its owner) is what makes an
  interrupt, noted without looking at the values, land on a thread that asks.
* `TypeCorrect` and `ScopeIsNeverASilentChoice` follow.
* `PromiseInvariance`, in ChatPromisesProofs, is about requests that overlap no
  other.  Such a request is the only active one, so its copy is the row and the
  newest checkpoint is its own.  What it reads as its outcome is therefore the
  thread's, and its save writes that whole: `RowShowsTheThread`.  A copy that is
  written back by a request that did overlap others has every text said by a
  turn that ran alone, because it was loaded after that turn, or the two would
  have overlapped (`SaidIsKept`): `NothingIsUnsaid`.
* `AnswersLeadOn`: `AnswerInv` follows the option a resume has picked through the
  run's own values (`LeadsOn`) to its outcome.  Other requests replace the
  thread, but not those values.  Only where the outcome is a question do they
  matter, because an interrupt is read from the thread; for a resume that ran
  alone the thread is its own, by `PromiseInvariance`.
* `OldTripsStayReplaced`: a save sends a column only if the run changed it, so
  scope, question and intent in the row are always some run's result and never a
  value that was loaded and is old by now.  It needs that an error carries no
  intent (`ErrorsAreEmpty`).  The messages have no such theorem, as the whole
  list is one column: an overlapping request does write an old list back.

PackDays, with every property of its run:

* `Invariance`: `IInv` says of the days so far, the open one included, what the
  properties say of a plan (`DaysInv`), and ties the loop to them: `used` is the
  set of their stops (`UsedIsPlaced`), `spent` what the open day takes
  (`DayInHand`), the pool what the loop has not come to (`PoolIsLeft`), and each
  candidate is a stop, in the pool, or did not fit (`SkippedDoNotFit`).
* `DaysAreDealt`: whatever the number of hubs and days, each day has a hub, the
  hubs' days are consecutive blocks, and the first ones are one day longer.
  `HubsTakeTurns` follows, and that `DayHub` is defined, which `TypeCorrect`
  needs.
* `NoPlaceTwice`, `DaysKeepToTheirCaps` and `HubsComeFirst` are parts of the
  invariant.
* `OnePassIsEnough`: the loop never goes back to a place it skipped.  The place
  did not fit behind the last stop of that moment.  By the triangle inequality
  a detour over later stops takes no less time, and each adds a visit, so it
  does not fit at the end of the day either.
* `PlannerKeepsContract`: the initial calls are calls of `PlanContract`, and the
  step that ends a successful validation is its `Answer`; every other step leaves
  call and answer alone.  That no day is empty without need comes from
  `NothingLeftThatFits`: the first place offered on a day always fits.
* `PlansAreEmptyForAReason`: a packed plan without a single stop means that there
  was no place to visit or no day with room for one.  It takes
  `NothingLeftThatFits` of an empty day with room: nothing was placed before it,
  and a day without a stop of its hub is offered every place.
* `PackedPlansAreAccepted`: each transfer of a day fits its budget, which is no
  more than the default, and the validator's 400 km take longer than that.

The time of a day is defined by recursion over its stops.  The prover has no
induction over data; where the proofs need it (the time of a day with one more
stop, the blocks of days) they take the least number for which the claim fails,
which exists because the naturals are well founded.

DraftRevision, with every property of its run:

* `Invariance`: besides `TypeOK`, no cap above the defaults in the row, in an
  artifact, in the run's plan or in a copy a read holds (`CapsAreNeverRaised`);
  which ids the run, the reads, the row and the table may hold, by the kind of
  session (`ExportIsTheDraft`, `TripIsKept`); and that the patch, the prefs and
  the plan of a revision follow from what it was asked (`RevisionsDoWhatWasAsked`).
* `CallsAreLowered`: whenever a run is about to call the packer, the limits it
  passes are `Lowered` and the days it asks for are a day count, which is what
  `PackDays` assumes of its input.

Two of the refinements meet: `PackDays` implements `PlanContract` for the calls
that `CallsAreLowered` shows are made, and `DraftRevision` uses nothing of the
planner but `Plans`.

Only model-checked: liveness (`StreamsEnd`, `AbortStopsTheRun`, `JobsEnd`;
fairness and ENABLED are outside the proof system's reach, and what they add to
`RunsComeToAnEnd`, `AnAbortIsFinal` and `RetriesRunOut` is left), and the
disagreements above.  Every other property of a passing run, invariant, action
property or refinement, is a theorem.

## 5. Plan

Done, in this order:

1. `RunContract`, `GenerateRunner`, `GenerateRunnerProofs`, `RunnerPromisesProofs`.
2. `CatalogAcquire`, `CatalogAcquireProofs`.
3. `ChatDialogue`, `ChatDialogueProofs`, `ChatPromisesProofs`.
4. `PlanLimits`, `PlanContract`, `PackDays`, `PackDaysProofs`: the packer and the
   validator.
5. `DraftRevision`, `DraftRevisionProofs`: revisions, their caps, the artifact and
   the reads beside it.

Left:

6. `ScopeClassify`: the table of classes and countries behind the outcomes that
   `ChatDialogue` chooses from, and the sanitising of an intent.
7. The export of an artifact to a guidebook, once a document says which of its
   fields must agree.

## 6. Not modelled, and why

* Messages, prompts and prose: a text is what the code reads from it.  What the
  regular expressions of `intent.py` and `revise.py` find in a text is a choice.
* `geo/scope.py` beyond its outcomes: which class or country gets which is a table.
* The export of a guidebook (`trips/export.py`): a projection of the artifact that
  changes nothing.
* HTTP clients of geocoders and places providers, language-model adapters, the
  spatial query, auth cookies, settings, health: I/O or configuration without
  behaviour over time.  Where they fail, the model has a choice.
* Several API processes: the runner's documentation places it in one process, and
  `_runs` is in its memory.
* The frontend: layout, except for the stream reader and busy flags, which may
  become a module.
