--------------------------- MODULE GenerateRunner ---------------------------
(***************************************************************************)
(* InProcessGenerateRunner, the generate and revise routes that stream its *)
(* events, and the pipeline tasks it runs (agents/runner.py,               *)
(* agents/generate.py, agents/revise.py, api/generate.py, api/revise.py),  *)
(* in one server process with one event loop.                              *)
(*                                                                         *)
(* A step runs from one point where a coroutine is suspended to the next:  *)
(* nothing else runs in between.  stage[r] names the await at which the    *)
(* task of run r is suspended.  The runner's asyncio lock is never held    *)
(* over a suspension (the routes' factories contain no await), so taking   *)
(* it, the body and releasing it are one step.                             *)
(*                                                                         *)
(* A request and the run it may create share a name: run s is the run      *)
(* started by request s.  An event is its kind, and progress events that   *)
(* wait in the queue together count as one.                                *)
(***************************************************************************)
EXTENDS Naturals, Sequences, FiniteSets

CONSTANTS
    Requests,   \* POST /generate and POST /revise requests
    Revises,    \* those that are POST /revise
    Sessions,   \* chat sessions
    SessionOf,  \* SessionOf[s]: the session in request s's path
    MaxLoops,   \* settings.revise_max_loops
    NoRun,      \* no run, no request
    Placeholder,\* the _RunState an abort leaves when there is no run
    Earlier,    \* a draft stored before the modelled requests
    Faults      \* what the environment may do besides sending the requests

ASSUME ConstantsAssumption ==
    /\ Revises \subseteq Requests
    /\ SessionOf \in [Requests -> Sessions]
    /\ MaxLoops \in Nat
    /\ NoRun \notin Requests
    /\ Placeholder \notin Requests
    /\ Earlier \notin Requests
    /\ NoRun # Placeholder
    /\ NoRun # Earlier
    /\ Faults \subseteq {"abort", "disconnect", "timeout", "crash"}

VARIABLES
    \* the routes: one stream per request
    stream,     \* stream[s]: where request s is
    gone,       \* the requests whose client has disconnected
    attached,   \* attached[s]: the run whose queue request s consumes
    got,        \* got[s]: the terminal event that reached client s
    \* the runner
    boundGenerate,  \* the request whose DB session runner._deps_factory closes over
    boundRevise,    \* the same for runner._revise_deps_factory
    current,    \* current[x]: runner._runs.get(x)
    \* one _RunState and its task per run
    stage,      \* stage[r]: the await the task is suspended at
    deps,       \* deps[r]: the request whose DB session run r works with
    abortReason,\* abortReason[r]; abort_requested is set exactly when it is not "none"
    expired,    \* the runs whose wall clock has passed the timeout
    outcome,    \* outcome[r]: GenerateResult.status
    queue,
    \* the database
    draft,      \* draft[x]: the run that wrote sessions.itinerary, validation and trip_id
    trip,       \* trip[x]: the run that wrote the row of trips
    budget,     \* budget[x]: sessions.budget
    loops,      \* loops[x]: sessions.run["revise_loop_count"]
    stored      \* (history) the runs that have committed a draft

streamVars == <<stream, gone, attached, got>>
runnerVars == <<boundGenerate, boundRevise, current>>
taskVars   == <<stage, outcome, queue>>
dbVars     == <<draft, trip, budget, loops, stored>>
vars == <<streamVars, runnerVars, abortReason, taskVars, deps, expired, dbVars>>

PreludeStages == {"load", "parse", "bump", "mark"}                   \* revise only
PackStages    == {"get", "retrieve", "narrative", "commit", "reload"} \* run_generate
LiveStages    == {"created", "unmark"} \cup PreludeStages \cup PackStages
Stage   == {"none", "finished", "lost"} \cup LiveStages
Terminal == {"done", "error", "aborted", "timed_out"}
Event   == {"progress", "end"} \cup Terminal
Outcome == {"none", "done", "error", "aborted"}

Generates == Requests \ Revises
Live(r) == stage[r] \in LiveStages

(* _in_flight: the session's run, if its task exists and is not done.      *)
InFlight(x) == current[x] \in Requests /\ Live(current[x])

StreamTypeOK ==
    /\ stream \in [Requests -> {"idle", "bound", "open", "closed", "lost"}]
    /\ gone \in SUBSET Requests
    /\ attached \in [Requests -> Requests \cup {NoRun}]
    /\ got \in [Requests -> Terminal \cup {"none"}]
    /\ \A s \in Requests : stream[s] = "open" => attached[s] \in Requests

RunnerTypeOK ==
    /\ boundGenerate \in Requests \cup {NoRun}
    /\ boundRevise \in Requests \cup {NoRun}
    /\ current \in [Sessions -> Requests \cup {NoRun, Placeholder}]
    /\ deps \in [Requests -> Requests \cup {NoRun}]
    /\ abortReason \in [Requests -> {"none", "abort_requested", "timeout"}]
    /\ expired \in SUBSET Requests

TaskTypeOK ==
    /\ stage \in [Requests -> Stage]
    /\ outcome \in [Requests -> Outcome]
    /\ queue \in [Requests -> Seq(Event)]
    /\ \A r \in Requests : stage[r] \in {"unmark", "finished"} => outcome[r] # "none"

DbTypeOK ==
    /\ draft \in [Sessions -> Requests \cup {NoRun, Earlier}]
    /\ trip \in [Sessions -> Requests \cup {NoRun, Earlier}]
    /\ budget \in [Sessions -> {"dialogue", "generate", "revise"}]
    /\ loops \in [Sessions -> Nat]
    /\ stored \in SUBSET Requests

(* The range of every variable; an open stream has a run to consume, and a *)
(* run that has returned has an outcome.                                   *)
TypeOK == StreamTypeOK /\ RunnerTypeOK /\ TaskTypeOK /\ DbTypeOK

Init ==
    /\ stream = [s \in Requests |-> "idle"]
    /\ gone = {}
    /\ attached = [s \in Requests |-> NoRun]
    /\ got = [s \in Requests |-> "none"]
    /\ boundGenerate = NoRun
    /\ boundRevise = NoRun
    /\ current = [x \in Sessions |-> NoRun]
    /\ stage = [r \in Requests |-> "none"]
    /\ deps = [r \in Requests |-> NoRun]
    /\ abortReason = [r \in Requests |-> "none"]
    /\ expired = {}
    /\ outcome = [r \in Requests |-> "none"]
    /\ queue = [r \in Requests |-> <<>>]
    /\ draft \in [Sessions -> {NoRun, Earlier}]
    /\ trip = draft
    /\ budget = [x \in Sessions |-> IF draft[x] = NoRun THEN "dialogue" ELSE "generate"]
    /\ loops = [x \in Sessions |-> 0]
    /\ stored = {}

-----------------------------------------------------------------------------
(* The routes.                                                             *)

(* Slip: the factory closes over the path's session id.                    *)
BindOfSession(s) ==
    /\ stream[s] = "idle"
    /\ stream' = [stream EXCEPT ![s] = "bound"]
    /\ IF s \in Revises
       THEN boundRevise' = SessionOf[s] /\ UNCHANGED boundGenerate
       ELSE boundGenerate' = SessionOf[s] /\ UNCHANGED boundRevise
    /\ UNCHANGED <<gone, attached, got, current, abortReason, taskVars, deps, expired, dbVars>>

(* The handler has checked the owner; it binds the factory of its kind to  *)
(* this request's DB session and returns the stream, which starts later.   *)
Bind(s) ==
    /\ stream[s] = "idle"
    /\ stream' = [stream EXCEPT ![s] = "bound"]
    /\ IF s \in Revises
       THEN boundRevise' = s /\ UNCHANGED boundGenerate
       ELSE boundGenerate' = s /\ UNCHANGED boundRevise
    /\ UNCHANGED <<gone, attached, got, current, abortReason, taskVars, deps, expired, dbVars>>

(* Slip: abort forgets the run it flags.                                   *)
AbortForgetsTheRun(x) ==
    LET run == current[x] IN
    /\ current' = [current EXCEPT ![x] = Placeholder]
    /\ IF run \in Requests
       THEN abortReason' = [abortReason EXCEPT ![run] = IF @ = "none" THEN "abort_requested" ELSE @]
       ELSE UNCHANGED abortReason

(* abort: flags the session's run, whichever it is; with none it leaves a  *)
(* flagged placeholder that the next start replaces.                       *)
Abort(x) ==
    LET run == current[x] IN
    /\ current' = [current EXCEPT ![x] = IF @ = NoRun THEN Placeholder ELSE @]
    /\ IF run \in Requests
       THEN abortReason' = [abortReason EXCEPT ![run] = IF @ = "none" THEN "abort_requested" ELSE @]
       ELSE UNCHANGED abortReason

(* A fresh _RunState replaces whatever _runs held, and its task is created *)
(* with the dependencies the bound factory makes at this moment.           *)
NewRun(s, boundFactory) ==
    /\ current' = [current EXCEPT ![SessionOf[s]] = s]
    /\ stage' = [stage EXCEPT ![s] = "created"]
    /\ deps' = [deps EXCEPT ![s] = boundFactory]
    /\ attached' = [attached EXCEPT ![s] = s]
    /\ stream' = [stream EXCEPT ![s] = "open"]
    /\ UNCHANGED <<got, abortReason>>

(* The stream yields run_in_progress and ends; if the client has left, the *)
(* route's disconnect check aborts the run that refused it instead.        *)
Refuse(s) ==
    /\ stream' = [stream EXCEPT ![s] = "closed"]
    /\ \/ s \in gone /\ Abort(SessionOf[s]) /\ UNCHANGED got
       \/ s \notin gone /\ got' = [got EXCEPT ![s] = "error"] /\ UNCHANGED <<current, abortReason>>
    /\ UNCHANGED <<stage, deps, attached>>

(* Slip: a generate joins whatever is in flight.                           *)
StartGenerateJoinsAny(s) ==
    /\ s \in Generates /\ stream[s] = "bound"
    /\ LET run == current[SessionOf[s]] IN
       \/ ~InFlight(SessionOf[s]) /\ NewRun(s, boundGenerate)
       \/ /\ InFlight(SessionOf[s])
          /\ attached' = [attached EXCEPT ![s] = run]
          /\ stream' = [stream EXCEPT ![s] = "open"]
          /\ UNCHANGED <<got, current, stage, deps, abortReason>>
    /\ UNCHANGED <<gone, boundGenerate, boundRevise, outcome, queue, expired, dbVars>>

(* start: a generate joins a generate in flight, is refused by a revise.   *)
StartGenerate(s) ==
    /\ s \in Generates /\ stream[s] = "bound"
    /\ LET run == current[SessionOf[s]] IN
       \/ ~InFlight(SessionOf[s]) /\ NewRun(s, boundGenerate)
       \/ InFlight(SessionOf[s]) /\ run \in Revises /\ Refuse(s)
       \/ /\ InFlight(SessionOf[s]) /\ run \notin Revises
          /\ attached' = [attached EXCEPT ![s] = run]
          /\ stream' = [stream EXCEPT ![s] = "open"]
          /\ UNCHANGED <<got, current, stage, deps, abortReason>>
    /\ UNCHANGED <<gone, boundGenerate, boundRevise, outcome, queue, expired, dbVars>>

(* Slip: a revise does not look for a run in flight.                       *)
StartReviseAlways(s) ==
    /\ s \in Revises /\ stream[s] = "bound"
    /\ NewRun(s, boundRevise)
    /\ UNCHANGED <<gone, boundGenerate, boundRevise, outcome, queue, expired, dbVars>>

(* start_revise: any run in flight refuses it.                             *)
StartRevise(s) ==
    /\ s \in Revises /\ stream[s] = "bound"
    /\ IF InFlight(SessionOf[s]) THEN Refuse(s) ELSE NewRun(s, boundRevise)
    /\ UNCHANGED <<gone, boundGenerate, boundRevise, outcome, queue, expired, dbVars>>

(* POST /generate/abort.                                                   *)
AbortRoute(x) ==
    /\ "abort" \in Faults
    /\ Abort(x)
    /\ UNCHANGED <<streamVars, boundGenerate, boundRevise, taskVars, deps, expired, dbVars>>

-----------------------------------------------------------------------------
(* The streams.                                                            *)

(* _consume hands the next event to this stream alone.  Before sending it  *)
(* the route looks for a disconnect: if the client has left, it aborts the *)
(* session's run of this moment and drops the event.                       *)
Consume(s) ==
    /\ stream[s] = "open"
    /\ LET r == attached[s] IN
       /\ queue[r] # <<>>
       /\ queue' = [queue EXCEPT ![r] = Tail(@)]
       /\ LET e == Head(queue[r]) IN
          \/ /\ e = "end"
             /\ stream' = [stream EXCEPT ![s] = "closed"]
             /\ UNCHANGED <<got, current, abortReason>>
          \/ /\ e # "end" /\ s \in gone
             /\ stream' = [stream EXCEPT ![s] = "closed"]
             /\ Abort(SessionOf[s])
             /\ UNCHANGED got
          \/ /\ e # "end" /\ s \notin gone
             /\ got' = [got EXCEPT ![s] = IF e = "progress" THEN @ ELSE e]
             /\ UNCHANGED <<stream, current, abortReason>>
    /\ UNCHANGED <<gone, attached, boundGenerate, boundRevise, stage, outcome, deps, expired, dbVars>>

(* Slips: the poll looks at the task alone; only the run's creator polls.  *)
ConsumerEndsUnread(s) ==
    /\ stream[s] = "open"
    /\ ~Live(attached[s])
    /\ stream' = [stream EXCEPT ![s] = "closed"]
    /\ UNCHANGED <<gone, attached, got, runnerVars, abortReason, taskVars, deps, expired, dbVars>>

CreatorEnds(s) ==
    /\ stream[s] = "open" /\ attached[s] = s
    /\ ~Live(s) /\ queue[s] = <<>>
    /\ stream' = [stream EXCEPT ![s] = "closed"]
    /\ UNCHANGED <<gone, attached, got, runnerVars, abortReason, taskVars, deps, expired, dbVars>>

(* The queue poll finds the task done and nothing left to read.            *)
ConsumerEnds(s) ==
    /\ stream[s] = "open"
    /\ ~Live(attached[s]) /\ queue[attached[s]] = <<>>
    /\ stream' = [stream EXCEPT ![s] = "closed"]
    /\ UNCHANGED <<gone, attached, got, runnerVars, abortReason, taskVars, deps, expired, dbVars>>

(* The client leaves before its stream has ended.                          *)
Disconnect(s) ==
    /\ "disconnect" \in Faults
    /\ stream[s] \in {"bound", "open"} /\ s \notin gone
    /\ gone' = gone \cup {s}
    /\ UNCHANGED <<stream, attached, got, runnerVars, abortReason, taskVars, deps, expired, dbVars>>

(* The web server's disconnect listener cancels the stream while it waits; *)
(* the route's code after the yield does not run, so nothing is aborted.   *)
CancelStream(s) ==
    /\ stream[s] \in {"bound", "open"} /\ s \in gone
    /\ stream' = [stream EXCEPT ![s] = "closed"]
    /\ UNCHANGED <<gone, attached, got, runnerVars, abortReason, taskVars, deps, expired, dbVars>>

-----------------------------------------------------------------------------
(* The clock.                                                              *)

Expire(r) ==
    /\ "timeout" \in Faults
    /\ Live(r) /\ r \notin expired
    /\ expired' = expired \cup {r}
    /\ UNCHANGED <<streamVars, runnerVars, abortReason, taskVars, deps, dbVars>>

(* Slip: the watchdog tells the client itself.                             *)
WatchdogTellsTheClient(r) ==
    /\ Live(r) /\ stage[r] # "created" /\ r \in expired
    /\ abortReason[r] # "timeout"
    /\ abortReason' = [abortReason EXCEPT ![r] = "timeout"]
    /\ queue' = [queue EXCEPT ![r] = @ \o <<"timed_out">>]
    /\ UNCHANGED <<streamVars, runnerVars, stage, outcome, deps, expired, dbVars>>

(* The watchdog overwrites the reason of an abort that came first.         *)
Watchdog(r) ==
    /\ Live(r) /\ stage[r] # "created" /\ r \in expired
    /\ abortReason[r] # "timeout"
    /\ abortReason' = [abortReason EXCEPT ![r] = "timeout"]
    /\ UNCHANGED <<streamVars, runnerVars, taskVars, deps, expired, dbVars>>

-----------------------------------------------------------------------------
(* The pipeline task.  Each action resumes run r from the await named by   *)
(* its stage, puts the events of that piece of code and suspends again.    *)

MustStop(r) == abortReason[r] # "none" \/ r \in expired

(* abort_check notes a timeout unless an abort was requested before it.    *)
AbortCheck(r) ==
    abortReason' = [abortReason EXCEPT ![r] = IF @ = "none" /\ r \in expired THEN "timeout" ELSE @]

(* Progress is put in an empty queue or counts with progress unread there. *)
Put(unread, events) ==
    IF unread # <<>> /\ events # <<>> /\ Head(events) = "progress"
    THEN unread \o Tail(events) ELSE unread \o events

Suspend(r, events, at) ==
    /\ stage' = [stage EXCEPT ![r] = at]
    /\ queue' = [queue EXCEPT ![r] = Put(@, events)]

(* Slip: the reason of an abort is not looked at.                          *)
FinishWithoutReason(r, events, status) ==
    /\ outcome' = [outcome EXCEPT ![r] = status]
    /\ Suspend(r, events \o <<status, "end">>, "finished")

(* _emit_result: one terminal event, then the sentinel.                    *)
Finish(r, events, status) ==
    LET terminal == IF status = "aborted" /\ abortReason'[r] = "timeout" THEN "timed_out" ELSE status
    IN  /\ outcome' = [outcome EXCEPT ![r] = status]
        /\ Suspend(r, events \o <<terminal, "end">>, "finished")

(* run_generate returns: to run_revise, which then restores the budget, or *)
(* to the runner.                                                          *)
LeaveGenerate(r, events, status) ==
    IF r \in Revises
    THEN Suspend(r, events, "unmark") /\ outcome' = [outcome EXCEPT ![r] = status]
    ELSE Finish(r, events, status)

(* A piece of run_generate that ends in an abort check before its await.   *)
CheckThen(r, events, at) ==
    /\ AbortCheck(r)
    /\ IF MustStop(r) THEN LeaveGenerate(r, events, "aborted")
       ELSE Suspend(r, events, at) /\ UNCHANGED outcome

PreludeCheckThen(r, events, at) ==
    /\ AbortCheck(r)
    /\ IF MustStop(r) THEN Finish(r, events, "aborted")
       ELSE Suspend(r, events, at) /\ UNCHANGED outcome

Progress == <<"progress">>

(* _execute / _execute_revise: the task's first piece of code.             *)
StartTask(r) ==
    /\ stage[r] = "created"
    /\ IF r \in Revises THEN PreludeCheckThen(r, <<>>, "load") ELSE CheckThen(r, <<>>, "get")
    /\ UNCHANGED dbVars

(* The session was loaded and its baseline saved; without a draft there is *)
(* nothing to revise.                                                      *)
ReviseLoad(r) ==
    /\ stage[r] = "load"
    /\ \/ UNCHANGED abortReason /\ Finish(r, <<>>, "error")
       \/ draft[SessionOf[r]] # NoRun /\ PreludeCheckThen(r, Progress, "parse")
    /\ UNCHANGED dbVars

(* The text was parsed, by the model or the heuristics.                    *)
ReviseParse(r) ==
    /\ stage[r] = "parse"
    /\ UNCHANGED <<abortReason, dbVars>>
    /\ \/ Finish(r, <<>>, "error")
       \/ Suspend(r, <<>>, "bump") /\ UNCHANGED outcome

(* Slip: the limit is compared with the count before this attempt.         *)
ReviseBumpCountsLate(r) ==
    /\ stage[r] = "bump"
    /\ \/ UNCHANGED <<abortReason, loops>> /\ Finish(r, <<>>, "error")
       \/ /\ loops' = [loops EXCEPT ![SessionOf[r]] = @ + 1]
          /\ \/ UNCHANGED abortReason /\ Finish(r, <<>>, "error")
             \/ loops[SessionOf[r]] <= MaxLoops /\ PreludeCheckThen(r, Progress, "mark")
             \/ AbortCheck(r) /\ Finish(r, Progress, IF MustStop(r) THEN "aborted" ELSE "error")
    /\ UNCHANGED <<draft, trip, budget, stored>>

(* The attempt is counted; the save may raise before its commit or, while  *)
(* it refreshes, after it.  Then the caps are checked: an attempt over the *)
(* limit and one that would raise a cap end here, counted all the same.    *)
ReviseBump(r) ==
    /\ stage[r] = "bump"
    /\ \/ UNCHANGED <<abortReason, loops>> /\ Finish(r, <<>>, "error")
       \/ /\ loops' = [loops EXCEPT ![SessionOf[r]] = @ + 1]
          /\ \/ UNCHANGED abortReason /\ Finish(r, <<>>, "error")
             \/ loops'[SessionOf[r]] <= MaxLoops /\ PreludeCheckThen(r, Progress, "mark")
             \/ AbortCheck(r) /\ Finish(r, Progress, IF MustStop(r) THEN "aborted" ELSE "error")
    /\ UNCHANGED <<draft, trip, budget, stored>>

(* budget = "revise" is saved, with the same two ways to raise, and        *)
(* run_generate begins.                                                    *)
ReviseMark(r) ==
    /\ stage[r] = "mark"
    /\ \/ UNCHANGED <<abortReason, budget>> /\ Finish(r, <<>>, "error")
       \/ /\ budget' = [budget EXCEPT ![SessionOf[r]] = "revise"]
          /\ \/ UNCHANGED abortReason /\ Finish(r, <<>>, "error")
             \/ CheckThen(r, <<>>, "get")
    /\ UNCHANGED <<draft, trip, loops, stored>>

(* The session was loaded; it may be missing or have no scope.             *)
GenerateGet(r) ==
    /\ stage[r] = "get"
    /\ \/ UNCHANGED abortReason /\ LeaveGenerate(r, <<>>, "error")
       \/ CheckThen(r, Progress, "retrieve")
    /\ UNCHANGED dbVars

(* The places were retrieved; packing and validation follow without an     *)
(* await, and may refuse the plan.                                         *)
GenerateRetrieve(r) ==
    /\ stage[r] = "retrieve"
    /\ \/ UNCHANGED abortReason /\ LeaveGenerate(r, <<>>, "error")
       \/ ~MustStop(r) /\ UNCHANGED abortReason /\ LeaveGenerate(r, Progress, "error")
       \/ CheckThen(r, Progress, "narrative")
    /\ UNCHANGED dbVars

(* Slip: no abort check between the narrative and persist_draft.           *)
GenerateNarrativeUnchecked(r) ==
    /\ stage[r] = "narrative"
    /\ \/ UNCHANGED abortReason /\ LeaveGenerate(r, <<>>, "error")
       \/ UNCHANGED <<abortReason, outcome>> /\ Suspend(r, Progress, "commit")
    /\ UNCHANGED dbVars

(* The narrative was written or given up; the last abort check.            *)
GenerateNarrative(r) ==
    /\ stage[r] = "narrative"
    /\ \/ UNCHANGED abortReason /\ LeaveGenerate(r, <<>>, "error")
       \/ CheckThen(r, Progress, "commit")
    /\ UNCHANGED dbVars

(* Slip: the trips row is committed in a DB session of its own.            *)
PersistCommitTripFirst(r) ==
    /\ stage[r] = "commit"
    /\ UNCHANGED abortReason
    /\ \/ LeaveGenerate(r, <<>>, "error") /\ UNCHANGED dbVars
       \/ /\ trip' = [trip EXCEPT ![SessionOf[r]] = r]
          /\ Suspend(r, <<>>, "reload") /\ UNCHANGED <<outcome, loops, draft, budget, stored>>

(* persist_draft, up to the commit in trips.save.  Session and trip share  *)
(* one DB session, so that commit writes both rows.                        *)
PersistCommit(r) ==
    /\ stage[r] = "commit"
    /\ UNCHANGED abortReason
    /\ \/ LeaveGenerate(r, <<>>, "error") /\ UNCHANGED dbVars
       \/ /\ draft' = [draft EXCEPT ![SessionOf[r]] = r]
          /\ trip' = [trip EXCEPT ![SessionOf[r]] = r]
          /\ budget' = [budget EXCEPT ![SessionOf[r]] = "generate"]
          /\ stored' = stored \cup {r}
          /\ Suspend(r, <<>>, "reload") /\ UNCHANGED <<outcome, loops>>

(* Slip: an abort is looked at once more after the commit.                 *)
PersistReloadChecked(r) ==
    /\ stage[r] = "reload"
    /\ UNCHANGED dbVars
    /\ AbortCheck(r)
    /\ LeaveGenerate(r, Progress, IF MustStop(r) THEN "aborted" ELSE "done")

(* The rest of persist_draft re-reads and re-saves; a failure here reports *)
(* an error for a draft that is already committed.                         *)
PersistReload(r) ==
    /\ stage[r] = "reload"
    /\ UNCHANGED <<abortReason, dbVars>>
    /\ \/ LeaveGenerate(r, <<>>, "error")
       \/ LeaveGenerate(r, Progress, "done")

(* Slip: the budget is restored only after success.                        *)
ReviseUnmarkIfDone(r) ==
    /\ stage[r] = "unmark"
    /\ UNCHANGED <<abortReason, draft, trip, loops, stored>>
    /\ \/ Finish(r, <<>>, "error") /\ UNCHANGED budget
       \/ /\ \E o \in {"error", outcome[r]} : Finish(r, <<>>, o)
          /\ budget' = [budget EXCEPT ![SessionOf[r]] = IF outcome[r] = "done" THEN "dialogue" ELSE @]

(* run_revise restores the dialogue budget whatever run_generate returned, *)
(* but it reports an error when its load or its save raises.  The row was  *)
(* there when the run began and is never deleted, so it is found again.    *)
ReviseUnmark(r) ==
    /\ stage[r] = "unmark"
    /\ UNCHANGED <<abortReason, draft, trip, loops, stored>>
    /\ \/ Finish(r, <<>>, "error") /\ UNCHANGED budget
       \/ /\ \E o \in {"error", outcome[r]} : Finish(r, <<>>, o)
          /\ budget' = [budget EXCEPT ![SessionOf[r]] = "dialogue"]

Task(r) ==
    /\ \/ StartTask(r)
       \/ ReviseLoad(r) \/ ReviseParse(r) \/ ReviseBump(r) \/ ReviseMark(r)
       \/ GenerateGet(r) \/ GenerateRetrieve(r) \/ GenerateNarrative(r)
       \/ PersistCommit(r) \/ PersistReload(r)
       \/ ReviseUnmark(r)
    /\ UNCHANGED <<streamVars, runnerVars, deps, expired>>

(* The process dies and comes back: the runner's memory, its tasks and the *)
(* streams are gone, the database stays.                                   *)
Crash ==
    /\ "crash" \in Faults
    /\ stage' = [r \in Requests |-> IF Live(r) THEN "lost" ELSE stage[r]]
    /\ queue' = [r \in Requests |-> <<>>]
    /\ stream' = [s \in Requests |-> IF stream[s] \in {"bound", "open"} THEN "lost" ELSE stream[s]]
    /\ current' = [x \in Sessions |-> NoRun]
    /\ boundGenerate' = NoRun
    /\ boundRevise' = NoRun
    /\ UNCHANGED <<gone, attached, got, abortReason, outcome, deps, expired, dbVars>>

Stream(s) == StartGenerate(s) \/ StartRevise(s) \/ Consume(s) \/ ConsumerEnds(s)

Next ==
    \/ \E s \in Requests : Bind(s) \/ Stream(s) \/ Disconnect(s) \/ CancelStream(s)
    \/ \E x \in Sessions : AbortRoute(x)
    \/ \E r \in Requests : Expire(r) \/ Watchdog(r) \/ Task(r)
    \/ Crash

Spec == Init /\ [][Next]_vars

(* The event loop runs whatever is ready, and every await of a task or a   *)
(* stream returns or raises: the DB, model and queue waits are bounded.    *)
Fairness == \A s \in Requests : WF_vars(Stream(s)) /\ WF_vars(Task(s))

FairSpec == Spec /\ Fairness

-----------------------------------------------------------------------------
(* Safety.                                                                 *)

(* A live task is the one _runs holds for its session, so that an abort    *)
(* reaches it and a second start sees it.  Together: one task per session. *)
LiveRunIsCurrent == \A r \in Requests : Live(r) => current[SessionOf[r]] = r

(* A run's outcome tells the truth about its draft, from the moment        *)
(* run_generate returns to the end of the task.                            *)
OutcomeIsTrue ==
    \A r \in Requests :
        /\ r \in stored => stage[r] \in {"reload", "unmark", "finished", "lost"}
        /\ stage[r] = "reload" => r \in stored
        /\ stage[r] \in {"unmark", "finished"} =>
                /\ outcome[r] = "done" => r \in stored
                /\ outcome[r] = "aborted" => r \notin stored

(* The session's draft and the trips row always come from the same run,    *)
(* also when the process dies in the middle of persist_draft.              *)
TripIsTheDraft == trip = draft

(* However revises, aborts, failures and restarts interleave, a session    *)
(* replaces its draft through revise at most MaxLoops times.               *)
RevisedBy(x) == {r \in stored \cap Revises : SessionOf[r] = x}
LoopCapHolds == \A x \in Sessions : Cardinality(RevisedBy(x)) <= MaxLoops

(* What a client is told last is true of the run: "done" only after its    *)
(* draft was committed, a timeout only after the clock ran out, an abort   *)
(* only after one was asked for, and neither of these with a draft stored. *)
HonestTerminal ==
    \A s \in Requests : LET r == attached[s] IN
        r \in Requests =>
            /\ got[s] = "done" => r \in stored
            /\ got[s] = "timed_out" => r \in expired /\ r \notin stored
            /\ got[s] = "aborted" => abortReason[r] = "abort_requested" /\ r \notin stored

(* When a run has ended and all its streams have ended by themselves, with *)
(* no client lost, exactly one of the clients was told how it ended.       *)
Audience(r) == {s \in Requests : attached[s] = r}
TerminalReachesOneClient ==
    \A r \in Requests :
        /\ stage[r] = "finished"
        /\ \A s \in Audience(r) : stream[s] = "closed" /\ s \notin gone
        => \E s \in Audience(r) : got[s] # "none" /\ \A t \in Audience(r) : got[t] # "none" => t = s

(* budget = "revise" is never left behind by a revise that reported        *)
(* success or an abort: only a running one, one that failed or one that    *)
(* died with the process holds it.                                         *)
ReviseBudgetIsHeld ==
    \A x \in Sessions : budget[x] = "revise" =>
        \E r \in Revises : /\ SessionOf[r] = x
                           /\ stage[r] \in PackStages \cup {"unmark", "lost"} \/ outcome[r] = "error"

(* A stream consumes a run of its own session and of its own kind.         *)
StreamsFollowTheirKind ==
    \A s \in Requests : attached[s] \in Requests =>
        /\ SessionOf[attached[s]] = SessionOf[s]
        /\ attached[s] \in Revises <=> s \in Revises

(* A run that was told to stop, or whose time is up, before it passed the  *)
(* last check stays stopped: no later step of any request, route or task   *)
(* takes that back, and it never stores a draft (runner.py abort and       *)
(* abort_check, generate.py's checks).                                     *)
Stopping(r) == MustStop(r) /\ stage[r] # "commit" /\ r \notin stored
AbortIsFinal == [][\A r \in Requests : Stopping(r) => Stopping(r)']_vars

(* Once one client of a run has been told how it ended, neither that       *)
(* client nor any other that follows the run is told anything again        *)
(* (runner.py _emit_result, watchdog and _consume share one queue).        *)
TerminalIsToldOnce ==
    [][\A s, t \in Requests :
        attached[s] \in Requests /\ attached[t] = attached[s] /\ got[s] # "none" => got'[t] = got[t]]_vars

(* The runner keeps the contract of the expensive budget.                  *)
Phase(r) ==
    CASE stage[r] = "none" -> "idle"
      [] stage[r] = "lost" -> "lost"
      [] stage[r] = "finished" -> outcome[r]
      [] OTHER -> IF r \in stored THEN "stored" ELSE "running"

Contract == INSTANCE RunContract WITH
    Runs <- Requests, Before <- {NoRun, Earlier},
    phase <- [r \in Requests |-> Phase(r)]

KeepsContract == Contract!Spec

(* Liveness.                                                               *)

(* Every stream that was opened ends.                                      *)
StreamsEnd == \A s \in Requests : stream[s] = "open" ~> stream[s] \in {"closed", "lost"}

(* An abort requested while a last check is still ahead ends the run       *)
(* without a draft.                                                        *)
BeforeLastCheck == LiveStages \ {"commit", "reload", "unmark"}
AbortStopsTheRun ==
    \A r \in Requests :
        (abortReason[r] # "none" /\ stage[r] \in BeforeLastCheck) ~>
            /\ stage[r] = "lost" \/ (stage[r] = "finished" /\ outcome[r] \in {"aborted", "error"})
            /\ r \notin stored

-----------------------------------------------------------------------------
(* What the documents say of the runner and the code does not do.          *)

(* generate-itinerary spec, "Generate streams progress over SSE and        *)
(* supports abort": when every client of a run has disconnected while the  *)
(* run is still far from its draft, the run stops without one.             *)
DisconnectMeansNoDraft ==
    \A r \in Requests :
        (stage[r] \in {"get", "retrieve"} /\ Audience(r) \subseteq gone) ~>
            (~Live(r) /\ r \notin stored)

(* main.py: the dependencies of a run are those of its own request.        *)
RunUsesItsOwnRequest == \A r \in Requests : deps[r] \in {r, NoRun}
=============================================================================
