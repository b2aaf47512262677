------------------------ MODULE GenerateRunnerProofs ------------------------
(***************************************************************************)
(* Theorems about GenerateRunner for every set of requests and sessions:   *)
(* its types, the invariant that a live task is the one _runs holds, and   *)
(* that the runner implements RunContract.                                 *)
(***************************************************************************)
EXTENDS GenerateRunner, TLAPS

USE ConstantsAssumption

Returned == {"done", "error", "aborted"}
Reason   == {"none", "abort_requested", "timeout"}

-----------------------------------------------------------------------------
(* Types.                                                                  *)

(* What is put in a queue keeps it a sequence of events.                   *)
LEMMA PutType ==
    ASSUME NEW unread \in Seq(Event), NEW events \in Seq(Event)
    PROVE  Put(unread, events) \in Seq(Event)
<1>1. CASE unread # <<>> /\ events # <<>> /\ Head(events) = "progress"
    <2>1. Tail(events) \in Seq(Event)
        BY <1>1
    <2>2. QED
        BY <1>1, <2>1 DEF Put
<1>2. CASE ~(unread # <<>> /\ events # <<>> /\ Head(events) = "progress")
    BY <1>2 DEF Put
<1>3. QED
    BY <1>1, <1>2

(* Suspending at an await before run_generate has returned.                *)
LEMMA SuspendType ==
    ASSUME TaskTypeOK, NEW r \in Requests, NEW events \in Seq(Event),
           NEW at \in Stage \ {"unmark", "finished"},
           Suspend(r, events, at), UNCHANGED outcome
    PROVE  TaskTypeOK'
BY PutType DEF TaskTypeOK, Suspend

LEMMA FinishType ==
    ASSUME TaskTypeOK, NEW r \in Requests, NEW events \in Seq(Event),
           NEW status \in Returned, Finish(r, events, status)
    PROVE  TaskTypeOK'
<1> DEFINE terminal == IF status = "aborted" /\ abortReason'[r] = "timeout" THEN "timed_out" ELSE status
           all == events \o <<terminal, "end">>
<1>1. all \in Seq(Event)
    BY DEF Event, Terminal, Returned
<1>2. queue' \in [Requests -> Seq(Event)]
    BY <1>1, PutType DEF Finish, Suspend, TaskTypeOK
<1>3. stage' = [stage EXCEPT ![r] = "finished"] /\ outcome' = [outcome EXCEPT ![r] = status]
    BY DEF Finish, Suspend
<1>4. QED
    BY <1>2, <1>3 DEF TaskTypeOK, Stage, Outcome, Returned

LEMMA LeaveGenerateType ==
    ASSUME TaskTypeOK, NEW r \in Requests, NEW events \in Seq(Event),
           NEW status \in Returned, LeaveGenerate(r, events, status)
    PROVE  TaskTypeOK'
<1>1. CASE r \in Revises
    <2>1. /\ stage' = [stage EXCEPT ![r] = "unmark"]
          /\ outcome' = [outcome EXCEPT ![r] = status]
          /\ queue' = [queue EXCEPT ![r] = Put(@, events)]
        BY <1>1 DEF LeaveGenerate, Suspend
    <2>2. queue' \in [Requests -> Seq(Event)]
        BY <2>1, PutType DEF TaskTypeOK
    <2>3. QED
        BY <2>1, <2>2 DEF TaskTypeOK, Stage, LiveStages, Outcome, Returned
<1>2. CASE r \notin Revises
    BY <1>2, FinishType DEF LeaveGenerate
<1>3. QED
    BY <1>1, <1>2

LEMMA CheckThenType ==
    ASSUME TaskTypeOK, NEW r \in Requests, NEW events \in Seq(Event),
           NEW at \in Stage \ {"unmark", "finished"},
           CheckThen(r, events, at) \/ PreludeCheckThen(r, events, at)
    PROVE  TaskTypeOK'
<1>1. CASE MustStop(r)
    BY <1>1, LeaveGenerateType, FinishType DEF CheckThen, PreludeCheckThen, Returned
<1>2. CASE ~MustStop(r)
    BY <1>2, SuspendType DEF CheckThen, PreludeCheckThen
<1>3. QED
    BY <1>1, <1>2

(* A step of a task keeps the types of what it may change.                 *)
LEMMA TaskStepType ==
    ASSUME TypeOK, NEW r \in Requests, Task(r)
    PROVE  TaskTypeOK' /\ DbTypeOK' /\ abortReason' \in [Requests -> Reason]
<1>1. <<>> \in Seq(Event) /\ Progress \in Seq(Event)
    BY DEF Progress, Event
<1>2. \A at \in PreludeStages \cup PackStages : at \in Stage \ {"unmark", "finished"}
    BY DEF Stage, LiveStages, PreludeStages, PackStages
<1>3. UNCHANGED dbVars => DbTypeOK'
    BY DEF dbVars, TypeOK, DbTypeOK
<1>4. UNCHANGED abortReason \/ AbortCheck(r) => abortReason' \in [Requests -> Reason]
    BY DEF TypeOK, RunnerTypeOK, AbortCheck, Reason
<1>5. TaskTypeOK /\ Returned = {"done", "error", "aborted"}
    BY DEF TypeOK, Returned
<1> USE <1>1, <1>2, <1>3, <1>4, <1>5
<1>6. CASE StartTask(r)
    BY <1>6, CheckThenType DEF StartTask, PreludeStages, PackStages, CheckThen, PreludeCheckThen
<1>7. CASE ReviseLoad(r)
    BY <1>7, CheckThenType, FinishType DEF ReviseLoad, PreludeStages, PreludeCheckThen
<1>8. CASE ReviseParse(r)
    BY <1>8, SuspendType, FinishType DEF ReviseParse, PreludeStages
<1>9. CASE ReviseBump(r)
    <2>1. loops' \in [Sessions -> Nat]
        <3>1. loops' = loops \/ loops' = [loops EXCEPT ![SessionOf[r]] = @ + 1]
            BY <1>9 DEF ReviseBump
        <3>2. loops \in [Sessions -> Nat]
            BY DEF TypeOK, DbTypeOK
        <3>3. QED
            BY <3>1, <3>2
    <2>2. DbTypeOK'
        BY <1>9, <2>1 DEF ReviseBump, TypeOK, DbTypeOK
    <2>3. TaskTypeOK' /\ abortReason' \in [Requests -> Reason]
        BY <1>9, CheckThenType, FinishType DEF ReviseBump, PreludeStages, PreludeCheckThen
    <2>4. QED
        BY <2>2, <2>3
<1>10. CASE ReviseMark(r)
    <2>1. DbTypeOK'
        BY <1>10 DEF ReviseMark, TypeOK, DbTypeOK
    <2>2. TaskTypeOK' /\ abortReason' \in [Requests -> Reason]
        BY <1>10, CheckThenType, FinishType DEF ReviseMark, PackStages, CheckThen
    <2>3. QED
        BY <2>1, <2>2
<1>11. CASE GenerateGet(r)
    BY <1>11, CheckThenType, LeaveGenerateType DEF GenerateGet, PackStages, CheckThen
<1>12. CASE GenerateRetrieve(r)
    BY <1>12, CheckThenType, LeaveGenerateType DEF GenerateRetrieve, PackStages, CheckThen
<1>13. CASE GenerateNarrative(r)
    BY <1>13, CheckThenType, LeaveGenerateType DEF GenerateNarrative, PackStages, CheckThen
<1>14. CASE PersistCommit(r)
    <2>1. DbTypeOK'
        <3>1. CASE UNCHANGED dbVars
            BY <3>1
        <3>2. CASE ~UNCHANGED dbVars
            <4>1. /\ draft' = [draft EXCEPT ![SessionOf[r]] = r]
                  /\ trip' = [trip EXCEPT ![SessionOf[r]] = r]
                  /\ budget' = [budget EXCEPT ![SessionOf[r]] = "generate"]
                  /\ stored' = stored \cup {r}
                  /\ loops' = loops
                BY <1>14, <3>2 DEF PersistCommit
            <4>2. stored' \in SUBSET Requests
                BY <4>1 DEF TypeOK, DbTypeOK
            <4>3. QED
                BY <4>1, <4>2 DEF TypeOK, DbTypeOK
        <3>3. QED
            BY <3>1, <3>2
    <2>2. TaskTypeOK' /\ abortReason' \in [Requests -> Reason]
        BY <1>14, SuspendType, LeaveGenerateType DEF PersistCommit, PackStages
    <2>3. QED
        BY <2>1, <2>2
<1>15. CASE PersistReload(r)
    BY <1>15, LeaveGenerateType DEF PersistReload
<1>16. CASE ReviseUnmark(r)
    <2>1. DbTypeOK'
        BY <1>16 DEF ReviseUnmark, TypeOK, DbTypeOK
    <2>2. outcome[r] \in Returned
        BY <1>16 DEF ReviseUnmark, TaskTypeOK, Outcome
    <2>3. TaskTypeOK' /\ abortReason' \in [Requests -> Reason]
        BY <1>16, <2>2, FinishType DEF ReviseUnmark
    <2>4. QED
        BY <2>1, <2>3
<1>17. QED
    BY <1>6, <1>7, <1>8, <1>9, <1>10, <1>11, <1>12, <1>13, <1>14, <1>15, <1>16 DEF Task

(* A new run, a refusal and an abort in any of the steps that contain them.*)
LEMMA NewRunType ==
    ASSUME TypeOK, NEW s \in Requests, NEW b \in Requests \cup {NoRun},
           NewRun(s, b), UNCHANGED <<outcome, queue>>
    PROVE  /\ TaskTypeOK'
           /\ current' \in [Sessions -> Requests \cup {NoRun, Placeholder}]
           /\ deps' \in [Requests -> Requests \cup {NoRun}]
           /\ attached' \in [Requests -> Requests \cup {NoRun}]
           /\ stream' \in [Requests -> {"idle", "bound", "open", "closed", "lost"}]
           /\ \A t \in Requests : stream'[t] = "open" => attached'[t] \in Requests
BY DEF NewRun, TypeOK, TaskTypeOK, RunnerTypeOK, StreamTypeOK, Stage, LiveStages

LEMMA AbortType ==
    ASSUME TypeOK, NEW x \in Sessions, Abort(x)
    PROVE  /\ current' \in [Sessions -> Requests \cup {NoRun, Placeholder}]
           /\ abortReason' \in [Requests -> Reason]
BY DEF Abort, TypeOK, RunnerTypeOK, Reason

LEMMA RefuseType ==
    ASSUME TypeOK, NEW s \in Requests, Refuse(s)
    PROVE  /\ current' \in [Sessions -> Requests \cup {NoRun, Placeholder}]
           /\ abortReason' \in [Requests -> Reason]
           /\ got' \in [Requests -> Terminal \cup {"none"}]
           /\ stream' \in [Requests -> {"idle", "bound", "open", "closed", "lost"}]
<1>1. SessionOf[s] \in Sessions
    OBVIOUS
<1>2. CASE s \in gone
    BY <1>1, <1>2, AbortType DEF Refuse, TypeOK, StreamTypeOK
<1>3. CASE s \notin gone
    BY <1>3 DEF Refuse, TypeOK, StreamTypeOK, RunnerTypeOK, Terminal, Reason
<1>4. QED
    BY <1>2, <1>3

(* The steps of the streams keep the types.                                *)
LEMMA StreamStepType ==
    ASSUME TypeOK, NEW s \in Requests,
           Stream(s) \/ Bind(s) \/ Disconnect(s) \/ CancelStream(s)
    PROVE  TypeOK'
<1> USE DEF TypeOK, StreamTypeOK, RunnerTypeOK
<1>1. SessionOf[s] \in Sessions /\ Reason = {"none", "abort_requested", "timeout"}
    BY DEF Reason
<1>2. UNCHANGED dbVars => DbTypeOK'
    BY DEF dbVars, DbTypeOK
<1>3. UNCHANGED <<stage, outcome, queue>> => TaskTypeOK'
    BY DEF TaskTypeOK
<1>4. CASE StartGenerate(s)
    <2> DEFINE run == current[SessionOf[s]]
    <2>1. CASE ~InFlight(SessionOf[s])
        BY <1>2, <1>4, <2>1, NewRunType DEF StartGenerate, NewRun
    <2>2. CASE InFlight(SessionOf[s]) /\ run \in Revises
        BY <1>1, <1>2, <1>3, <1>4, <2>2, RefuseType DEF StartGenerate, Refuse
    <2>3. CASE InFlight(SessionOf[s]) /\ run \notin Revises
        <3>1. run \in Requests
            BY <2>3 DEF InFlight
        <3>2. QED
            BY <1>2, <1>3, <1>4, <2>3, <3>1 DEF StartGenerate
    <2>4. QED
        BY <2>1, <2>2, <2>3
<1>5. CASE StartRevise(s)
    <2>1. CASE InFlight(SessionOf[s])
        BY <1>1, <1>2, <1>3, <1>5, <2>1, RefuseType DEF StartRevise, Refuse
    <2>2. CASE ~InFlight(SessionOf[s])
        BY <1>2, <1>5, <2>2, NewRunType DEF StartRevise, NewRun
    <2>3. QED
        BY <2>1, <2>2
<1>6. CASE Consume(s)
    <2> DEFINE r == attached[s]
               e == Head(queue[r])
    <2>1. r \in Requests /\ queue[r] \in Seq(Event) /\ queue[r] # <<>>
        BY <1>6 DEF Consume, TaskTypeOK
    <2>2. e \in Event /\ Tail(queue[r]) \in Seq(Event)
        BY <2>1
    <2>3. TaskTypeOK'
        BY <1>6, <2>1, <2>2 DEF Consume, TaskTypeOK
    <2>4. DbTypeOK' /\ UNCHANGED <<gone, attached, boundGenerate, boundRevise, deps, expired>>
        BY <1>2, <1>6 DEF Consume
    <2>5. CASE e = "end"
        BY <1>6, <2>3, <2>4, <2>5 DEF Consume
    <2>6. CASE e # "end" /\ s \in gone
        <3>1. Abort(SessionOf[s]) /\ UNCHANGED got /\ stream' = [stream EXCEPT ![s] = "closed"]
            BY <1>6, <2>6 DEF Consume
        <3>2. QED
            BY <1>1, <2>3, <2>4, <3>1, AbortType
    <2>7. CASE e # "end" /\ s \notin gone
        <3>1. /\ got' = [got EXCEPT ![s] = IF e = "progress" THEN @ ELSE e]
              /\ UNCHANGED <<stream, current, abortReason>>
            BY <1>6, <2>7 DEF Consume
        <3>2. e = "progress" \/ e \in Terminal
            BY <2>2, <2>7 DEF Event
        <3>3. QED
            BY <2>3, <2>4, <3>1, <3>2
    <2>8. QED
        BY <2>5, <2>6, <2>7
<1>7. CASE ConsumerEnds(s)
    BY <1>2, <1>3, <1>7 DEF ConsumerEnds, runnerVars, taskVars
<1>8. CASE Bind(s)
    BY <1>2, <1>3, <1>8 DEF Bind, taskVars
<1>9. CASE Disconnect(s)
    BY <1>2, <1>3, <1>9 DEF Disconnect, runnerVars, taskVars
<1>10. CASE CancelStream(s)
    BY <1>2, <1>3, <1>10 DEF CancelStream, runnerVars, taskVars
<1>11. QED
    BY <1>4, <1>5, <1>6, <1>7, <1>8, <1>9, <1>10 DEF Stream

(* Every variable keeps its range in every behaviour of the runner.        *)
THEOREM TypeCorrect == Spec => []TypeOK
<1>1. Init => TypeOK
    BY DEF Init, TypeOK, StreamTypeOK, RunnerTypeOK, TaskTypeOK, DbTypeOK, Stage, Outcome
<1>2. TypeOK /\ [Next]_vars => TypeOK'
    <2> SUFFICES ASSUME TypeOK, [Next]_vars
                 PROVE  TypeOK'
        OBVIOUS
    <2> USE DEF TypeOK
    <2>1. UNCHANGED dbVars => DbTypeOK'
        BY DEF dbVars, DbTypeOK
    <2>2. UNCHANGED <<stage, outcome, queue>> => TaskTypeOK'
        BY DEF TaskTypeOK
    <2>3. UNCHANGED streamVars => StreamTypeOK'
        BY DEF streamVars, StreamTypeOK
    <2>4. ASSUME NEW s \in Requests, Bind(s) \/ Stream(s) \/ Disconnect(s) \/ CancelStream(s)
          PROVE  TypeOK'
        BY <2>4, StreamStepType
    <2>5. ASSUME NEW x \in Sessions, AbortRoute(x)
          PROVE  TypeOK'
        BY <2>1, <2>2, <2>3, <2>5, AbortType DEF AbortRoute, taskVars, RunnerTypeOK, Reason
    <2>6. ASSUME NEW r \in Requests, Expire(r) \/ Watchdog(r)
          PROVE  TypeOK'
        BY <2>1, <2>2, <2>3, <2>6 DEF Expire, Watchdog, taskVars, runnerVars, RunnerTypeOK
    <2>7. ASSUME NEW r \in Requests, Task(r)
          PROVE  TypeOK'
        <3>1. UNCHANGED <<streamVars, runnerVars, deps, expired>>
            BY <2>7 DEF Task
        <3>2. QED
            BY <2>3, <2>7, <3>1, TaskStepType DEF runnerVars, RunnerTypeOK, Reason
    <2>8. CASE Crash
        <3>1. TaskTypeOK'
            BY <2>8 DEF Crash, TaskTypeOK, Stage
        <3>2. StreamTypeOK' /\ RunnerTypeOK'
            BY <2>8 DEF Crash, StreamTypeOK, RunnerTypeOK
        <3>3. QED
            BY <2>1, <2>8, <3>1, <3>2 DEF Crash
    <2>9. CASE UNCHANGED vars
        BY <2>1, <2>2, <2>3, <2>9 DEF vars, taskVars, runnerVars, RunnerTypeOK
    <2>10. QED
        BY <2>4, <2>5, <2>6, <2>7, <2>8, <2>9 DEF Next
<1>3. QED
    BY <1>1, <1>2, PTL DEF Spec

-----------------------------------------------------------------------------
(* The shapes of a task's step, as far as stages, outcomes and drafts go.  *)

Goes(r, at, o) ==
    /\ stage[r] \in LiveStages
    /\ stage' = [stage EXCEPT ![r] = at]
    /\ outcome' = [outcome EXCEPT ![r] = o]

KeepsDrafts == UNCHANGED <<draft, stored>>

(* on to the next await, before anything is stored *)
Continues(r) == \E at \in LiveStages \ {"reload", "unmark"} :
    Goes(r, at, outcome[r]) /\ KeepsDrafts /\ stage[r] \notin {"reload", "unmark"}

(* run_generate, or the part of run_revise before it, returns o *)
Returns(r) == \E at \in {"unmark", "finished"}, o \in Returned :
    /\ Goes(r, at, o) /\ KeepsDrafts /\ stage[r] # "unmark"
    /\ o = "done" => stage[r] = "reload"
    /\ o = "aborted" => stage[r] # "reload"

(* the draft is committed *)
Stores(r) ==
    /\ stage[r] = "commit" /\ Goes(r, "reload", outcome[r])
    /\ draft' = [draft EXCEPT ![SessionOf[r]] = r]
    /\ stored' = stored \cup {r}

(* run_revise returns what run_generate returned, or an error *)
Settles(r) == \E o \in {outcome[r], "error"} :
    stage[r] = "unmark" /\ Goes(r, "finished", o) /\ KeepsDrafts

LEMMA LeaveGenerateShape ==
    ASSUME TaskTypeOK, NEW r \in Requests, NEW events, NEW status \in Returned,
           LeaveGenerate(r, events, status), KeepsDrafts,
           stage[r] \in LiveStages \ {"unmark"},
           status = "done" => stage[r] = "reload", status = "aborted" => stage[r] # "reload"
    PROVE  Returns(r)
<1>1. \E at \in {"unmark", "finished"} : Goes(r, at, status)
    BY DEF LeaveGenerate, Finish, Suspend, Goes
<1>2. QED
    BY <1>1 DEF Returns

LEMMA FinishShape ==
    ASSUME TaskTypeOK, NEW r \in Requests, NEW events, NEW status \in Returned,
           Finish(r, events, status), KeepsDrafts,
           stage[r] \in LiveStages \ {"unmark", "reload"}, status # "done"
    PROVE  Returns(r)
<1>1. Goes(r, "finished", status)
    BY DEF Finish, Suspend, Goes
<1>2. QED
    BY <1>1 DEF Returns

LEMMA SuspendShape ==
    ASSUME TaskTypeOK, NEW r \in Requests, NEW events, NEW at \in LiveStages \ {"reload", "unmark"},
           Suspend(r, events, at), UNCHANGED outcome, KeepsDrafts,
           stage[r] \in LiveStages \ {"unmark", "reload"}
    PROVE  Continues(r)
<1>1. Goes(r, at, outcome[r])
    BY DEF Suspend, Goes, TaskTypeOK
<1>2. QED
    BY <1>1 DEF Continues

LEMMA CheckThenShape ==
    ASSUME TaskTypeOK, NEW r \in Requests, NEW events, NEW at \in LiveStages \ {"reload", "unmark"},
           CheckThen(r, events, at) \/ PreludeCheckThen(r, events, at), KeepsDrafts,
           stage[r] \in LiveStages \ {"unmark", "reload"}
    PROVE  Continues(r) \/ Returns(r)
<1>1. CASE MustStop(r)
    BY <1>1, LeaveGenerateShape, FinishShape DEF CheckThen, PreludeCheckThen, Returned
<1>2. CASE ~MustStop(r)
    BY <1>2, SuspendShape DEF CheckThen, PreludeCheckThen
<1>3. QED
    BY <1>1, <1>2

LEMMA TaskShape ==
    ASSUME TypeOK, NEW r \in Requests, Task(r)
    PROVE  /\ Continues(r) \/ Returns(r) \/ Stores(r) \/ Settles(r)
           /\ UNCHANGED current
<1>1. TaskTypeOK /\ Returned = {"done", "error", "aborted"} /\ UNCHANGED current
    BY DEF TypeOK, Returned, Task, runnerVars
<1>2. LiveStages = {"created", "unmark", "load", "parse", "bump", "mark", "get",
                    "retrieve", "narrative", "commit", "reload"}
    BY DEF LiveStages, PreludeStages, PackStages
<1>3. UNCHANGED dbVars => KeepsDrafts
    BY DEF dbVars, KeepsDrafts
<1> USE <1>1, <1>2, <1>3
<1>4. CASE StartTask(r)
    BY <1>4, CheckThenShape DEF StartTask
<1>5. CASE ReviseLoad(r)
    BY <1>5, CheckThenShape, FinishShape DEF ReviseLoad
<1>6. CASE ReviseParse(r)
    BY <1>6, SuspendShape, FinishShape DEF ReviseParse
<1>7. CASE ReviseBump(r)
    BY <1>7, CheckThenShape, FinishShape DEF ReviseBump, KeepsDrafts
<1>8. CASE ReviseMark(r)
    BY <1>8, CheckThenShape, FinishShape DEF ReviseMark, KeepsDrafts
<1>9. CASE GenerateGet(r)
    BY <1>9, CheckThenShape, LeaveGenerateShape DEF GenerateGet
<1>10. CASE GenerateRetrieve(r)
    BY <1>10, CheckThenShape, LeaveGenerateShape DEF GenerateRetrieve
<1>11. CASE GenerateNarrative(r)
    BY <1>11, CheckThenShape, LeaveGenerateShape DEF GenerateNarrative
<1>12. CASE PersistCommit(r)
    <2>1. CASE LeaveGenerate(r, <<>>, "error") /\ UNCHANGED dbVars
        BY <1>12, <2>1, LeaveGenerateShape DEF PersistCommit
    <2>2. CASE ~(LeaveGenerate(r, <<>>, "error") /\ UNCHANGED dbVars)
        <3>1. /\ stage[r] = "commit" /\ UNCHANGED outcome
              /\ stage' = [stage EXCEPT ![r] = "reload"]
              /\ draft' = [draft EXCEPT ![SessionOf[r]] = r]
              /\ stored' = stored \cup {r}
            BY <1>12, <2>2 DEF PersistCommit, Suspend
        <3>2. Goes(r, "reload", outcome[r])
            BY <3>1 DEF Goes, TaskTypeOK
        <3>3. QED
            BY <3>1, <3>2 DEF Stores
    <2>3. QED
        BY <2>1, <2>2
<1>13. CASE PersistReload(r)
    BY <1>13, LeaveGenerateShape DEF PersistReload
<1>14. CASE ReviseUnmark(r)
    BY <1>14 DEF ReviseUnmark, Finish, Suspend, Settles, Goes, KeepsDrafts
<1>15. QED
    BY <1>4, <1>5, <1>6, <1>7, <1>8, <1>9, <1>10, <1>11, <1>12, <1>13, <1>14 DEF Task

(* A new task for request s, whose session has none.                       *)
Starts(s) ==
    /\ stream[s] = "bound" /\ ~InFlight(SessionOf[s])
    /\ stream' = [stream EXCEPT ![s] = "open"]
    /\ stage' = [stage EXCEPT ![s] = "created"]
    /\ current' = [current EXCEPT ![SessionOf[s]] = s]
    /\ KeepsDrafts /\ UNCHANGED outcome

(* No task moves; _runs changes only where it held nothing.                *)
Quiet ==
    /\ KeepsDrafts /\ UNCHANGED <<stage, outcome>>
    /\ \A x \in Sessions : current'[x] = current[x] \/ current[x] = NoRun
    /\ \A t \in Requests : stream'[t] \in {"idle", "bound"} => stream[t] \in {"idle", "bound"}

LEMMA AbortShape ==
    ASSUME TypeOK, NEW x \in Sessions, Abort(x)
    PROVE  \A y \in Sessions : current'[y] = current[y] \/ current[y] = NoRun
BY DEF Abort, TypeOK, RunnerTypeOK

LEMMA StreamShape ==
    ASSUME TypeOK, NEW s \in Requests,
           Bind(s) \/ Stream(s) \/ Disconnect(s) \/ CancelStream(s)
    PROVE  Quiet \/ Starts(s)
<1> USE DEF KeepsDrafts, dbVars, TypeOK, StreamTypeOK
<1>1. SessionOf[s] \in Sessions
    OBVIOUS
<1>2. Refuse(s) => /\ \A y \in Sessions : current'[y] = current[y] \/ current[y] = NoRun
                   /\ stream' = [stream EXCEPT ![s] = "closed"] /\ UNCHANGED stage
    BY <1>1, AbortShape DEF Refuse
<1>3. CASE StartGenerate(s)
    BY <1>2, <1>3 DEF StartGenerate, NewRun, Quiet, Starts
<1>4. CASE StartRevise(s)
    BY <1>2, <1>4 DEF StartRevise, NewRun, Quiet, Starts
<1>5. CASE Consume(s)
    <2>1. \A y \in Sessions : current'[y] = current[y] \/ current[y] = NoRun
        BY <1>1, <1>5, AbortShape DEF Consume
    <2>2. QED
        BY <1>5, <2>1 DEF Consume, Quiet
<1>6. CASE ConsumerEnds(s)
    BY <1>6 DEF ConsumerEnds, Quiet, runnerVars, taskVars
<1>7. CASE Bind(s)
    BY <1>7 DEF Bind, Quiet, taskVars
<1>8. CASE Disconnect(s)
    BY <1>8 DEF Disconnect, Quiet, runnerVars, taskVars
<1>9. CASE CancelStream(s)
    BY <1>9 DEF CancelStream, Quiet, runnerVars, taskVars
<1>10. QED
    BY <1>3, <1>4, <1>5, <1>6, <1>7, <1>8, <1>9 DEF Stream

Works(r) ==
    /\ Continues(r) \/ Returns(r) \/ Stores(r) \/ Settles(r)
    /\ UNCHANGED <<current, stream>>

(* Every step of the runner has one of four shapes.                        *)
LEMMA StepShape ==
    ASSUME TypeOK, [Next]_vars
    PROVE  \/ Quiet
           \/ \E s \in Requests : Starts(s)
           \/ \E r \in Requests : Works(r)
           \/ Crash
<1>1. ASSUME NEW s \in Requests, Bind(s) \/ Stream(s) \/ Disconnect(s) \/ CancelStream(s)
      PROVE  Quiet \/ Starts(s)
    BY <1>1, StreamShape
<1>2. ASSUME NEW x \in Sessions, AbortRoute(x)
      PROVE  Quiet
    BY <1>2, AbortShape DEF AbortRoute, Quiet, KeepsDrafts, dbVars, taskVars, streamVars
<1>3. ASSUME NEW r \in Requests, Expire(r) \/ Watchdog(r)
      PROVE  Quiet
    BY <1>3 DEF Expire, Watchdog, Quiet, KeepsDrafts, dbVars, taskVars, runnerVars, streamVars
<1>4. ASSUME NEW r \in Requests, Task(r)
      PROVE  Works(r)
    BY <1>4, TaskShape DEF Works, Task, streamVars
<1>5. CASE UNCHANGED vars
    BY <1>5 DEF vars, Quiet, KeepsDrafts, dbVars, taskVars, runnerVars, streamVars
<1>6. QED
    BY <1>1, <1>2, <1>3, <1>4, <1>5 DEF Next

-----------------------------------------------------------------------------
(* The inductive invariant.                                                *)

(* A request has no task before its stream has started.                    *)
NoEarlyTask == \A s \in Requests : stream[s] \in {"idle", "bound"} => stage[s] = "none"

IInv == TypeOK /\ LiveRunIsCurrent /\ OutcomeIsTrue /\ NoEarlyTask

LEMMA LiveStagesAre ==
    LiveStages = {"created", "unmark", "load", "parse", "bump", "mark", "get",
                  "retrieve", "narrative", "commit", "reload"}
BY DEF LiveStages, PreludeStages, PackStages

LEMMA IInvStep ==
    ASSUME IInv, [Next]_vars, TypeOK'
    PROVE  IInv'
<1> USE DEF IInv
<1>1. CASE Quiet
    <2>1. LiveRunIsCurrent'
        BY <1>1 DEF Quiet, LiveRunIsCurrent, Live
    <2>2. OutcomeIsTrue' /\ NoEarlyTask'
        BY <1>1 DEF Quiet, OutcomeIsTrue, NoEarlyTask, KeepsDrafts
    <2>3. QED
        BY <2>1, <2>2
<1>2. ASSUME NEW s \in Requests, Starts(s)
      PROVE  IInv'
    <2>1. \A r \in Requests : Live(r) => SessionOf[r] # SessionOf[s]
        BY <1>2 DEF Starts, InFlight, LiveRunIsCurrent
    <2>2. stage[s] = "none" /\ s \notin stored
        BY <1>2, LiveStagesAre DEF Starts, NoEarlyTask, OutcomeIsTrue
    <2>3. LiveRunIsCurrent'
        BY <1>2, <2>1 DEF Starts, LiveRunIsCurrent, Live, TypeOK, TaskTypeOK, RunnerTypeOK
    <2>4. OutcomeIsTrue'
        BY <1>2, <2>2 DEF Starts, OutcomeIsTrue, KeepsDrafts, TypeOK, TaskTypeOK
    <2>5. NoEarlyTask'
        BY <1>2 DEF Starts, NoEarlyTask, TypeOK, TaskTypeOK, StreamTypeOK
    <2>6. QED
        BY <2>3, <2>4, <2>5
<1>3. ASSUME NEW r \in Requests, Works(r)
      PROVE  IInv'
    <2>1. PICK at \in Stage, o \in Outcome : Goes(r, at, o)
        <3>1. outcome[r] \in Outcome /\ "error" \in Outcome /\ Returned \subseteq Outcome
            BY DEF TypeOK, TaskTypeOK, Outcome, Returned
        <3>2. LiveStages \subseteq Stage /\ {"unmark", "finished", "reload"} \subseteq Stage
            BY LiveStagesAre DEF Stage
        <3>3. CASE Continues(r) \/ Returns(r)
            BY <3>1, <3>2, <3>3 DEF Continues, Returns
        <3>4. CASE Stores(r) \/ Settles(r)
            BY <3>1, <3>2, <3>4 DEF Stores, Settles
        <3>5. QED
            BY <1>3, <3>3, <3>4 DEF Works
    <2>2. LiveRunIsCurrent'
        BY <1>3, <2>1 DEF Works, Goes, LiveRunIsCurrent, Live, TypeOK, TaskTypeOK
    <2>3. NoEarlyTask'
        BY <1>3, <2>1, LiveStagesAre DEF Works, Goes, NoEarlyTask, TypeOK, TaskTypeOK
    <2>4. OutcomeIsTrue'
        <3>1. CASE Continues(r)
            BY <3>1, LiveStagesAre DEF Continues, Goes, OutcomeIsTrue, KeepsDrafts, TypeOK, TaskTypeOK
        <3>2. CASE Returns(r)
            BY <3>2, LiveStagesAre DEF Returns, Goes, OutcomeIsTrue, KeepsDrafts, TypeOK, TaskTypeOK, Returned
        <3>3. CASE Stores(r)
            BY <3>3 DEF Stores, Goes, OutcomeIsTrue, TypeOK, TaskTypeOK
        <3>4. CASE Settles(r)
            BY <3>4 DEF Settles, Goes, OutcomeIsTrue, KeepsDrafts, TypeOK, TaskTypeOK
        <3>5. QED
            BY <1>3, <3>1, <3>2, <3>3, <3>4 DEF Works
    <2>5. QED
        BY <2>2, <2>3, <2>4
<1>4. CASE Crash
    BY <1>4, LiveStagesAre DEF Crash, LiveRunIsCurrent, OutcomeIsTrue, NoEarlyTask, Live, dbVars,
                               TypeOK, TaskTypeOK, StreamTypeOK
<1>5. QED
    BY <1>1, <1>2, <1>3, <1>4, StepShape

(* In every behaviour the live task of a session is the one _runs holds,   *)
(* and every outcome is true of its draft.                                 *)
THEOREM Invariance == Spec => []IInv
<1>1. Init => IInv
    BY LiveStagesAre DEF Init, IInv, LiveRunIsCurrent, OutcomeIsTrue, NoEarlyTask, Live,
       TypeOK, StreamTypeOK, RunnerTypeOK, TaskTypeOK, DbTypeOK, Stage, Outcome
<1>2. IInv /\ [Next]_vars /\ TypeOK' => IInv'
    BY IInvStep
<1>3. QED
    BY <1>1, <1>2, TypeCorrect, PTL DEF Spec

(* One task per session, whatever the routes, aborts and crashes do.       *)
THEOREM OneTaskPerSession == Spec => []LiveRunIsCurrent
<1>1. IInv => LiveRunIsCurrent
    BY DEF IInv
<1>2. QED
    BY <1>1, Invariance, PTL

(* What a run reports is true of the draft it did or did not store.        *)
THEOREM TruthfulOutcome == Spec => []OutcomeIsTrue
<1>1. IInv => OutcomeIsTrue
    BY DEF IInv
<1>2. QED
    BY <1>1, Invariance, PTL

-----------------------------------------------------------------------------
(* The contract.                                                           *)

LEMMA PhaseOf ==
    ASSUME IInv, NEW r \in Requests
    PROVE  /\ stage[r] = "none" => Phase(r) = "idle"
           /\ stage[r] = "lost" => Phase(r) = "lost"
           /\ stage[r] = "finished" => Phase(r) = outcome[r] /\ outcome[r] \in Returned
           /\ Live(r) => Phase(r) = IF r \in stored THEN "stored" ELSE "running"
BY LiveStagesAre DEF Phase, Live, IInv, TypeOK, TaskTypeOK, Outcome, Returned

LEMMA StageCases ==
    ASSUME IInv, NEW r \in Requests
    PROVE  stage[r] \in {"none", "lost", "finished"} \/ Live(r)
BY DEF IInv, TypeOK, TaskTypeOK, Stage, Live

LEMMA ContractStep ==
    ASSUME IInv, IInv', [Next]_vars
    PROVE  [Contract!Next]_(Contract!vars)
<1> DEFINE phase == [r \in Requests |-> Phase(r)]
<1> USE DEF Contract!vars
<1>1. CASE Quiet
    <2>1. phase' = phase
        BY <1>1 DEF Quiet, KeepsDrafts, Phase
    <2>2. QED
        BY <1>1, <2>1 DEF Quiet, KeepsDrafts
<1>2. ASSUME NEW s \in Requests, Starts(s)
      PROVE  Contract!Begin(s)
    <2>1. stage[s] = "none" /\ s \notin stored
        BY <1>2, LiveStagesAre DEF Starts, IInv, NoEarlyTask, OutcomeIsTrue
    <2>2. \A r \in Requests : SessionOf[r] = SessionOf[s] => phase[r] \notin {"running", "stored"}
        BY <1>2, PhaseOf, StageCases DEF Starts, InFlight, IInv, LiveRunIsCurrent, Returned
    <2>3. Phase(s)' = "running"
        BY <1>2, <2>1 DEF Starts, KeepsDrafts, Phase, IInv, TypeOK, TaskTypeOK
    <2>4. \A r \in Requests \ {s} : Phase(r)' = Phase(r)
        BY <1>2 DEF Starts, KeepsDrafts, Phase, IInv, TypeOK, TaskTypeOK
    <2>5. phase' = [phase EXCEPT ![s] = "running"]
        BY <2>3, <2>4
    <2>6. phase[s] = "idle"
        BY <2>1, PhaseOf
    <2>7. QED
        BY <1>2, <2>2, <2>5, <2>6 DEF Contract!Begin, Contract!Active, Starts, KeepsDrafts
<1>3. ASSUME NEW r \in Requests, Works(r)
      PROVE  Contract!Store(r) \/ Contract!End(r) \/ UNCHANGED Contract!vars
    <2>1. Live(r) /\ \A q \in Requests \ {r} : Phase(q)' = Phase(q)
        <3>1. \A q \in Requests \ {r} : stage'[q] = stage[q] /\ outcome'[q] = outcome[q]
                                        /\ (q \in stored' <=> q \in stored)
            BY <1>3 DEF Works, Continues, Returns, Stores, Settles, Goes, KeepsDrafts,
                        IInv, TypeOK, TaskTypeOK
        <3>2. Live(r)
            BY <1>3 DEF Works, Continues, Returns, Stores, Settles, Goes, Live
        <3>3. QED
            BY <3>1, <3>2 DEF Phase
    <2>2. Phase(r) = IF r \in stored THEN "stored" ELSE "running"
        BY <2>1, PhaseOf
    <2>3. \A p : Phase(r)' = p => phase' = [phase EXCEPT ![r] = p]
        BY <2>1
    <2>4. ASSUME Phase(r)' = Phase(r), KeepsDrafts
          PROVE  UNCHANGED Contract!vars
        BY <2>1, <2>4 DEF KeepsDrafts
    <2>5. ASSUME NEW o \in Returned, Phase(r)' = o, KeepsDrafts,
                 o = "done" => r \in stored, o = "aborted" => r \notin stored
          PROVE  Contract!End(r)
        BY <2>2, <2>3, <2>5 DEF Contract!End, KeepsDrafts, Returned
    <2>6. CASE Continues(r)
        <3>1. r \notin stored /\ stage'[r] \in LiveStages /\ KeepsDrafts
            BY <2>6, LiveStagesAre DEF Continues, Goes, IInv, OutcomeIsTrue, TypeOK, TaskTypeOK
        <3>2. Phase(r)' = "running"
            BY <3>1, LiveStagesAre DEF KeepsDrafts, Phase
        <3>3. QED
            BY <2>2, <2>4, <3>1, <3>2
    <2>7. CASE Returns(r)
        <3>1. PICK at \in {"unmark", "finished"}, o \in Returned :
                /\ Goes(r, at, o) /\ KeepsDrafts /\ stage[r] # "unmark"
                /\ o = "done" => stage[r] = "reload"
                /\ o = "aborted" => stage[r] # "reload"
            BY <2>7 DEF Returns
        <3>2. stage'[r] = at /\ outcome'[r] = o
            BY <3>1 DEF Goes, IInv, TypeOK, TaskTypeOK
        <3>3. CASE at = "unmark"
            BY <2>2, <2>4, <3>1, <3>2, <3>3 DEF KeepsDrafts, Phase
        <3>4. CASE at = "finished"
            <4>1. Phase(r)' = o
                BY <3>2, <3>4 DEF Phase
            <4>2. (o = "done" => r \in stored) /\ (o = "aborted" => r \notin stored)
                BY <3>1, LiveStagesAre DEF Goes, IInv, OutcomeIsTrue
            <4>3. QED
                BY <2>5, <3>1, <4>1, <4>2
        <3>5. QED
            BY <3>3, <3>4
    <2>8. CASE Stores(r)
        <3>1. r \notin stored
            BY <2>8 DEF Stores, IInv, OutcomeIsTrue
        <3>2. Phase(r)' = "stored"
            BY <2>8 DEF Stores, Goes, Phase, IInv, TypeOK, TaskTypeOK
        <3>3. QED
            BY <2>2, <2>3, <2>8, <3>1, <3>2 DEF Stores, Contract!Store
    <2>9. CASE Settles(r)
        <3>1. PICK o \in {outcome[r], "error"} :
                stage[r] = "unmark" /\ Goes(r, "finished", o) /\ KeepsDrafts
            BY <2>9 DEF Settles
        <3>2. Phase(r)' = o
            BY <3>1 DEF Goes, Phase, IInv, TypeOK, TaskTypeOK
        <3>3. o \in Returned /\ (o = "done" => r \in stored) /\ (o = "aborted" => r \notin stored)
            BY <3>1 DEF IInv, OutcomeIsTrue, TypeOK, TaskTypeOK, Outcome, Returned
        <3>4. QED
            BY <2>5, <3>1, <3>2, <3>3
    <2>10. QED
        BY <1>3, <2>6, <2>7, <2>8, <2>9 DEF Works
<1>4. CASE Crash
    <2>1. \A r \in Requests : Phase(r)' = IF Phase(r) \in {"running", "stored"} THEN "lost" ELSE Phase(r)
        <3> SUFFICES ASSUME NEW r \in Requests
                     PROVE  Phase(r)' = IF Phase(r) \in {"running", "stored"} THEN "lost" ELSE Phase(r)
            OBVIOUS
        <3>1. CASE Live(r)
            BY <1>4, <3>1, PhaseOf DEF Crash, Phase
        <3>2. CASE ~Live(r)
            <4>1. stage'[r] = stage[r] /\ outcome'[r] = outcome[r]
                BY <1>4, <3>2 DEF Crash
            <4>2. QED
                BY <3>2, <4>1, PhaseOf, StageCases DEF Phase, Returned
        <3>3. QED
            BY <3>1, <3>2
    <2>2. Contract!Crash
        BY <1>4, <2>1 DEF Contract!Crash, Crash, dbVars
    <2>3. QED
        BY <2>2 DEF Contract!Next
<1>5. QED
    BY <1>1, <1>2, <1>3, <1>4, StepShape DEF IInv, Contract!Next

(* The runner implements the contract of the expensive budget.             *)
THEOREM RunnerKeepsContract == Spec => KeepsContract
<1>1. Init => Contract!Init
    BY DEF Init, Contract!Init, Phase
<1>2. IInv /\ IInv' /\ [Next]_vars => [Contract!Next]_(Contract!vars)
    BY ContractStep
<1>3. QED
    BY <1>1, <1>2, Invariance, PTL DEF Spec, KeepsContract, Contract!Spec
=============================================================================
