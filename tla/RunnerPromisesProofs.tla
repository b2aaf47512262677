------------------------- MODULE RunnerPromisesProofs -------------------------
(***************************************************************************)
(* Theorems about what GenerateRunner promises its clients and leaves in   *)
(* the database, on top of the invariant of GenerateRunnerProofs: the      *)
(* draft and its trip, the revise budget, the loop cap, whom a stream      *)
(* follows, and the terminal events.                                       *)
(***************************************************************************)
EXTENDS GenerateRunnerProofs, FiniteSetTheorems, SequenceTheorems

USE ConstantsAssumption

-----------------------------------------------------------------------------
(* The database.                                                           *)

(* The draft and the trips row are written together (trips/service.py      *)
(* persist_draft), so they are the same plan in every state.               *)
THEOREM TripFollowsDraft == Spec => []TripIsTheDraft
<1>1. Init => TripIsTheDraft
    BY DEF Init, TripIsTheDraft
<1>2. TripIsTheDraft /\ [Next]_vars => TripIsTheDraft'
    <2> SUFFICES ASSUME TripIsTheDraft, [Next]_vars
                 PROVE  TripIsTheDraft'
        OBVIOUS
    <2>1. UNCHANGED <<draft, trip>> => TripIsTheDraft'
        BY DEF TripIsTheDraft
    <2>2. ASSUME NEW s \in Requests, Bind(s) \/ Stream(s) \/ Disconnect(s) \/ CancelStream(s)
          PROVE  UNCHANGED <<draft, trip>>
        BY <2>2 DEF Bind, Stream, Disconnect, CancelStream, StartGenerate, StartRevise,
                    Consume, ConsumerEnds, dbVars
    <2>3. ASSUME NEW x \in Sessions, AbortRoute(x)
          PROVE  UNCHANGED <<draft, trip>>
        BY <2>3 DEF AbortRoute, dbVars
    <2>4. ASSUME NEW r \in Requests, Expire(r) \/ Watchdog(r)
          PROVE  UNCHANGED <<draft, trip>>
        BY <2>4 DEF Expire, Watchdog, dbVars
    <2>5. ASSUME NEW r \in Requests, Task(r)
          PROVE  TripIsTheDraft'
        <3>1. CASE PersistCommit(r)
            BY <3>1 DEF PersistCommit, TripIsTheDraft, dbVars
        <3>2. CASE ~PersistCommit(r)
            BY <2>1, <2>5, <3>2 DEF Task, dbVars, StartTask, ReviseLoad, ReviseParse, ReviseBump,
               ReviseMark, GenerateGet, GenerateRetrieve, GenerateNarrative, PersistReload, ReviseUnmark
        <3>3. QED
            BY <3>1, <3>2
    <2>6. Crash \/ UNCHANGED vars => UNCHANGED <<draft, trip>>
        BY DEF Crash, vars, dbVars
    <2>7. QED
        BY <2>1, <2>2, <2>3, <2>4, <2>5, <2>6 DEF Next
<1>3. QED
    BY <1>1, <1>2, PTL DEF Spec

(* The stages of a revise whose attempt was counted and let through.       *)
Admitted == {"mark"} \cup PackStages

(* A step of task r to stage at with outcome o, as far as the kinds of the *)
(* stages, the budget and the count of the attempts go.                    *)
Moves(r, at, o) ==
    /\ Goes(r, at, o)
    /\ at = "finished" \/ (at \in LiveStages /\ (at # "unmark" => o = outcome[r]))
    /\ at \in PreludeStages \cup {"unmark"} => r \in Revises \/ stage[r] \in PreludeStages
    /\ stage[r] \in PackStages /\ r \in Revises => at \in PackStages \cup {"unmark"}
    /\ stage[r] = "unmark" => at = "finished" /\ (o = outcome[r] \/ o = "error")
    /\ \/ budget' = budget /\ (stage[r] = "unmark" => o = "error")
       \/ /\ budget' = [budget EXCEPT ![SessionOf[r]] = "revise"]
          /\ stage[r] = "mark"
          /\ r \in Revises => at \in PackStages \cup {"unmark"} \/ o = "error"
       \/ budget' = [budget EXCEPT ![SessionOf[r]] = "generate"]
       \/ budget' = [budget EXCEPT ![SessionOf[r]] = "dialogue"]
    /\ \/ /\ loops' = loops
          /\ at \in Admitted /\ r \in Revises => stage[r] \in Admitted
       \/ /\ loops' = [loops EXCEPT ![SessionOf[r]] = @ + 1]
          /\ stage[r] = "bump"
          /\ at \in Admitted => loops'[SessionOf[r]] <= MaxLoops
    /\ stored' = stored \/ (stored' = stored \cup {r} /\ stage[r] = "commit")

(* Where run_generate goes when it returns.                                *)
Exit(r) == IF r \in Revises THEN "unmark" ELSE "finished"

LEMMA MovesGo ==
    ASSUME TypeOK, NEW r \in Requests, NEW events, NEW status \in Returned, NEW at \in LiveStages,
           stage[r] \in LiveStages
    PROVE  /\ LeaveGenerate(r, events, status) => Goes(r, Exit(r), status)
           /\ Finish(r, events, status) => Goes(r, "finished", status)
           /\ Suspend(r, events, at) /\ UNCHANGED outcome => Goes(r, at, outcome[r])
           /\ CheckThen(r, events, at) =>
                Goes(r, at, outcome[r]) \/ Goes(r, Exit(r), "aborted")
           /\ PreludeCheckThen(r, events, at) =>
                Goes(r, at, outcome[r]) \/ Goes(r, "finished", "aborted")
<1>1. \A o \in Returned :
        /\ LeaveGenerate(r, events, o) => Goes(r, Exit(r), o)
        /\ Finish(r, events, o) => Goes(r, "finished", o)
    BY DEF LeaveGenerate, Finish, Suspend, Goes, Exit
<1>2. Suspend(r, events, at) /\ UNCHANGED outcome => Goes(r, at, outcome[r])
    BY DEF Suspend, Goes, TypeOK, TaskTypeOK
<1>3. "aborted" \in Returned
    BY DEF Returned
<1>4. QED
    BY <1>1, <1>2, <1>3 DEF CheckThen, PreludeCheckThen

LEMMA TaskMoves ==
    ASSUME TypeOK, NEW r \in Requests, Task(r)
    PROVE  \E at \in Stage, o \in Outcome : Moves(r, at, o)
<1>1. /\ outcome[r] \in Outcome /\ Returned \subseteq Outcome
      /\ {"done", "error", "aborted"} = Returned
      /\ LiveStages \subseteq Stage /\ Exit(r) \in Stage /\ "finished" \in Stage
    BY DEF TypeOK, TaskTypeOK, Outcome, Returned, Stage, LiveStages, Exit
<1>2. stage[r] \in LiveStages
    BY DEF Task, StartTask, ReviseLoad, ReviseParse, ReviseBump, ReviseMark, GenerateGet,
       GenerateRetrieve, GenerateNarrative, PersistCommit, PersistReload, ReviseUnmark,
       LiveStages, PreludeStages, PackStages
<1>3. UNCHANGED dbVars => UNCHANGED <<budget, loops, stored>>
    BY DEF dbVars
<1> USE <1>1, <1>2, <1>3, MovesGo, LiveStagesAre DEF PreludeStages, PackStages, Admitted
<1>4. CASE StartTask(r)
    <2>1. \/ r \in Revises /\ (Goes(r, "load", outcome[r]) \/ Goes(r, "finished", "aborted"))
          \/ r \notin Revises /\ (Goes(r, "get", outcome[r]) \/ Goes(r, Exit(r), "aborted"))
        BY <1>4 DEF StartTask
    <2>2. QED
        BY <1>4, <2>1 DEF StartTask, Moves, Exit
<1>5. CASE ReviseLoad(r)
    <2>1. Goes(r, "parse", outcome[r]) \/ \E o \in Returned : Goes(r, "finished", o)
        BY <1>5 DEF ReviseLoad
    <2>2. QED
        BY <1>5, <2>1 DEF ReviseLoad, Moves
<1>6. CASE ReviseParse(r)
    <2>1. Goes(r, "bump", outcome[r]) \/ Goes(r, "finished", "error")
        BY <1>6 DEF ReviseParse
    <2>2. QED
        BY <1>6, <2>1 DEF ReviseParse, Moves
<1>7. CASE ReviseBump(r)
    <2>1. \/ loops' = loops /\ Goes(r, "finished", "error")
          \/ /\ loops' = [loops EXCEPT ![SessionOf[r]] = @ + 1]
             /\ \/ loops'[SessionOf[r]] <= MaxLoops /\ Goes(r, "mark", outcome[r])
                \/ \E o \in Returned : Goes(r, "finished", o)
        BY <1>7 DEF ReviseBump
    <2>2. QED
        BY <1>7, <2>1 DEF ReviseBump, Moves
<1>8. CASE ReviseMark(r)
    <2>1. \/ budget' = budget /\ Goes(r, "finished", "error")
          \/ /\ budget' = [budget EXCEPT ![SessionOf[r]] = "revise"]
             /\ \/ Goes(r, "finished", "error")
                \/ Goes(r, "get", outcome[r]) \/ Goes(r, Exit(r), "aborted")
        BY <1>8 DEF ReviseMark
    <2>2. QED
        BY <1>8, <2>1 DEF ReviseMark, Moves, Exit
<1>9. CASE GenerateGet(r)
    <2>1. Goes(r, "retrieve", outcome[r]) \/ \E o \in Returned : Goes(r, Exit(r), o)
        BY <1>9 DEF GenerateGet
    <2>2. QED
        BY <1>9, <2>1 DEF GenerateGet, Moves, Exit
<1>10. CASE GenerateRetrieve(r)
    <2>1. Goes(r, "narrative", outcome[r]) \/ \E o \in Returned : Goes(r, Exit(r), o)
        BY <1>10 DEF GenerateRetrieve
    <2>2. QED
        BY <1>10, <2>1 DEF GenerateRetrieve, Moves, Exit
<1>11. CASE GenerateNarrative(r)
    <2>1. Goes(r, "commit", outcome[r]) \/ \E o \in Returned : Goes(r, Exit(r), o)
        BY <1>11 DEF GenerateNarrative
    <2>2. QED
        BY <1>11, <2>1 DEF GenerateNarrative, Moves, Exit
<1>12. CASE PersistCommit(r)
    <2>1. \/ UNCHANGED <<budget, loops, stored>> /\ Goes(r, Exit(r), "error")
          \/ /\ Goes(r, "reload", outcome[r]) /\ loops' = loops
             /\ budget' = [budget EXCEPT ![SessionOf[r]] = "generate"]
             /\ stored' = stored \cup {r}
        BY <1>12 DEF PersistCommit
    <2>2. QED
        BY <1>12, <2>1 DEF PersistCommit, Moves, Exit
<1>13. CASE PersistReload(r)
    <2>1. \E o \in Returned : Goes(r, Exit(r), o)
        BY <1>13 DEF PersistReload
    <2>2. QED
        BY <1>13, <2>1 DEF PersistReload, Moves, Exit
<1>14. CASE ReviseUnmark(r)
    <2>1. outcome[r] \in Returned
        BY <1>14 DEF ReviseUnmark, TypeOK, TaskTypeOK, Outcome
    <2>2. \/ Goes(r, "finished", "error") /\ UNCHANGED budget
          \/ /\ Goes(r, "finished", outcome[r]) \/ Goes(r, "finished", "error")
             /\ budget' = [budget EXCEPT ![SessionOf[r]] = "dialogue"]
        BY <1>14, <2>1 DEF ReviseUnmark
    <2>3. QED
        BY <1>14, <2>2 DEF ReviseUnmark, Moves
<1>15. QED
    BY <1>4, <1>5, <1>6, <1>7, <1>8, <1>9, <1>10, <1>11, <1>12, <1>13, <1>14 DEF Task

(* No other step touches what Moves speaks of, except that a new run is    *)
(* created and that a crash loses the live ones.                           *)
Rests == UNCHANGED <<stage, outcome, budget, loops, stored>>
Creates(s) ==
    /\ s \in Requests /\ stream[s] = "bound"
    /\ stage' = [stage EXCEPT ![s] = "created"]
    /\ UNCHANGED <<outcome, budget, loops, stored>>

LEMMA StepMoves ==
    ASSUME TypeOK, [Next]_vars
    PROVE  \/ Rests
           \/ \E s \in Requests : Creates(s)
           \/ \E r \in Requests, at \in Stage, o \in Outcome : Moves(r, at, o)
           \/ Crash
<1> USE DEF Rests, dbVars, taskVars
<1>1. ASSUME NEW s \in Requests, Bind(s) \/ Stream(s) \/ Disconnect(s) \/ CancelStream(s)
      PROVE  Rests \/ Creates(s)
    BY <1>1 DEF Bind, Stream, Disconnect, CancelStream, StartGenerate, StartRevise, NewRun, Refuse,
                Consume, ConsumerEnds, Creates
<1>2. ASSUME NEW x \in Sessions, AbortRoute(x)
      PROVE  Rests
    BY <1>2 DEF AbortRoute
<1>3. ASSUME NEW r \in Requests, Expire(r) \/ Watchdog(r)
      PROVE  Rests
    BY <1>3 DEF Expire, Watchdog
<1>4. ASSUME NEW r \in Requests, Task(r)
      PROVE  \E at \in Stage, o \in Outcome : Moves(r, at, o)
    BY <1>4, TaskMoves
<1>5. UNCHANGED vars => Rests
    BY DEF vars
<1>6. QED
    BY <1>1, <1>2, <1>3, <1>4, <1>5 DEF Next

(* Only a revise is ever in the stages of run_revise.                      *)
PreludeIsRevise ==
    \A r \in Requests : stage[r] \in PreludeStages \cup {"unmark"} => r \in Revises

(* A run has no outcome before run_generate or the task has returned.      *)
NoEarlyOutcome ==
    \A r \in Requests : stage[r] \in {"none"} \cup (LiveStages \ {"unmark"}) => outcome[r] = "none"

Admits(x) == {r \in Revises : SessionOf[r] = x /\ (r \in stored \/ stage[r] \in Admitted)}

(* The count of a session is no less than the number of its revises that   *)
(* were let through, and none was let through beyond the cap.              *)
CountIsKept ==
    \A x \in Sessions :
        /\ IsFiniteSet(Admits(x))
        /\ Cardinality(Admits(x)) <= loops[x]
        /\ Cardinality(Admits(x)) <= MaxLoops

DbInv == PreludeIsRevise /\ NoEarlyOutcome /\ ReviseBudgetIsHeld /\ CountIsKept

LEMMA NoEarlyOutcomeStep ==
    ASSUME IInv, NoEarlyOutcome, [Next]_vars
    PROVE  NoEarlyOutcome'
<1> USE LiveStagesAre DEF IInv, TypeOK, TaskTypeOK, NoEarlyOutcome
<1>1. CASE Rests
    BY <1>1 DEF Rests
<1>2. ASSUME NEW s \in Requests, Creates(s)
      PROVE  NoEarlyOutcome'
    BY <1>2 DEF Creates, NoEarlyTask
<1>3. ASSUME NEW r \in Requests, NEW at \in Stage, NEW o \in Outcome, Moves(r, at, o)
      PROVE  NoEarlyOutcome'
    <2>1. /\ stage' = [stage EXCEPT ![r] = at] /\ outcome' = [outcome EXCEPT ![r] = o]
          /\ stage[r] \in LiveStages
          /\ at = "finished" \/ (at \in LiveStages /\ (at # "unmark" => o = outcome[r]))
          /\ stage[r] = "unmark" => at = "finished"
        BY <1>3 DEF Moves, Goes
    <2>2. QED
        BY <2>1
<1>4. CASE Crash
    BY <1>4 DEF Crash, Live
<1>5. QED
    BY <1>1, <1>2, <1>3, <1>4, StepMoves

LEMMA BudgetStep ==
    ASSUME IInv, PreludeIsRevise, NoEarlyOutcome, ReviseBudgetIsHeld, [Next]_vars
    PROVE  PreludeIsRevise' /\ ReviseBudgetIsHeld'
<1> USE LiveStagesAre DEF IInv, TypeOK, TaskTypeOK, DbTypeOK, PreludeStages, PackStages
<1>1. CASE Rests
    BY <1>1 DEF Rests, PreludeIsRevise, ReviseBudgetIsHeld
<1>2. ASSUME NEW s \in Requests, Creates(s)
      PROVE  PreludeIsRevise' /\ ReviseBudgetIsHeld'
    <2>1. stage[s] = "none"
        BY <1>2 DEF Creates, NoEarlyTask
    <2>2. PreludeIsRevise'
        BY <1>2 DEF Creates, PreludeIsRevise
    <2>3. ReviseBudgetIsHeld'
        BY <1>2, <2>1 DEF Creates, ReviseBudgetIsHeld
    <2>4. QED
        BY <2>2, <2>3
<1>3. ASSUME NEW r \in Requests, NEW at \in Stage, NEW o \in Outcome, Moves(r, at, o)
      PROVE  PreludeIsRevise' /\ ReviseBudgetIsHeld'
    <2>1. /\ stage' = [stage EXCEPT ![r] = at] /\ outcome' = [outcome EXCEPT ![r] = o]
          /\ stage[r] \in LiveStages
        BY <1>3 DEF Moves, Goes
    <2>2. PreludeIsRevise'
        BY <1>3, <2>1 DEF Moves, PreludeIsRevise
    <2>3. ASSUME NEW x \in Sessions, budget'[x] = "revise"
          PROVE  \E q \in Revises : /\ SessionOf[q] = x
                                    /\ stage'[q] \in PackStages \cup {"unmark", "lost"} \/ outcome'[q] = "error"
        <3>1. CASE budget[x] = "revise" /\ ~(x = SessionOf[r] /\ stage[r] = "mark" /\ budget' # budget)
            <4>1. PICK q \in Revises : /\ SessionOf[q] = x
                                       /\ stage[q] \in PackStages \cup {"unmark", "lost"} \/ outcome[q] = "error"
                BY <3>1 DEF ReviseBudgetIsHeld
            <4>2. CASE q # r
                BY <2>1, <4>1, <4>2
            <4>3. CASE q = r /\ stage[r] \in PackStages
                <5>1. at \in PackStages \cup {"unmark"}
                    BY <1>3, <4>3 DEF Moves
                <5>2. QED
                    BY <2>1, <4>1, <4>3, <5>1
            <4>4. CASE q = r /\ stage[r] = "unmark"
                <5>1. budget' = budget
                    BY <1>3, <2>3, <4>1, <4>4 DEF Moves
                <5>2. o = "error"
                    BY <1>3, <3>1, <4>1, <4>4, <5>1, <2>3 DEF Moves
                <5>3. QED
                    BY <2>1, <4>1, <4>4, <5>2
            <4>5. CASE q = r /\ stage[r] \notin PackStages \cup {"unmark"}
                BY <2>1, <4>1, <4>5 DEF NoEarlyOutcome
            <4>6. QED
                BY <4>2, <4>3, <4>4, <4>5
        <3>2. CASE ~(budget[x] = "revise" /\ ~(x = SessionOf[r] /\ stage[r] = "mark" /\ budget' # budget))
            <4>1. x = SessionOf[r] /\ stage[r] = "mark"
                BY <1>3, <2>3, <3>2 DEF Moves
            <4>2. r \in Revises
                BY <4>1 DEF PreludeIsRevise
            <4>3. at \in PackStages \cup {"unmark"} \/ o = "error"
                BY <1>3, <2>3, <3>2, <4>1, <4>2 DEF Moves
            <4>4. QED
                BY <2>1, <4>1, <4>2, <4>3
        <3>3. QED
            BY <3>1, <3>2
    <2>4. QED
        BY <2>2, <2>3 DEF ReviseBudgetIsHeld
<1>4. CASE Crash
    <2>1. budget' = budget /\ outcome' = outcome
        BY <1>4 DEF Crash, dbVars
    <2>2. QED
        BY <1>4, <2>1 DEF Crash, PreludeIsRevise, ReviseBudgetIsHeld, Live
<1>5. QED
    BY <1>1, <1>2, <1>3, <1>4, StepMoves

LEMMA CountStep ==
    ASSUME IInv, IInv', CountIsKept, [Next]_vars
    PROVE  CountIsKept'
<1> USE LiveStagesAre DEF IInv, TypeOK, TaskTypeOK, DbTypeOK, PreludeStages, PackStages, Admitted
(* A set that only shrinks while the count does not fall keeps the bounds. *)
<1>1. ASSUME NEW x \in Sessions, Admits(x)' \subseteq Admits(x), loops'[x] >= loops[x]
      PROVE  /\ IsFiniteSet(Admits(x)') /\ Cardinality(Admits(x)') <= loops'[x]
             /\ Cardinality(Admits(x)') <= MaxLoops
    <2>1. IsFiniteSet(Admits(x)) /\ Cardinality(Admits(x)) <= loops[x] /\ Cardinality(Admits(x)) <= MaxLoops
        BY DEF CountIsKept
    <2>2. IsFiniteSet(Admits(x)') /\ Cardinality(Admits(x)') <= Cardinality(Admits(x))
        BY <1>1, <2>1, FS_Subset
    <2>3. Cardinality(Admits(x)) \in Nat /\ Cardinality(Admits(x)') \in Nat
        BY <2>1, <2>2, FS_CardinalityType
    <2>4. loops[x] \in Nat /\ loops'[x] \in Nat /\ MaxLoops \in Nat
        OBVIOUS
    <2>5. QED
        BY <1>1, <2>1, <2>2, <2>3, <2>4
<1>2. ASSUME \A x \in Sessions : Admits(x)' \subseteq Admits(x) /\ loops'[x] >= loops[x]
      PROVE  CountIsKept'
    BY <1>1, <1>2 DEF CountIsKept
<1>3. CASE Rests
    <2>1. \A x \in Sessions : Admits(x)' \subseteq Admits(x) /\ loops'[x] >= loops[x]
        BY <1>3 DEF Rests, Admits
    <2>2. QED
        BY <1>2, <2>1
<1>4. ASSUME NEW s \in Requests, Creates(s)
      PROVE  CountIsKept'
    <2>1. \A x \in Sessions : Admits(x)' \subseteq Admits(x) /\ loops'[x] >= loops[x]
        BY <1>4 DEF Creates, Admits
    <2>2. QED
        BY <1>2, <2>1
<1>5. CASE Crash
    <2>1. \A x \in Sessions : Admits(x)' \subseteq Admits(x) /\ loops'[x] >= loops[x]
        BY <1>5 DEF Crash, dbVars, Admits, Live
    <2>2. QED
        BY <1>2, <2>1
<1>6. ASSUME NEW r \in Requests, NEW at \in Stage, NEW o \in Outcome, Moves(r, at, o)
      PROVE  CountIsKept'
    <2>1. /\ stage' = [stage EXCEPT ![r] = at] /\ stage[r] \in LiveStages
          /\ stored' = stored \/ (stored' = stored \cup {r} /\ stage[r] = "commit")
        BY <1>6 DEF Moves, Goes
    <2>2. CASE loops' = loops /\ (at \in Admitted /\ r \in Revises => stage[r] \in Admitted)
        <3>1. \A x \in Sessions : Admits(x)' \subseteq Admits(x)
            BY <2>1, <2>2 DEF Admits
        <3>2. QED
            BY <1>2, <2>2, <3>1
    <2>3. CASE /\ loops' = [loops EXCEPT ![SessionOf[r]] = @ + 1]
               /\ stage[r] = "bump"
               /\ at \in Admitted => loops'[SessionOf[r]] <= MaxLoops
        <3>1. \A x \in Sessions : loops'[x] >= loops[x]
            BY <2>3
        <3>2. \A x \in Sessions : Admits(x)' \subseteq Admits(x) \cup {r}
            BY <2>1, <2>3 DEF Admits
        <3>3. ASSUME NEW x \in Sessions, r \in Admits(x)', r \notin Admits(x)
              PROVE  /\ IsFiniteSet(Admits(x)') /\ Cardinality(Admits(x)') <= loops'[x]
                     /\ Cardinality(Admits(x)') <= MaxLoops
            <4>1. x = SessionOf[r] /\ at \in Admitted
                BY <2>1, <2>3, <3>3 DEF Admits
            <4>2. loops'[x] = loops[x] + 1 /\ loops'[x] <= MaxLoops /\ loops[x] \in Nat /\ MaxLoops \in Nat
                BY <2>3, <4>1
            <4>3. IsFiniteSet(Admits(x)) /\ Cardinality(Admits(x)) <= loops[x]
                BY DEF CountIsKept
            <4>4. /\ IsFiniteSet(Admits(x) \cup {r})
                  /\ Cardinality(Admits(x) \cup {r}) = Cardinality(Admits(x)) + 1
                  /\ Cardinality(Admits(x)) \in Nat
                BY <3>3, <4>3, FS_AddElement, FS_CardinalityType
            <4>5. IsFiniteSet(Admits(x)') /\ Cardinality(Admits(x)') <= Cardinality(Admits(x) \cup {r})
                BY <3>2, <4>4, FS_Subset
            <4>6. Cardinality(Admits(x)') \in Nat
                BY <4>5, FS_CardinalityType
            <4>7. QED
                BY <4>2, <4>3, <4>4, <4>5, <4>6
        <3>4. \A x \in Sessions : r \notin Admits(x)' \/ r \in Admits(x) => Admits(x)' \subseteq Admits(x)
            BY <3>2
        <3>5. QED
            BY <1>1, <3>1, <3>3, <3>4 DEF CountIsKept
    <2>4. QED
        BY <1>6, <2>2, <2>3 DEF Moves
<1>7. QED
    BY <1>3, <1>4, <1>5, <1>6, StepMoves

(* In every behaviour the stages, the budget and the count go together.    *)
THEOREM DatabaseInvariance == Spec => []DbInv
<1>1. Init => DbInv
    <2>1. Init => \A x \in Sessions : Admits(x) = {} /\ loops[x] = 0
        BY LiveStagesAre DEF Init, Admits, Admitted, PackStages
    <2>2. Init => PreludeIsRevise /\ NoEarlyOutcome /\ ReviseBudgetIsHeld
        BY LiveStagesAre DEF Init, PreludeIsRevise, NoEarlyOutcome, ReviseBudgetIsHeld, PreludeStages
    <2>3. QED
        BY <2>1, <2>2, FS_EmptySet DEF DbInv, CountIsKept
<1>2. IInv /\ IInv' /\ DbInv /\ [Next]_vars => DbInv'
    BY BudgetStep, NoEarlyOutcomeStep, CountStep DEF DbInv
<1>3. QED
    BY <1>1, <1>2, Invariance, PTL DEF Spec

(* A revise that reported success or an abort has given its budget back    *)
(* (agents/revise.py, run_revise after run_generate).                      *)
THEOREM ReviseGivesItsBudgetBack == Spec => []ReviseBudgetIsHeld
<1>1. DbInv => ReviseBudgetIsHeld
    BY DEF DbInv
<1>2. QED
    BY <1>1, DatabaseInvariance, PTL

(* No interleaving of revises, aborts, failures and restarts replaces a    *)
(* draft through revise more often than the cap allows (agents/revise.py). *)
THEOREM RevisesAreCapped == Spec => []LoopCapHolds
<1>1. IInv /\ DbInv => LoopCapHolds
    <2> SUFFICES ASSUME IInv, DbInv, NEW x \in Sessions
                 PROVE  Cardinality(RevisedBy(x)) <= MaxLoops
        BY DEF LoopCapHolds
    <2>1. RevisedBy(x) \subseteq Admits(x)
        BY DEF RevisedBy, Admits
    <2>2. IsFiniteSet(Admits(x)) /\ Cardinality(Admits(x)) <= MaxLoops
        BY DEF DbInv, CountIsKept
    <2>3. /\ IsFiniteSet(RevisedBy(x)) /\ Cardinality(RevisedBy(x)) <= Cardinality(Admits(x))
          /\ Cardinality(RevisedBy(x)) \in Nat /\ Cardinality(Admits(x)) \in Nat
        BY <2>1, <2>2, FS_Subset, FS_CardinalityType
    <2>4. QED
        BY <2>2, <2>3
<1>2. QED
    BY <1>1, Invariance, DatabaseInvariance, PTL

-----------------------------------------------------------------------------
(* The reasons of an abort.                                                *)

(* A timeout is noted only of a run whose time is up, and a run ends       *)
(* aborted only for a reason.                                              *)
ReasonsAreTrue ==
    \A r \in Requests :
        /\ abortReason[r] = "timeout" => r \in expired
        /\ outcome[r] = "aborted" => abortReason[r] # "none"

(* What a step may do to the reason of run r.                              *)
ReasonStays(r) ==
    \/ abortReason'[r] = abortReason[r]
    \/ abortReason[r] = "none" /\ abortReason'[r] = "abort_requested"
    \/ abortReason'[r] = "timeout" /\ r \in expired /\ (abortReason[r] = "none" \/ Live(r))

LEMMA AbortReasons ==
    ASSUME TypeOK, NEW x \in Sessions, Abort(x)
    PROVE  \A r \in Requests : ReasonStays(r)
BY DEF Abort, ReasonStays, TypeOK, RunnerTypeOK

LEMMA CheckReasons ==
    ASSUME TypeOK, NEW r \in Requests, AbortCheck(r)
    PROVE  /\ \A q \in Requests : ReasonStays(q)
           /\ MustStop(r) => abortReason'[r] # "none"
BY DEF AbortCheck, MustStop, ReasonStays, TypeOK, RunnerTypeOK

LEMMA StreamReasons ==
    ASSUME TypeOK, NEW s \in Requests,
           Bind(s) \/ Stream(s) \/ Disconnect(s) \/ CancelStream(s)
    PROVE  /\ \A r \in Requests : ReasonStays(r)
           /\ UNCHANGED <<outcome, expired>>
<1>1. SessionOf[s] \in Sessions
    OBVIOUS
<1>2. UNCHANGED abortReason => \A r \in Requests : ReasonStays(r)
    BY DEF ReasonStays
<1>3. Refuse(s) => \A r \in Requests : ReasonStays(r)
    BY <1>1, <1>2, AbortReasons DEF Refuse
<1>4. CASE StartGenerate(s)
    BY <1>2, <1>3, <1>4 DEF StartGenerate, NewRun
<1>5. CASE StartRevise(s)
    BY <1>2, <1>3, <1>5 DEF StartRevise, NewRun
<1>6. CASE Consume(s)
    BY <1>1, <1>2, <1>6, AbortReasons DEF Consume
<1>7. CASE ConsumerEnds(s) \/ Bind(s) \/ Disconnect(s) \/ CancelStream(s)
    BY <1>2, <1>7 DEF ConsumerEnds, Bind, Disconnect, CancelStream, taskVars
<1>8. QED
    BY <1>4, <1>5, <1>6, <1>7 DEF Stream

(* The end of run r as a client is told of it.                             *)
Verdict(r) == IF outcome'[r] = "aborted" /\ abortReason'[r] = "timeout" THEN "timed_out" ELSE outcome'[r]

Unread == {<<>>, Progress}

(* A task's step puts progress and goes on, or puts how it ended.          *)
GoesOn(r) == \E at \in LiveStages, events \in Unread : Suspend(r, events, at)
Reports(r) == \E events \in Unread : Suspend(r, events \o <<Verdict(r), "end">>, "finished")
AbortsForAReason(r) == outcome'[r] = "aborted" => outcome[r] = "aborted" \/ abortReason'[r] # "none"
Mails(r) ==
    /\ stage[r] \in LiveStages
    /\ GoesOn(r) \/ Reports(r)
    /\ AbortsForAReason(r)
    /\ \A q \in Requests : ReasonStays(q)

LEMMA MailsOf ==
    ASSUME TypeOK, NEW r \in Requests, NEW events \in Unread, NEW status \in Returned, NEW at \in LiveStages,
           stage[r] \in LiveStages
    PROVE  /\ /\ LeaveGenerate(r, events, status) \/ Finish(r, events, status)
              /\ status = "aborted" => outcome[r] = "aborted" \/ abortReason'[r] # "none"
              /\ UNCHANGED abortReason \/ AbortCheck(r)
              => Mails(r)
           /\ Suspend(r, events, at) /\ UNCHANGED <<outcome, abortReason>> => Mails(r)
           /\ CheckThen(r, events, at) \/ PreludeCheckThen(r, events, at) => Mails(r)
<1>1. "unmark" \in LiveStages /\ "aborted" \in Returned
    BY LiveStagesAre DEF Returned
<1>2. UNCHANGED abortReason \/ AbortCheck(r) => \A q \in Requests : ReasonStays(q)
    BY CheckReasons DEF ReasonStays
<1>3. \A o \in Returned :
        Finish(r, events, o) => Reports(r) /\ outcome'[r] = o
    <2> SUFFICES ASSUME NEW o \in Returned, Finish(r, events, o)
                 PROVE  Reports(r) /\ outcome'[r] = o
        OBVIOUS
    <2>1. outcome'[r] = o
        BY DEF Finish, TypeOK, TaskTypeOK
    <2>2. Suspend(r, events \o <<Verdict(r), "end">>, "finished")
        BY <2>1 DEF Finish, Verdict
    <2>3. QED
        BY <2>1, <2>2 DEF Reports
<1>4. \A o \in Returned :
        LeaveGenerate(r, events, o) => (GoesOn(r) \/ Reports(r)) /\ outcome'[r] = o
    BY <1>1, <1>3 DEF LeaveGenerate, GoesOn, TypeOK, TaskTypeOK
<1>5. Suspend(r, events, at) => GoesOn(r)
    BY DEF GoesOn
<1>6. /\ LeaveGenerate(r, events, status) \/ Finish(r, events, status)
      /\ status = "aborted" => outcome[r] = "aborted" \/ abortReason'[r] # "none"
      /\ UNCHANGED abortReason \/ AbortCheck(r)
      => Mails(r)
    BY <1>2, <1>3, <1>4 DEF Mails, AbortsForAReason
<1>7. Suspend(r, events, at) /\ UNCHANGED outcome /\ (UNCHANGED abortReason \/ AbortCheck(r)) => Mails(r)
    BY <1>2, <1>5 DEF Mails, AbortsForAReason
<1>8. CheckThen(r, events, at) \/ PreludeCheckThen(r, events, at) => Mails(r)
    <2> SUFFICES ASSUME CheckThen(r, events, at) \/ PreludeCheckThen(r, events, at)
                 PROVE  Mails(r)
        OBVIOUS
    <2>1. AbortCheck(r)
        BY DEF CheckThen, PreludeCheckThen
    <2>2. CASE MustStop(r)
        BY <1>1, <1>2, <1>3, <1>4, <2>1, <2>2, CheckReasons DEF CheckThen, PreludeCheckThen, Mails, AbortsForAReason
    <2>3. CASE ~MustStop(r)
        BY <1>7, <2>1, <2>3 DEF CheckThen, PreludeCheckThen
    <2>4. QED
        BY <2>2, <2>3
<1>9. QED
    BY <1>6, <1>7, <1>8

LEMMA TaskMails ==
    ASSUME TypeOK, NEW r \in Requests, Task(r)
    PROVE  Mails(r)
<1>1. /\ {"done", "error", "aborted"} = Returned
      /\ <<>> \in Unread /\ Progress \in Unread
    BY DEF Returned, Unread
<1>2. stage[r] \in LiveStages
    BY DEF Task, StartTask, ReviseLoad, ReviseParse, ReviseBump, ReviseMark, GenerateGet,
       GenerateRetrieve, GenerateNarrative, PersistCommit, PersistReload, ReviseUnmark,
       LiveStages, PreludeStages, PackStages
<1> USE <1>1, <1>2, MailsOf, LiveStagesAre
<1>3. CASE StartTask(r)
    BY <1>3 DEF StartTask
<1>4. CASE ReviseLoad(r)
    BY <1>4 DEF ReviseLoad
<1>5. CASE ReviseParse(r)
    BY <1>5 DEF ReviseParse
<1>6. CASE ReviseBump(r)
    BY <1>6, CheckReasons DEF ReviseBump
<1>7. CASE ReviseMark(r)
    BY <1>7 DEF ReviseMark
<1>8. CASE GenerateGet(r)
    BY <1>8 DEF GenerateGet
<1>9. CASE GenerateRetrieve(r)
    BY <1>9 DEF GenerateRetrieve
<1>10. CASE GenerateNarrative(r)
    BY <1>10 DEF GenerateNarrative
<1>11. CASE PersistCommit(r)
    BY <1>11 DEF PersistCommit
<1>12. CASE PersistReload(r)
    BY <1>12 DEF PersistReload
<1>13. CASE ReviseUnmark(r)
    <2>1. outcome[r] \in Returned
        BY <1>13 DEF ReviseUnmark, TypeOK, TaskTypeOK, Outcome
    <2>2. QED
        BY <1>13, <2>1 DEF ReviseUnmark
<1>14. QED
    BY <1>3, <1>4, <1>5, <1>6, <1>7, <1>8, <1>9, <1>10, <1>11, <1>12, <1>13 DEF Task

LEMMA ReasonsStep ==
    ASSUME IInv, ReasonsAreTrue, [Next]_vars
    PROVE  ReasonsAreTrue'
<1> USE DEF IInv, TypeOK, TaskTypeOK, RunnerTypeOK
<1>1. ASSUME \A r \in Requests : ReasonStays(r), UNCHANGED <<outcome, expired>>
      PROVE  ReasonsAreTrue'
    BY <1>1 DEF ReasonsAreTrue, ReasonStays
<1>2. UNCHANGED abortReason => \A r \in Requests : ReasonStays(r)
    BY DEF ReasonStays
<1>3. ASSUME NEW s \in Requests, Bind(s) \/ Stream(s) \/ Disconnect(s) \/ CancelStream(s)
      PROVE  ReasonsAreTrue'
    BY <1>1, <1>3, StreamReasons
<1>4. ASSUME NEW x \in Sessions, AbortRoute(x)
      PROVE  ReasonsAreTrue'
    BY <1>1, <1>4, AbortReasons DEF AbortRoute, taskVars
<1>5. ASSUME NEW r \in Requests, Expire(r)
      PROVE  ReasonsAreTrue'
    BY <1>5 DEF Expire, taskVars, ReasonsAreTrue
<1>6. ASSUME NEW r \in Requests, Watchdog(r)
      PROVE  ReasonsAreTrue'
    BY <1>6 DEF Watchdog, taskVars, ReasonsAreTrue
<1>7. ASSUME NEW r \in Requests, Task(r)
      PROVE  ReasonsAreTrue'
    <2>1. Mails(r) /\ UNCHANGED expired
        BY <1>7, TaskMails DEF Task
    <2>2. \A q \in Requests \ {r} : outcome'[q] = outcome[q]
        BY <1>7, TaskMoves DEF Moves, Goes
    <2>3. QED
        BY <2>1, <2>2 DEF Mails, AbortsForAReason, ReasonsAreTrue, ReasonStays
<1>8. CASE Crash \/ UNCHANGED vars
    BY <1>1, <1>2, <1>8 DEF Crash, vars, taskVars
<1>9. QED
    BY <1>3, <1>4, <1>5, <1>6, <1>7, <1>8 DEF Next

-----------------------------------------------------------------------------
(* Streams, queues and what clients are told.                              *)

(* _runs holds a run under its own session.                                *)
CurrentIsOwn == \A x \in Sessions : current[x] \in Requests => SessionOf[current[x]] = x

(* A stream that has not started follows nothing and has said nothing; a   *)
(* run is followed by the request that created it; one that is followed    *)
(* exists; a stream that ended by itself has left nothing unread.          *)
StreamsFollow ==
    \A s \in Requests :
        /\ stream[s] \in {"idle", "bound"} => attached[s] = NoRun /\ got[s] = "none"
        /\ stage[s] # "none" => attached[s] = s
        /\ attached[s] \in Requests => stage[attached[s]] # "none"
        /\ stream[s] = "closed" /\ attached[s] \in Requests /\ s \notin gone =>
              queue[attached[s]] = <<>> /\ ~Live(attached[s])

(* What a client may be told of run r.                                     *)
Honest(r, t) ==
    /\ t = "done" => r \in stored
    /\ t = "timed_out" => r \in expired /\ r \notin stored
    /\ t = "aborted" => abortReason[r] = "abort_requested" /\ r \notin stored

Posted(r, t) == queue[r] \in {<<t, "end">>, <<"progress", t, "end">>}
Told(r) == {s \in Audience(r) : got[s] # "none"}
Missed(r) == \E s \in Audience(r) : s \in gone \/ stream[s] = "lost"

(* The terminal event of a run is in its queue exactly once, or was read   *)
(* by one stream, whose client has it or had left; with the sentinel       *)
(* behind it.                                                              *)
Delivered(r) ==
    \/ Told(r) = {} /\ \E t \in Terminal : Posted(r, t) /\ Honest(r, t)
    \/ /\ queue[r] \in {<<>>, <<"end">>}
       /\ \/ Told(r) = {} /\ Missed(r)
          \/ \E s \in Audience(r) : Told(r) = {s} /\ Honest(r, got[s])
Silent(r) == queue[r] \in Unread /\ Told(r) = {}
MailIsKept ==
    \A r \in Requests :
        /\ stage[r] = "none" \/ Live(r) => Silent(r)
        /\ stage[r] = "lost" => queue[r] = <<>> /\ Told(r) = {}
        /\ stage[r] = "finished" => Delivered(r)

ClientInv == CurrentIsOwn /\ StreamsFollow /\ StreamsFollowTheirKind /\ MailIsKept

(* A step that neither opens a stream nor moves an event or a task.        *)
Calm ==
    /\ UNCHANGED <<stage, queue, attached, stored>>
    /\ gone \subseteq gone' /\ expired \subseteq expired'
    /\ \A r \in Requests : ReasonStays(r)
    /\ \A s \in Requests :
        /\ got'[s] = got[s] \/ (attached[s] = NoRun /\ stream'[s] = "closed")
        /\ \/ stream'[s] = stream[s]
           \/ stream[s] = "idle" /\ stream'[s] = "bound"
           \/ /\ stream[s] \in {"bound", "open"} /\ stream'[s] = "closed"
              /\ s \in gone \/ attached[s] = NoRun \/ (queue[attached[s]] = <<>> /\ ~Live(attached[s]))

(* Request s starts to follow run r, its own new one or one in flight.     *)
Opens(s, r) ==
    /\ stream[s] = "bound"
    /\ stream' = [stream EXCEPT ![s] = "open"]
    /\ attached' = [attached EXCEPT ![s] = r]
    /\ UNCHANGED <<got, gone, queue, abortReason, expired, stored>>
    /\ \/ Live(r) /\ UNCHANGED stage
       \/ r = s /\ stage' = [stage EXCEPT ![s] = "created"]
    /\ SessionOf[r] = SessionOf[s]
    /\ r \in Revises <=> s \in Revises

LEMMA StreamKinds ==
    ASSUME TypeOK, CurrentIsOwn, StreamsFollow, NEW s \in Requests,
           Bind(s) \/ Stream(s) \/ Disconnect(s) \/ CancelStream(s)
    PROVE  Calm \/ Consume(s) \/ \E r \in Requests : Opens(s, r)
<1> USE DEF TypeOK, StreamTypeOK
<1>1. \A r \in Requests : ReasonStays(r)
    BY StreamReasons
<1>2. SessionOf[s] \in Sessions
    OBVIOUS
<1>3. stream[s] = "bound" => attached[s] = NoRun
    BY DEF StreamsFollow
<1>4. ASSUME stream[s] = "bound", Refuse(s), UNCHANGED <<gone, queue, expired, stored>>
      PROVE  Calm
    BY <1>1, <1>3, <1>4 DEF Refuse, Calm
<1>5. CASE StartGenerate(s)
    <2> DEFINE run == current[SessionOf[s]]
    <2>1. CASE ~InFlight(SessionOf[s])
        <3>1. Opens(s, s)
            BY <1>5, <2>1 DEF StartGenerate, NewRun, Opens, dbVars
        <3>2. QED
            BY <3>1
    <2>2. CASE InFlight(SessionOf[s]) /\ run \in Revises
        BY <1>4, <1>5, <2>2 DEF StartGenerate, dbVars
    <2>3. CASE InFlight(SessionOf[s]) /\ run \notin Revises
        <3>1. run \in Requests /\ Live(run) /\ SessionOf[run] = SessionOf[s]
            BY <1>2, <2>3 DEF InFlight, CurrentIsOwn
        <3>2. Opens(s, run)
            BY <1>5, <2>3, <3>1 DEF StartGenerate, Opens, dbVars, Generates
        <3>3. QED
            BY <3>1, <3>2
    <2>4. QED
        BY <2>1, <2>2, <2>3
<1>6. CASE StartRevise(s)
    <2>1. CASE ~InFlight(SessionOf[s])
        <3>1. Opens(s, s)
            BY <1>6, <2>1 DEF StartRevise, NewRun, Opens, dbVars
        <3>2. QED
            BY <3>1
    <2>2. CASE InFlight(SessionOf[s])
        BY <1>4, <1>6, <2>2 DEF StartRevise, dbVars
    <2>3. QED
        BY <2>1, <2>2
<1>7. CASE ConsumerEnds(s)
    BY <1>1, <1>7 DEF ConsumerEnds, Calm, taskVars, dbVars
<1>8. CASE Bind(s)
    BY <1>1, <1>8 DEF Bind, Calm, taskVars, dbVars
<1>9. CASE Disconnect(s)
    BY <1>1, <1>9 DEF Disconnect, Calm, taskVars, dbVars
<1>10. CASE CancelStream(s)
    BY <1>1, <1>10 DEF CancelStream, Calm, taskVars, dbVars
<1>11. QED
    BY <1>5, <1>6, <1>7, <1>8, <1>9, <1>10 DEF Stream

LEMMA StepKinds ==
    ASSUME TypeOK, CurrentIsOwn, StreamsFollow, [Next]_vars
    PROVE  \/ Calm
           \/ \E s, r \in Requests : Opens(s, r)
           \/ \E s \in Requests : Consume(s)
           \/ \E r \in Requests : Task(r)
           \/ Crash
<1>1. ASSUME NEW s \in Requests, Bind(s) \/ Stream(s) \/ Disconnect(s) \/ CancelStream(s)
      PROVE  Calm \/ Consume(s) \/ \E r \in Requests : Opens(s, r)
    BY <1>1, StreamKinds
<1>2. ASSUME NEW x \in Sessions, AbortRoute(x)
      PROVE  Calm
    BY <1>2, AbortReasons DEF AbortRoute, Calm, streamVars, taskVars, dbVars
<1>3. ASSUME NEW r \in Requests, Expire(r)
      PROVE  Calm
    BY <1>3 DEF Expire, Calm, streamVars, taskVars, dbVars, ReasonStays
<1>4. ASSUME NEW r \in Requests, Watchdog(r)
      PROVE  Calm
    BY <1>4 DEF Watchdog, Calm, streamVars, taskVars, dbVars, ReasonStays, TypeOK, RunnerTypeOK
<1>5. UNCHANGED vars => Calm
    BY DEF vars, Calm, streamVars, taskVars, dbVars, ReasonStays
<1>6. QED
    BY <1>1, <1>2, <1>3, <1>4, <1>5 DEF Next

LEMMA CurrentStep ==
    ASSUME TypeOK, CurrentIsOwn, [Next]_vars
    PROVE  CurrentIsOwn'
<1> USE DEF TypeOK, RunnerTypeOK, CurrentIsOwn
<1>1. UNCHANGED current => CurrentIsOwn'
    OBVIOUS
<1>2. \A x \in Sessions : Abort(x) => CurrentIsOwn'
    BY DEF Abort
<1>3. ASSUME NEW s \in Requests, Bind(s) \/ Stream(s) \/ Disconnect(s) \/ CancelStream(s)
      PROVE  CurrentIsOwn'
    <2>1. SessionOf[s] \in Sessions
        OBVIOUS
    <2>2. \A b : NewRun(s, b) => CurrentIsOwn'
        BY <2>1 DEF NewRun
    <2>3. Refuse(s) => CurrentIsOwn'
        BY <1>1, <1>2, <2>1 DEF Refuse
    <2>4. QED
        BY <1>1, <1>2, <1>3, <2>1, <2>2, <2>3 DEF Bind, Stream, Disconnect, CancelStream, StartGenerate,
           StartRevise, Consume, ConsumerEnds, runnerVars
<1>4. ASSUME NEW x \in Sessions, AbortRoute(x)
      PROVE  CurrentIsOwn'
    BY <1>2, <1>4 DEF AbortRoute
<1>5. ASSUME NEW r \in Requests, Expire(r) \/ Watchdog(r) \/ Task(r)
      PROVE  CurrentIsOwn'
    BY <1>1, <1>5 DEF Expire, Watchdog, Task, runnerVars
<1>6. CASE Crash \/ UNCHANGED vars
    BY <1>6 DEF Crash, vars, runnerVars
<1>7. QED
    BY <1>3, <1>4, <1>5, <1>6 DEF Next

(* What is read first from a queue, and what is left of it.                *)
LEMMA Reading ==
    ASSUME NEW t \in Terminal
    PROVE  /\ Head(<<t, "end">>) = t /\ Tail(<<t, "end">>) = <<"end">>
           /\ Head(<<"progress", t, "end">>) = "progress" /\ Tail(<<"progress", t, "end">>) = <<t, "end">>
           /\ Head(Progress) = "progress" /\ Tail(Progress) = <<>>
           /\ Head(<<"end">>) = "end" /\ Tail(<<"end">>) = <<>>
           /\ t # "end" /\ t # "progress"
           /\ <<t, "end">> # <<>> /\ <<t, "end">> # <<"end">>
           /\ <<"progress", t, "end">> # <<>> /\ <<"progress", t, "end">> # <<"end">>
           /\ Progress # <<>> /\ Progress # <<"end">> /\ <<"end">> # <<>>
BY DEF Progress, Terminal

LEMMA Joining ==
    ASSUME NEW t \in Terminal
    PROVE  /\ <<>> \o <<>> = <<>> /\ <<>> \o Progress = Progress /\ Progress \o <<>> = Progress
           /\ <<>> \o <<t, "end">> = <<t, "end">>
           /\ Progress \o <<t, "end">> = <<"progress", t, "end">>
           /\ <<>> \o <<"progress", t, "end">> = <<"progress", t, "end">>
<1> Progress \in Seq(Event) /\ <<t, "end">> \in Seq(Event) /\ <<"progress", t, "end">> \in Seq(Event)
    BY DEF Event, Progress
<1>1. \A q \in Seq(Event) : <<>> \o q = q /\ q \o <<>> = q
    BY ConcatEmptySeq
<1>2. Progress \o <<t, "end">> = <<"progress", t, "end">>
    <2> DEFINE both == Progress \o <<t, "end">>
    <2>1. both \in Seq(Event) /\ Len(both) = 3
        BY ConcatProperties DEF Progress
    <2>2. both[1] = "progress" /\ both[2] = t /\ both[3] = "end"
        BY ConcatProperties DEF Progress
    <2> HIDE DEF both
    <2>3. Len(<<"progress", t, "end">>) = 3 /\ \A i \in 1..3 : both[i] = <<"progress", t, "end">>[i]
        BY <2>2
    <2>4. both = <<"progress", t, "end">>
        BY <2>1, <2>3, SeqEqual
    <2> QED BY <2>4 DEF both
<1>3. <<>> \in Seq(Event)
    OBVIOUS
<1> QED BY <1>1, <1>2, <1>3

LEMMA PutProgress ==
    ASSUME NEW unread \in Unread, NEW events \in Unread
    PROVE  Put(unread, events) \in Unread
<1>1. PICK t \in Terminal : t = "done"
    BY DEF Terminal
<1>2. Head(Progress) = "progress" /\ Tail(Progress) = <<>> /\ Progress # <<>>
    BY DEF Progress
<1>3. QED
    BY <1>2, Joining, <1>1 DEF Put, Unread

LEMMA PutEnd ==
    ASSUME NEW unread \in Unread, NEW events \in Unread, NEW t \in Terminal
    PROVE  Put(unread, events \o <<t, "end">>) \in {<<t, "end">>, <<"progress", t, "end">>}
<1>1. CASE events = <<>>
    BY <1>1, Joining, Reading DEF Put, Unread
<1>2. CASE events = Progress
    BY <1>2, Joining, Reading DEF Put, Unread
<1>3. QED
    BY <1>1, <1>2 DEF Unread

(* Nothing that happens after a run has ended makes its terminal untrue.   *)
LEMMA HonestStays ==
    ASSUME TypeOK, NEW r \in Requests, NEW t, Honest(r, t), ~Live(r), ReasonStays(r),
           r \in stored' <=> r \in stored, expired \subseteq expired'
    PROVE  Honest(r, t)'
BY DEF Honest, ReasonStays

LEMMA CalmKeeps ==
    ASSUME IInv, StreamsFollow, StreamsFollowTheirKind, MailIsKept, Calm, TypeOK'
    PROVE  StreamsFollow' /\ StreamsFollowTheirKind' /\ MailIsKept'
<1> USE DEF IInv
<1>1. StreamsFollow'
    BY DEF Calm, StreamsFollow, Live, TypeOK, StreamTypeOK
<1>2. StreamsFollowTheirKind'
    BY DEF Calm, StreamsFollowTheirKind
<1>3. MailIsKept'
    <2>1. \A r \in Requests : Audience(r)' = Audience(r)
        BY DEF Calm, Audience
    <2>2. \A r \in Requests : \A s \in Audience(r) : got'[s] = got[s]
        BY DEF Calm, Audience
    <2>3. \A r \in Requests : Told(r)' = Told(r)
        BY <2>1, <2>2 DEF Told
    <2>4. \A r \in Requests : Missed(r) => Missed(r)'
        BY <2>1 DEF Missed, Calm, Audience
    <2>5. ASSUME NEW r \in Requests, stage[r] = "finished", Delivered(r)
          PROVE  Delivered(r)'
        <3>1. ~Live(r)
            BY <2>5, LiveStagesAre DEF Live
        <3>2. \A t : Honest(r, t) => Honest(r, t)'
            BY <3>1, HonestStays DEF Calm
        <3>3. queue' = queue
            BY DEF Calm
        <3>4. CASE Told(r) = {} /\ \E t \in Terminal : Posted(r, t) /\ Honest(r, t)
            BY <2>3, <3>2, <3>3, <3>4 DEF Delivered, Posted
        <3>5. CASE queue[r] \in {<<>>, <<"end">>} /\ Told(r) = {} /\ Missed(r)
            BY <2>3, <2>4, <3>3, <3>5 DEF Delivered
        <3>6. CASE queue[r] \in {<<>>, <<"end">>} /\ \E s \in Audience(r) : Told(r) = {s} /\ Honest(r, got[s])
            <4>1. PICK s \in Audience(r) : Told(r) = {s} /\ Honest(r, got[s])
                BY <3>6
            <4>2. Honest(r, got[s])'
                BY <2>2, <3>2, <4>1
            <4>3. QED
                BY <2>1, <2>3, <3>3, <3>6, <4>1, <4>2 DEF Delivered
        <3>7. QED
            BY <2>5, <3>4, <3>5, <3>6 DEF Delivered
    <2>6. QED
        BY <2>3, <2>5 DEF MailIsKept, Calm, Silent, Live
<1>4. QED
    BY <1>1, <1>2, <1>3

LEMMA OpensKeeps ==
    ASSUME IInv, StreamsFollow, StreamsFollowTheirKind, MailIsKept, TypeOK',
           NEW s \in Requests, NEW r \in Requests, Opens(s, r)
    PROVE  StreamsFollow' /\ StreamsFollowTheirKind' /\ MailIsKept'
<1> USE DEF IInv
<1>1. /\ stream[s] = "bound" /\ stage[s] = "none" /\ attached[s] = NoRun /\ got[s] = "none"
      /\ attached' = [attached EXCEPT ![s] = r] /\ stream' = [stream EXCEPT ![s] = "open"]
      /\ UNCHANGED <<got, gone, queue, abortReason, expired, stored>>
    BY DEF Opens, StreamsFollow, NoEarlyTask
<1>2. \A q \in Requests : stage'[q] = stage[q] \/ (q = s /\ r = s /\ stage'[q] = "created")
    BY DEF Opens, TypeOK, TaskTypeOK
<1>3. stage'[r] \in LiveStages
    BY LiveStagesAre DEF Opens, Live, TypeOK, TaskTypeOK
<1> USE DEF TypeOK, StreamTypeOK
<1>4. StreamsFollow'
    <2>1. ASSUME NEW q \in Requests
          PROVE  /\ stream'[q] \in {"idle", "bound"} => attached'[q] = NoRun /\ got'[q] = "none"
                 /\ stage'[q] # "none" => attached'[q] = q
                 /\ attached'[q] \in Requests => stage'[attached'[q]] # "none"
        BY <1>1, <1>2, <1>3, LiveStagesAre DEF StreamsFollow, Opens, Live
    <2>2. ASSUME NEW q \in Requests, stream'[q] = "closed", attached'[q] \in Requests, q \notin gone'
          PROVE  queue'[attached'[q]] = <<>> /\ stage'[attached'[q]] \notin LiveStages
        <3>1. q # s /\ stream[q] = "closed" /\ attached'[q] = attached[q]
            BY <1>1, <2>2
        <3>2. queue[attached[q]] = <<>> /\ ~Live(attached[q]) /\ stage[attached[q]] # "none"
            BY <1>1, <2>2, <3>1 DEF StreamsFollow
        <3>3. stage'[attached[q]] = stage[attached[q]]
            BY <1>1, <1>2, <2>2, <3>1, <3>2
        <3>4. QED
            BY <1>1, <3>1, <3>2, <3>3 DEF Live
    <2>3. QED
        BY <2>1, <2>2 DEF StreamsFollow, Live
<1>5. StreamsFollowTheirKind'
    BY <1>1 DEF StreamsFollowTheirKind, Opens
<1>6. MailIsKept'
    <2>1. \A q \in Requests : Audience(q) \subseteq Audience(q)' /\ Audience(q)' \subseteq Audience(q) \cup {s}
        BY <1>1 DEF Audience
    <2>2. \A q \in Requests : Told(q)' = Told(q)
        BY <1>1, <2>1 DEF Told
    <2>3. \A q \in Requests : Missed(q) => Missed(q)'
        BY <1>1, <2>1 DEF Missed
    <2>4. \A q \in Requests : Delivered(q) => Delivered(q)'
        <3>1. \A q \in Requests : \A t : (Posted(q, t) <=> Posted(q, t)') /\ (Honest(q, t) <=> Honest(q, t)')
            BY <1>1 DEF Posted, Honest
        <3>2. QED
            BY <1>1, <2>1, <2>2, <2>3, <3>1 DEF Delivered
    <2>5. \A q \in Requests : Silent(q) => Silent(q)'
        BY <1>1, <2>2 DEF Silent
    <2>6. \A q \in Requests : (stage'[q] = "none" \/ Live(q)') => (stage[q] = "none" \/ Live(q))
        BY <1>1, <1>2 DEF Live
    <2>7. \A q \in Requests : stage'[q] \in {"lost", "finished"} => stage[q] = stage'[q]
        BY <1>2
    <2>8. QED
        BY <1>1, <2>2, <2>4, <2>5, <2>6, <2>7 DEF MailIsKept
<1>7. QED
    BY <1>4, <1>5, <1>6

LEMMA ConsumeKeeps ==
    ASSUME IInv, StreamsFollow, StreamsFollowTheirKind, MailIsKept, TypeOK',
           NEW s \in Requests, Consume(s),
           NEW r \in Requests, r = attached[s], NEW e, e = Head(queue[r])
    PROVE  StreamsFollow' /\ StreamsFollowTheirKind' /\ MailIsKept'
<1> USE DEF IInv
<1>1. /\ stream[s] = "open" /\ r \in Requests /\ queue[r] # <<>>
      /\ queue' = [queue EXCEPT ![r] = Tail(@)]
      /\ UNCHANGED <<stage, attached, gone, stored, expired>>
      /\ \A q \in Requests : ReasonStays(q)
      /\ stage[r] # "none"
    BY StreamReasons DEF Consume, Stream, dbVars, TypeOK, StreamTypeOK, StreamsFollow
<1>2. /\ e = "end" => stream' = [stream EXCEPT ![s] = "closed"] /\ got' = got
      /\ e # "end" /\ s \in gone => stream' = [stream EXCEPT ![s] = "closed"] /\ got' = got
      /\ e # "end" /\ s \notin gone =>
            stream' = stream /\ got' = [got EXCEPT ![s] = IF e = "progress" THEN @ ELSE e]
    BY DEF Consume
<1>3. \A q \in Requests : stream'[q] = stream[q] \/ (q = s /\ stream'[q] = "closed")
    BY <1>1, <1>2 DEF TypeOK, StreamTypeOK
<1>4. \A q \in Requests \ {s} : got'[q] = got[q]
    BY <1>1, <1>2 DEF TypeOK, StreamTypeOK
<1>5. \A q \in Requests \ {r} : queue'[q] = queue[q]
    BY <1>1 DEF TypeOK, TaskTypeOK
<1>6. queue'[r] = Tail(queue[r])
    BY <1>1 DEF TypeOK, TaskTypeOK
(* Where the run is when something is there to be read.                    *)
<1>7. \/ /\ Live(r) /\ queue[r] = Progress /\ Told(r) = {}
      \/ /\ stage[r] = "finished" /\ Told(r) = {}
         /\ \E t \in Terminal : Posted(r, t) /\ Honest(r, t)
      \/ /\ stage[r] = "finished" /\ queue[r] = <<"end">>
         /\ \/ Told(r) = {} /\ Missed(r)
            \/ \E q \in Audience(r) : Told(r) = {q} /\ Honest(r, got[q])
    <2>1. Live(r) \/ stage[r] = "finished" \/ stage[r] = "lost"
        BY <1>1, StageCases
    <2>2. QED
        BY <1>1, <2>1 DEF MailIsKept, Silent, Unread, Delivered
<1>8. /\ e = "end" => queue[r] = <<"end">>
      /\ queue[r] = <<"end">> => e = "end" /\ Tail(queue[r]) = <<>> /\ stage[r] = "finished"
    <2>1. /\ Head(Progress) = "progress" /\ Head(<<"end">>) = "end" /\ Tail(<<"end">>) = <<>>
          /\ Progress # <<"end">>
        BY DEF Progress
    <2>2. \A t \in Terminal : Posted(r, t) => e # "end" /\ queue[r] # <<"end">>
        BY Reading DEF Posted
    <2>3. QED
        BY <1>7, <2>1, <2>2
<1>9. StreamsFollowTheirKind'
    BY <1>1 DEF StreamsFollowTheirKind
<1>10. StreamsFollow'
    <2>1. ASSUME NEW q \in Requests
          PROVE  /\ stream'[q] \in {"idle", "bound"} => attached'[q] = NoRun /\ got'[q] = "none"
                 /\ stage'[q] # "none" => attached'[q] = q
                 /\ attached'[q] \in Requests => stage'[attached'[q]] # "none"
        BY <1>1, <1>3, <1>4 DEF StreamsFollow
    <2>2. ASSUME NEW q \in Requests, stream'[q] = "closed", attached'[q] \in Requests, q \notin gone'
          PROVE  queue'[attached'[q]] = <<>> /\ stage'[attached'[q]] \notin LiveStages
        <3>1. CASE stream[q] = "closed"
            <4>1. queue[attached[q]] = <<>> /\ ~Live(attached[q])
                BY <1>1, <2>2, <3>1 DEF StreamsFollow
            <4>2. attached[q] # r
                BY <1>1, <4>1
            <4>3. QED
                BY <1>1, <1>5, <2>2, <4>1, <4>2 DEF Live
        <3>2. CASE stream[q] # "closed"
            <4>1. q = s /\ stream'[s] # stream[s]
                BY <1>3, <2>2, <3>2
            <4>2. e = "end"
                BY <1>1, <1>2, <2>2, <4>1
            <4>3. queue'[r] = <<>> /\ stage[r] = "finished"
                BY <1>6, <1>8, <4>2
            <4>4. QED
                BY <1>1, <4>1, <4>3, LiveStagesAre
        <3>3. QED
            BY <3>1, <3>2
    <2>3. QED
        BY <2>1, <2>2 DEF StreamsFollow, Live
<1>11. MailIsKept'
    <2>1. \A q \in Requests : Audience(q)' = Audience(q)
        BY <1>1 DEF Audience
    <2>2. \A q \in Requests : Missed(q) => Missed(q)'
        BY <1>1, <1>3, <2>1 DEF Missed, Audience
    <2>3. s \in Audience(r) /\ \A q \in Requests \ {r} : s \notin Audience(q)
        BY <1>1 DEF Audience
    <2>4. \A q \in Requests \ {r} : Told(q)' = Told(q)
        BY <1>4, <2>1, <2>3 DEF Told, Audience
    <2>5. \A q \in Requests : \A t : ~Live(q) /\ Honest(q, t) => Honest(q, t)'
        BY <1>1, HonestStays
    <2>6. ASSUME NEW q \in Requests \ {r}
          PROVE  (Silent(q) => Silent(q)') /\ (~Live(q) /\ Delivered(q) => Delivered(q)')
        <3>1. Silent(q) => Silent(q)'
            BY <1>5, <2>4 DEF Silent
        <3>2. \A t : Posted(q, t) => Posted(q, t)'
            BY <1>5 DEF Posted
        <3>3. \A p \in Audience(q) : got'[p] = got[p]
            BY <1>4, <2>3 DEF Audience
        <3>4. ASSUME ~Live(q), Delivered(q)
              PROVE  Delivered(q)'
            <4>1. CASE Told(q) = {} /\ \E t \in Terminal : Posted(q, t) /\ Honest(q, t)
                BY <2>4, <2>5, <3>2, <3>4, <4>1 DEF Delivered
            <4>2. CASE queue[q] \in {<<>>, <<"end">>} /\ Told(q) = {} /\ Missed(q)
                BY <1>5, <2>2, <2>4, <4>2 DEF Delivered
            <4>3. CASE queue[q] \in {<<>>, <<"end">>} /\ \E p \in Audience(q) : Told(q) = {p} /\ Honest(q, got[p])
                <5>1. PICK p \in Audience(q) : Told(q) = {p} /\ Honest(q, got[p])
                    BY <4>3
                <5>2. Honest(q, got[p])'
                    BY <2>5, <3>3, <3>4, <5>1
                <5>3. QED
                    BY <1>5, <2>1, <2>4, <4>3, <5>1, <5>2 DEF Delivered
            <4>4. QED
                BY <3>4, <4>1, <4>2, <4>3 DEF Delivered
        <3>5. QED
            BY <3>1, <3>4
    <2>7. CASE Live(r) /\ queue[r] = Progress /\ Told(r) = {}
        <3>1. e = "progress" /\ queue'[r] = <<>>
            BY <1>6, <2>7, Reading DEF Terminal
        <3>2. got' = got
            BY <1>2, <3>1 DEF TypeOK, StreamTypeOK
        <3>3. Silent(r)'
            BY <2>1, <2>7, <3>1, <3>2 DEF Silent, Unread, Told
        <3>4. QED
            BY <1>1, <2>4, <1>5, <2>6, <2>7, <3>3, LiveStagesAre DEF MailIsKept, Live
    <2>8. CASE stage[r] = "finished"
        <3>1. ~Live(r)
            BY <2>8, LiveStagesAre DEF Live
        <3>2. ASSUME NEW t \in Terminal, Told(r) = {}, queue[r] = <<"progress", t, "end">>, Honest(r, t)
              PROVE  Delivered(r)'
            <4>1. e = "progress" /\ queue'[r] = <<t, "end">>
                BY <1>6, <3>2, Reading
            <4>2. got' = got
                BY <1>2, <4>1 DEF TypeOK, StreamTypeOK
            <4>3. Told(r)' = {} /\ Honest(r, t)'
                BY <2>1, <2>5, <3>1, <3>2, <4>2 DEF Told
            <4>4. QED
                BY <4>1, <4>3 DEF Delivered, Posted
        <3>3. ASSUME NEW t \in Terminal, Told(r) = {}, queue[r] = <<t, "end">>, Honest(r, t)
              PROVE  Delivered(r)'
            <4>1. e = t /\ e # "end" /\ e # "progress" /\ queue'[r] = <<"end">>
                BY <1>6, <3>3, Reading
            <4>2. CASE s \in gone
                <5>1. Told(r)' = {} /\ Missed(r)'
                    BY <1>1, <1>2, <2>1, <2>3, <3>3, <4>1, <4>2 DEF Told, Missed
                <5>2. QED
                    BY <4>1, <5>1 DEF Delivered
            <4>3. CASE s \notin gone
                <5>1. got'[s] = t /\ t # "none"
                    BY <1>1, <1>2, <4>1, <4>3 DEF TypeOK, StreamTypeOK, Terminal
                <5>2. Told(r)' = {s}
                    BY <1>4, <2>1, <2>3, <3>3, <5>1 DEF Told, Audience
                <5>3. Honest(r, got[s])'
                    BY <2>5, <3>1, <3>3, <5>1
                <5>4. QED
                    BY <2>1, <2>3, <4>1, <5>2, <5>3 DEF Delivered
            <4>4. QED
                BY <4>2, <4>3
        <3>4. ASSUME queue[r] = <<"end">>,
                     \/ Told(r) = {} /\ Missed(r)
                     \/ \E q \in Audience(r) : Told(r) = {q} /\ Honest(r, got[q])
              PROVE  Delivered(r)'
            <4>1. queue'[r] = <<>> /\ got' = got
                BY <1>2, <1>6, <1>8, <3>4
            <4>2. Told(r)' = Told(r)
                BY <2>1, <4>1 DEF Told
            <4>3. CASE Told(r) = {} /\ Missed(r)
                BY <2>2, <4>1, <4>2, <4>3, <1>1 DEF Delivered
            <4>4. CASE \E q \in Audience(r) : Told(r) = {q} /\ Honest(r, got[q])
                <5>1. PICK q \in Audience(r) : Told(r) = {q} /\ Honest(r, got[q])
                    BY <4>4
                <5>2. Honest(r, got[q])'
                    BY <2>5, <3>1, <4>1, <5>1, <1>1
                <5>3. QED
                    BY <2>1, <4>1, <4>2, <5>1, <5>2, <1>1 DEF Delivered
            <4>5. QED
                BY <3>4, <4>3, <4>4
        <3>5. Delivered(r)'
            BY <1>7, <2>8, <3>1, <3>2, <3>3, <3>4 DEF Posted
        <3>6. QED
            BY <1>1, <1>5, <2>4, <2>6, <2>8, <3>1, <3>5 DEF MailIsKept, Live
    <2>9. QED
        BY <1>7, <2>7, <2>8
<1>12. QED
    BY <1>9, <1>10, <1>11

LEMMA VerdictIsHonest ==
    ASSUME IInv', ReasonsAreTrue', NEW r \in Requests, stage'[r] = "finished"
    PROVE  \E t \in Terminal : t = Verdict(r) /\ Honest(r, t)'
<1>1. outcome'[r] \in Returned /\ abortReason'[r] \in Reason
    BY DEF IInv, TypeOK, TaskTypeOK, RunnerTypeOK, Outcome, Returned, Reason
<1>2. /\ outcome'[r] = "done" => r \in stored'
      /\ outcome'[r] = "aborted" => r \notin stored' /\ abortReason'[r] # "none"
      /\ abortReason'[r] = "timeout" => r \in expired'
    BY DEF IInv, OutcomeIsTrue, ReasonsAreTrue
<1> DEFINE v == Verdict(r)
<1>3. \/ v = "timed_out" /\ outcome'[r] = "aborted" /\ abortReason'[r] = "timeout"
      \/ v = "aborted" /\ outcome'[r] = "aborted" /\ abortReason'[r] = "abort_requested"
      \/ v = "done" /\ outcome'[r] = "done"
      \/ v = "error"
    BY <1>1, <1>2 DEF Verdict, Returned, Reason
<1>4. v \in Terminal
    BY <1>3 DEF Terminal
<1>5. PICK t \in Terminal : t = v
    BY <1>4
<1>6. Honest(r, t)'
    BY <1>2, <1>3, <1>5 DEF Honest
<1>7. QED
    BY <1>5, <1>6

LEMMA TaskKeeps ==
    ASSUME IInv, StreamsFollow, StreamsFollowTheirKind, MailIsKept, IInv', ReasonsAreTrue',
           NEW r \in Requests, Task(r)
    PROVE  StreamsFollow' /\ StreamsFollowTheirKind' /\ MailIsKept'
<1> USE DEF IInv
<1>1. UNCHANGED <<stream, gone, attached, got, expired>>
    BY DEF Task, streamVars
<1>2. Mails(r) /\ Live(r)
    BY TaskMails DEF Mails, Live
<1>3. /\ \A q \in Requests \ {r} : stage'[q] = stage[q] /\ (q \in stored' <=> q \in stored)
      /\ stage'[r] \in LiveStages \cup {"finished"}
    <2>1. PICK at \in Stage, o \in Outcome : Moves(r, at, o)
        BY TaskMoves
    <2>2. /\ stage' = [stage EXCEPT ![r] = at]
          /\ at \in LiveStages \cup {"finished"}
          /\ stored' = stored \/ stored' = stored \cup {r}
        BY <2>1 DEF Moves, Goes
    <2>3. QED
        BY <2>2 DEF TypeOK, TaskTypeOK
<1>4. \A q \in Requests \ {r} : queue'[q] = queue[q]
    BY <1>2 DEF Mails, GoesOn, Reports, Suspend, TypeOK, TaskTypeOK
<1>5. Silent(r)
    BY <1>2 DEF MailIsKept
<1>6. StreamsFollow'
    <2>1. ASSUME NEW q \in Requests
          PROVE  /\ stream'[q] \in {"idle", "bound"} => attached'[q] = NoRun /\ got'[q] = "none"
                 /\ stage'[q] # "none" => attached'[q] = q
                 /\ attached'[q] \in Requests => stage'[attached'[q]] # "none"
        BY <1>1, <1>2, <1>3, LiveStagesAre DEF StreamsFollow, Live
    <2>2. ASSUME NEW q \in Requests, stream'[q] = "closed", attached'[q] \in Requests, q \notin gone'
          PROVE  queue'[attached'[q]] = <<>> /\ stage'[attached'[q]] \notin LiveStages
        <3>1. queue[attached[q]] = <<>> /\ ~Live(attached[q])
            BY <1>1, <2>2 DEF StreamsFollow
        <3>2. attached[q] # r
            BY <1>2, <3>1
        <3>3. QED
            BY <1>1, <1>3, <1>4, <2>2, <3>1, <3>2 DEF Live
    <2>3. QED
        BY <2>1, <2>2 DEF StreamsFollow, Live
<1>7. StreamsFollowTheirKind'
    BY <1>1 DEF StreamsFollowTheirKind
<1>8. MailIsKept'
    <2>1. \A q \in Requests : Audience(q)' = Audience(q) /\ Told(q)' = Told(q)
        BY <1>1 DEF Audience, Told
    <2>2. \A q \in Requests : Missed(q)' = Missed(q)
        BY <1>1 DEF Missed, Audience
    <2>3. ASSUME NEW q \in Requests \ {r}
          PROVE  /\ stage'[q] = "none" \/ Live(q)' => Silent(q)'
                 /\ stage'[q] = "lost" => queue'[q] = <<>> /\ Told(q)' = {}
                 /\ stage'[q] = "finished" => Delivered(q)'
        <3>1. Silent(q) => Silent(q)'
            BY <1>4, <2>1 DEF Silent
        <3>2. \A t : Posted(q, t) => Posted(q, t)'
            BY <1>4 DEF Posted
        <3>3. \A t : ~Live(q) /\ Honest(q, t) => Honest(q, t)'
            BY <1>1, <1>2, <1>3, HonestStays DEF Mails
        <3>4. ASSUME stage[q] = "finished"
              PROVE  Delivered(q)'
            <4>1. Delivered(q) /\ ~Live(q)
                BY <3>4, LiveStagesAre DEF MailIsKept, Live
            <4>2. CASE Told(q) = {} /\ \E t \in Terminal : Posted(q, t) /\ Honest(q, t)
                BY <2>1, <3>2, <3>3, <4>1, <4>2 DEF Delivered
            <4>3. CASE queue[q] \in {<<>>, <<"end">>} /\ Told(q) = {} /\ Missed(q)
                BY <1>4, <2>1, <2>2, <4>3 DEF Delivered
            <4>4. CASE queue[q] \in {<<>>, <<"end">>} /\ \E p \in Audience(q) : Told(q) = {p} /\ Honest(q, got[p])
                <5>1. PICK p \in Audience(q) : Told(q) = {p} /\ Honest(q, got[p])
                    BY <4>4
                <5>2. Honest(q, got[p])'
                    BY <1>1, <3>3, <4>1, <5>1
                <5>3. QED
                    BY <1>4, <2>1, <4>4, <5>1, <5>2 DEF Delivered
            <4>5. QED
                BY <4>1, <4>2, <4>3, <4>4 DEF Delivered
        <3>5. QED
            BY <1>3, <1>4, <2>1, <3>1, <3>4 DEF MailIsKept, Live
    <2>4. CASE GoesOn(r)
        <3>1. PICK at \in LiveStages, events \in Unread : Suspend(r, events, at)
            BY <2>4 DEF GoesOn
        <3>2. stage'[r] = at /\ queue'[r] = Put(queue[r], events)
            BY <3>1 DEF Suspend, TypeOK, TaskTypeOK
        <3>3. Silent(r)'
            BY <1>5, <2>1, <3>2, PutProgress DEF Silent
        <3>4. QED
            BY <2>3, <3>2, <3>3, LiveStagesAre DEF MailIsKept, Live
    <2>5. CASE Reports(r)
        <3>1. PICK events \in Unread : Suspend(r, events \o <<Verdict(r), "end">>, "finished")
            BY <2>5 DEF Reports
        <3>2. stage'[r] = "finished" /\ queue'[r] = Put(queue[r], events \o <<Verdict(r), "end">>)
            BY <3>1 DEF Suspend, TypeOK, TaskTypeOK
        <3>3. PICK t \in Terminal : t = Verdict(r) /\ Honest(r, t)'
            BY <3>2, VerdictIsHonest
        <3>4. queue'[r] \in {<<t, "end">>, <<"progress", t, "end">>}
            BY <1>5, <3>2, <3>3, PutEnd DEF Silent
        <3>5. Told(r)' = {}
            BY <1>5, <2>1 DEF Silent
        <3>6. Delivered(r)'
            BY <3>3, <3>4, <3>5 DEF Delivered, Posted
        <3>7. QED
            BY <2>3, <3>2, <3>6, LiveStagesAre DEF MailIsKept, Live
    <2>6. QED
        BY <1>2, <2>4, <2>5 DEF Mails
<1>9. QED
    BY <1>6, <1>7, <1>8

LEMMA CrashKeeps ==
    ASSUME IInv, StreamsFollow, StreamsFollowTheirKind, MailIsKept, TypeOK', Crash
    PROVE  StreamsFollow' /\ StreamsFollowTheirKind' /\ MailIsKept'
<1> USE DEF IInv
<1>1. /\ UNCHANGED <<gone, attached, got, abortReason, expired, stored>>
      /\ \A q \in Requests :
            /\ stage'[q] = IF Live(q) THEN "lost" ELSE stage[q]
            /\ queue'[q] = <<>>
            /\ stream'[q] = IF stream[q] \in {"bound", "open"} THEN "lost" ELSE stream[q]
    BY DEF Crash, dbVars
<1>2. StreamsFollow'
    BY <1>1, LiveStagesAre DEF StreamsFollow, Live
<1>3. StreamsFollowTheirKind'
    BY <1>1 DEF StreamsFollowTheirKind
<1>4. MailIsKept'
    <2> SUFFICES ASSUME NEW q \in Requests
                 PROVE  /\ stage'[q] = "none" \/ Live(q)' => Silent(q)'
                        /\ stage'[q] = "lost" => queue'[q] = <<>> /\ Told(q)' = {}
                        /\ stage'[q] = "finished" => Delivered(q)'
        BY DEF MailIsKept
    <2>1. Audience(q)' = Audience(q) /\ Told(q)' = Told(q)
        BY <1>1 DEF Audience, Told
    <2>2. Missed(q) => Missed(q)'
        BY <1>1 DEF Missed, Audience
    <2>3. \A t : Honest(q, t) => Honest(q, t)'
        BY <1>1 DEF Honest
    <2>4. ~Live(q)' /\ (stage'[q] = "none" => Silent(q)')
        BY <1>1, <2>1, LiveStagesAre DEF Live, MailIsKept, Silent, Unread
    <2>5. stage'[q] = "lost" => queue'[q] = <<>> /\ Told(q)' = {}
        BY <1>1, <2>1 DEF MailIsKept, Silent
    <2>6. ASSUME stage'[q] = "finished"
          PROVE  Delivered(q)'
        <3>1. stage[q] = "finished" /\ Delivered(q)
            BY <1>1, <2>6 DEF MailIsKept
        <3>2. CASE Told(q) = {} /\ \E t \in Terminal : Posted(q, t)
            (* The request that made the run still has something to read.  *)
            <4>1. q \in Audience(q) /\ queue[q] # <<>> /\ stream[q] \notin {"idle", "bound"}
                BY <3>1, <3>2, Reading DEF StreamsFollow, Audience, Posted, NoEarlyTask
            <4>2. q \in gone \/ stream[q] = "lost" \/ stream[q] = "open"
                BY <4>1 DEF StreamsFollow, Audience, TypeOK, StreamTypeOK
            <4>3. Missed(q)'
                BY <1>1, <2>1, <4>1, <4>2 DEF Missed, Audience
            <4>4. QED
                BY <1>1, <2>1, <3>2, <4>3 DEF Delivered
        <3>3. CASE Told(q) = {} /\ Missed(q)
            BY <1>1, <2>1, <2>2, <3>3 DEF Delivered
        <3>4. CASE \E s \in Audience(q) : Told(q) = {s} /\ Honest(q, got[s])
            <4>1. PICK s \in Audience(q) : Told(q) = {s} /\ Honest(q, got[s])
                BY <3>4
            <4>2. Honest(q, got[s])'
                BY <1>1, <2>3, <4>1
            <4>3. QED
                BY <1>1, <2>1, <4>1, <4>2 DEF Delivered
        <3>5. QED
            BY <3>1, <3>2, <3>3, <3>4 DEF Delivered
    <2>7. QED
        BY <2>4, <2>5, <2>6
<1>5. QED
    BY <1>2, <1>3, <1>4

(* In every behaviour streams follow runs of their own session and kind,   *)
(* and the terminal event of a run is where it should be.                  *)
THEOREM ClientInvariance == Spec => [](ClientInv /\ ReasonsAreTrue)
<1>1. Init => ClientInv /\ ReasonsAreTrue
    <2> SUFFICES ASSUME Init
                 PROVE  ClientInv /\ ReasonsAreTrue
        OBVIOUS
    <2>1. \A r \in Requests : stage[r] = "none" /\ Silent(r)
        BY DEF Init, Silent, Unread, Told, Audience
    <2>2. MailIsKept
        BY <2>1 DEF MailIsKept
    <2>3. CurrentIsOwn /\ StreamsFollow /\ StreamsFollowTheirKind /\ ReasonsAreTrue
        BY DEF Init, CurrentIsOwn, StreamsFollow, StreamsFollowTheirKind, ReasonsAreTrue
    <2>4. QED
        BY <2>2, <2>3 DEF ClientInv
<1>2. IInv /\ IInv' /\ ClientInv /\ ReasonsAreTrue /\ [Next]_vars => (ClientInv /\ ReasonsAreTrue)'
    <2> SUFFICES ASSUME IInv, IInv', ClientInv, ReasonsAreTrue, [Next]_vars
                 PROVE  ClientInv' /\ ReasonsAreTrue'
        OBVIOUS
    <2>1. TypeOK /\ TypeOK'
        BY DEF IInv
    <2>2. ReasonsAreTrue'
        BY ReasonsStep
    <2>3. CurrentIsOwn'
        BY <2>1, CurrentStep DEF ClientInv
    <2>4. StreamsFollow' /\ StreamsFollowTheirKind' /\ MailIsKept'
        <3> USE DEF ClientInv
        <3>1. ASSUME NEW s \in Requests, Consume(s)
              PROVE  StreamsFollow' /\ StreamsFollowTheirKind' /\ MailIsKept'
            <4>1. attached[s] \in Requests
                BY <2>1, <3>1 DEF Consume, TypeOK, StreamTypeOK
            <4>2. PICK r \in Requests : r = attached[s]
                BY <4>1
            <4>3. PICK e : e = Head(queue[r])
                OBVIOUS
            <4>4. QED
                BY <2>1, <3>1, <4>2, <4>3, ConsumeKeeps
        <3>2. QED
            BY <2>1, <2>2, <3>1, StepKinds, CalmKeeps, OpensKeeps, TaskKeeps, CrashKeeps
    <2>5. QED
        BY <2>2, <2>3, <2>4 DEF ClientInv
<1>3. QED
    BY <1>1, <1>2, Invariance, PTL DEF Spec

(* A stream is never handed the run of another session, nor a generate the *)
(* run of a revise (agents/runner.py start and start_revise).              *)
THEOREM StreamsAreNotCrossed == Spec => []StreamsFollowTheirKind
<1>1. ClientInv => StreamsFollowTheirKind
    BY DEF ClientInv
<1>2. QED
    BY <1>1, ClientInvariance, PTL

(* What a client is told last is true of the run and of its draft          *)
(* (agents/runner.py _emit_result and the queue behind it).                *)
THEOREM ClientsAreToldTheTruth == Spec => []HonestTerminal
<1>1. IInv /\ ClientInv => HonestTerminal
    <2> SUFFICES ASSUME IInv, ClientInv, NEW s \in Requests, attached[s] \in Requests, got[s] # "none"
                 PROVE  Honest(attached[s], got[s])
        BY DEF HonestTerminal, Honest
    <2>1. PICK r \in Requests : r = attached[s]
        OBVIOUS
    <2>2. s \in Told(r)
        BY <2>1 DEF Told, Audience
    <2>3. stage[r] = "finished"
        BY <2>2, StageCases DEF ClientInv, MailIsKept, Silent
    <2>4. PICK q \in Audience(r) : Told(r) = {q} /\ Honest(r, got[q])
        BY <2>2, <2>3 DEF ClientInv, MailIsKept, Delivered
    <2>5. QED
        BY <2>1, <2>2, <2>4
<1>2. QED
    BY <1>1, Invariance, ClientInvariance, PTL

(* Of the clients that stayed, exactly one is told how the run ended       *)
(* (agents/runner.py _consume, one queue for all streams).                 *)
THEOREM OneClientIsTold == Spec => []TerminalReachesOneClient
<1>1. IInv /\ ClientInv => TerminalReachesOneClient
    <2> SUFFICES ASSUME IInv, ClientInv, NEW r \in Requests, stage[r] = "finished",
                        \A s \in Audience(r) : stream[s] = "closed" /\ s \notin gone
                 PROVE  \E s \in Audience(r) : got[s] # "none" /\ \A t \in Audience(r) : got[t] # "none" => t = s
        BY DEF TerminalReachesOneClient
    <2>1. Delivered(r) /\ r \in Audience(r)
        BY DEF ClientInv, MailIsKept, StreamsFollow, Audience
    <2>2. queue[r] = <<>>
        BY <2>1 DEF ClientInv, StreamsFollow, Audience
    <2>3. ~Missed(r) /\ \A t \in Terminal : ~Posted(r, t)
        BY <2>2, Reading DEF Missed, Posted
    <2>4. PICK s \in Audience(r) : Told(r) = {s}
        BY <2>1, <2>3 DEF Delivered
    <2>5. QED
        BY <2>4 DEF Told
<1>2. QED
    BY <1>1, Invariance, ClientInvariance, PTL

(* No stream is told the end of a run that another stream, or itself, was  *)
(* told already (agents/runner.py _emit_result: one terminal event per     *)
(* run, which exactly one stream takes).                                   *)
THEOREM NobodyIsToldTwice == Spec => TerminalIsToldOnce
<1>1. ASSUME IInv, ClientInv, [Next]_vars
      PROVE  \A s, t \in Requests :
                attached[s] \in Requests /\ attached[t] = attached[s] /\ got[s] # "none" => got'[t] = got[t]
    <2> SUFFICES ASSUME NEW s \in Requests, NEW t \in Requests, NEW r \in Requests,
                        attached[s] = r, attached[t] = r, got[s] # "none"
                 PROVE  got'[t] = got[t]
        OBVIOUS
    <2> USE <1>1 DEF IInv, ClientInv
    <2>1. s \in Told(r)
        BY DEF Told, Audience
    <2>2. stage[r] = "finished"
        BY <2>1, StageCases DEF MailIsKept, Silent
    <2>3. queue[r] \in {<<>>, <<"end">>}
        BY <2>1, <2>2 DEF MailIsKept, Delivered
    <2>4. CASE Calm
        BY <2>4 DEF Calm
    <2>5. ASSUME NEW q \in Requests, NEW p \in Requests, Opens(q, p)
          PROVE  got' = got
        BY <2>5 DEF Opens
    <2>6. ASSUME NEW q \in Requests, Consume(q)
          PROVE  got'[t] = got[t]
        <3>1. CASE q = t
            <4>1. Head(queue[r]) = "end"
                BY <2>3, <2>6, <3>1 DEF Consume
            <4>2. QED
                BY <2>6, <3>1, <4>1 DEF Consume
        <3>2. CASE q # t
            BY <2>6, <3>2 DEF Consume, TypeOK, StreamTypeOK
        <3>3. QED
            BY <3>1, <3>2
    <2>7. ASSUME NEW q \in Requests, Task(q)
          PROVE  got' = got
        BY <2>7 DEF Task, streamVars
    <2>8. Crash => got' = got
        BY DEF Crash
    <2>9. QED
        BY <2>4, <2>5, <2>6, <2>7, <2>8, StepKinds
<1>2. IInv /\ ClientInv /\ [Next]_vars =>
        [\A s, t \in Requests :
            attached[s] \in Requests /\ attached[t] = attached[s] /\ got[s] # "none" => got'[t] = got[t]]_vars
    BY <1>1
<1>3. QED
    BY <1>2, Invariance, ClientInvariance, PTL DEF Spec, TerminalIsToldOnce

-----------------------------------------------------------------------------
(* What an abort or a timeout achieves.                                    *)

(* Only the last check, passed, leads a run to persist_draft.              *)
LEMMA LastCheck ==
    ASSUME TypeOK, NEW r \in Requests, Task(r), stage'[r] = "commit"
    PROVE  ~MustStop(r)
<1> DEFINE Elsewhere == stage'[r] # "commit"
<1> USE DEF TypeOK, TaskTypeOK
<1>1. \A at \in LiveStages \cup {"finished"} : \A events : Suspend(r, events, at) => stage'[r] = at
    BY DEF Suspend
<1>2. \A events, o : Finish(r, events, o) => Elsewhere
    BY DEF Finish, Suspend
<1>3. \A events, o : LeaveGenerate(r, events, o) => Elsewhere
    BY <1>2 DEF LeaveGenerate, Suspend
<1>4. \A at \in LiveStages \ {"commit"} : \A events :
        Suspend(r, events, at) \/ CheckThen(r, events, at) \/ PreludeCheckThen(r, events, at) => Elsewhere
    BY <1>1, <1>2, <1>3 DEF CheckThen, PreludeCheckThen
<1> HIDE DEF Elsewhere
<1>5. {"load", "parse", "bump", "mark", "get", "retrieve", "narrative", "reload"} \subseteq LiveStages \ {"commit"}
    BY LiveStagesAre
<1>6. CASE GenerateNarrative(r)
    <2>1. CheckThen(r, Progress, "commit")
        BY <1>3, <1>6 DEF GenerateNarrative, Elsewhere
    <2>2. QED
        BY <1>3, <2>1 DEF CheckThen, Elsewhere
<1>7. CASE ~GenerateNarrative(r)
    <2>1. StartTask(r) \/ ReviseLoad(r) \/ ReviseParse(r) => Elsewhere
        BY <1>2, <1>4, <1>5 DEF StartTask, ReviseLoad, ReviseParse
    <2>2. ReviseBump(r) \/ ReviseMark(r) => Elsewhere
        BY <1>2, <1>4, <1>5 DEF ReviseBump, ReviseMark
    <2>3. GenerateGet(r) \/ GenerateRetrieve(r) => Elsewhere
        BY <1>3, <1>4, <1>5 DEF GenerateGet, GenerateRetrieve
    <2>4. PersistCommit(r) \/ PersistReload(r) \/ ReviseUnmark(r) => Elsewhere
        BY <1>2, <1>3, <1>4, <1>5 DEF PersistCommit, PersistReload, ReviseUnmark
    <2>5. Elsewhere
        BY <1>7, <2>1, <2>2, <2>3, <2>4 DEF Task
    <2>6. QED
        BY <2>5 DEF Elsewhere
<1>8. QED
    BY <1>6, <1>7

(* A run told to stop before its last check never stores a draft, however  *)
(* the requests, tasks and routes go on (agents/generate.py's checks).     *)
THEOREM AnAbortIsFinal == Spec => AbortIsFinal
<1>1. ASSUME IInv, ClientInv, [Next]_vars, NEW r \in Requests, Stopping(r)
      PROVE  Stopping(r)'
    <2> USE <1>1 DEF IInv, ClientInv
    <2>1. MustStop(r) /\ stage[r] # "commit" /\ r \notin stored
        BY DEF Stopping
    <2>2. ASSUME ReasonStays(r), expired \subseteq expired'
          PROVE  MustStop(r)'
        BY <2>1, <2>2 DEF ReasonStays, MustStop
    <2>3. CASE Calm
        BY <2>1, <2>2, <2>3 DEF Calm, Stopping
    <2>4. ASSUME NEW q \in Requests, NEW p \in Requests, Opens(q, p)
          PROVE  Stopping(r)'
        <3>1. stage'[r] = stage[r] \/ stage'[r] = "created"
            BY <2>4 DEF Opens, TypeOK, TaskTypeOK
        <3>2. QED
            BY <2>1, <2>4, <3>1 DEF Opens, Stopping, MustStop
    <2>5. ASSUME NEW q \in Requests, Consume(q)
          PROVE  Stopping(r)'
        <3>1. ReasonStays(r) /\ UNCHANGED <<expired, stage, stored>>
            BY <2>5, StreamReasons DEF Stream, Consume, dbVars
        <3>2. QED
            BY <2>1, <2>2, <3>1 DEF Stopping
    <2>6. ASSUME NEW q \in Requests, Task(q)
          PROVE  Stopping(r)'
        <3>1. MustStop(r)'
            BY <2>2, <2>6, TaskMails DEF Task, Mails
        <3>2. /\ q # r => stage'[r] = stage[r]
              /\ stored' = stored \/ (stored' = stored \cup {q} /\ stage[q] = "commit")
            <4>1. PICK at \in Stage, o \in Outcome : Moves(q, at, o)
                BY <2>6, TaskMoves
            <4>2. QED
                BY <4>1 DEF Moves, Goes, TypeOK, TaskTypeOK
        <3>3. stage'[r] # "commit"
            BY <2>1, <2>6, <3>2, LastCheck
        <3>4. QED
            BY <2>1, <3>1, <3>2, <3>3 DEF Stopping
    <2>7. CASE Crash
        BY <2>1, <2>7 DEF Crash, dbVars, Stopping, MustStop
    <2>8. QED
        BY <2>3, <2>4, <2>5, <2>6, <2>7, StepKinds
<1>2. IInv /\ ClientInv /\ [Next]_vars => [\A r \in Requests : Stopping(r) => Stopping(r)']_vars
    BY <1>1
<1>3. QED
    BY <1>2, Invariance, ClientInvariance, PTL DEF Spec, AbortIsFinal

-----------------------------------------------------------------------------
(* Why streams end.                                                        *)

(* The measure of a run: the awaits its task still has, each worth more    *)
(* than the events that may be waiting, and those events.                  *)
Weight == [none |-> 13, created |-> 12, load |-> 11, parse |-> 10, bump |-> 9, mark |-> 8,
           get |-> 7, retrieve |-> 6, narrative |-> 5, commit |-> 4, reload |-> 3, unmark |-> 2,
           finished |-> 1, lost |-> 0]
Left(r) == 4 * Weight[stage[r]] + Len(queue[r])

RunsWindDown ==
    [][\A r \in Requests : <<stage[r], queue[r]>>' # <<stage[r], queue[r]>> => Left(r)' < Left(r)]_vars

LEMMA StageNames ==
    /\ Stage = DOMAIN Weight
    /\ \A at \in Stage : Weight[at] \in 0..13
BY LiveStagesAre DEF Stage, Weight

QueuesAreShort == \A r \in Requests : Len(queue[r]) \in 0..3

LEMMA QueueLengths ==
    ASSUME IInv, ClientInv
    PROVE  QueuesAreShort
<1> SUFFICES ASSUME NEW r \in Requests PROVE Len(queue[r]) \in 0..3
    BY DEF QueuesAreShort
<1>1. CASE queue[r] \in Unread
    BY <1>1 DEF Unread, Progress
<1>2. CASE stage[r] = "finished"
    <2>1. Delivered(r)
        BY <1>2 DEF ClientInv, MailIsKept
    <2>2. CASE queue[r] \in {<<>>, <<"end">>}
        BY <2>2
    <2>3. ASSUME NEW t \in Terminal, Posted(r, t)
          PROVE  Len(queue[r]) \in 0..3
        <3>1. Len(<<t, "end">>) = 2 /\ Len(<<"progress", t, "end">>) = 3
            OBVIOUS
        <3>2. QED
            BY <2>3, <3>1 DEF Posted
    <2>4. QED
        BY <2>1, <2>2, <2>3 DEF Delivered
<1>3. QED
    BY <1>1, <1>2, StageCases DEF ClientInv, MailIsKept, Silent, Unread

(* Each step of a task comes to a later await, or to the end.              *)
LEMMA TaskAdvances ==
    ASSUME TypeOK, NEW r \in Requests, Task(r)
    PROVE  /\ stage'[r] \in Stage
           /\ Weight[stage'[r]] < Weight[stage[r]]
           /\ \A q \in Requests \ {r} : stage'[q] = stage[q] /\ queue'[q] = queue[q]
<1> DEFINE Comes(at) == /\ stage' = [stage EXCEPT ![r] = at]
                        /\ \A q \in Requests \ {r} : queue'[q] = queue[q]
<1> USE DEF TypeOK, TaskTypeOK
<1>1. \A at, events : Suspend(r, events, at) => Comes(at)
    BY DEF Suspend
<1>2. \A events, o : Finish(r, events, o) => Comes("finished")
    BY <1>1 DEF Finish
<1>3. \A events, o : LeaveGenerate(r, events, o) => Comes("finished") \/ Comes("unmark")
    BY <1>1, <1>2 DEF LeaveGenerate
<1>4. \A at, events : CheckThen(r, events, at) => Comes(at) \/ Comes("finished") \/ Comes("unmark")
    BY <1>1, <1>3 DEF CheckThen
<1>5. \A at, events : PreludeCheckThen(r, events, at) => Comes(at) \/ Comes("finished")
    BY <1>1, <1>2 DEF PreludeCheckThen
<1> HIDE DEF Comes
<1>6. \E at \in Stage : Comes(at) /\ Weight[at] < Weight[stage[r]]
    <2> USE StageNames DEF Weight
    <2>1. CASE StartTask(r)
        <3>1. stage[r] = "created" /\ \E at \in {"load", "get", "finished", "unmark"} : Comes(at)
            BY <1>4, <1>5, <2>1 DEF StartTask
        <3>2. QED
            BY <3>1
    <2>2. CASE ReviseLoad(r)
        <3>1. stage[r] = "load" /\ \E at \in {"parse", "finished"} : Comes(at)
            BY <1>2, <1>5, <2>2 DEF ReviseLoad
        <3>2. QED
            BY <3>1
    <2>3. CASE ReviseParse(r)
        <3>1. stage[r] = "parse" /\ \E at \in {"bump", "finished"} : Comes(at)
            BY <1>1, <1>2, <2>3 DEF ReviseParse
        <3>2. QED
            BY <3>1
    <2>4. CASE ReviseBump(r)
        <3>1. stage[r] = "bump" /\ \E at \in {"mark", "finished"} : Comes(at)
            BY <1>2, <1>5, <2>4 DEF ReviseBump
        <3>2. QED
            BY <3>1
    <2>5. CASE ReviseMark(r)
        <3>1. stage[r] = "mark" /\ \E at \in {"get", "finished", "unmark"} : Comes(at)
            BY <1>2, <1>4, <2>5 DEF ReviseMark
        <3>2. QED
            BY <3>1
    <2>6. CASE GenerateGet(r)
        <3>1. stage[r] = "get" /\ \E at \in {"retrieve", "finished", "unmark"} : Comes(at)
            BY <1>3, <1>4, <2>6 DEF GenerateGet
        <3>2. QED
            BY <3>1
    <2>7. CASE GenerateRetrieve(r)
        <3>1. stage[r] = "retrieve" /\ \E at \in {"narrative", "finished", "unmark"} : Comes(at)
            BY <1>3, <1>4, <2>7 DEF GenerateRetrieve
        <3>2. QED
            BY <3>1
    <2>8. CASE GenerateNarrative(r)
        <3>1. stage[r] = "narrative" /\ \E at \in {"commit", "finished", "unmark"} : Comes(at)
            BY <1>3, <1>4, <2>8 DEF GenerateNarrative
        <3>2. QED
            BY <3>1
    <2>9. CASE PersistCommit(r) \/ PersistReload(r)
        <3>1. /\ stage[r] \in {"commit", "reload"}
              /\ (stage[r] = "commit" /\ Comes("reload")) \/ Comes("finished") \/ Comes("unmark")
            BY <1>1, <1>3, <2>9 DEF PersistCommit, PersistReload
        <3>2. QED
            BY <3>1
    <2>10. CASE ReviseUnmark(r)
        <3>1. stage[r] = "unmark" /\ Comes("finished")
            BY <1>2, <2>10 DEF ReviseUnmark
        <3>2. QED
            BY <3>1
    <2>11. QED
        BY <2>1, <2>2, <2>3, <2>4, <2>5, <2>6, <2>7, <2>8, <2>9, <2>10 DEF Task
<1>7. QED
    BY <1>6 DEF Comes

(* Whatever a task, a stream, a start or a crash does to a run or to its   *)
(* queue brings the run nearer to being over and read: a run takes a       *)
(* bounded number of steps, and no stream is kept busy for ever by events  *)
(* of one run.  This is the measure that StreamsEnd rests on.              *)
THEOREM RunsComeToAnEnd == Spec => RunsWindDown
<1>1. ASSUME IInv, ClientInv, TypeOK', QueuesAreShort', [Next]_vars, NEW r \in Requests,
             stage'[r] # stage[r] \/ queue'[r] # queue[r]
      PROVE  Left(r)' < Left(r)
    <2> DEFINE a == Weight[stage[r]]
               b == Weight[stage'[r]]
               m == Len(queue[r])
               n == Len(queue'[r])
    <2>1. TypeOK
        BY <1>1 DEF IInv
    <2>2. a \in 0..13 /\ b \in 0..13
        BY <1>1, <2>1, StageNames DEF TypeOK, TaskTypeOK
    <2>3. m \in 0..3 /\ n \in 0..3 /\ queue[r] \in Seq(Event)
        BY <1>1, <2>1, QueueLengths DEF QueuesAreShort, TypeOK, TaskTypeOK
    <2>4. Left(r) = 4 * a + m /\ Left(r)' = 4 * b + n
        BY DEF Left
    <2> HIDE DEF a, b, m, n
    <2>5. b < a \/ (b = a /\ n < m) => Left(r)' < Left(r)
        BY <2>2, <2>3, <2>4
    <2>6. stage'[r] = stage[r] => b = a
        BY DEF a, b
    <2>7. ASSUME NEW q \in Requests, NEW p \in Requests, Opens(q, p)
          PROVE  b < a
        <3>1. stage' = [stage EXCEPT ![q] = "created"] /\ q = r /\ stream[q] = "bound"
            BY <1>1, <2>1, <2>7 DEF Opens, TypeOK, TaskTypeOK
        <3>2. stage[r] = "none" /\ stage'[r] = "created"
            BY <1>1, <2>1, <3>1 DEF IInv, NoEarlyTask, TypeOK, TaskTypeOK
        <3>3. QED
            BY <3>2 DEF a, b, Weight
    <2>8. ASSUME NEW s \in Requests, Consume(s)
          PROVE  b = a /\ n < m
        <3>1. stage' = stage /\ queue[r] # <<>> /\ queue'[r] = Tail(queue[r])
            BY <1>1, <2>1, <2>8 DEF Consume, TypeOK, TaskTypeOK
        <3>2. n = m - 1
            BY <2>3, <3>1 DEF m, n
        <3>3. QED
            BY <2>3, <2>6, <3>1, <3>2
    <2>9. ASSUME NEW q \in Requests, Task(q)
          PROVE  b < a
        BY <1>1, <2>1, <2>9, TaskAdvances DEF a, b
    <2>10. ASSUME Crash
           PROVE  b < a \/ (b = a /\ n < m)
        <3>1. queue'[r] = <<>>
            BY <2>10 DEF Crash
        <3>2. CASE Live(r)
            <4>1. stage'[r] = "lost"
                BY <2>10, <3>2 DEF Crash
            <4>2. QED
                BY <3>2, <4>1, LiveStagesAre DEF a, b, Weight, Live
        <3>3. CASE ~Live(r)
            <4>1. stage'[r] = stage[r] /\ queue[r] # <<>>
                BY <1>1, <2>10, <3>1, <3>3 DEF Crash
            <4>2. m # 0 /\ n = 0
                BY <2>3, <3>1, <4>1 DEF m, n
            <4>3. QED
                BY <2>3, <2>6, <4>1, <4>2
        <3>4. QED
            BY <3>2, <3>3
    <2>11. ~Calm
        BY <1>1 DEF Calm
    <2>12. QED
        BY <1>1, <2>1, <2>5, <2>7, <2>8, <2>9, <2>10, <2>11, StepKinds DEF ClientInv
<1>2. IInv /\ ClientInv /\ IInv' /\ QueuesAreShort' /\ [Next]_vars =>
        [\A r \in Requests : <<stage[r], queue[r]>>' # <<stage[r], queue[r]>> => Left(r)' < Left(r)]_vars
    BY <1>1 DEF IInv
<1>3. IInv /\ ClientInv => QueuesAreShort
    BY QueueLengths
<1>4. QED
    BY <1>2, <1>3, Invariance, ClientInvariance, PTL DEF Spec, RunsWindDown
=============================================================================
