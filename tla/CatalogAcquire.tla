--------------------------- MODULE CatalogAcquire ---------------------------
(***************************************************************************)
(* Acquiring places for one chat session (catalog/service.py,              *)
(* catalog/queue.py, workers/acquire.py): the API requests that enqueue,   *)
(* the arq jobs that fetch and store places, and the catalog column of the *)
(* session row through which they report.  Sessions do not interact.       *)
(*                                                                         *)
(* Requests and jobs each have a DB session of their own, whose identity   *)
(* map keeps a row as it was last loaded or refreshed: a second SELECT     *)
(* does not reload it.  seen[e] and held[j] are those copies.  A step ends *)
(* at each commit, refresh or call to the job queue; a refresh is taken    *)
(* together with the step that follows it.                                 *)
(*                                                                         *)
(* A job has the name of the request that enqueued it.                     *)
(***************************************************************************)
EXTENDS Naturals

CONSTANTS
    Requests,   \* POST /catalog/acquire requests
    Scopes,     \* trip scopes, a missing one included
    Allowed,    \* those that scope_allows_acquire admits
    NoJob,      \* job_id None
    Nowhere,    \* the scope of a catalog without places
    MaxTries,   \* WorkerSettings.max_tries
    Faults      \* what may go wrong or happen besides

ASSUME ConstantsAssumption ==
    /\ Allowed \subseteq Scopes
    /\ NoJob \notin Requests
    /\ Nowhere \notin Scopes
    /\ MaxTries \in Nat
    /\ Faults \subseteq {"queue", "db", "timeout", "restart", "rescope"}

VARIABLES
    catalog,    \* sessions.catalog
    scope,      \* sessions.trip_scope
    stocked,    \* the scopes whose places are in the places table
    ask,        \* ask[e]: the await request e is suspended at
    seen,       \* seen[e]: the catalog in request e's identity map
    reply,      \* reply[e]: the status in the response
    job,        \* job[j]: the await job j is suspended at, or its end
    tries,      \* tries[j]: how often a worker has picked job j up
    held,       \* held[j]: the catalog in job j's identity map
    fetchScope, \* fetchScope[j]: the trip scope job j has read
    found       \* found[j]: what the providers gave

rowVars == <<catalog, scope, stocked>>
askVars == <<ask, seen, reply>>
jobVars == <<job, tries, held, fetchScope, found>>
vars == <<rowVars, askVars, jobVars>>

(* place_count is None, zero or positive.  (history) "of" is the scope     *)
(* whose places a positive count counts.                                   *)
Places == [count : {"none", "zero", "some"}, of : Scopes \cup {Nowhere}]
Unknown == [count |-> "none", of |-> Nowhere]
Zero == [count |-> "zero", of |-> Nowhere]

Reported == {"ready", "partial", "failed"}
Status == {"idle", "pending", "running"} \cup Reported
Catalog == [status : Status, places : Places, jobId : Requests \cup {NoJob}]
Empty == [status |-> "idle", places |-> Unknown, jobId |-> NoJob]
FailedCatalog == [status |-> "failed", places |-> Zero, jobId |-> NoJob]

AskLive == {"refuse", "pend", "queue", "giveup", "settle"}
AtWork == {"refuse", "mark", "fetch", "upsert", "write", "remark", "fail"}
Lost == {"cancelled", "dropped", "broken"}
Ended == {"returned", "failed"} \cup Lost
Found == {"good", "partial", "thin", "down"}

RowTypeOK == catalog \in Catalog /\ scope \in Scopes /\ stocked \in SUBSET Scopes

AskTypeOK ==
    /\ ask \in [Requests -> {"idle", "answered", "error"} \cup AskLive]
    /\ seen \in [Requests -> Catalog]
    /\ reply \in [Requests -> {"none", "pending"} \cup Reported]

JobTypeOK ==
    /\ job \in [Requests -> {"none", "queued"} \cup AtWork \cup Ended]
    /\ tries \in [Requests -> 0..MaxTries]
    /\ held \in [Requests -> Catalog]
    /\ fetchScope \in [Requests -> Scopes \cup {Nowhere}]
    /\ found \in [Requests -> Found \cup {"nothing"}]

(* The range of every variable; a job at work has read a scope, and one    *)
(* that reports has a result.                                              *)
TypeOK ==
    /\ RowTypeOK
    /\ AskTypeOK
    /\ JobTypeOK
    /\ \A j \in Requests : job[j] \in AtWork => fetchScope[j] \in Scopes
    /\ \A j \in Requests : job[j] \in {"upsert", "write"} => found[j] \in Found

Init ==
    /\ catalog = Empty
    /\ scope \in Scopes
    /\ stocked = {}
    /\ ask = [e \in Requests |-> "idle"]
    /\ seen = [e \in Requests |-> Empty]
    /\ reply = [e \in Requests |-> "none"]
    /\ job = [j \in Requests |-> "none"]
    /\ tries = [j \in Requests |-> 0]
    /\ held = [j \in Requests |-> Empty]
    /\ fetchScope = [j \in Requests |-> Nowhere]
    /\ found = [j \in Requests |-> "nothing"]

(* An UPDATE carries what differs from the copy.  A copy that is the same  *)
(* in the model may differ in the error or the number the model leaves out.*)
Update(copy, written) ==
    catalog' = written \/ (copy = written /\ UNCHANGED catalog)

-----------------------------------------------------------------------------
(* enqueue_acquire.                                                        *)

(* The response is sent; the request's DB session is closed.               *)
Answer(e, status) ==
    /\ ask' = [ask EXCEPT ![e] = "answered"]
    /\ reply' = [reply EXCEPT ![e] = status]
    /\ seen' = [seen EXCEPT ![e] = Empty]

(* A DB call of request e raises: the response is a 5xx.                   *)
RequestFails(e) ==
    /\ "db" \in Faults
    /\ ask' = [ask EXCEPT ![e] = "error"]
    /\ seen' = [seen EXCEPT ![e] = Empty]
    /\ UNCHANGED reply

(* The last save of a request raises before its commit or, refreshing,     *)
(* after it, or the response follows.                                      *)
SaveAndAnswer(e, written, status) ==
    /\ \/ Update(seen[e], written) /\ (Answer(e, status) \/ RequestFails(e))
       \/ UNCHANGED catalog /\ RequestFails(e)
    /\ UNCHANGED <<scope, stocked, jobVars>>

(* The owner's session row is loaded.  A ready catalog with places answers *)
(* without a new job.                                                      *)
Load(e) ==
    /\ ask[e] = "idle"
    /\ \/ /\ scope \in Allowed /\ catalog.status = "ready" /\ catalog.places.count = "some"
          /\ Answer(e, "ready")
       \/ /\ ~(scope \in Allowed /\ catalog.status = "ready" /\ catalog.places.count = "some")
          /\ ask' = [ask EXCEPT ![e] = IF scope \in Allowed THEN "pend" ELSE "refuse"]
          /\ seen' = [seen EXCEPT ![e] = catalog]
          /\ UNCHANGED reply
    /\ UNCHANGED <<rowVars, jobVars>>

(* The scope does not allow acquiring.                                     *)
Refuse(e) == ask[e] = "refuse" /\ SaveAndAnswer(e, FailedCatalog, "failed")

(* "pending" is committed before the job exists.                           *)
Pend(e) ==
    /\ ask[e] = "pend"
    /\ \/ /\ Update(seen[e], [status |-> "pending", places |-> seen[e].places, jobId |-> NoJob])
          /\ ask' = [ask EXCEPT ![e] = "queue"]
          /\ UNCHANGED <<seen, reply>>
       \/ RequestFails(e) /\ UNCHANGED catalog
    /\ UNCHANGED <<scope, stocked, jobVars>>

(* Slip: an unavailable queue is taken for a queued job.                   *)
QueueIgnoresErrors(e) ==
    /\ ask[e] = "queue"
    /\ seen' = [seen EXCEPT ![e] = catalog]
    /\ ask' = [ask EXCEPT ![e] = "settle"]
    /\ \/ job' = [job EXCEPT ![e] = "queued"]
       \/ "queue" \in Faults /\ UNCHANGED job
    /\ UNCHANGED <<rowVars, reply, tries, held, fetchScope, found>>

(* The row is refreshed and the job enqueued.  The queue may fail before   *)
(* or after it took the job (the pool is closed after the enqueue).        *)
Queue(e) ==
    /\ ask[e] = "queue"
    /\ \/ /\ seen' = [seen EXCEPT ![e] = catalog]
          /\ \/ job' = [job EXCEPT ![e] = "queued"] /\ ask' = [ask EXCEPT ![e] = "settle"]
             \/ /\ "queue" \in Faults
                /\ ask' = [ask EXCEPT ![e] = "giveup"]
                /\ UNCHANGED job \/ job' = [job EXCEPT ![e] = "queued"]
          /\ UNCHANGED reply
       \/ RequestFails(e) /\ UNCHANGED job
    /\ UNCHANGED <<rowVars, tries, held, fetchScope, found>>

(* AcquireQueueError: the catalog is failed, whatever the row says by now. *)
GiveUp(e) == ask[e] = "giveup" /\ SaveAndAnswer(e, FailedCatalog, "failed")

(* Slip: whatever status the request holds is kept and answered.           *)
SettleAsItIs(e) ==
    /\ ask[e] = "settle"
    /\ SaveAndAnswer(e, [seen[e] EXCEPT !.jobId = e], seen[e].status)

(* The second get returns the copy the request already holds; its status   *)
(* decides what is written over the row.                                   *)
Settle(e) ==
    LET status == IF seen[e].status \in Reported THEN seen[e].status ELSE "pending" IN
    /\ ask[e] = "settle"
    /\ SaveAndAnswer(e, [status |-> status, places |-> seen[e].places, jobId |-> e], status)

-----------------------------------------------------------------------------
(* acquire, run by an arq worker.                                          *)

(* Job j suspends again, with the row's copy of its identity map.          *)
Suspend(j, at, copy) ==
    /\ job' = [job EXCEPT ![j] = at]
    /\ held' = [held EXCEPT ![j] = copy]
    /\ UNCHANGED fetchScope

(* Job j's DB session and locals go.                                       *)
Leave(j, end) ==
    /\ job' = [job EXCEPT ![j] = end]
    /\ held' = [held EXCEPT ![j] = Empty]
    /\ fetchScope' = [fetchScope EXCEPT ![j] = Nowhere]

(* sessions.save raises and rolls back; mark_failed will reload the row.   *)
SaveRaises(j) ==
    /\ "db" \in Faults
    /\ Suspend(j, "remark", held[j])
    /\ UNCHANGED catalog

(* The database fails upsert_many, or mark_failed itself: the transaction  *)
(* is not rolled back, and nothing is marked.                              *)
Breaks(j) ==
    /\ "db" \in Faults
    /\ Leave(j, "broken")
    /\ UNCHANGED <<catalog, stocked>>

(* Slip: the worker trusts the check made when the job was enqueued.       *)
PickUpUnchecked(j) ==
    /\ job[j] = "queued" /\ tries[j] < MaxTries
    /\ tries' = [tries EXCEPT ![j] = @ + 1]
    /\ held' = [held EXCEPT ![j] = catalog]
    /\ fetchScope' = [fetchScope EXCEPT ![j] = scope]
    /\ job' = [job EXCEPT ![j] = "mark"]
    /\ UNCHANGED <<rowVars, askVars, found>>

(* Slip: arq's limit on picking a job up is left out.                      *)
PickUpAlways(j) ==
    /\ job[j] = "queued"
    /\ tries' = [tries EXCEPT ![j] = IF @ < MaxTries THEN @ + 1 ELSE @]
    /\ held' = [held EXCEPT ![j] = catalog]
    /\ fetchScope' = [fetchScope EXCEPT ![j] = scope]
    /\ job' = [job EXCEPT ![j] = IF scope \in Allowed THEN "mark" ELSE "refuse"]
    /\ UNCHANGED <<rowVars, askVars, found>>

(* A worker picks the job up and loads the session row in a new DB session.*)
PickUp(j) ==
    /\ job[j] = "queued" /\ tries[j] < MaxTries
    /\ tries' = [tries EXCEPT ![j] = @ + 1]
    /\ held' = [held EXCEPT ![j] = catalog]
    /\ fetchScope' = [fetchScope EXCEPT ![j] = scope]
    /\ job' = [job EXCEPT ![j] = IF scope \in Allowed THEN "mark" ELSE "refuse"]
    /\ UNCHANGED <<rowVars, askVars, found>>

(* arq drops a job that was picked up max_tries times, without calling it. *)
Drop(j) ==
    /\ job[j] = "queued" /\ tries[j] = MaxTries
    /\ Leave(j, "dropped")
    /\ UNCHANGED <<rowVars, askVars, tries, found>>

(* _write_catalog: it may raise before its commit or, refreshing, after it.*)
WriteCatalog(j, status, places) ==
    LET end == IF status = "failed" THEN "failed" ELSE "returned" IN
    /\ \/ /\ Update(held[j], [status |-> status, places |-> places, jobId |-> held[j].jobId])
          /\ Leave(j, end) \/ ("db" \in Faults /\ Suspend(j, "remark", held[j]))
       \/ SaveRaises(j)
    /\ found' = [found EXCEPT ![j] = "nothing"]
    /\ UNCHANGED <<scope, stocked, askVars, tries>>

(* The scope read by the job does not allow acquiring.                     *)
JobRefuses(j) ==
    /\ job[j] = "refuse"
    /\ WriteCatalog(j, "failed", Zero)

(* "running" is committed; the rest is what the job loaded.                *)
Mark(j) ==
    /\ job[j] = "mark"
    /\ \/ /\ Update(held[j], [held[j] EXCEPT !.status = "running"])
          /\ Suspend(j, "fetch", held[j])
       \/ SaveRaises(j)
    /\ UNCHANGED <<scope, stocked, askVars, tries, found>>

(* The row is refreshed; the providers are asked while nothing else of the *)
(* worker runs, and the result filtered by country.  If that raises, the   *)
(* DB session has not failed: mark_failed gets the copy it holds.          *)
Fetch(j) ==
    /\ job[j] = "fetch"
    /\ \/ \E f \in Found :
            /\ found' = [found EXCEPT ![j] = f]
            /\ Suspend(j, IF f \in {"good", "partial"} THEN "upsert" ELSE "write", catalog)
            /\ UNCHANGED catalog
       \/ Suspend(j, "fail", catalog) /\ UNCHANGED <<catalog, found>>
       \/ SaveRaises(j) /\ UNCHANGED found
    /\ UNCHANGED <<scope, stocked, askVars, tries>>

(* Slip: the places are counted and never committed.                       *)
UpsertWithoutCommit(j) ==
    /\ job[j] = "upsert"
    /\ \/ \E at \in {"write", "fail"} : Suspend(j, at, held[j]) /\ UNCHANGED <<catalog, stocked>>
       \/ Breaks(j)
    /\ UNCHANGED <<scope, askVars, tries, found>>

(* upsert_many commits the places, or raises before it reaches the         *)
(* database, which leaves the DB session and its copy usable.              *)
Upsert(j) ==
    /\ job[j] = "upsert"
    /\ \/ /\ stocked' = stocked \cup {fetchScope[j]}
          /\ Suspend(j, "write", held[j])
          /\ UNCHANGED catalog
       \/ Suspend(j, "fail", held[j]) /\ UNCHANGED <<catalog, stocked>>
       \/ Breaks(j)
    /\ UNCHANGED <<scope, askVars, tries, found>>

ReportedAs == [good |-> "ready", partial |-> "partial", thin |-> "partial", down |-> "failed"]

Counted(j) == IF found[j] \in {"good", "partial"} THEN [count |-> "some", of |-> fetchScope[j]] ELSE Zero

Write(j) == job[j] = "write" /\ WriteCatalog(j, ReportedAs[found[j]], Counted(j))

(* Slip: what acquire raises is logged and not reported.                   *)
MarkReloadAndLeave(j) ==
    /\ job[j] = "remark"
    /\ Leave(j, "failed")
    /\ UNCHANGED <<rowVars, askVars, tries, found>>

(* mark_failed reloads the row and keeps its count and job id.             *)
MarkReload(j) ==
    /\ job[j] = "remark"
    /\ \/ Suspend(j, "fail", catalog) /\ UNCHANGED <<catalog, stocked>>
       \/ Breaks(j)
    /\ UNCHANGED <<scope, askVars, tries, found>>

MarkFailed(j) ==
    /\ job[j] = "fail"
    /\ \/ /\ Update(held[j], [held[j] EXCEPT !.status = "failed",
                                              !.places = IF @.count = "none" THEN Zero ELSE @])
          /\ Leave(j, "failed")
          /\ UNCHANGED stocked
       \/ Breaks(j)
    /\ UNCHANGED <<scope, askVars, tries, found>>

-----------------------------------------------------------------------------
(* The surroundings.                                                       *)

(* job_timeout cancels the job; a CancelledError passes `except Exception`.*)
Timeout(j) ==
    /\ "timeout" \in Faults
    /\ job[j] \in AtWork
    /\ Leave(j, "cancelled")
    /\ found' = [found EXCEPT ![j] = "nothing"]
    /\ UNCHANGED <<rowVars, askVars, tries>>

(* The worker stops or dies: its jobs are picked up again later.           *)
RestartWorker ==
    /\ "restart" \in Faults
    /\ job' = [j \in Requests |-> IF job[j] \in AtWork THEN "queued" ELSE job[j]]
    /\ held' = [j \in Requests |-> Empty]
    /\ fetchScope' = [j \in Requests |-> Nowhere]
    /\ found' = [j \in Requests |-> "nothing"]
    /\ UNCHANGED <<rowVars, askVars, tries>>

(* The API process dies with the requests it is handling.                  *)
RestartApi ==
    /\ "restart" \in Faults
    /\ ask' = [e \in Requests |-> IF ask[e] \in AskLive THEN "error" ELSE ask[e]]
    /\ seen' = [e \in Requests |-> Empty]
    /\ UNCHANGED <<rowVars, reply, jobVars>>

(* The chat confirms another scope; it writes no catalog.                  *)
Rescope ==
    /\ "rescope" \in Faults
    /\ scope' \in Scopes \ {scope}
    /\ UNCHANGED <<catalog, stocked, askVars, jobVars>>

Request(e) == Load(e) \/ Refuse(e) \/ Pend(e) \/ Queue(e) \/ GiveUp(e) \/ Settle(e)
Work(j) ==
    \/ PickUp(j) \/ Drop(j) \/ JobRefuses(j) \/ Mark(j) \/ Fetch(j) \/ Upsert(j)
    \/ Write(j) \/ MarkReload(j) \/ MarkFailed(j)

Next ==
    \/ \E e \in Requests : Request(e) \/ Work(e) \/ Timeout(e)
    \/ RestartWorker \/ RestartApi \/ Rescope

Spec == Init /\ [][Next]_vars

(* Workers and requests that have begun go on.                             *)
FairSpec == Spec /\ \A e \in Requests : WF_vars(Work(e)) /\ WF_vars(Request(e))

-----------------------------------------------------------------------------
(* A positive place count, ready or not, counts places that are stored:    *)
(* success is never claimed with invented places, however requests and     *)
(* jobs overwrite one another's reports.                                   *)
ReadyIsBacked ==
    /\ catalog.places.count = "some" => catalog.places.of \in stocked
    /\ catalog.status = "ready" => catalog.places.count = "some"

(* Providers are asked only for a scope that allows it, also when the chat *)
(* has replaced the scope since the job was enqueued.                      *)
NoForeignFetch ==
    \A j \in Requests : job[j] \in {"upsert", "write"} => fetchScope[j] \in Allowed

(* "running" in the row has a job behind it: one at work, one waiting to   *)
(* be picked up again, or one that was cut off where nothing is marked.  A *)
(* job that returns, or raises and is marked, leaves no "running" behind.  *)
RunningHasAJob ==
    catalog.status = "running" =>
        \E j \in Requests : \/ job[j] \in (AtWork \ {"mark", "refuse"}) \cup Lost
                            \/ job[j] = "queued" /\ tries[j] > 0
                            \/ job[j] \in {"mark", "refuse"} /\ tries[j] > 1

(* A request that answers "pending" has put a job in the queue.            *)
PendingWasQueued == \A e \in Requests : reply[e] = "pending" => job[e] # "none"

(* Retries are bounded: however often the worker restarts, a queued job    *)
(* ends.                                                                   *)
JobsEnd == \A j \in Requests : job[j] = "queued" ~> job[j] \in Ended

(* The most steps left to a job that is at an await after k tries: the     *)
(* tries arq still grants it, eight steps each, and the awaits of this one.*)
Awaits == [refuse |-> 4, mark |-> 7, fetch |-> 6, upsert |-> 5, write |-> 4, remark |-> 3,
           fail |-> 2, queued |-> 1]

StepsLeft(at, k) ==
    CASE at = "none"    -> 8 * MaxTries + 2
      [] at \in Ended   -> 0
      [] OTHER          -> 8 * (MaxTries - k) + Awaits[at]

(* Whatever moves a job, its own step, a failing database, the timeout or  *)
(* a restart of the worker that puts it back in the queue, brings its end  *)
(* nearer: no sequence of retries goes on for ever, and no request queues  *)
(* a job that has ended again.                                             *)
JobsWindDown ==
    [][\A j \in Requests :
        job'[j] # job[j] => StepsLeft(job'[j], tries'[j]) < StepsLeft(job[j], tries[j])]_vars

Quiet == \A e \in Requests :
    /\ ask[e] \in {"answered", "error"}
    /\ job[e] \in {"none"} \cup Ended

-----------------------------------------------------------------------------
(* What the documents say of the catalog and the code does not do.         *)

(* catalog-acquire-retrieve spec, "Bounded background acquire": success    *)
(* updates the session's readiness to a ready or partial outcome.          *)
SuccessIsVisible ==
    Quiet /\ (\A j \in Requests : job[j] = "returned") => catalog.status \in {"ready", "partial"}
=============================================================================
