------------------------ MODULE CatalogAcquireProofs ------------------------
(***************************************************************************)
(* Theorems about CatalogAcquire for every number of requests, every set   *)
(* of scopes, every bound on the retries and every fault.                  *)
(***************************************************************************)
EXTENDS CatalogAcquire, TLAPS

USE ConstantsAssumption

-----------------------------------------------------------------------------
(* Types.                                                                  *)

LEMMA RecordTypes ==
    /\ Empty \in Catalog
    /\ FailedCatalog \in Catalog
    /\ Zero \in Places
    /\ \A x \in Scopes : [count |-> "some", of |-> x] \in Places
    /\ \A c \in Catalog : c.status \in Status /\ c.places \in Places
BY DEF Empty, FailedCatalog, Zero, Unknown, Places, Catalog, Status, Reported

(* What the last save of a request, and a step between two of its awaits,  *)
(* do to the types.                                                        *)
LEMMA SaveAndAnswerType ==
    ASSUME RowTypeOK, AskTypeOK, NEW e \in Requests, NEW written \in Catalog,
           NEW status \in {"pending"} \cup Reported, SaveAndAnswer(e, written, status)
    PROVE  RowTypeOK' /\ AskTypeOK' /\ UNCHANGED jobVars
<1>1. catalog' \in Catalog /\ UNCHANGED <<scope, stocked, jobVars>>
    BY DEF Update, SaveAndAnswer, RowTypeOK
<1>2. Answer(e, status) \/ RequestFails(e)
    BY DEF SaveAndAnswer
<1>3. CASE Answer(e, status)
    BY <1>1, <1>3, RecordTypes DEF RowTypeOK, AskTypeOK, Answer
<1>4. CASE RequestFails(e)
    BY <1>1, <1>4, RecordTypes DEF RowTypeOK, AskTypeOK, RequestFails
<1>5. QED
    BY <1>2, <1>3, <1>4

(* A step of a request keeps the types.                                    *)
LEMMA RequestType ==
    ASSUME TypeOK, NEW e \in Requests, Request(e)
    PROVE  TypeOK'
<1>1. RowTypeOK /\ AskTypeOK /\ JobTypeOK
    BY DEF TypeOK
<1>2. seen[e] \in Catalog
    BY <1>1 DEF AskTypeOK
<1>3. RowTypeOK' /\ AskTypeOK'
    <2>1. CASE Load(e)
        BY <1>1, <2>1, RecordTypes DEF Load, Answer, AskLive, Reported, rowVars, RowTypeOK, AskTypeOK
    <2>2. CASE Refuse(e)
        BY <1>1, <2>2, SaveAndAnswerType, RecordTypes DEF Refuse, Reported
    <2>3. CASE Pend(e)
        <3>1. [status |-> "pending", places |-> seen[e].places, jobId |-> NoJob] \in Catalog
            BY <1>2, RecordTypes DEF Catalog, Status
        <3>2. RowTypeOK'
            BY <1>1, <2>3, <3>1 DEF Update, Pend, RowTypeOK
        <3>3. AskTypeOK'
            BY <1>1, <2>3, RecordTypes DEF Pend, RequestFails, AskLive, AskTypeOK
        <3>4. QED
            BY <3>2, <3>3
    <2>4. CASE Queue(e)
        BY <1>1, <2>4, RecordTypes DEF Queue, RequestFails, AskLive, rowVars, RowTypeOK, AskTypeOK
    <2>5. CASE GiveUp(e)
        BY <1>1, <2>5, SaveAndAnswerType, RecordTypes DEF GiveUp, Reported
    <2>6. CASE Settle(e)
        <3> DEFINE status == IF seen[e].status \in Reported THEN seen[e].status ELSE "pending"
        <3>1. [status |-> status, places |-> seen[e].places, jobId |-> e] \in Catalog
            BY <1>2, RecordTypes DEF Catalog, Status
        <3>2. QED
            BY <1>1, <2>6, <3>1, SaveAndAnswerType DEF Settle
    <2>7. QED
        BY <2>1, <2>2, <2>3, <2>4, <2>5, <2>6 DEF Request
<1>4. UNCHANGED <<tries, held, fetchScope, found>>
    BY DEF Request, Load, Refuse, Pend, Queue, GiveUp, Settle, SaveAndAnswer, jobVars
<1>5. job' = job \/ job' = [job EXCEPT ![e] = "queued"]
    BY DEF Request, Load, Refuse, Pend, Queue, GiveUp, Settle, SaveAndAnswer, jobVars
<1>6. QED
    BY <1>1, <1>3, <1>4, <1>5 DEF TypeOK, JobTypeOK, AtWork

(* A job that suspends or leaves.                                          *)
LEMMA SuspendType ==
    ASSUME TypeOK, NEW j \in Requests, NEW at \in AtWork, NEW copy \in Catalog,
           job[j] \in AtWork, Suspend(j, at, copy), UNCHANGED tries,
           \/ UNCHANGED found /\ at \notin {"upsert", "write"}
           \/ \E f \in Found : found' = [found EXCEPT ![j] = f]
           \/ found' = [found EXCEPT ![j] = "nothing"] /\ at \notin {"upsert", "write"}
           \/ UNCHANGED found /\ found[j] \in Found
    PROVE  /\ JobTypeOK'
           /\ \A i \in Requests : job'[i] \in AtWork => fetchScope'[i] \in Scopes
           /\ \A i \in Requests : job'[i] \in {"upsert", "write"} => found'[i] \in Found
BY DEF TypeOK, JobTypeOK, Suspend

LEMMA LeaveType ==
    ASSUME TypeOK, NEW j \in Requests, NEW end \in Ended, Leave(j, end), UNCHANGED tries,
           UNCHANGED found \/ found' = [found EXCEPT ![j] = "nothing"]
    PROVE  /\ JobTypeOK'
           /\ \A i \in Requests : job'[i] \in AtWork => fetchScope'[i] \in Scopes
           /\ \A i \in Requests : job'[i] \in {"upsert", "write"} => found'[i] \in Found
BY RecordTypes DEF TypeOK, JobTypeOK, Leave, Ended, AtWork, Lost

(* _write_catalog keeps the types.                                         *)
LEMMA WriteCatalogType ==
    ASSUME TypeOK, NEW j \in Requests, job[j] \in AtWork,
           NEW status \in Reported, NEW places \in Places, WriteCatalog(j, status, places)
    PROVE  TypeOK'
<1>1. held[j] \in Catalog
    BY DEF TypeOK, JobTypeOK
<1>2. [status |-> status, places |-> places, jobId |-> held[j].jobId] \in Catalog
    BY <1>1 DEF Catalog, Status
<1>3. RowTypeOK'
    BY <1>2 DEF Update, WriteCatalog, SaveRaises, TypeOK, RowTypeOK
<1>4. AskTypeOK'
    BY DEF WriteCatalog, askVars, TypeOK, AskTypeOK
<1>5. UNCHANGED tries /\ found' = [found EXCEPT ![j] = "nothing"]
    BY DEF WriteCatalog
<1>6. CASE Suspend(j, "remark", held[j])
    BY <1>1, <1>3, <1>4, <1>5, <1>6, SuspendType DEF TypeOK, AtWork
<1>7. CASE Leave(j, IF status = "failed" THEN "failed" ELSE "returned")
    BY <1>3, <1>4, <1>5, <1>7, LeaveType DEF TypeOK, Ended
<1>8. QED
    BY <1>6, <1>7 DEF WriteCatalog, SaveRaises

(* A step of a job keeps the types.                                        *)
LEMMA WorkType ==
    ASSUME TypeOK, NEW j \in Requests, Work(j) \/ Timeout(j)
    PROVE  TypeOK'
<1>1. /\ RowTypeOK /\ AskTypeOK /\ JobTypeOK
      /\ held[j] \in Catalog /\ catalog \in Catalog /\ scope \in Scopes
    BY DEF TypeOK, RowTypeOK, JobTypeOK
<1>2. UNCHANGED askVars => AskTypeOK'
    BY <1>1 DEF askVars, AskTypeOK
<1>3. UNCHANGED rowVars => RowTypeOK'
    BY <1>1 DEF rowVars, RowTypeOK
<1>4. CASE PickUp(j)
    <2>1. tries[j] + 1 \in 0..MaxTries
        BY <1>1, <1>4 DEF PickUp, JobTypeOK
    <2>2. job' = [job EXCEPT ![j] = IF scope \in Allowed THEN "mark" ELSE "refuse"]
        BY <1>4 DEF PickUp
    <2>3. JobTypeOK'
        BY <1>1, <1>4, <2>1, <2>2 DEF PickUp, JobTypeOK, AtWork
    <2>4. \A i \in Requests : /\ job'[i] \in AtWork => fetchScope'[i] \in Scopes
                              /\ job'[i] \in {"upsert", "write"} => found'[i] \in Found
        BY <1>1, <1>4, <2>2 DEF PickUp, TypeOK, JobTypeOK, AtWork
    <2>5. QED
        BY <1>2, <1>3, <1>4, <2>3, <2>4 DEF PickUp, TypeOK
<1>5. CASE Drop(j)
    BY <1>2, <1>3, <1>5, LeaveType DEF Drop, TypeOK, Ended, Lost
<1>6. CASE JobRefuses(j)
    BY <1>6, WriteCatalogType, RecordTypes DEF JobRefuses, AtWork, Reported
<1>7. CASE Mark(j)
    <2>1. [held[j] EXCEPT !.status = "running"] \in Catalog
        BY <1>1 DEF Catalog, Status
    <2>2. RowTypeOK'
        BY <1>1, <1>7, <2>1 DEF Update, Mark, SaveRaises, RowTypeOK
    <2>3. job[j] \in AtWork /\ UNCHANGED <<askVars, tries, found>>
        BY <1>7 DEF Mark, AtWork
    <2>4. Suspend(j, "fetch", held[j]) \/ Suspend(j, "remark", held[j])
        BY <1>7 DEF Mark, SaveRaises
    <2>5. QED
        BY <1>1, <1>2, <2>2, <2>3, <2>4, SuspendType DEF TypeOK, AtWork
<1>8. CASE Fetch(j)
    <2>1. RowTypeOK' /\ job[j] \in AtWork /\ UNCHANGED <<askVars, tries>>
        BY <1>1, <1>8 DEF Fetch, SaveRaises, Suspend, RowTypeOK, AtWork
    <2>2. \/ Suspend(j, "remark", held[j]) /\ UNCHANGED found
          \/ Suspend(j, "fail", catalog) /\ UNCHANGED found
          \/ \E f \in Found : /\ found' = [found EXCEPT ![j] = f]
                              /\ Suspend(j, IF f \in {"good", "partial"} THEN "upsert" ELSE "write", catalog)
        BY <1>8 DEF Fetch, SaveRaises
    <2>3. QED
        BY <1>1, <1>2, <2>1, <2>2, SuspendType DEF TypeOK, AtWork
<1>9. CASE Upsert(j)
    <2>1. fetchScope[j] \in Scopes /\ found[j] \in Found
        BY <1>9 DEF Upsert, TypeOK, AtWork
    <2>2. RowTypeOK' /\ job[j] \in AtWork /\ UNCHANGED <<askVars, tries, found>>
        BY <1>1, <1>9, <2>1 DEF Upsert, Breaks, RowTypeOK, AtWork
    <2>3. Suspend(j, "write", held[j]) \/ Suspend(j, "fail", held[j]) \/ Leave(j, "broken")
        BY <1>9 DEF Upsert, Breaks
    <2>4. QED
        BY <1>1, <1>2, <2>1, <2>2, <2>3, SuspendType, LeaveType DEF TypeOK, AtWork, Ended, Lost
<1>10. CASE Write(j)
    <2>1. found[j] \in Found /\ job[j] \in AtWork /\ fetchScope[j] \in Scopes
        BY <1>10 DEF Write, TypeOK, AtWork
    <2>2. ReportedAs[found[j]] \in Reported
        BY <2>1 DEF ReportedAs, Reported, Found
    <2>3. Counted(j) \in Places
        BY <2>1, RecordTypes DEF Counted
    <2>4. QED
        BY <1>10, <2>1, <2>2, <2>3, WriteCatalogType DEF Write
<1>11. CASE MarkReload(j)
    <2>1. RowTypeOK' /\ job[j] \in AtWork /\ UNCHANGED <<askVars, tries, found>>
        BY <1>1, <1>11 DEF MarkReload, Breaks, RowTypeOK, AtWork
    <2>2. Suspend(j, "fail", catalog) \/ Leave(j, "broken")
        BY <1>11 DEF MarkReload, Breaks
    <2>3. QED
        BY <1>1, <1>2, <2>1, <2>2, SuspendType, LeaveType DEF TypeOK, AtWork, Ended, Lost
<1>12. CASE MarkFailed(j)
    <2>1. [held[j] EXCEPT !.status = "failed", !.places = IF @.count = "none" THEN Zero ELSE @] \in Catalog
        BY <1>1, RecordTypes DEF Catalog, Status, Reported
    <2>2. RowTypeOK' /\ job[j] \in AtWork /\ UNCHANGED <<askVars, tries, found>>
        BY <1>1, <1>12, <2>1 DEF Update, MarkFailed, Breaks, RowTypeOK, AtWork
    <2>3. Leave(j, "failed") \/ Leave(j, "broken")
        BY <1>12 DEF MarkFailed, Breaks
    <2>4. QED
        BY <1>1, <1>2, <2>2, <2>3, LeaveType DEF TypeOK, Ended, Lost
<1>13. CASE Timeout(j)
    BY <1>2, <1>3, <1>13, LeaveType DEF Timeout, TypeOK, Ended, Lost
<1>14. QED
    BY <1>4, <1>5, <1>6, <1>7, <1>8, <1>9, <1>10, <1>11, <1>12, <1>13 DEF Work

(* A restart or a new scope keeps the types.                               *)
LEMMA SurroundingsType ==
    ASSUME TypeOK, RestartWorker \/ RestartApi \/ Rescope
    PROVE  TypeOK'
<1>1. CASE RestartWorker
    BY <1>1, RecordTypes
       DEF RestartWorker, TypeOK, RowTypeOK, AskTypeOK, JobTypeOK, rowVars, askVars, AtWork
<1>2. CASE RestartApi
    BY <1>2, RecordTypes
       DEF RestartApi, TypeOK, RowTypeOK, AskTypeOK, JobTypeOK, rowVars, jobVars, AskLive
<1>3. CASE Rescope
    BY <1>3 DEF Rescope, TypeOK, RowTypeOK, AskTypeOK, JobTypeOK, askVars, jobVars
<1>4. QED
    BY <1>1, <1>2, <1>3

(* Every variable keeps its type, whatever fails.                          *)
THEOREM TypeCorrect == Spec => []TypeOK
<1>1. Init => TypeOK
    BY RecordTypes DEF Init, TypeOK, RowTypeOK, AskTypeOK, JobTypeOK, AtWork
<1>2. TypeOK /\ [Next]_vars => TypeOK'
    <2>1. TypeOK /\ UNCHANGED vars => TypeOK'
        BY DEF vars, rowVars, askVars, jobVars, TypeOK, RowTypeOK, AskTypeOK, JobTypeOK
    <2>2. TypeOK /\ Next => TypeOK'
        BY RequestType, WorkType, SurroundingsType DEF Next
    <2>3. QED
        BY <2>1, <2>2
<1>3. QED
    BY <1>1, <1>2, PTL DEF Spec

-----------------------------------------------------------------------------
(* Success is never claimed without places.                                *)

(* What a copy of the catalog column, wherever it is kept, may claim.      *)
Backed(c) ==
    /\ c.places.count = "some" => c.places.of \in stocked
    /\ c.status = "ready" => c.places.count = "some"

CopiesBacked == \A e \in Requests : Backed(seen[e]) /\ Backed(held[e])

StockedBeforeWrite ==
    \A j \in Requests :
        job[j] = "write" /\ found[j] \in {"good", "partial"} => fetchScope[j] \in stocked

LEMMA FixedBacked ==
    Backed(Empty) /\ Backed(FailedCatalog)
BY DEF Backed, Empty, FailedCatalog, Unknown, Zero

(* Requests write and keep nothing that is not backed.                     *)
LEMMA RequestBacked ==
    ASSUME TypeOK, ReadyIsBacked, CopiesBacked, NEW e \in Requests, Request(e)
    PROVE  ReadyIsBacked' /\ CopiesBacked'
<1>1. Backed(catalog) /\ Backed(seen[e]) /\ UNCHANGED <<stocked, held>>
    BY DEF ReadyIsBacked, CopiesBacked, Backed, Request, Load, Refuse, Pend, Queue, GiveUp, Settle,
           SaveAndAnswer, jobVars, rowVars
<1>2. \/ UNCHANGED catalog
      \/ catalog' = FailedCatalog
      \/ \E id \in Requests \cup {NoJob}, status \in {"pending", seen[e].status} :
            catalog' = [status |-> status, places |-> seen[e].places, jobId |-> id]
    BY DEF Update, Request, Load, Refuse, Pend, Queue, GiveUp, Settle, SaveAndAnswer, rowVars
<1>3. \/ UNCHANGED seen
      \/ seen' = [seen EXCEPT ![e] = Empty]
      \/ seen' = [seen EXCEPT ![e] = catalog]
    BY DEF Request, Load, Refuse, Pend, Queue, GiveUp, Settle, SaveAndAnswer, Answer, RequestFails
<1>4. ReadyIsBacked'
    BY <1>1, <1>2, FixedBacked DEF Backed, ReadyIsBacked
<1>5. CopiesBacked'
    BY <1>1, <1>3, FixedBacked DEF CopiesBacked, Backed, TypeOK, AskTypeOK
<1>6. QED
    BY <1>4, <1>5

(* Jobs commit the places before they count them.                          *)
LEMMA WorkBacked ==
    ASSUME TypeOK, ReadyIsBacked, CopiesBacked, StockedBeforeWrite,
           NEW j \in Requests, Work(j) \/ Timeout(j)
    PROVE  ReadyIsBacked' /\ CopiesBacked' /\ StockedBeforeWrite'
<1>1. Backed(catalog) /\ Backed(held[j])
    BY DEF ReadyIsBacked, CopiesBacked, Backed
<1>2. UNCHANGED seen /\ stocked \subseteq stocked'
    BY DEF Work, PickUp, Drop, JobRefuses, Mark, Fetch, Upsert, Write, MarkReload, MarkFailed, Timeout,
           WriteCatalog, Breaks, askVars, rowVars
<1>3. ASSUME NEW c, Backed(c)
      PROVE  Backed(c)'
    BY <1>2, <1>3 DEF Backed
<1>4. ReadyIsBacked'
    <2>1. CASE UNCHANGED catalog
        BY <1>2, <2>1 DEF ReadyIsBacked
    <2>2. CASE JobRefuses(j)
        BY <2>1, <2>2 DEF Update, JobRefuses, WriteCatalog, SaveRaises, ReadyIsBacked, Zero
    <2>3. CASE Mark(j)
        BY <1>1, <2>1, <2>3 DEF Update, Mark, SaveRaises, ReadyIsBacked, Backed, TypeOK, JobTypeOK, Catalog
    <2>4. CASE Write(j)
        <3>1. CASE found[j] \in {"good", "partial"}
            <4>1. fetchScope[j] \in stocked
                BY <2>4, <3>1 DEF Write, StockedBeforeWrite
            <4>2. QED
                BY <2>1, <2>4, <3>1, <4>1, <1>2
                   DEF Update, Write, WriteCatalog, SaveRaises, ReadyIsBacked, Counted
        <3>2. CASE found[j] \in {"thin", "down"}
            BY <2>1, <2>4, <3>2
               DEF Update, Write, WriteCatalog, SaveRaises, ReadyIsBacked, Counted, ReportedAs, Zero
        <3>3. QED
            BY <2>4, <3>1, <3>2 DEF Write, TypeOK, Found
    <2>5. CASE MarkFailed(j)
        <3> DEFINE failed == [held[j] EXCEPT !.status = "failed",
                                              !.places = IF @.count = "none" THEN Zero ELSE @]
        <3>1. held[j] \in Catalog
            BY DEF TypeOK, JobTypeOK
        <3>2. /\ failed.status = "failed"
              /\ failed.places = IF held[j].places.count = "none" THEN Zero ELSE held[j].places
            BY <3>1 DEF Catalog
        <3>3. UNCHANGED catalog \/ catalog' = failed
            BY <2>5 DEF Update, MarkFailed, Breaks
        <3>4. \/ UNCHANGED catalog
              \/ catalog'.status = "failed" /\ catalog'.places \in {Zero, held[j].places}
            BY <3>2, <3>3
        <3> HIDE DEF failed
        <3>5. QED
            BY <1>1, <1>2, <2>1, <3>4 DEF ReadyIsBacked, Backed, Zero
    <2>6. QED
        BY <2>1, <2>2, <2>3, <2>4, <2>5
           DEF Work, PickUp, Drop, Fetch, Upsert, MarkReload, Timeout, SaveRaises, Breaks, rowVars
<1>5. CopiesBacked'
    <2>1. held' \in [Requests -> {held[i] : i \in Requests} \cup {Empty, catalog}]
        BY DEF Work, PickUp, Drop, JobRefuses, Mark, Fetch, Upsert, Write, MarkReload, MarkFailed, Timeout,
               WriteCatalog, SaveRaises, Breaks, Suspend, Leave, TypeOK, JobTypeOK
    <2>2. QED
        BY <1>1, <1>2, <1>3, <2>1, FixedBacked DEF CopiesBacked
<1>6. StockedBeforeWrite'
    <2>1. \A i \in Requests \ {j} :
             job'[i] = job[i] /\ found'[i] = found[i] /\ fetchScope'[i] = fetchScope[i]
        BY DEF Work, PickUp, Drop, JobRefuses, Mark, Fetch, Upsert, Write, MarkReload, MarkFailed, Timeout,
               WriteCatalog, SaveRaises, Breaks, Suspend, Leave, TypeOK, JobTypeOK
    <2>2. job'[j] = "write" => \/ found'[j] \notin {"good", "partial"}
                               \/ fetchScope'[j] \in stocked'
        BY DEF Work, PickUp, Drop, JobRefuses, Mark, Fetch, Upsert, Write, MarkReload, MarkFailed, Timeout,
               WriteCatalog, SaveRaises, Breaks, Suspend, Leave, TypeOK, JobTypeOK
    <2>3. QED
        BY <1>2, <2>1, <2>2 DEF StockedBeforeWrite
<1>7. QED
    BY <1>4, <1>5, <1>6

(* Restarts drop copies and jobs; they and a new scope write no catalog.   *)
LEMMA SurroundingsBacked ==
    ASSUME ReadyIsBacked, CopiesBacked, StockedBeforeWrite, RestartWorker \/ RestartApi \/ Rescope
    PROVE  ReadyIsBacked' /\ CopiesBacked' /\ StockedBeforeWrite'
<1>1. UNCHANGED <<catalog, stocked>>
    BY DEF RestartWorker, RestartApi, Rescope, rowVars
<1>2. ReadyIsBacked'
    BY <1>1 DEF ReadyIsBacked
<1>3. CopiesBacked'
    BY <1>1, FixedBacked
       DEF RestartWorker, RestartApi, Rescope, CopiesBacked, Backed, askVars, jobVars
<1>4. StockedBeforeWrite'
    BY <1>1 DEF RestartWorker, RestartApi, Rescope, StockedBeforeWrite, jobVars, AtWork
<1>5. QED
    BY <1>2, <1>3, <1>4

(* Success is never claimed with places that are not stored, whatever      *)
(* requests and jobs overwrite: every copy of the column is backed, and a  *)
(* job that is about to count places has committed them.                   *)
THEOREM ReadyIsAlwaysBacked == Spec => []ReadyIsBacked
<1> DEFINE Inv == ReadyIsBacked /\ CopiesBacked /\ StockedBeforeWrite
<1>1. Init => Inv
    BY FixedBacked DEF Init, ReadyIsBacked, CopiesBacked, StockedBeforeWrite, Backed, Empty, Unknown
<1>2. TypeOK /\ Inv /\ [Next]_vars => Inv'
    <2>1. Inv /\ UNCHANGED vars => Inv'
        BY DEF vars, rowVars, askVars, jobVars, ReadyIsBacked, CopiesBacked, StockedBeforeWrite, Backed
    <2>2. ASSUME TypeOK, Inv, NEW e \in Requests, Request(e)
          PROVE  Inv'
        <3>1. UNCHANGED <<stocked, found, fetchScope>>
            BY <2>2 DEF Request, Load, Refuse, Pend, Queue, GiveUp, Settle, SaveAndAnswer, jobVars, rowVars
        <3>2. job' = job \/ job' = [job EXCEPT ![e] = "queued"]
            BY <2>2 DEF Request, Load, Refuse, Pend, Queue, GiveUp, Settle, SaveAndAnswer, jobVars
        <3>3. StockedBeforeWrite'
            BY <2>2, <3>1, <3>2 DEF StockedBeforeWrite, TypeOK, JobTypeOK
        <3>4. QED
            BY <2>2, <3>3, RequestBacked
    <2>3. TypeOK /\ Inv /\ Next => Inv'
        BY <2>2, WorkBacked, SurroundingsBacked DEF Next
    <2>4. QED
        BY <2>1, <2>3
<1>3. QED
    BY <1>1, <1>2, TypeCorrect, PTL DEF Spec

-----------------------------------------------------------------------------
(* Providers are asked only for an allowed scope.                          *)

CheckedBeforeMark ==
    \A j \in Requests : job[j] \in {"mark", "fetch", "upsert", "write"} => fetchScope[j] \in Allowed

(* A job goes on from a check it has made itself; whatever the chat makes  *)
(* of the session's scope meanwhile, the job works for the one it checked. *)
THEOREM ForeignScopesAreNotFetched == Spec => []NoForeignFetch
<1>1. Init => CheckedBeforeMark
    BY DEF Init, CheckedBeforeMark
<1>2. TypeOK /\ CheckedBeforeMark /\ [Next]_vars => CheckedBeforeMark'
    <2>1. CheckedBeforeMark /\ UNCHANGED vars => CheckedBeforeMark'
        BY DEF vars, jobVars, CheckedBeforeMark
    <2>2. ASSUME TypeOK, CheckedBeforeMark, NEW e \in Requests, Request(e)
          PROVE  CheckedBeforeMark'
        <3>1. UNCHANGED fetchScope /\ (job' = job \/ job' = [job EXCEPT ![e] = "queued"])
            BY <2>2 DEF Request, Load, Refuse, Pend, Queue, GiveUp, Settle, SaveAndAnswer, jobVars
        <3>2. QED
            BY <2>2, <3>1 DEF CheckedBeforeMark, TypeOK, JobTypeOK
    <2>3. ASSUME TypeOK, CheckedBeforeMark, NEW j \in Requests, Work(j) \/ Timeout(j)
          PROVE  CheckedBeforeMark'
        <3>1. CASE PickUp(j)
            BY <2>3, <3>1 DEF PickUp, CheckedBeforeMark, TypeOK, JobTypeOK
        <3>2. CASE Mark(j) \/ Fetch(j) \/ Upsert(j)
            BY <2>3, <3>2 DEF Mark, Fetch, Upsert, SaveRaises, Breaks, Suspend, Leave,
                              CheckedBeforeMark, TypeOK, JobTypeOK
        <3>3. CASE \/ Drop(j) \/ JobRefuses(j) \/ Write(j)
                   \/ MarkReload(j) \/ MarkFailed(j) \/ Timeout(j)
            <4>1. \E at \in {"remark", "fail", "returned"} \cup Ended : job' = [job EXCEPT ![j] = at]
                BY <3>3 DEF Drop, JobRefuses, Write, WriteCatalog, MarkReload, MarkFailed, Timeout,
                            SaveRaises, Breaks, Suspend, Leave, Ended, Lost
            <4>2. \A i \in Requests \ {j} : fetchScope'[i] = fetchScope[i]
                BY <2>3, <3>3 DEF Drop, JobRefuses, Write, WriteCatalog, MarkReload, MarkFailed, Timeout,
                            SaveRaises, Breaks, Suspend, Leave, TypeOK, JobTypeOK
            <4>3. QED
                BY <2>3, <4>1, <4>2 DEF CheckedBeforeMark, TypeOK, JobTypeOK, Ended, Lost
        <3>4. QED
            BY <2>3, <3>1, <3>2, <3>3 DEF Work
    <2>4. ASSUME TypeOK, CheckedBeforeMark, RestartWorker \/ RestartApi \/ Rescope
          PROVE  CheckedBeforeMark'
        BY <2>4 DEF RestartWorker, RestartApi, Rescope, jobVars, CheckedBeforeMark, AtWork
    <2>5. QED
        BY <2>1, <2>2, <2>3, <2>4 DEF Next
<1>3. CheckedBeforeMark => NoForeignFetch
    BY DEF CheckedBeforeMark, NoForeignFetch
<1>4. QED
    BY <1>1, <1>2, <1>3, TypeCorrect, PTL DEF Spec

-----------------------------------------------------------------------------
(* Requests and the jobs they enqueue.                                     *)

(* A request's job exists only once it has reached the queue, and then for *)
(* good; a job at work has been picked up.                                 *)
JobFollowsRequest ==
    \A e \in Requests :
        /\ ask[e] \in {"idle", "refuse", "pend", "queue"} => job[e] = "none"
        /\ ask[e] = "settle" => job[e] # "none"
        /\ job[e] \in AtWork => tries[e] > 0

LEMMA JobsOnlyMoveOn ==
    ASSUME TypeOK, NEW j \in Requests, Work(j) \/ Timeout(j)
    PROVE  /\ UNCHANGED <<ask, reply>>
           /\ job[j] # "none"
           /\ \E at \in AtWork \cup Ended : job' = [job EXCEPT ![j] = at]
           /\ tries' = tries \/ (tries' = [tries EXCEPT ![j] = @ + 1] /\ PickUp(j))
           /\ job[j] \in AtWork \/ PickUp(j) \/ (Drop(j) /\ job' = [job EXCEPT ![j] = "dropped"])
<1>1. UNCHANGED <<ask, reply>> /\ job[j] # "none"
    BY DEF Work, PickUp, Drop, JobRefuses, Mark, Fetch, Upsert, Write, MarkReload, MarkFailed, Timeout,
           WriteCatalog, askVars, AtWork
<1>2. \E at \in AtWork \cup Ended : job' = [job EXCEPT ![j] = at]
    BY DEF Work, PickUp, Drop, JobRefuses, Mark, Fetch, Upsert, Write, MarkReload, MarkFailed, Timeout,
           WriteCatalog, SaveRaises, Breaks, Suspend, Leave, AtWork, Ended, Lost
<1>3. tries' = tries \/ (tries' = [tries EXCEPT ![j] = @ + 1] /\ PickUp(j))
    BY DEF Work, PickUp, Drop, JobRefuses, Mark, Fetch, Upsert, Write, MarkReload, MarkFailed, Timeout,
           WriteCatalog
<1>4. job[j] \in AtWork \/ PickUp(j) \/ (Drop(j) /\ job' = [job EXCEPT ![j] = "dropped"])
    BY DEF Work, Drop, JobRefuses, Mark, Fetch, Upsert, Write, MarkReload, MarkFailed, Timeout, Leave, AtWork
<1>5. QED
    BY <1>1, <1>2, <1>3, <1>4

LEMMA JobFollowsRequestKept ==
    ASSUME TypeOK, JobFollowsRequest, PendingWasQueued, Next
    PROVE  JobFollowsRequest' /\ PendingWasQueued'
<1>1. ASSUME NEW e \in Requests, Request(e)
      PROVE  JobFollowsRequest' /\ PendingWasQueued'
    <2>1. tries' = tries
        BY <1>1 DEF Request, Load, Refuse, Pend, Queue, GiveUp, Settle, SaveAndAnswer, jobVars
    <2>2. CASE Queue(e)
        BY <1>1, <2>1, <2>2 DEF Queue, RequestFails, JobFollowsRequest, PendingWasQueued,
                                TypeOK, AskTypeOK, JobTypeOK, AtWork
    <2>3. CASE Load(e) \/ Pend(e)
        BY <1>1, <2>1, <2>3 DEF Load, Pend, Answer, RequestFails, jobVars, JobFollowsRequest,
                                PendingWasQueued, TypeOK, AskTypeOK, JobTypeOK
    <2>4. CASE Refuse(e) \/ GiveUp(e)
        BY <1>1, <2>1, <2>4 DEF Refuse, GiveUp, SaveAndAnswer, Answer, RequestFails, jobVars,
                                JobFollowsRequest, PendingWasQueued, TypeOK, AskTypeOK, JobTypeOK
    <2>5. CASE Settle(e)
        BY <1>1, <2>1, <2>5 DEF Settle, SaveAndAnswer, Answer, RequestFails, jobVars,
                                JobFollowsRequest, PendingWasQueued, TypeOK, AskTypeOK, JobTypeOK
    <2>6. QED
        BY <1>1, <2>2, <2>3, <2>4, <2>5 DEF Request
<1>2. ASSUME NEW j \in Requests, Work(j) \/ Timeout(j)
      PROVE  JobFollowsRequest' /\ PendingWasQueued'
    <2>1. PICK at \in AtWork \cup Ended : job' = [job EXCEPT ![j] = at]
        BY <1>2, JobsOnlyMoveOn
    <2>2. at # "none"
        BY DEF AtWork, Ended, Lost
    <2>3. UNCHANGED <<ask, reply>> /\ job[j] # "none"
        BY <1>2, JobsOnlyMoveOn
    <2>4. at \in AtWork => tries'[j] > 0
        <3>1. CASE PickUp(j)
            BY <3>1 DEF PickUp, TypeOK, JobTypeOK
        <3>2. CASE job[j] \in AtWork
            <4>1. tries[j] > 0 /\ tries \in [Requests -> 0..MaxTries]
                BY <3>2 DEF JobFollowsRequest, TypeOK, JobTypeOK
            <4>2. QED
                BY <1>2, <4>1, JobsOnlyMoveOn
        <3>3. CASE Drop(j) /\ job' = [job EXCEPT ![j] = "dropped"]
            BY <2>1, <3>3 DEF TypeOK, JobTypeOK, AtWork
        <3>4. QED
            BY <1>2, <3>1, <3>2, <3>3, JobsOnlyMoveOn
    <2>5. \A i \in Requests \ {j} : tries'[i] = tries[i]
        BY <1>2, JobsOnlyMoveOn DEF TypeOK, JobTypeOK
    <2>6. QED
        BY <2>1, <2>2, <2>3, <2>4, <2>5 DEF JobFollowsRequest, PendingWasQueued, TypeOK, JobTypeOK
<1>3. CASE RestartWorker \/ RestartApi \/ Rescope
    BY <1>3 DEF RestartWorker, RestartApi, Rescope, askVars, jobVars, rowVars, JobFollowsRequest,
                PendingWasQueued, TypeOK, AskTypeOK, AskLive, AtWork
<1>4. QED
    BY <1>1, <1>2, <1>3 DEF Next

(* An answer of "pending" is never given without a job in the queue.       *)
THEOREM PendingIsQueued == Spec => [](PendingWasQueued /\ JobFollowsRequest)
<1>1. Init => PendingWasQueued /\ JobFollowsRequest
    BY DEF Init, PendingWasQueued, JobFollowsRequest, AtWork
<1>2. TypeOK /\ PendingWasQueued /\ JobFollowsRequest /\ [Next]_vars
      => (PendingWasQueued /\ JobFollowsRequest)'
    <2>1. PendingWasQueued /\ JobFollowsRequest /\ UNCHANGED vars
          => (PendingWasQueued /\ JobFollowsRequest)'
        BY DEF vars, askVars, jobVars, PendingWasQueued, JobFollowsRequest
    <2>2. QED
        BY <2>1, JobFollowsRequestKept
<1>3. QED
    BY <1>1, <1>2, TypeCorrect, PTL DEF Spec

-----------------------------------------------------------------------------
(* The retries of a job.                                                   *)

(* The measure: a natural number, highest before the job exists, and with  *)
(* a fresh try worth more than all the awaits of the one before.           *)
LEMMA Measure ==
    ASSUME NEW k \in 0..MaxTries
    PROVE  /\ StepsLeft("none", k) = 8 * MaxTries + 2
           /\ StepsLeft("queued", k) = 8 * (MaxTries - k) + 1
           /\ \A at \in AtWork : /\ StepsLeft(at, k) = 8 * (MaxTries - k) + Awaits[at]
                                 /\ Awaits[at] \in 2..7
           /\ \A at \in Ended : StepsLeft(at, k) = 0
BY DEF StepsLeft, Awaits, AtWork, Ended, Lost

(* A job's own step within a try goes down the list of its awaits.         *)
LEMMA JobsGoDown ==
    ASSUME TypeOK, NEW j \in Requests, Work(j) \/ Timeout(j), job[j] \in AtWork
    PROVE  /\ tries' = tries
           /\ job'[j] \in Ended \/ (job'[j] \in AtWork /\ Awaits[job'[j]] < Awaits[job[j]])
<1>1. job \in [Requests -> {"none", "queued"} \cup AtWork \cup Ended]
    BY DEF TypeOK, JobTypeOK
<1>2. tries' = tries
    BY JobsOnlyMoveOn DEF PickUp, AtWork
<1>3. CASE Timeout(j)
    BY <1>1, <1>2, <1>3 DEF Timeout, Leave, Ended, Lost
<1>4. CASE JobRefuses(j) \/ Write(j)
    <2>1. job[j] \in {"refuse", "write"}
        BY <1>4 DEF JobRefuses, Write
    <2>2. job' = [job EXCEPT ![j] = "remark"] \/ \E end \in Ended : job' = [job EXCEPT ![j] = end]
        BY <1>4 DEF JobRefuses, Write, WriteCatalog, SaveRaises, Suspend, Leave, Ended
    <2>3. QED
        BY <1>1, <1>2, <2>1, <2>2 DEF Awaits, AtWork
<1>5. CASE Mark(j)
    BY <1>1, <1>2, <1>5 DEF Mark, SaveRaises, Suspend, Awaits, AtWork
<1>6. CASE Fetch(j)
    BY <1>1, <1>2, <1>6 DEF Fetch, SaveRaises, Suspend, Awaits, AtWork
<1>7. CASE Upsert(j)
    BY <1>1, <1>2, <1>7 DEF Upsert, Breaks, Leave, Suspend, Awaits, AtWork, Ended, Lost
<1>8. CASE MarkReload(j) \/ MarkFailed(j)
    BY <1>1, <1>2, <1>8 DEF MarkReload, MarkFailed, Breaks, Leave, Suspend, Awaits, AtWork, Ended, Lost
<1>9. QED
    BY <1>3, <1>4, <1>5, <1>6, <1>7, <1>8 DEF Work, PickUp, Drop, AtWork

LEMMA JobsGetNearer ==
    ASSUME TypeOK, TypeOK', JobFollowsRequest, Next,
           NEW j \in Requests, job'[j] # job[j]
    PROVE  StepsLeft(job'[j], tries'[j]) < StepsLeft(job[j], tries[j])
<1>1. /\ job \in [Requests -> {"none", "queued"} \cup AtWork \cup Ended]
      /\ tries[j] \in 0..MaxTries /\ tries'[j] \in 0..MaxTries
    BY DEF TypeOK, JobTypeOK
<1>2. ASSUME NEW e \in Requests, Request(e)
      PROVE  StepsLeft(job'[j], tries'[j]) < StepsLeft(job[j], tries[j])
    <2>1. Queue(e) /\ job' = [job EXCEPT ![e] = "queued"] /\ tries' = tries
        BY <1>2 DEF Request, Load, Refuse, Pend, Queue, GiveUp, Settle, SaveAndAnswer, RequestFails, jobVars
    <2>2. j = e /\ job[j] = "none" /\ job'[j] = "queued"
        BY <1>1, <2>1 DEF Queue, JobFollowsRequest
    <2>3. QED
        BY <1>1, <2>1, <2>2, Measure
<1>3. ASSUME NEW i \in Requests, Work(i) \/ Timeout(i)
      PROVE  StepsLeft(job'[j], tries'[j]) < StepsLeft(job[j], tries[j])
    <2>1. i = j
        BY <1>1, <1>3, JobsOnlyMoveOn
    <2>2. CASE PickUp(j)
        <3>1. /\ job[j] = "queued" /\ tries'[j] = tries[j] + 1
              /\ job'[j] \in AtWork
            BY <1>1, <2>2 DEF PickUp, AtWork, TypeOK, JobTypeOK
        <3>2. QED
            BY <1>1, <3>1, Measure
    <2>3. CASE Drop(j) /\ job' = [job EXCEPT ![j] = "dropped"]
        <3>1. job[j] = "queued" /\ job'[j] \in Ended
            BY <1>1, <2>3 DEF Drop, Ended, Lost
        <3>2. QED
            BY <1>1, <3>1, Measure
    <2>4. CASE job[j] \in AtWork
        <3>1. /\ tries' = tries
              /\ job'[j] \in Ended \/ (job'[j] \in AtWork /\ Awaits[job'[j]] < Awaits[job[j]])
            BY <1>3, <2>1, <2>4, JobsGoDown
        <3>2. /\ StepsLeft(job[j], tries[j]) = 8 * (MaxTries - tries[j]) + Awaits[job[j]]
              /\ Awaits[job[j]] \in 2..7
            BY <1>1, <2>4, Measure
        <3>3. CASE job'[j] \in Ended
            <4>1. StepsLeft(job'[j], tries'[j]) = 0
                BY <1>1, <3>3, Measure
            <4>2. QED
                BY <1>1, <3>2, <4>1
        <3>4. CASE job'[j] \in AtWork
            <4>1. /\ StepsLeft(job'[j], tries'[j]) = 8 * (MaxTries - tries[j]) + Awaits[job'[j]]
                  /\ Awaits[job'[j]] \in 2..7
                BY <1>1, <3>1, <3>4, Measure
            <4>2. QED
                BY <1>1, <3>1, <3>2, <3>4, <4>1 DEF Ended, AtWork, Lost
        <3>5. QED
            BY <3>1, <3>3, <3>4
    <2>5. QED
        BY <1>3, <2>1, <2>2, <2>3, <2>4, JobsOnlyMoveOn
<1>4. CASE RestartWorker
    <2>1. job[j] \in AtWork /\ job'[j] = "queued" /\ tries' = tries
        BY <1>4 DEF RestartWorker
    <2>2. QED
        BY <1>1, <2>1, Measure
<1>5. CASE RestartApi \/ Rescope
    BY <1>5 DEF RestartApi, Rescope, jobVars
<1>6. QED
    BY <1>2, <1>3, <1>4, <1>5 DEF Next

(* Every move of every job brings its end nearer, for any limit on the     *)
(* retries and any failures: the ranking that JobsEnd rests on.            *)
THEOREM RetriesRunOut == Spec => JobsWindDown
<1>1. TypeOK /\ TypeOK' /\ JobFollowsRequest /\ [Next]_vars =>
        \A j \in Requests :
            job'[j] # job[j] => StepsLeft(job'[j], tries'[j]) < StepsLeft(job[j], tries[j])
    BY JobsGetNearer DEF vars, jobVars
<1>2. QED
    BY <1>1, TypeCorrect, PendingIsQueued, PTL DEF Spec, JobsWindDown

-----------------------------------------------------------------------------
(* "running" has a job behind it.                                          *)

(* Job j has written "running" and not reported since, or lost its turn; a *)
(* copy it still writes from says "running" too, so that the write is sent.*)
Behind(j) ==
    /\ \/ job[j] \in (AtWork \ {"mark", "refuse"}) \cup Lost
       \/ job[j] = "queued" /\ tries[j] > 0
       \/ job[j] \in {"mark", "refuse"} /\ tries[j] > 1
    /\ job[j] \in {"mark", "refuse", "upsert", "write", "fail"} => held[j].status = "running"

SomeoneBehind == catalog.status = "running" => \E j \in Requests : Behind(j)

(* A report ends "running", or the job stays behind.                       *)
LEMMA ReportEndsRunning ==
    ASSUME TypeOK, SomeoneBehind, NEW j \in Requests, NEW status \in Reported, NEW places,
           job[j] \in {"refuse", "write"}, WriteCatalog(j, status, places),
           \A i \in Requests \ {j} : Behind(i) => Behind(i)'
    PROVE  SomeoneBehind'
<1> DEFINE written == [status |-> status, places |-> places, jobId |-> held[j].jobId]
<1>1. CASE SaveRaises(j)
    BY <1>1 DEF SaveRaises, Suspend, SomeoneBehind, Behind, AtWork, TypeOK, JobTypeOK
<1>2. CASE catalog' = written
    BY <1>2 DEF SomeoneBehind, Reported
<1>3. CASE held[j] = written /\ UNCHANGED catalog
    <2>1. held[j].status # "running"
        BY <1>3 DEF Reported
    <2>2. ~Behind(j)
        BY <2>1 DEF Behind
    <2>3. QED
        BY <1>3, <2>2 DEF SomeoneBehind
<1>4. QED
    BY <1>1, <1>2, <1>3 DEF WriteCatalog, Update

(* Only Mark writes "running"; a job behind it reports, or stays behind.   *)
LEMMA WorkStaysBehind ==
    ASSUME TypeOK, JobFollowsRequest, SomeoneBehind, NEW j \in Requests, Work(j) \/ Timeout(j)
    PROVE  SomeoneBehind'
<1>1. ASSUME NEW i \in Requests \ {j}, Behind(i)
      PROVE  Behind(i)'
    <2>1. job'[i] = job[i] /\ tries'[i] = tries[i]
        BY <1>1, JobsOnlyMoveOn DEF TypeOK, JobTypeOK
    <2>2. held'[i] = held[i]
        BY DEF Work, PickUp, Drop, JobRefuses, Mark, Fetch, Upsert, Write, MarkReload, MarkFailed, Timeout,
               WriteCatalog, SaveRaises, Breaks, Suspend, Leave, TypeOK, JobTypeOK
    <2>3. QED
        BY <1>1, <2>1, <2>2 DEF Behind
<1>2. CASE UNCHANGED catalog /\ (Behind(j) /\ catalog.status = "running" => Behind(j)')
    BY <1>1, <1>2 DEF SomeoneBehind
<1>3. CASE Behind(j)'
    BY <1>3 DEF SomeoneBehind
<1>4. CASE PickUp(j)
    <2>1. UNCHANGED catalog
        BY <1>4 DEF PickUp, rowVars
    <2>2. ASSUME Behind(j), catalog.status = "running" PROVE Behind(j)'
        <3>1. tries[j] \in Nat /\ tries[j] > 0
            BY <1>4, <2>2 DEF PickUp, Behind, TypeOK, JobTypeOK, AtWork, Lost
        <3>2. tries'[j] > 1 /\ job'[j] \in {"mark", "refuse"} /\ held'[j].status = "running"
            BY <1>4, <2>2, <3>1 DEF PickUp, TypeOK, JobTypeOK
        <3>3. QED
            BY <3>2 DEF Behind
    <2>3. QED
        BY <1>2, <2>1, <2>2
<1>5. CASE Drop(j) \/ Timeout(j)
    BY <1>3, <1>5 DEF Drop, Timeout, Leave, Behind, AtWork, Lost, TypeOK, JobTypeOK
<1>6. CASE Mark(j)
    BY <1>3, <1>6 DEF Mark, SaveRaises, Suspend, Behind, AtWork, Lost, TypeOK, JobTypeOK
<1>7. CASE Fetch(j)
    <2>1. CASE SaveRaises(j)
        BY <1>3, <2>1 DEF SaveRaises, Suspend, Behind, AtWork, Lost, TypeOK, JobTypeOK
    <2>2. CASE ~SaveRaises(j)
        <3>1. UNCHANGED catalog /\ \E at \in {"upsert", "write", "fail"} : Suspend(j, at, catalog)
            BY <1>7, <2>2 DEF Fetch
        <3>2. catalog.status = "running" => Behind(j)'
            BY <3>1 DEF Suspend, Behind, AtWork, Lost, TypeOK, JobTypeOK
        <3>3. QED
            BY <1>2, <3>1, <3>2
    <2>3. QED
        BY <2>1, <2>2
<1>8. CASE Upsert(j)
    <2>1. UNCHANGED catalog
        BY <1>8 DEF Upsert, Breaks
    <2>2. ASSUME Behind(j) PROVE Behind(j)'
        BY <1>8, <2>2 DEF Upsert, Breaks, Suspend, Leave, Behind, AtWork, Lost, TypeOK, JobTypeOK
    <2>3. QED
        BY <1>2, <2>1, <2>2
<1>9. CASE JobRefuses(j)
    BY <1>1, <1>9, ReportEndsRunning DEF JobRefuses, Reported
<1>10. CASE Write(j)
    <2>1. ReportedAs[found[j]] \in Reported
        BY <1>10 DEF Write, TypeOK, ReportedAs, Reported, Found
    <2>2. QED
        BY <1>1, <1>10, <2>1, ReportEndsRunning DEF Write
<1>11. CASE MarkReload(j)
    <2>1. UNCHANGED catalog
        BY <1>11 DEF MarkReload, Breaks
    <2>2. ASSUME catalog.status = "running" PROVE Behind(j)'
        BY <1>11, <2>2 DEF MarkReload, Breaks, Suspend, Leave, Behind, AtWork, Lost, TypeOK, JobTypeOK
    <2>3. QED
        BY <1>2, <2>1, <2>2
<1>12. CASE MarkFailed(j)
    <2> DEFINE failed == [held[j] EXCEPT !.status = "failed",
                                         !.places = IF @.count = "none" THEN Zero ELSE @]
    <2>1. failed.status = "failed"
        BY DEF TypeOK, JobTypeOK, Catalog
    <2>2. Breaks(j) \/ Update(held[j], failed)
        BY <1>12 DEF MarkFailed
    <2> HIDE DEF failed
    <2>3. CASE Breaks(j)
        BY <1>3, <2>3 DEF Breaks, Leave, Behind, Lost, TypeOK, JobTypeOK
    <2>4. CASE catalog' = failed
        BY <2>1, <2>4 DEF SomeoneBehind
    <2>5. CASE held[j] = failed /\ UNCHANGED catalog
        <3>1. ~Behind(j)
            BY <1>12, <2>1, <2>5 DEF MarkFailed, Behind
        <3>2. QED
            BY <1>2, <2>5, <3>1
    <2>6. QED
        BY <2>2, <2>3, <2>4, <2>5 DEF Update
<1>13. QED
    BY <1>4, <1>5, <1>6, <1>7, <1>8, <1>9, <1>10, <1>11, <1>12 DEF Work

LEMMA RequestStaysBehind ==
    ASSUME TypeOK, JobFollowsRequest, SomeoneBehind, NEW e \in Requests, Request(e)
    PROVE  SomeoneBehind'
<1>1. /\ UNCHANGED <<tries, held>>
      /\ job' = job \/ (job[e] = "none" /\ job' = [job EXCEPT ![e] = "queued"])
    BY DEF Request, Load, Refuse, Pend, Queue, GiveUp, Settle, SaveAndAnswer, jobVars, JobFollowsRequest
<1>2. catalog' = catalog \/ catalog'.status # "running"
    BY DEF Request, Load, Refuse, Pend, Queue, GiveUp, Settle, SaveAndAnswer, Update, rowVars,
           FailedCatalog, Reported
<1>3. \A i \in Requests : Behind(i) => job'[i] = job[i]
    BY <1>1 DEF Behind, AtWork, Lost, TypeOK, JobTypeOK
<1>4. QED
    BY <1>1, <1>2, <1>3 DEF SomeoneBehind, Behind

LEMMA SurroundingsStayBehind ==
    ASSUME TypeOK, JobFollowsRequest, SomeoneBehind, RestartWorker \/ RestartApi \/ Rescope
    PROVE  SomeoneBehind'
<1>1. UNCHANGED <<catalog, tries>>
    BY DEF RestartWorker, RestartApi, Rescope, rowVars, jobVars
<1>2. \A i \in Requests : Behind(i) => Behind(i)'
    BY <1>1 DEF RestartWorker, RestartApi, Rescope, jobVars, Behind, JobFollowsRequest, AtWork, Lost
<1>3. QED
    BY <1>1, <1>2 DEF SomeoneBehind

(* A job that returns, or that raises and is marked, leaves no "running"   *)
(* behind: only timeouts, dropped jobs and failures of the database while  *)
(* marking do.                                                             *)
THEOREM RunningIsNotForgotten == Spec => []RunningHasAJob
<1>1. Init => SomeoneBehind
    BY DEF Init, SomeoneBehind, Empty
<1>2. TypeOK /\ JobFollowsRequest /\ SomeoneBehind /\ [Next]_vars => SomeoneBehind'
    <2>1. SomeoneBehind /\ UNCHANGED vars => SomeoneBehind'
        BY DEF vars, rowVars, jobVars, SomeoneBehind, Behind
    <2>2. QED
        BY <2>1, WorkStaysBehind, RequestStaysBehind, SurroundingsStayBehind DEF Next
<1>3. SomeoneBehind => RunningHasAJob
    BY DEF SomeoneBehind, Behind, RunningHasAJob
<1>4. QED
    BY <1>1, <1>2, <1>3, TypeCorrect, PendingIsQueued, PTL DEF Spec
=============================================================================
