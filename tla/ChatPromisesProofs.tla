------------------------- MODULE ChatPromisesProofs -------------------------
(***************************************************************************)
(* Proofs about ChatDialogue: what a user said is kept, and the row shows  *)
(* what the thread is in after a request that ran alone.                   *)
(*                                                                         *)
(* Both rest on what a request that overlaps no other may rely on: it is   *)
(* the only active one (OneAtATime), so the row is what it loaded          *)
(* (CopyIsCurrent) and the newest checkpoint is its own (ThreadIsOwn).  A  *)
(* request that overlaps others may write an old copy back; that this      *)
(* copy has every text said by a request that ran alone (SaidIsKept) holds *)
(* because the two would otherwise have overlapped.                        *)
(***************************************************************************)
EXTENDS ChatDialogueProofs

Alone(q) == q \in Active /\ q \notin overlapped

OneAtATime == \A q \in Requests : Alone(q) => Active = {q}

CopyIsCurrent ==
    \A q \in Requests : Alone(q) /\ ~(q \in Turns /\ pc[q] = "enter") => copy[q] = row

(* A run that has ended reads what the thread shows of it.                 *)
Readable(q) == thread.interrupted \/ local[q].node \in Over

ThreadIsOwn ==
    \A q \in Requests : Alone(q) =>
        /\ pc[q] \in InGraph \cup {"read", "apply"} => thread.values = local[q]
        /\ pc[q] = "run" => thread.owner = q
        /\ pc[q] = "read" => Readable(q)
        /\ pc[q] = "apply" /\ outcome[q].kind # "error" =>
                Readable(q) /\ outcome[q] = OutcomeOf(local[q])

Holds(r, t) == <<t, "user">> \in copy[r].messages

SaidIsKept ==
    \A t \in said \ overlapped :
        /\ pc[t] \notin {"idle", "save"}
        /\ <<t, "user">> \in row.messages
        /\ \A r \in Active : Holds(r, t) \/ (r = t /\ pc[t] = "enter")

LastAgrees ==
    last # None /\ last \notin overlapped => Active = {} /\ Agree(thread.values)

PromiseInv == OneAtATime /\ CopyIsCurrent /\ ThreadIsOwn /\ SaidIsKept /\ LastAgrees
-----------------------------------------------------------------------------
LEMMA InitPromiseInv == Init => PromiseInv
  BY DEF Init, PromiseInv, OneAtATime, CopyIsCurrent, ThreadIsOwn, SaidIsKept, LastAgrees,
         Alone, Active, Live, InGraph

(* An active request that steps and enters no request: the others are as   *)
(* they were, and if one is alone it is this one.                          *)
LEMMA Acts ==
    ASSUME TypeOK, OneAtATime, LastAgrees, NEW q \in Requests, pc[q] \in Live,
           pc' = [pc EXCEPT ![q] = pc'[q]], overlapped' = overlapped
    PROVE  /\ Active' \subseteq Active /\ q \in Active
           /\ \A r \in Requests : Alone(r)' => r = q /\ Alone(q)
           /\ OneAtATime'
           /\ last' = last => LastAgrees'
           /\ Alone(q) => Active = {q}
<1>1. q \in Active  BY DEF Active
<1>2. \A r \in Requests : r # q => pc'[r] = pc[r]  BY DEF TypeOK
<1>3. Active' \subseteq Active  BY <1>1, <1>2 DEF Active
<1>4. \A r \in Requests : Alone(r)' => Alone(r)  BY <1>3 DEF Alone
<1>5. \A r \in Requests : Alone(r)' => r = q /\ Alone(q)
  BY <1>1, <1>4 DEF OneAtATime
<1>6. OneAtATime'
  <2> SUFFICES ASSUME NEW r \in Requests, Alone(r)' PROVE Active' = {r}
    BY DEF OneAtATime
  <2>1. Active = {r}  BY <1>4 DEF OneAtATime
  <2> QED  BY <1>3, <2>1 DEF Alone
<1>7. last' = last => LastAgrees'
  BY <1>1 DEF LastAgrees
<1> QED  BY <1>1, <1>3, <1>5, <1>6, <1>7 DEF OneAtATime

(* Neither the row nor a copy changes, and nothing more is said.           *)
LEMMA KeepsTexts ==
    ASSUME TypeOK, SaidIsKept, NEW q \in Requests, pc[q] \in Live,
           pc' = [pc EXCEPT ![q] = pc'[q]],
           pc'[q] \notin {"idle", "save", "enter"},
           q \in Turns /\ pc[q] = "enter" => pc'[q] \notin Live,
           UNCHANGED <<row, copy, said, overlapped>>
    PROVE  SaidIsKept'
<1>1. \A r \in Requests : r # q => pc'[r] = pc[r]  BY DEF TypeOK
<1>2. Active' \subseteq Active  BY <1>1 DEF Active
<1> SUFFICES ASSUME NEW t \in said \ overlapped
             PROVE  /\ pc'[t] \notin {"idle", "save"}
                    /\ <<t, "user">> \in row.messages
                    /\ \A r \in Active' : Holds(r, t)' \/ (r = t /\ pc'[t] = "enter")
  BY DEF SaidIsKept
<1>3. t \in Turns /\ t \in Requests  BY DEF TypeOK, Requests
<1>4. pc'[t] \notin {"idle", "save"}  BY <1>1, <1>3 DEF SaidIsKept
<1>5. <<t, "user">> \in row.messages  BY DEF SaidIsKept
<1>6. ASSUME NEW r \in Active' PROVE Holds(r, t)' \/ (r = t /\ pc'[t] = "enter")
  <2>1. Holds(r, t) \/ (r = t /\ pc[t] = "enter")  BY <1>2 DEF SaidIsKept
  <2>2. Holds(r, t) => Holds(r, t)'  BY DEF Holds
  <2>3. ASSUME r = t, pc[t] = "enter" PROVE pc'[t] = "enter"
    BY <1>1, <1>3, <1>6, <2>3 DEF Active
  <2> QED  BY <2>1, <2>2, <2>3
<1> QED  BY <1>4, <1>5, <1>6
-----------------------------------------------------------------------------
(* A node returns.                                                         *)
LEMMA StepKeepsPromises ==
    ASSUME IInv, PromiseInv, NEW q \in Requests, NEW v, pc[q] \in InGraph, Step(q, v)
    PROVE  PromiseInv'
<1>1. /\ pc[q] \in Live /\ pc[q] # "enter" /\ pc' = [pc EXCEPT ![q] = pc'[q]]
      /\ pc'[q] = (IF v.node \in Over THEN "read" ELSE "run")
      /\ UNCHANGED <<row, copy, outcome, said, overlapped, last>>
      /\ local'[q] = v /\ thread'.values = v /\ thread'.owner = q
  BY DEF IInv, TypeOK, Step, Put, GoTo, Live, InGraph
<1>2. /\ \A r \in Requests : Alone(r)' => r = q /\ Alone(q)
      /\ OneAtATime' /\ LastAgrees'
  BY <1>1, Acts DEF IInv, PromiseInv
<1>3. SaidIsKept'
  BY <1>1, KeepsTexts DEF IInv, PromiseInv
<1>4. CopyIsCurrent'
  BY <1>1, <1>2 DEF PromiseInv, CopyIsCurrent
<1>5. ThreadIsOwn'
  BY <1>1, <1>2 DEF ThreadIsOwn, Readable
<1> QED  BY <1>2, <1>3, <1>4, <1>5 DEF PromiseInv

LEMMA NodesKeepPromises ==
    ASSUME IInv, PromiseInv, NEW q \in Requests,
           \/ ParseIntent(q) \/ GeocodeSearch(q) \/ RequestHitl(q)
           \/ ClassifyScope(q) \/ ConfirmScope(q)
    PROVE  PromiseInv'
<1>1. pc[q] \in InGraph
  BY DEF ParseIntent, GeocodeSearch, RequestHitl, ClassifyScope, ConfirmScope, At, InGraph
<1>2. \E v : Step(q, v)
  BY DEF ParseIntent, GeocodeSearch, RequestHitl, ClassifyScope, ConfirmScope
<1> QED  BY <1>1, <1>2, StepKeepsPromises

LEMMA EnterTurnKeepsPromises ==
    ASSUME IInv, PromiseInv, NEW q \in Requests, EnterTurn(q)
    PROVE  PromiseInv'
<1>1. /\ pc[q] \in Live /\ pc' = [pc EXCEPT ![q] = pc'[q]] /\ pc'[q] = "run"
      /\ UNCHANGED <<row, outcome, said, overlapped, last>>
      /\ copy' = [copy EXCEPT ![q] = row] /\ copy'[q] = row
      /\ local'[q] = Fresh(q) /\ thread'.values = Fresh(q) /\ thread'.owner = q
  BY DEF IInv, TypeOK, EnterTurn, Put, GoTo, Live, InGraph, historyVars
<1>2. /\ Active' \subseteq Active
      /\ \A r \in Requests : Alone(r)' => r = q /\ Alone(q)
      /\ OneAtATime' /\ LastAgrees'
  BY <1>1, Acts DEF IInv, PromiseInv
<1>3. SaidIsKept'
  <2> SUFFICES ASSUME NEW t \in said \ overlapped
               PROVE  /\ pc'[t] \notin {"idle", "save"}
                      /\ <<t, "user">> \in row.messages
                      /\ \A r \in Active' : Holds(r, t)' \/ (r = t /\ pc'[t] = "enter")
    BY <1>1 DEF SaidIsKept
  <2>1. t \in Requests /\ pc[t] \notin {"idle", "save"} /\ <<t, "user">> \in row.messages
    BY DEF IInv, TypeOK, Requests, PromiseInv, SaidIsKept
  <2>2. pc'[t] = pc[t] \/ pc'[t] = "run"  BY <1>1, <2>1 DEF IInv, TypeOK
  <2>3. ASSUME NEW r \in Active' PROVE Holds(r, t)' \/ (r = t /\ pc'[t] = "enter")
    <3>1. r \in Requests  BY DEF Active
    <3>2. CASE r = q  BY <1>1, <2>1, <3>2 DEF Holds
    <3>3. CASE r # q
      <4>1. copy'[r] = copy[r] /\ pc'[r] = pc[r]  BY <1>1, <3>1, <3>3 DEF IInv, TypeOK
      <4> QED  BY <1>2, <4>1 DEF Holds, PromiseInv, SaidIsKept
    <3> QED  BY <3>2, <3>3
  <2> QED  BY <2>1, <2>2, <2>3
<1>4. CopyIsCurrent'  BY <1>1, <1>2 DEF CopyIsCurrent
<1>5. ThreadIsOwn'  BY <1>1, <1>2 DEF ThreadIsOwn
<1> QED  BY <1>2, <1>3, <1>4, <1>5 DEF PromiseInv

LEMMA EnterResumeKeepsPromises ==
    ASSUME IInv, PromiseInv, NEW q \in Requests, EnterResume(q)
    PROVE  PromiseInv'
<1>1. /\ pc[q] \in Live /\ q \notin Turns /\ pc' = [pc EXCEPT ![q] = pc'[q]]
      /\ pc'[q] = (IF thread.values.node \in Over THEN "read" ELSE "resume")
      /\ UNCHANGED <<row, thread, copy, outcome, said, overlapped, last>>
      /\ local'[q] = thread.values
  BY ConstantsAssumption DEF IInv, TypeOK, EnterResume, GoTo, Live, historyVars
<1>2. /\ \A r \in Requests : Alone(r)' => r = q /\ Alone(q)
      /\ OneAtATime' /\ LastAgrees'
  BY <1>1, Acts DEF IInv, PromiseInv
<1>3. SaidIsKept'
  BY <1>1, KeepsTexts DEF IInv, PromiseInv
<1>4. CopyIsCurrent'
  BY <1>1, <1>2 DEF PromiseInv, CopyIsCurrent
<1>5. ThreadIsOwn'
  BY <1>1, <1>2 DEF ThreadIsOwn, Readable
<1> QED  BY <1>2, <1>3, <1>4, <1>5 DEF PromiseInv

LEMMA InterruptKeepsPromises ==
    ASSUME IInv, PromiseInv, NEW q \in Requests, Interrupt(q)
    PROVE  PromiseInv'
<1>1. /\ pc[q] \in Live /\ pc[q] = "run" /\ pc' = [pc EXCEPT ![q] = pc'[q]] /\ pc'[q] = "read"
      /\ UNCHANGED <<row, copy, local, outcome, said, overlapped, last>>
      /\ thread'.values = thread.values
      /\ thread'.interrupted = (thread.interrupted \/ thread.owner = q)
  BY DEF IInv, TypeOK, Interrupt, GoTo, Live, InGraph, historyVars
<1>2. /\ \A r \in Requests : Alone(r)' => r = q /\ Alone(q)
      /\ OneAtATime' /\ LastAgrees'
  BY <1>1, Acts DEF IInv, PromiseInv
<1>3. SaidIsKept'
  BY <1>1, KeepsTexts DEF IInv, PromiseInv
<1>4. CopyIsCurrent'
  BY <1>1, <1>2 DEF PromiseInv, CopyIsCurrent
<1>5. ThreadIsOwn'
  <2>1. Alone(q) => thread.values = local[q] /\ thread.owner = q
    BY <1>1 DEF PromiseInv, ThreadIsOwn, InGraph
  <2> QED  BY <1>1, <1>2, <2>1 DEF ThreadIsOwn, Readable
<1> QED  BY <1>2, <1>3, <1>4, <1>5 DEF PromiseInv

LEMMA ReadOutcomeKeepsPromises ==
    ASSUME IInv, PromiseInv, NEW q \in Requests, ReadOutcome(q)
    PROVE  PromiseInv'
<1>1. /\ pc[q] \in Live /\ pc[q] = "read" /\ pc' = [pc EXCEPT ![q] = pc'[q]] /\ pc'[q] = "apply"
      /\ UNCHANGED <<row, thread, copy, local, said, overlapped, last>>
      /\ outcome'[q] = OutcomeOf(local[q])
  BY DEF IInv, TypeOK, ReadOutcome, GoTo, Live, historyVars
<1>2. /\ \A r \in Requests : Alone(r)' => r = q /\ Alone(q)
      /\ OneAtATime' /\ LastAgrees'
  BY <1>1, Acts DEF IInv, PromiseInv
<1>3. SaidIsKept'
  BY <1>1, KeepsTexts DEF IInv, PromiseInv
<1>4. CopyIsCurrent'
  BY <1>1, <1>2 DEF PromiseInv, CopyIsCurrent
<1>5. ThreadIsOwn'
  <2>1. Alone(q) => thread.values = local[q] /\ Readable(q)
    BY <1>1 DEF PromiseInv, ThreadIsOwn
  <2>2. Readable(q)' = Readable(q) /\ OutcomeOf(local[q])' = OutcomeOf(local[q])
    BY <1>1 DEF Readable, OutcomeOf
  <2> QED  BY <1>1, <1>2, <2>1, <2>2 DEF ThreadIsOwn, InGraph
<1> QED  BY <1>2, <1>3, <1>4, <1>5 DEF PromiseInv

LEMMA GraphRaisesKeepsPromises ==
    ASSUME IInv, PromiseInv, NEW q \in Requests, GraphRaises(q)
    PROVE  PromiseInv'
<1>1. /\ pc[q] \in Live /\ pc[q] \in InGraph /\ pc' = [pc EXCEPT ![q] = pc'[q]]
      /\ pc'[q] \in {"failed", "apply"}
      /\ UNCHANGED <<row, thread, copy, local, said, overlapped, last>>
      /\ outcome'[q].kind = "error"
  BY DEF IInv, TypeOK, GraphRaises, GoTo, Live, Error, historyVars
<1>2. /\ \A r \in Requests : Alone(r)' => r = q /\ Alone(q)
      /\ OneAtATime' /\ LastAgrees'
  BY <1>1, Acts DEF IInv, PromiseInv
<1>3. SaidIsKept'
  BY <1>1, KeepsTexts DEF IInv, PromiseInv, InGraph
<1>4. CopyIsCurrent'
  BY <1>1, <1>2 DEF PromiseInv, CopyIsCurrent, InGraph
<1>5. ThreadIsOwn'
  <2>1. Alone(q) => thread.values = local[q]
    BY <1>1 DEF PromiseInv, ThreadIsOwn
  <2> QED  BY <1>1, <1>2, <2>1 DEF ThreadIsOwn
<1> QED  BY <1>2, <1>3, <1>4, <1>5 DEF PromiseInv

LEMMA LeaveKeepsPromises ==
    ASSUME IInv, PromiseInv, NEW q \in Requests, Leave(q)
    PROVE  PromiseInv'
<1>1. /\ pc[q] \in Live /\ pc' = [pc EXCEPT ![q] = pc'[q]] /\ pc'[q] = "left"
      /\ UNCHANGED <<row, thread, copy, local, outcome, said, overlapped, last>>
  BY DEF IInv, TypeOK, Leave, GoTo, Live, historyVars
<1>2. /\ \A r \in Requests : Alone(r)' => r = q
      /\ OneAtATime' /\ LastAgrees'
  BY <1>1, Acts DEF IInv, PromiseInv
<1>3. \A r \in Requests : ~Alone(r)'
  BY <1>1, <1>2 DEF Alone, Active, Live, InGraph
<1>4. SaidIsKept'
  BY <1>1, KeepsTexts DEF IInv, PromiseInv, Live, InGraph
<1>5. CopyIsCurrent' /\ ThreadIsOwn'
  BY <1>3 DEF CopyIsCurrent, ThreadIsOwn
<1> QED  BY <1>2, <1>4, <1>5 DEF PromiseInv
-----------------------------------------------------------------------------
(* A request comes in: those it meets, and itself, are no longer alone.    *)
LEMMA LoadKeepsPromises ==
    ASSUME IInv, PromiseInv, NEW q \in Requests, Load(q)
    PROVE  PromiseInv'
<1>1. /\ pc[q] = "idle" /\ q \notin Active
      /\ pc' = [pc EXCEPT ![q] = pc'[q]]
      /\ copy' = [copy EXCEPT ![q] = row] /\ copy'[q] = row
      /\ UNCHANGED <<row, thread, local, outcome, said>>
      /\ \A r \in Requests : r # q => pc'[r] = pc[r] /\ copy'[r] = copy[r]
  BY DEF IInv, TypeOK, Load, GoTo, Active, Live, InGraph
<1>2. \A t \in said \ overlapped : t \in Requests /\ t # q
  BY <1>1 DEF IInv, TypeOK, PromiseInv, SaidIsKept, Requests
<1>3. overlapped \subseteq overlapped'  BY DEF Load
<1>4. Active' \subseteq Active \cup {q}  BY <1>1 DEF Active
<1>5. SaidIsKept'
  <2> SUFFICES ASSUME NEW t \in said \ overlapped
               PROVE  /\ pc'[t] \notin {"idle", "save"}
                      /\ <<t, "user">> \in row.messages
                      /\ \A r \in Active' : Holds(r, t)' \/ (r = t /\ pc'[t] = "enter")
    BY <1>1, <1>3 DEF SaidIsKept
  <2>1. pc'[t] = pc[t] /\ pc[t] \notin {"idle", "save"} /\ <<t, "user">> \in row.messages
    BY <1>1, <1>2 DEF PromiseInv, SaidIsKept
  <2>2. ASSUME NEW r \in Active' PROVE Holds(r, t)' \/ (r = t /\ pc'[t] = "enter")
    <3>1. CASE r = q  BY <1>1, <2>1, <3>1 DEF Holds
    <3>2. CASE r # q
      <4>1. r \in Active  BY <1>4, <3>2
      <4>2. copy'[r] = copy[r]  BY <1>1, <3>2, <4>1 DEF Active
      <4> QED  BY <2>1, <4>1, <4>2 DEF Holds, PromiseInv, SaidIsKept
    <3> QED  BY <3>1, <3>2
  <2> QED  BY <2>1, <2>2
<1>6. CASE pc'[q] = "refused"
  <2>1. UNCHANGED <<overlapped, last>>
    BY <1>6 DEF Load, GoTo, IInv, TypeOK
  <2>2. Active' = Active  BY <1>1, <1>6 DEF Active, Live, InGraph
  <2>3. \A r \in Requests : Alone(r)' => Alone(r) /\ r # q /\ pc'[r] = pc[r] /\ copy'[r] = copy[r]
    BY <1>1, <2>1, <2>2 DEF Alone
  <2>4. OneAtATime'  BY <2>2, <2>3 DEF PromiseInv, OneAtATime
  <2>5. CopyIsCurrent'  BY <1>1, <2>3 DEF PromiseInv, CopyIsCurrent
  <2>6. ThreadIsOwn'
    <3> SUFFICES ASSUME NEW r \in Requests, Alone(r)'
                 PROVE  (/\ pc[r] \in InGraph \cup {"read", "apply"} => thread.values = local[r]
                         /\ pc[r] = "run" => thread.owner = r
                         /\ pc[r] = "read" => Readable(r)
                         /\ pc[r] = "apply" /\ outcome[r].kind # "error" =>
                                Readable(r) /\ outcome[r] = OutcomeOf(local[r]))'
      BY DEF ThreadIsOwn
    <3>1. Readable(r)' = Readable(r) /\ OutcomeOf(local[r])' = OutcomeOf(local[r])
      BY <1>1 DEF Readable, OutcomeOf
    <3> QED  BY <1>1, <2>3, <3>1 DEF PromiseInv, ThreadIsOwn
  <2>7. LastAgrees'
    <3>1. Agree(thread.values)' = Agree(thread.values)  BY <1>1 DEF Agree, Pending
    <3> QED  BY <2>1, <2>2, <3>1 DEF PromiseInv, LastAgrees
  <2> QED  BY <1>5, <2>4, <2>5, <2>6, <2>7 DEF PromiseInv
<1>7. CASE pc'[q] # "refused"
  <2>1. /\ pc'[q] = (IF q \in Turns THEN "save" ELSE "enter")
        /\ overlapped' = IF Active = {} THEN overlapped ELSE overlapped \cup Active \cup {q}
        /\ last' = None
    BY <1>7 DEF Load, GoTo, IInv, TypeOK
  <2>2. \A r \in Requests : Alone(r)' => r = q /\ Active = {}
    BY <1>4, <2>1 DEF Alone
  <2>3. OneAtATime'  BY <1>4, <2>2 DEF OneAtATime, Alone
  <2>4. CopyIsCurrent'  BY <1>1, <2>2 DEF CopyIsCurrent
  <2>5. ThreadIsOwn'  BY <2>1, <2>2 DEF ThreadIsOwn, InGraph
  <2>6. LastAgrees'  BY <2>1 DEF LastAgrees
  <2> QED  BY <1>5, <2>3, <2>4, <2>5, <2>6 DEF PromiseInv
<1> QED  BY <1>6, <1>7

(* A save of a row that is what was loaded writes all of the new one.      *)
LEMMA SavedIsNew ==
    ASSUME NEW new \in Row, row \in Row
    PROVE  Saved(row, new) = new
  BY DEF Saved, Row

LEMMA SavedKeepsTexts ==
    ASSUME NEW old, NEW new, NEW m, m \in row.messages, m \in new.messages
    PROVE  m \in Saved(old, new).messages
  BY DEF Saved

LEMMA SaveUserKeepsPromises ==
    ASSUME IInv, PromiseInv, NEW q \in Requests, SaveUser(q)
    PROVE  PromiseInv'
<1> DEFINE new == [copy[q] EXCEPT !.messages = @ \cup {<<q, "user">>}]
<1>1. /\ q \in Turns /\ pc[q] = "save" /\ pc[q] \in Live
      /\ pc' = [pc EXCEPT ![q] = pc'[q]] /\ pc'[q] \in {"enter", "failed"}
      /\ UNCHANGED <<thread, copy, local, outcome, overlapped, last>>
      /\ row \in Row /\ copy[q] \in Row
      /\ new.messages = copy[q].messages \cup {<<q, "user">>}
  BY DEF IInv, TypeOK, SaveUser, GoTo, Live, Row
<1>2. /\ Active' \subseteq Active /\ q \in Active
      /\ \A r \in Requests : Alone(r)' => r = q /\ Alone(q)
      /\ OneAtATime' /\ LastAgrees'
      /\ Alone(q) => Active = {q}
  BY <1>1, Acts DEF IInv, PromiseInv
<1>3. \/ row' = Saved(copy[q], new) /\ said' = said \cup {q}
      \/ UNCHANGED <<row, said>> /\ pc'[q] = "failed"
  BY DEF SaveUser, GoTo, IInv, TypeOK
<1>4. Alone(q) => copy[q] = row
  BY <1>1 DEF PromiseInv, CopyIsCurrent
<1>5. ASSUME NEW t \in said \ overlapped
      PROVE  /\ t \in Requests /\ t # q /\ pc'[t] = pc[t] /\ pc[t] \notin {"idle", "save"}
             /\ <<t, "user">> \in row'.messages
             /\ \A r \in Active' : Holds(r, t)' \/ (r = t /\ pc'[t] = "enter")
  <2>1. /\ t \in Requests /\ t # q /\ pc[t] \notin {"idle", "save"}
        /\ <<t, "user">> \in row.messages
        /\ \A r \in Active : Holds(r, t) \/ (r = t /\ pc[t] = "enter")
    BY <1>1 DEF IInv, TypeOK, Requests, PromiseInv, SaidIsKept
  <2>2. pc'[t] = pc[t]  BY <1>1, <2>1 DEF IInv, TypeOK
  <2>3. <<t, "user">> \in new.messages  BY <1>1, <1>2, <2>1 DEF Holds
  <2> HIDE DEF new
  <2>4. <<t, "user">> \in row'.messages  BY <1>3, <2>1, <2>3, SavedKeepsTexts
  <2>5. \A r : Holds(r, t)' = Holds(r, t)  BY <1>1 DEF Holds
  <2> QED  BY <1>2, <2>1, <2>2, <2>4, <2>5
<1>6. ASSUME q \in said', q \notin overlapped
      PROVE  /\ pc'[q] \notin {"idle", "save"}
             /\ <<q, "user">> \in row'.messages
             /\ \A r \in Active' : Holds(r, q)' \/ (r = q /\ pc'[q] = "enter")
  <2>1. Alone(q) /\ Active = {q} /\ copy[q] = row
    BY <1>2, <1>4, <1>6 DEF Alone
  <2>2. q \notin said  BY <1>1, <1>6 DEF PromiseInv, SaidIsKept
  <2>3. new \in Row  BY <1>1 DEF Row, Message, Requests
  <2>4. row' = new
    <3> HIDE DEF new
    <3> QED  BY <1>1, <1>3, <1>6, <2>1, <2>2, <2>3, SavedIsNew
  <2>5. \A r \in Active' : r = q /\ pc'[q] = "enter"
    BY <1>1, <1>2, <2>1 DEF Active, Live, InGraph
  <2> QED  BY <1>1, <2>4, <2>5
<1>7. SaidIsKept'
  <2> SUFFICES ASSUME NEW t \in said' \ overlapped
               PROVE  /\ pc'[t] \notin {"idle", "save"}
                      /\ <<t, "user">> \in row'.messages
                      /\ \A r \in Active' : Holds(r, t)' \/ (r = t /\ pc'[t] = "enter")
    BY <1>1 DEF SaidIsKept
  <2>1. CASE t = q  BY <1>6, <2>1
  <2>2. CASE t # q
    <3>1. t \in said \ overlapped  BY <1>3, <2>2
    <3> QED  BY <1>5, <3>1
  <2> QED  BY <2>1, <2>2
<1>8. \A r \in Requests : Alone(r)' => r = q /\ q \in Turns /\ pc'[q] = "enter"
  BY <1>1, <1>2 DEF Alone, Active, Live, InGraph
<1>9. CopyIsCurrent' /\ ThreadIsOwn'
  BY <1>8 DEF CopyIsCurrent, ThreadIsOwn, InGraph
<1> QED  BY <1>2, <1>7, <1>9 DEF PromiseInv

(* What a request that ran alone leaves in the row agrees with the thread. *)
LEMMA AppliedAgrees ==
    ASSUME IInv, PromiseInv, NEW q \in Requests, pc[q] = "apply", Alone(q),
           outcome[q].kind # "error", row' = Applied(q), thread' = thread
    PROVE  Agree(thread.values)'
<1> DEFINE v == thread.values
<1>1. /\ v = local[q] /\ Readable(q) /\ outcome[q] = OutcomeOf(v)
  BY DEF PromiseInv, ThreadIsOwn
<1>2. /\ v \in Values /\ Coherent(v) /\ thread.interrupted \in BOOLEAN
      /\ thread.interrupted => v.node = "request"
      /\ None \notin Turns
  BY ConstantsAssumption DEF IInv, TypeOK
<1>3. /\ row'.intent = IF outcome[q].intent = None THEN copy[q].intent ELSE outcome[q].intent
      /\ row'.hitl = outcome[q].hitl
      /\ row'.scope = IF outcome[q].kind = "confirmed" THEN outcome[q].scope ELSE copy[q].scope
  BY DEF Applied
<1>4. CASE thread.interrupted
  <2>1. v.node = "request" /\ v.intent \in Turns  BY <1>2, <1>4 DEF Coherent
  <2>2. outcome[q].hitl = v.hitl /\ outcome[q].intent = v.intent
    BY <1>1, <1>4 DEF OutcomeOf
  <2>3. row'.hitl = v.hitl /\ row'.intent = v.intent  BY <1>2, <1>3, <2>1, <2>2
  <2> QED  BY <1>4, <2>1, <2>3 DEF Agree
<1>5. CASE ~thread.interrupted /\ v.node = "confirmed"
  <2>1. v.intent \in Turns  BY <1>2, <1>5 DEF Coherent
  <2>2. /\ outcome[q].hitl = Resolved /\ outcome[q].intent = v.intent
        /\ outcome[q].kind = "confirmed" /\ outcome[q].scope = v.scope
    BY <1>1, <1>5 DEF OutcomeOf
  <2>3. row'.hitl = Resolved /\ row'.intent = v.intent /\ row'.scope = v.scope
    BY <1>2, <1>3, <2>1, <2>2
  <2> QED  BY <1>5, <2>3, HitlAssumption DEF Agree, Pending
<1>6. CASE ~thread.interrupted /\ v.node = "asked"
  <2>1. row'.hitl = None  BY <1>1, <1>3, <1>6 DEF OutcomeOf
  <2> QED  BY <1>6, <2>1, HitlAssumption DEF Agree, Pending
<1> QED  BY <1>1, <1>4, <1>5, <1>6 DEF Readable, Over

LEMMA ApplyOutcomeKeepsPromises ==
    ASSUME IInv, PromiseInv, NEW q \in Requests, ApplyOutcome(q)
    PROVE  PromiseInv'
<1> DEFINE new == Applied(q)
<1>1. /\ pc[q] = "apply" /\ pc[q] \in Live
      /\ pc' = [pc EXCEPT ![q] = pc'[q]] /\ pc'[q] \in {"done", "failed"}
      /\ UNCHANGED <<thread, copy, local, outcome, said, overlapped>>
      /\ row \in Row /\ copy[q] \in Row /\ outcome[q] \in Outcome
      /\ row' = row \/ row' = Saved(copy[q], new)
  BY DEF IInv, TypeOK, ApplyOutcome, GoTo, Live
<1>2. /\ Active' \subseteq Active /\ q \in Active
      /\ \A r \in Requests : Alone(r)' => r = q
      /\ OneAtATime' /\ (last' = last => LastAgrees')
      /\ Alone(q) => Active = {q}
  BY <1>1, Acts DEF IInv, PromiseInv
<1>3. q \notin Active'  BY <1>1 DEF Active, Live, InGraph
<1>4. CopyIsCurrent' /\ ThreadIsOwn'
  BY <1>2, <1>3 DEF CopyIsCurrent, ThreadIsOwn, Alone
<1>5. new \in Row /\ copy[q].messages \subseteq new.messages
  BY <1>1 DEF Applied, Row, Outcome, Message
<1> HIDE DEF new
<1>6. SaidIsKept'
  <2> SUFFICES ASSUME NEW t \in said \ overlapped
               PROVE  /\ pc'[t] \notin {"idle", "save"}
                      /\ <<t, "user">> \in row'.messages
                      /\ \A r \in Active' : Holds(r, t)' \/ (r = t /\ pc'[t] = "enter")
    BY <1>1 DEF SaidIsKept
  <2>1. /\ t \in Requests /\ pc[t] \notin {"idle", "save"}
        /\ <<t, "user">> \in row.messages
        /\ \A r \in Active : Holds(r, t) \/ (r = t /\ pc[t] = "enter")
    BY DEF IInv, TypeOK, Requests, PromiseInv, SaidIsKept
  <2>2. pc'[t] \notin {"idle", "save"} /\ (t # q => pc'[t] = pc[t])
    BY <1>1, <2>1 DEF IInv, TypeOK
  <2>3. <<t, "user">> \in new.messages  BY <1>1, <1>2, <1>5, <2>1 DEF Holds
  <2>4. <<t, "user">> \in row'.messages  BY <1>1, <2>1, <2>3, SavedKeepsTexts
  <2>5. \A r : Holds(r, t)' = Holds(r, t)  BY <1>1 DEF Holds
  <2> QED  BY <1>2, <1>3, <2>1, <2>2, <2>4, <2>5
<1>7. LastAgrees'
  <2>1. CASE last' = last  BY <1>2, <2>1
  <2>2. CASE last' # last
    <3>1. /\ last' = q /\ outcome[q].kind # "error" /\ row' = Saved(copy[q], new)
      BY <2>2 DEF ApplyOutcome, new
    <3> SUFFICES ASSUME q \notin overlapped PROVE Active' = {} /\ Agree(thread.values)'
      BY <1>1, <3>1 DEF LastAgrees
    <3>2. Alone(q)  BY <1>2 DEF Alone
    <3>3. Active' = {}  BY <1>2, <1>3, <3>2
    <3>4. copy[q] = row  BY <1>1, <3>2 DEF PromiseInv, CopyIsCurrent
    <3>5. row' = Applied(q)  BY <1>1, <1>5, <3>1, <3>4, SavedIsNew DEF new
    <3> QED  BY <1>1, <3>1, <3>2, <3>3, <3>5, AppliedAgrees
  <2> QED  BY <2>1, <2>2
<1> QED  BY <1>2, <1>4, <1>6, <1>7 DEF PromiseInv

LEMMA RestartKeepsPromises ==
    ASSUME IInv, PromiseInv, Restart
    PROVE  PromiseInv'
<1>1. /\ pc' = [q \in Requests |-> IF q \in Active THEN "lost" ELSE pc[q]]
      /\ last' = None /\ UNCHANGED <<row, copy, said, overlapped>>
  BY DEF Restart
<1>2. Active' = {}  BY <1>1 DEF Active, Live, InGraph
<1>3. OneAtATime' /\ CopyIsCurrent' /\ ThreadIsOwn' /\ LastAgrees'
  BY <1>1, <1>2 DEF OneAtATime, CopyIsCurrent, ThreadIsOwn, LastAgrees, Alone
<1>4. SaidIsKept'
  BY <1>1, <1>2 DEF SaidIsKept, PromiseInv, IInv, TypeOK, Requests
<1> QED  BY <1>3, <1>4 DEF PromiseInv
-----------------------------------------------------------------------------
LEMMA NextKeepsPromises == IInv /\ PromiseInv /\ [Next]_vars => PromiseInv'
<1> SUFFICES ASSUME IInv, PromiseInv, [Next]_vars PROVE PromiseInv'  OBVIOUS
<1>1. ASSUME NEW q \in Requests, Request(q) PROVE PromiseInv'
  BY <1>1, LoadKeepsPromises, SaveUserKeepsPromises, EnterTurnKeepsPromises,
     EnterResumeKeepsPromises, NodesKeepPromises, InterruptKeepsPromises,
     GraphRaisesKeepsPromises, ReadOutcomeKeepsPromises, ApplyOutcomeKeepsPromises,
     LeaveKeepsPromises
  DEF Request
<1>2. CASE Restart  BY <1>2, RestartKeepsPromises
<1>3. CASE UNCHANGED vars
  BY <1>3 DEF vars, historyVars, PromiseInv, OneAtATime, CopyIsCurrent, ThreadIsOwn,
              SaidIsKept, LastAgrees, Alone, Active, Readable, OutcomeOf, Holds, Agree, Pending
<1> QED  BY <1>1, <1>2, <1>3 DEF Next

(* The inductive invariant about requests that overlap no other: what they *)
(* may rely on, and what they leave in the row.                            *)
THEOREM PromiseInvariance == Spec => []PromiseInv
  BY InitPromiseInv, NextKeepsPromises, Invariance, PTL DEF Spec

(* Whatever overlapping requests write back, and wherever turns are        *)
(* cancelled, fail or are cut off: the text of a turn that overlapped no   *)
(* other request stays in the session's messages.                          *)
THEOREM NothingIsUnsaid == Spec => []NothingSaidIsLost
<1>1. PromiseInv => NothingSaidIsLost
  BY DEF PromiseInv, SaidIsKept, NothingSaidIsLost
<1> QED  BY <1>1, PromiseInvariance, PTL

(* Whatever earlier requests left behind: after a request that ran alone   *)
(* and ended well the row shows the question, the intent and the scope     *)
(* that the thread has.                                                    *)
THEOREM RowShowsTheThread == Spec => []RowFollowsThread
<1>1. PromiseInv => RowFollowsThread
  BY DEF PromiseInv, LastAgrees, RowFollowsThread
<1> QED  BY <1>1, PromiseInvariance, PTL
-----------------------------------------------------------------------------
(* What becomes of an answer.                                              *)

(* The run that was given the answer goes on with the place picked.        *)
LeadsOn(v, p) ==
    /\ v.chosen = p
    /\ v.node \in {"classify", "request", "confirm", "confirmed"}
    /\ v.node = "request" => v.hitl.of = v.intent /\ v.hitl.options \subseteq {p, HubsDefault}
    /\ v.node \in {"confirm", "confirmed"} => v.scope = [place |-> p, of |-> v.intent]

Held(q, p) ==
    /\ pc[q] \in {"run", "read", "apply"} \cup Ended
    /\ pc[q] \in {"run", "read"} => LeadsOn(local[q], p)
    /\ pc[q] = "read" => local[q].node \in {"request", "confirmed"}
    /\ pc[q] \in {"apply", "done"} => Heeded(q, p)

AnswerInv == \A q \in Resumes, p \in Options : <<q, p>> \in answered => Held(q, p)

(* What another request does leaves the run alone.                         *)
LEMMA HeldBeside ==
    ASSUME NEW q, NEW p, Held(q, p), overlapped \subseteq overlapped',
           pc'[q] = pc[q], local'[q] = local[q], outcome'[q] = outcome[q]
    PROVE  Held(q, p)'
  BY DEF Held, Heeded

(* A step of request r touches the run, the outcome and the answers of r   *)
(* only.                                                                   *)
LEMMA ActsForItself ==
    ASSUME TypeOK, NEW r \in Requests, Request(r)
    PROVE  /\ \A q \in Requests \ {r} : /\ pc'[q] = pc[q] /\ local'[q] = local[q]
                                        /\ outcome'[q] = outcome[q]
           /\ overlapped \subseteq overlapped'
           /\ ~RequestHitl(r) => answered' = answered
           /\ \A q \in Requests \ {r} :
                \A p : <<q, p>> \in answered' => <<q, p>> \in answered
<1>1. CASE Load(r) \/ SaveUser(r) \/ ApplyOutcome(r) \/ Leave(r)
  BY <1>1 DEF Load, SaveUser, ApplyOutcome, Leave, GoTo, historyVars, TypeOK
<1>2. CASE EnterTurn(r) \/ EnterResume(r) \/ Interrupt(r) \/ GraphRaises(r) \/ ReadOutcome(r)
  BY <1>2 DEF EnterTurn, EnterResume, Interrupt, GraphRaises, ReadOutcome, Put, GoTo, historyVars, TypeOK
<1>3. CASE ParseIntent(r) \/ GeocodeSearch(r) \/ ClassifyScope(r) \/ ConfirmScope(r)
  <2>1. PICK v : Step(r, v)
    BY <1>3 DEF ParseIntent, GeocodeSearch, ClassifyScope, ConfirmScope
  <2>2. answered' = answered
    BY <1>3 DEF ParseIntent, GeocodeSearch, ClassifyScope, ConfirmScope
  <2> QED  BY <2>1, <2>2 DEF Step, Put, GoTo, TypeOK
<1>4. CASE RequestHitl(r)
  <2>1. PICK v : Step(r, v)  BY <1>4 DEF RequestHitl
  <2>2. answered' = answered \/ \E choice : answered' = answered \cup {<<r, choice>>}
    BY <1>4 DEF RequestHitl
  <2> QED  BY <1>4, <2>1, <2>2 DEF Step, Put, GoTo, TypeOK
<1> QED  BY <1>1, <1>2, <1>3, <1>4 DEF Request

(* classify_scope asks about the chosen place or makes the scope of it.    *)
LEMMA ClassifiedLeadsOn ==
    ASSUME NEW v \in Values, NEW p, LeadsOn(v, p)
    PROVE  LeadsOn(Classified(v), p) /\ Classified(v).node \in {"request", "confirm"}
<1>1. CASE v.chosen \in Vague
  BY <1>1 DEF LeadsOn, Classified, Ask, Values
<1>2. CASE v.chosen \notin Vague /\ <<v.intent, v.chosen>> \in Hubless
  BY <1>2 DEF LeadsOn, Classified, Ask, Values
<1>3. CASE v.chosen \notin Vague /\ <<v.intent, v.chosen>> \notin Hubless
  BY <1>3 DEF LeadsOn, Classified, Ask, Values
<1> QED  BY <1>1, <1>2, <1>3

(* The resume recognises the choice.                                       *)
LEMMA ChoiceIsTaken ==
    ASSUME IInv, AnswerInv, NEW q \in Resumes, NEW p \in Options, RequestHitl(q),
           <<q, p>> \in answered'
    PROVE  Held(q, p)'
<1>1. /\ pc[q] = "resume" /\ q \in Requests /\ local[q] \in Values
      /\ pc \in [Requests -> {"idle"} \cup Live \cup Ended] /\ local \in [Requests -> Values]
  BY DEF RequestHitl, Requests, IInv, TypeOK
<1>2. <<q, p>> \notin answered
  BY <1>1 DEF AnswerInv, Held, Ended
<1>3. Step(q, [local[q] EXCEPT !.node = "classify", !.hitl = Resolved, !.chosen = p])
  <2>1. PICK choice \in Options \cup {Unknown} :
          LET v == local[q]
              offered == choice \in v.hitl.options
          IN  /\ IF offered \/ v.hitl.kind = "hubs"
                 THEN Step(q, [v EXCEPT !.node = "classify", !.hitl = Resolved,
                                        !.chosen = IF offered THEN choice ELSE @])
                 ELSE Step(q, [v EXCEPT !.node = "asked"])
              /\ grounded' = IF offered THEN grounded \cup {<<v.intent, choice>>} ELSE grounded
              /\ answered' = IF offered THEN answered \cup {<<q, choice>>} ELSE answered
    BY DEF RequestHitl
  <2>2. choice \in local[q].hitl.options /\ choice = p  BY <1>2, <2>1
  <2> QED  BY <2>1, <2>2
<1>4. pc'[q] = "run" /\ local'[q] = [local[q] EXCEPT !.node = "classify", !.hitl = Resolved, !.chosen = p]
  BY <1>1, <1>3 DEF Step, Put, GoTo, Over, Values
<1>5. LeadsOn(local'[q], p)
  BY <1>1, <1>4 DEF LeadsOn, Values
<1> QED  BY <1>4, <1>5 DEF Held

(* The run of the answer goes on by a step of its own.                     *)
LEMMA RunOfAnswer ==
    ASSUME IInv, PromiseInv, NEW q \in Resumes, NEW p \in Options, Held(q, p), Request(q)
    PROVE  Held(q, p)'
<1>1. /\ q \in Requests /\ q \notin Turns
      /\ pc \in [Requests -> {"idle"} \cup Live \cup Ended] /\ local \in [Requests -> Values]
      /\ outcome \in [Requests -> Outcome] /\ local[q] \in Values
  BY ConstantsAssumption DEF Requests, IInv, TypeOK
<1>2. pc[q] \in {"run", "read", "apply"}
  BY DEF Held, Request, Load, SaveUser, EnterTurn, EnterResume, ParseIntent, GeocodeSearch,
         Interrupt, RequestHitl, ClassifyScope, ConfirmScope, GraphRaises, ReadOutcome,
         ApplyOutcome, Leave, At, Live, InGraph, Ended
<1>3. CASE Interrupt(q)
  <2>1. /\ pc'[q] = "read" /\ local' = local /\ local[q].node = "request" /\ pc[q] = "run"
    BY <1>1, <1>3 DEF Interrupt, GoTo
  <2> QED  BY <2>1 DEF Held
<1>4. CASE ClassifyScope(q)
  <2>1. pc[q] = "run" /\ Step(q, Classified(local[q]))
    BY <1>2, <1>4 DEF ClassifyScope, At, InGraph
  <2>2. LeadsOn(Classified(local[q]), p) /\ Classified(local[q]).node \in {"request", "confirm"}
    BY <1>1, <2>1, ClassifiedLeadsOn DEF Held
  <2>3. pc'[q] = "run" /\ local'[q] = Classified(local[q])
    BY <1>1, <2>1, <2>2 DEF Step, Put, GoTo, Over
  <2> QED  BY <2>2, <2>3 DEF Held
<1>5. CASE ConfirmScope(q)
  <2>1. /\ pc[q] = "run" /\ local[q].node = "confirm"
        /\ Step(q, [local[q] EXCEPT !.node = "confirmed"])
    BY <1>2, <1>5 DEF ConfirmScope, At, InGraph
  <2>2. pc'[q] = "read" /\ local'[q] = [local[q] EXCEPT !.node = "confirmed"]
    BY <1>1, <2>1 DEF Step, Put, GoTo, Over, Values
  <2>3. LeadsOn(local[q], p)  BY <2>1 DEF Held
  <2>4. LeadsOn(local'[q], p) /\ local'[q].node = "confirmed"
    BY <1>1, <2>1, <2>2, <2>3 DEF LeadsOn, Values
  <2> QED  BY <2>2, <2>4 DEF Held
<1>6. CASE GraphRaises(q)
  <2>1. pc[q] = "run" /\ LeadsOn(local[q], p)
    BY <1>2, <1>6 DEF GraphRaises, InGraph, Held
  <2>2. /\ pc'[q] = "apply" /\ outcome'[q] = Error
        /\ "graph" \in Faults \/ local[q].chosen = HubsDefault
    BY <1>1, <1>6 DEF GraphRaises, GoTo
  <2>3. Heeded(q, p)'  BY <2>1, <2>2 DEF Heeded, Error, LeadsOn
  <2> QED  BY <2>2, <2>3 DEF Held
<1>7. CASE ReadOutcome(q)
  <2>1. /\ pc[q] = "read" /\ pc'[q] = "apply" /\ outcome'[q] = OutcomeOf(local[q])
        /\ overlapped' = overlapped
    BY <1>1, <1>7 DEF ReadOutcome, GoTo, historyVars
  <2>2. LeadsOn(local[q], p) /\ local[q].node \in {"request", "confirmed"}
    BY <2>1 DEF Held
  <2>3. CASE thread.interrupted
    <3>1. outcome'[q].kind = "hitl" /\ outcome'[q].hitl = thread.values.hitl
          /\ outcome'[q].intent = local[q].intent
      BY <2>1, <2>3 DEF OutcomeOf
    <3>2. CASE q \in overlapped
      BY <2>1, <3>1, <3>2 DEF Held, Heeded
    <3>3. CASE q \notin overlapped
      <4>1. Alone(q)  BY <1>1, <2>1, <3>3 DEF Alone, Active, Live
      <4>2. thread.values = local[q] /\ thread.values.node = "request"
        BY <1>1, <2>1, <2>3, <4>1 DEF PromiseInv, ThreadIsOwn, IInv, TypeOK
      <4> QED  BY <2>1, <2>2, <3>1, <4>2 DEF Held, Heeded, LeadsOn
    <3> QED  BY <3>2, <3>3
  <2>4. CASE ~thread.interrupted /\ local[q].node = "confirmed"
    <3>1. outcome'[q].kind = "confirmed" /\ outcome'[q].scope = local[q].scope
          /\ outcome'[q].intent = local[q].intent
      BY <2>1, <2>4 DEF OutcomeOf
    <3> QED  BY <2>1, <2>2, <2>4, <3>1 DEF Held, Heeded, LeadsOn
  <2>5. CASE ~thread.interrupted /\ local[q].node = "request"
    <3>1. outcome'[q].kind = "hitl" /\ outcome'[q].hitl = local[q].hitl
          /\ outcome'[q].intent = local[q].intent
      BY <2>1, <2>5 DEF OutcomeOf
    <3> QED  BY <2>1, <2>2, <2>5, <3>1 DEF Held, Heeded, LeadsOn
  <2> QED  BY <2>2, <2>3, <2>4, <2>5
<1>8. CASE ApplyOutcome(q)
  <2>1. /\ pc[q] = "apply" /\ pc'[q] \in {"done", "failed"}
        /\ outcome' = outcome /\ overlapped' = overlapped
    BY <1>1, <1>8 DEF ApplyOutcome, GoTo
  <2>2. Heeded(q, p)'  BY <2>1 DEF Held, Heeded
  <2> QED  BY <2>1, <2>2 DEF Held, Ended
<1>9. ~(ParseIntent(q) \/ GeocodeSearch(q) \/ RequestHitl(q))
  BY <1>2 DEF ParseIntent, GeocodeSearch, RequestHitl, At, InGraph, Held, LeadsOn
<1>10. ~(Load(q) \/ SaveUser(q) \/ EnterTurn(q) \/ EnterResume(q) \/ Leave(q))
  BY <1>1, <1>2 DEF Load, SaveUser, EnterTurn, EnterResume, Leave
<1> QED  BY <1>3, <1>4, <1>5, <1>6, <1>7, <1>8, <1>9, <1>10 DEF Request

LEMMA NextKeepsAnswers ==
    ASSUME IInv, PromiseInv, AnswerInv, [Next]_vars
    PROVE  AnswerInv'
<1> SUFFICES ASSUME NEW q \in Resumes, NEW p \in Options, <<q, p>> \in answered' PROVE Held(q, p)'
  BY DEF AnswerInv
<1>1. q \in Requests /\ TypeOK  BY DEF Requests, IInv
<1>2. ASSUME NEW r \in Requests, Request(r) PROVE Held(q, p)'
  <2>1. CASE r # q
    <3>1. /\ <<q, p>> \in answered /\ overlapped \subseteq overlapped'
          /\ pc'[q] = pc[q] /\ local'[q] = local[q] /\ outcome'[q] = outcome[q]
      BY <1>1, <1>2, <2>1, ActsForItself
    <3> QED  BY <3>1, HeldBeside DEF AnswerInv
  <2>2. CASE r = q /\ RequestHitl(q)  BY <2>2, ChoiceIsTaken
  <2>3. CASE r = q /\ ~RequestHitl(q)
    <3>1. <<q, p>> \in answered  BY <1>1, <1>2, <2>3, ActsForItself
    <3> QED  BY <1>2, <2>3, <3>1, RunOfAnswer DEF AnswerInv
  <2> QED  BY <2>1, <2>2, <2>3
<1>3. CASE Restart
  <2>1. /\ answered' = answered /\ local' = local /\ outcome' = outcome /\ overlapped' = overlapped
        /\ pc'[q] = "lost" \/ pc'[q] = pc[q]
    BY <1>1, <1>3 DEF Restart
  <2>2. Held(q, p)  BY <2>1 DEF AnswerInv
  <2>3. CASE pc'[q] = "lost"  BY <2>3 DEF Held, Ended
  <2>4. CASE pc'[q] = pc[q]  BY <2>1, <2>2, <2>4, HeldBeside
  <2> QED  BY <2>1, <2>3, <2>4
<1>4. CASE UNCHANGED vars
  BY <1>4, HeldBeside DEF vars, historyVars, AnswerInv
<1> QED  BY <1>2, <1>3, <1>4 DEF Next

(* Whatever runs beside it on the thread: a resume that picked an option   *)
(* ends with that place's scope or, alone, with a question about it.       *)
THEOREM AnswersLeadOn == Spec => []AnswersAreHeeded
<1>1. Init => AnswerInv  BY DEF Init, AnswerInv
<1>2. IInv /\ PromiseInv /\ AnswerInv /\ [Next]_vars => AnswerInv'  BY NextKeepsAnswers
<1>3. AnswerInv => AnswersAreHeeded  BY DEF AnswerInv, Held, AnswersAreHeeded
<1> QED  BY <1>1, <1>2, <1>3, Invariance, PromiseInvariance, PTL DEF Spec
-----------------------------------------------------------------------------
(* What comes back.                                                        *)

(* An error carries no intent, scope or question.                          *)
ErrorsAreEmpty == \A q \in Requests : outcome[q].kind = "error" => outcome[q].intent = None

LEMMA ErrorsStayEmpty == TypeOK /\ ErrorsAreEmpty /\ [Next]_vars => ErrorsAreEmpty'
<1> SUFFICES ASSUME TypeOK, ErrorsAreEmpty, [Next]_vars PROVE ErrorsAreEmpty'  OBVIOUS
<1>1. ASSUME NEW r \in Requests, Request(r) PROVE ErrorsAreEmpty'
  <2>1. CASE GraphRaises(r)
    BY <2>1 DEF GraphRaises, Error, ErrorsAreEmpty, TypeOK
  <2>2. CASE ReadOutcome(r)
    BY <2>2 DEF ReadOutcome, OutcomeOf, ErrorsAreEmpty, TypeOK
  <2>3. CASE ~GraphRaises(r) /\ ~ReadOutcome(r)
    <3>1. outcome' = outcome
      BY <1>1, <2>3 DEF Request, Load, SaveUser, EnterTurn, EnterResume, ParseIntent, GeocodeSearch,
         Interrupt, RequestHitl, ClassifyScope, ConfirmScope, ApplyOutcome, Leave, Step
    <3> QED  BY <3>1 DEF ErrorsAreEmpty
  <2> QED  BY <2>1, <2>2, <2>3
<1>2. CASE Restart \/ UNCHANGED vars
  BY <1>2 DEF Restart, vars, ErrorsAreEmpty
<1> QED  BY <1>1, <1>2 DEF Next

(* A save of a user's text keeps everything else of the row; a save of an  *)
(* outcome takes what it changes from the outcome.                         *)
LEMMA SavesAreOfOutcomes ==
    ASSUME TypeOK, ErrorsAreEmpty, NEW q \in Requests, Request(q), row' # row
    PROVE  /\ row'.scope # row.scope =>
                outcome[q].kind = "confirmed" /\ pc[q] = "apply" /\ row'.scope = outcome[q].scope
           /\ row'.hitl # row.hitl =>
                outcome[q].kind # "error" /\ pc[q] = "apply" /\ row'.hitl = outcome[q].hitl
           /\ row'.intent # row.intent =>
                outcome[q].kind # "error" /\ pc[q] = "apply" /\ row'.intent = outcome[q].intent
<1>1. row \in Row /\ copy[q] \in Row  BY DEF TypeOK
<1>2. SaveUser(q) \/ ApplyOutcome(q)
  BY DEF Request, Load, EnterTurn, EnterResume, ParseIntent, GeocodeSearch, Interrupt, RequestHitl,
         ClassifyScope, ConfirmScope, GraphRaises, ReadOutcome, Leave, Step
<1>3. CASE SaveUser(q)
  <2> DEFINE new == [copy[q] EXCEPT !.messages = @ \cup {<<q, "user">>}]
  <2>1. row' = Saved(copy[q], new)  BY <1>3 DEF SaveUser
  <2>2. /\ new.scope = copy[q].scope /\ new.hitl = copy[q].hitl /\ new.intent = copy[q].intent
    BY <1>1 DEF Row
  <2> HIDE DEF new
  <2> QED  BY <2>1, <2>2 DEF Saved
<1>4. CASE ApplyOutcome(q)
  <2>1. pc[q] = "apply" /\ row' = Saved(copy[q], Applied(q))  BY <1>4 DEF ApplyOutcome
  <2>2. /\ row'.scope # row.scope => row'.scope = Applied(q).scope /\ Applied(q).scope # copy[q].scope
        /\ row'.hitl # row.hitl => row'.hitl = Applied(q).hitl /\ Applied(q).hitl # copy[q].hitl
        /\ row'.intent # row.intent => row'.intent = Applied(q).intent /\ Applied(q).intent # copy[q].intent
    BY <2>1 DEF Saved
  <2> QED  BY <2>1, <2>2 DEF Applied, ErrorsAreEmpty
<1> QED  BY <1>2, <1>3, <1>4

(* What a save changes of scope, question and intent is what its own run   *)
(* came to, never an old value that the request was loaded with.           *)
THEOREM OldTripsStayReplaced == Spec => NothingStaleComesBack
<1>1. Init => ErrorsAreEmpty  BY DEF Init, ErrorsAreEmpty, Error
<1>2. TypeOK /\ ErrorsAreEmpty /\ [Next]_vars =>
        /\ row'.scope # row.scope =>
             \E q \in Requests : outcome[q].kind = "confirmed" /\ pc[q] = "apply" /\ row'.scope = outcome[q].scope
        /\ row'.hitl # row.hitl =>
             \E q \in Requests : outcome[q].kind # "error" /\ pc[q] = "apply" /\ row'.hitl = outcome[q].hitl
        /\ row'.intent # row.intent =>
             \E q \in Requests : outcome[q].kind # "error" /\ pc[q] = "apply" /\ row'.intent = outcome[q].intent
  <2> SUFFICES ASSUME TypeOK, ErrorsAreEmpty, [Next]_vars, row' # row
               PROVE  \E q \in Requests : Request(q)
    BY SavesAreOfOutcomes
  <2> QED  BY DEF Next, Restart, vars
<1> QED  BY <1>1, <1>2, ErrorsStayEmpty, TypeCorrect, PTL DEF Spec, NothingStaleComesBack
=============================================================================
