------------------------- MODULE ChatDialogueProofs -------------------------
(***************************************************************************)
(* Proofs about ChatDialogue: its type invariant, and that a session's     *)
(* trip scope is never a silent choice.                                    *)
(*                                                                         *)
(* The row gets its scope from an outcome, the outcome from the values of  *)
(* a run, the run's values from the thread, and the thread's from another  *)
(* run.  So the invariant says of all of them that what they hold was the  *)
(* only match or was picked (Grounded).  TypeOK needs that the checkpoint  *)
(* a run owns holds that run's values (OwnCheckpoint), because an          *)
(* interrupt is noted on a checkpoint without looking at its values.       *)
(***************************************************************************)
EXTENDS ChatDialogue, TLAPS

GroundedScope(s, g) == s # None => <<s.of, s.place>> \in g

GroundedValues(v, g) ==
    /\ v.chosen # None => <<v.intent, v.chosen>> \in g
    /\ v.node \in {"parse", "geocode"} => v.chosen = None
    /\ GroundedScope(v.scope, g)

Grounded ==
    /\ GroundedScope(row.scope, grounded)
    /\ GroundedValues(thread.values, grounded)
    /\ \A q \in Requests : /\ GroundedScope(copy[q].scope, grounded)
                           /\ GroundedValues(local[q], grounded)
                           /\ GroundedScope(outcome[q].scope, grounded)

OwnCheckpoint ==
    \A q \in Requests :
        thread.owner = q /\ pc[q] \in InGraph => thread.values = local[q]

IInv == TypeOK /\ OwnCheckpoint /\ Grounded
-----------------------------------------------------------------------------
(* Records built by the model are of their types.                          *)
LEMMA FreshIsTyped ==
    ASSUME NEW t \in Turns \cup {None}
    PROVE  /\ Fresh(t) \in Values
           /\ Coherent(Fresh(t))
           /\ \A g : GroundedValues(Fresh(t), g)
  BY DEF Fresh, Values, Hitl, Coherent, GroundedValues, GroundedScope, Over

LEMMA SavedIsTyped ==
    ASSUME row \in Row, NEW old \in Row, NEW new \in Row
    PROVE  /\ Saved(old, new) \in Row
           /\ Saved(old, new).scope \in {row.scope, new.scope}
  BY DEF Saved, Row

(* A node's return keeps the invariant when the values it returns are good *)
(* and the history only grows.                                             *)
LEMMA StepKeeps ==
    ASSUME IInv,
           NEW q \in Requests, NEW v \in Values, Coherent(v), Step(q, v),
           grounded \subseteq grounded', grounded' \subseteq Turns \X Options,
           answered' \subseteq Resumes \X Options,
           GroundedValues(v, grounded')
    PROVE  IInv'
<1> USE DEF IInv
<1>1. TypeOK'
  BY ConstantsAssumption DEF TypeOK, Step, Put, GoTo, Live, InGraph, Requests
<1>2. OwnCheckpoint'
  <2> SUFFICES ASSUME NEW r \in Requests, thread'.owner = r
               PROVE  thread'.values = local'[r]
    BY DEF OwnCheckpoint
  <2> QED  BY DEF Step, Put, TypeOK
<1>3. Grounded'
  <2>1. GroundedScope(row.scope, grounded)' /\ GroundedValues(thread.values, grounded)'
    BY DEF Step, Put, Grounded, GroundedScope
  <2>2. ASSUME NEW r \in Requests
        PROVE  GroundedScope(copy[r].scope, grounded)' /\ GroundedScope(outcome[r].scope, grounded)'
    BY DEF Step, Grounded, GroundedScope
  <2>3. ASSUME NEW r \in Requests
        PROVE  GroundedValues(local[r], grounded)'
    <3>1. CASE r = q  BY <3>1 DEF Step, Put, TypeOK
    <3>2. CASE r # q
      <4>1. local'[r] = local[r]  BY <3>2 DEF Step, Put, TypeOK
      <4> QED  BY <4>1 DEF Grounded, GroundedValues, GroundedScope
    <3> QED  BY <3>1, <3>2
  <2> QED  BY <2>1, <2>2, <2>3 DEF Grounded
<1> QED  BY <1>1, <1>2, <1>3
-----------------------------------------------------------------------------
LEMMA InitIInv == Init => IInv
<1> SUFFICES ASSUME Init PROVE IInv  OBVIOUS
<1>1. /\ Fresh(None) \in Values /\ Coherent(Fresh(None))
      /\ GroundedValues(Fresh(None), {}) /\ Fresh(None).node = "parse"
  BY FreshIsTyped DEF Fresh
<1>2. NewRow \in Row /\ NewRow.scope = None
  BY DEF NewRow, Row, Hitl
<1>3. Error \in Outcome /\ Error.scope = None
  BY DEF Error, Outcome, Hitl
<1>4. TypeOK
  BY <1>1, <1>2, <1>3 DEF Init, TypeOK, NoThread
<1>5. OwnCheckpoint
  BY DEF Init, OwnCheckpoint, InGraph
<1>6. Grounded
  BY <1>1, <1>2, <1>3 DEF Init, Grounded, GroundedScope, NoThread
<1> QED  BY <1>4, <1>5, <1>6 DEF IInv

(* The nodes of the graph: the values each of them returns are good.       *)
LEMMA ParseIntentKeeps ==
    ASSUME IInv, NEW q \in Requests, ParseIntent(q)
    PROVE  IInv'
<1> DEFINE v == local[q]
           asked == [v EXCEPT !.node = "asked", !.intent = None, !.scope = None, !.hitl = None]
           going == [v EXCEPT !.node = "geocode", !.intent = v.text]
<1>1. v \in Values /\ GroundedValues(v, grounded) /\ v.node = "parse"
  BY DEF IInv, TypeOK, Grounded, ParseIntent, At
<1>2. grounded' = grounded /\ answered' = answered
  BY DEF ParseIntent
<1>3. CASE Step(q, asked)
  <2>1. asked \in Values /\ Coherent(asked)
    BY <1>1 DEF Values, Coherent, Hitl, Over
  <2>2. GroundedValues(asked, grounded)
    BY <1>1 DEF GroundedValues, GroundedScope, Values
  <2> QED  BY <1>2, <1>3, <2>1, <2>2, StepKeeps DEF IInv, TypeOK
<1>4. CASE v.text # None /\ Step(q, going)
  <2>1. going \in Values /\ Coherent(going)
    BY <1>1, <1>4 DEF Values, Coherent, Over
  <2>2. GroundedValues(going, grounded)
    BY <1>1 DEF GroundedValues, GroundedScope, Values
  <2> QED  BY <1>2, <1>4, <2>1, <2>2, StepKeeps DEF IInv, TypeOK
<1> QED  BY <1>3, <1>4 DEF ParseIntent

LEMMA AskIsGood ==
    ASSUME NEW v \in Values, NEW g, NEW kind \in {"place", "hubs"}, NEW options \in SUBSET Options,
           v.intent \in Turns, kind = "hubs" => v.chosen \in Places,
           v.chosen # None => <<v.intent, v.chosen>> \in g, GroundedScope(v.scope, g)
    PROVE  /\ Ask(v, kind, options) \in Values
           /\ Coherent(Ask(v, kind, options))
           /\ GroundedValues(Ask(v, kind, options), g)
<1> DEFINE question == [kind |-> kind, options |-> options, of |-> v.intent]
           a == Ask(v, kind, options)
<1>1. question \in Question /\ question.kind = kind  BY DEF Question
<1>2. /\ a.node = "request" /\ a.hitl = question /\ a.text = v.text /\ a.intent = v.intent
      /\ a.chosen = v.chosen /\ a.scope = v.scope
      /\ a = [v EXCEPT !.node = "request", !.hitl = question]
  BY DEF Ask, Values
<1> HIDE DEF question, a
<1>3. a \in Values  BY <1>1, <1>2 DEF Values, Hitl
<1>4. Coherent(a)  BY <1>1, <1>2 DEF Coherent
<1>5. GroundedValues(a, g)  BY <1>2 DEF GroundedValues
<1> QED  BY <1>3, <1>4, <1>5 DEF a

LEMMA GeocodeSearchKeeps ==
    ASSUME IInv, NEW q \in Requests, GeocodeSearch(q)
    PROVE  IInv'
<1> DEFINE v == local[q]
           asked == [v EXCEPT !.node = "asked", !.scope = None, !.hitl = None]
           match(p) == [v EXCEPT !.node = "classify", !.chosen = p, !.hitl = None]
<1>1. /\ v \in Values /\ v.node = "geocode" /\ v.intent \in Turns /\ v.chosen = None
      /\ GroundedScope(v.scope, grounded)
  BY DEF IInv, TypeOK, Coherent, Grounded, GroundedValues, GeocodeSearch, At
<1>2. answered' = answered /\ answered \subseteq Resumes \X Options /\ grounded \subseteq Turns \X Options
  BY DEF GeocodeSearch, IInv, TypeOK
<1>3. CASE Step(q, asked) /\ grounded' = grounded
  <2>1. asked \in Values /\ Coherent(asked)
    BY <1>1 DEF Values, Coherent, Hitl, Over
  <2>2. GroundedValues(asked, grounded)
    BY <1>1 DEF GroundedValues, GroundedScope, Values
  <2> QED  BY <1>2, <1>3, <2>1, <2>2, StepKeeps
<1>4. ASSUME NEW p \in Places, Step(q, match(p)),
             grounded' = grounded \cup {<<v.intent, p>>}
      PROVE  IInv'
  <2>1. match(p) \in Values /\ Coherent(match(p))
    BY <1>1 DEF Values, Coherent, Hitl, Over, Options
  <2>2. GroundedValues(match(p), grounded')
    BY <1>1, <1>4 DEF GroundedValues, GroundedScope, Values
  <2>3. grounded \subseteq grounded' /\ grounded' \subseteq Turns \X Options
    BY <1>1, <1>2, <1>4 DEF Options
  <2> QED  BY <1>2, <1>4, <2>1, <2>2, <2>3, StepKeeps
<1>5. ASSUME NEW found \in SUBSET Places, Step(q, Ask(v, "place", found)), UNCHANGED grounded
      PROVE  IInv'
  <2>1. /\ Ask(v, "place", found) \in Values /\ Coherent(Ask(v, "place", found))
        /\ GroundedValues(Ask(v, "place", found), grounded)
    BY <1>1, AskIsGood DEF Options
  <2> QED  BY <1>2, <1>5, <2>1, StepKeeps
<1> QED  BY <1>3, <1>4, <1>5 DEF GeocodeSearch

LEMMA RequestHitlKeeps ==
    ASSUME IInv, NEW q \in Requests, RequestHitl(q)
    PROVE  IInv'
<1> DEFINE v == local[q]
<1>1. PICK choice \in Options \cup {Unknown} :
        LET offered == choice \in v.hitl.options
        IN  /\ IF offered \/ v.hitl.kind = "hubs"
               THEN Step(q, [v EXCEPT !.node = "classify", !.hitl = Resolved,
                                      !.chosen = IF offered THEN choice ELSE @])
               ELSE Step(q, [v EXCEPT !.node = "asked"])
            /\ grounded' = IF offered THEN grounded \cup {<<v.intent, choice>>} ELSE grounded
            /\ answered' = IF offered THEN answered \cup {<<q, choice>>} ELSE answered
  BY DEF RequestHitl
<1> DEFINE offered == choice \in v.hitl.options
           picked == [v EXCEPT !.node = "classify", !.hitl = Resolved, !.chosen = choice]
           kept == [v EXCEPT !.node = "classify", !.hitl = Resolved]
           asked == [v EXCEPT !.node = "asked"]
<1>2. /\ v \in Values /\ v.intent \in Turns /\ v.hitl \in Question
      /\ v.hitl.kind = "hubs" => v.chosen \in Places
      /\ GroundedValues(v, grounded)
  BY DEF IInv, TypeOK, Coherent, Grounded, RequestHitl
<1>3. v.hitl.options \subseteq Options  BY <1>2 DEF Question
<1>4. grounded \subseteq Turns \X Options /\ answered \subseteq Resumes \X Options  BY DEF IInv, TypeOK
<1>5. /\ grounded \subseteq grounded' /\ grounded' \subseteq Turns \X Options
      /\ answered' \subseteq Resumes \X Options
  BY <1>1, <1>2, <1>3, <1>4 DEF RequestHitl
<1>6. CASE offered
  <2>1. Step(q, picked)  BY <1>1, <1>6
  <2>2. picked \in Values /\ Coherent(picked)
    BY <1>2, <1>3, <1>6 DEF Values, Coherent, Hitl, Over
  <2>3. GroundedValues(picked, grounded')
    BY <1>1, <1>2, <1>6 DEF GroundedValues, GroundedScope, Values
  <2> QED  BY <1>5, <2>1, <2>2, <2>3, StepKeeps
<1>7. CASE ~offered /\ v.hitl.kind = "hubs"
  <2>1. Step(q, kept)
    <3>1. [v EXCEPT !.node = "classify", !.hitl = Resolved, !.chosen = v.chosen] = kept
      BY <1>2 DEF Values
    <3> QED  BY <1>1, <1>7, <3>1
  <2>2. kept \in Values /\ Coherent(kept)
    BY <1>2, <1>7 DEF Values, Coherent, Hitl, Over, Options
  <2>3. GroundedValues(kept, grounded')
    BY <1>1, <1>2, <1>7 DEF GroundedValues, GroundedScope, Values
  <2> QED  BY <1>5, <2>1, <2>2, <2>3, StepKeeps
<1>8. CASE ~offered /\ v.hitl.kind # "hubs"
  <2>1. Step(q, asked)  BY <1>1, <1>8
  <2>2. asked \in Values /\ Coherent(asked)
    BY <1>2 DEF Values, Coherent, Over
  <2>3. GroundedValues(asked, grounded')
    BY <1>1, <1>2, <1>8 DEF GroundedValues, GroundedScope, Values
  <2> QED  BY <1>5, <2>1, <2>2, <2>3, StepKeeps
<1> QED  BY <1>6, <1>7, <1>8

LEMMA ClassifyScopeKeeps ==
    ASSUME IInv, NEW q \in Requests, ClassifyScope(q)
    PROVE  IInv'
<1> DEFINE v == local[q]
           scoped == [v EXCEPT !.node = "confirm", !.hitl = None,
                               !.scope = [place |-> v.chosen, of |-> v.intent]]
           good(w) == w \in Values /\ Coherent(w) /\ GroundedValues(w, grounded)
<1>1. /\ v \in Values /\ v.node = "classify" /\ v.intent \in Turns /\ v.chosen \in Places
      /\ <<v.intent, v.chosen>> \in grounded /\ GroundedScope(v.scope, grounded)
  BY ConstantsAssumption
  DEF IInv, TypeOK, Coherent, Grounded, GroundedValues, ClassifyScope, At
<1>2. good(Ask(v, "place", {v.chosen}))
  BY <1>1, AskIsGood DEF Options
<1>3. good(Ask(v, "hubs", {HubsDefault}))
  BY <1>1, AskIsGood DEF Options
<1>4. good(scoped)
  <2>1. scoped \in Values /\ Coherent(scoped)
    BY <1>1 DEF Values, Coherent, Hitl, Scope, Over
  <2>2. GroundedValues(scoped, grounded)
    BY <1>1 DEF GroundedValues, GroundedScope, Values
  <2> QED  BY <2>1, <2>2
<1>5. Classified(v) \in {Ask(v, "place", {v.chosen}), Ask(v, "hubs", {HubsDefault}), scoped}
  BY DEF Classified
<1>6. good(Classified(v))
  BY <1>2, <1>3, <1>4, <1>5
<1> QED  BY <1>6, StepKeeps DEF ClassifyScope, IInv, TypeOK

LEMMA ConfirmScopeKeeps ==
    ASSUME IInv, NEW q \in Requests, ConfirmScope(q)
    PROVE  IInv'
<1> DEFINE v == local[q]
           over == [v EXCEPT !.node = "confirmed"]
<1>1. v \in Values /\ Coherent(v) /\ v.node = "confirm" /\ GroundedValues(v, grounded)
  BY DEF IInv, TypeOK, Grounded, ConfirmScope, At
<1>2. over \in Values /\ Coherent(over)
  BY <1>1 DEF Values, Coherent, Over
<1>3. GroundedValues(over, grounded)
  BY <1>1 DEF GroundedValues, GroundedScope, Values
<1> QED  BY <1>2, <1>3, StepKeeps DEF ConfirmScope, IInv, TypeOK

(* The steps around the graph.                                             *)
LEMMA EnterTurnKeeps ==
    ASSUME IInv, NEW q \in Requests, EnterTurn(q)
    PROVE  IInv'
<1>1. /\ Fresh(q) \in Values /\ Coherent(Fresh(q)) /\ GroundedValues(Fresh(q), grounded)
      /\ Fresh(q).node = "parse"
  BY FreshIsTyped DEF EnterTurn, Fresh
<1>2. TypeOK'
  BY <1>1 DEF IInv, TypeOK, EnterTurn, Put, GoTo, Live, InGraph, historyVars
<1>3. OwnCheckpoint'
  BY DEF IInv, TypeOK, OwnCheckpoint, EnterTurn, Put
<1>4. Grounded'
  BY <1>1 DEF IInv, TypeOK, Grounded, GroundedScope, EnterTurn, Put, historyVars
<1> QED  BY <1>2, <1>3, <1>4 DEF IInv

LEMMA EnterResumeKeeps ==
    ASSUME IInv, NEW q \in Requests, EnterResume(q)
    PROVE  IInv'
<1>1. TypeOK'
  BY DEF IInv, TypeOK, EnterResume, GoTo, Live, InGraph, historyVars
<1>2. OwnCheckpoint'
  BY DEF IInv, TypeOK, OwnCheckpoint, EnterResume, GoTo
<1>3. Grounded'
  BY DEF IInv, TypeOK, Grounded, EnterResume, historyVars
<1> QED  BY <1>1, <1>2, <1>3 DEF IInv

LEMMA InterruptKeeps ==
    ASSUME IInv, NEW q \in Requests, Interrupt(q)
    PROVE  IInv'
<1>1. thread.owner = q => thread.values = local[q]
  BY DEF IInv, OwnCheckpoint, Interrupt, InGraph
<1>2. TypeOK'
  BY <1>1 DEF IInv, TypeOK, Interrupt, GoTo, Live, historyVars
<1>3. OwnCheckpoint'
  BY DEF IInv, TypeOK, OwnCheckpoint, Interrupt, GoTo, InGraph
<1>4. Grounded'
  BY DEF IInv, TypeOK, Grounded, Interrupt, historyVars
<1> QED  BY <1>2, <1>3, <1>4 DEF IInv

LEMMA ReadOutcomeKeeps ==
    ASSUME IInv, NEW q \in Requests, ReadOutcome(q)
    PROVE  IInv'
<1> DEFINE v == local[q]
           o == OutcomeOf(v)
<1>1. /\ v \in Values /\ Coherent(v) /\ GroundedScope(v.scope, grounded)
      /\ thread.values \in Values /\ thread.interrupted \in BOOLEAN
  BY DEF IInv, TypeOK, Grounded, GroundedValues
<1>2. o \in Outcome
  BY <1>1 DEF OutcomeOf, Outcome, Values, Hitl
<1>3. GroundedScope(o.scope, grounded)
  BY <1>1 DEF OutcomeOf, GroundedScope
<1> HIDE DEF v, o
<1>4. outcome' = [outcome EXCEPT ![q] = o]
  BY DEF ReadOutcome, o, v
<1>5. TypeOK'
  BY <1>2, <1>4 DEF IInv, TypeOK, ReadOutcome, GoTo, Live, historyVars
<1>6. OwnCheckpoint'
  BY DEF IInv, TypeOK, OwnCheckpoint, ReadOutcome, GoTo, InGraph
<1>7. Grounded'
  BY <1>3, <1>4 DEF IInv, TypeOK, Grounded, ReadOutcome, historyVars
<1> QED  BY <1>5, <1>6, <1>7 DEF IInv

LEMMA GraphRaisesKeeps ==
    ASSUME IInv, NEW q \in Requests, GraphRaises(q)
    PROVE  IInv'
<1>1. Error \in Outcome /\ Error.scope = None
  BY DEF Error, Outcome, Hitl
<1>2. TypeOK'
  BY <1>1 DEF IInv, TypeOK, GraphRaises, GoTo, Live, Ended, historyVars
<1>3. OwnCheckpoint'
  BY DEF IInv, TypeOK, OwnCheckpoint, GraphRaises, GoTo, InGraph
<1>4. Grounded'
  BY <1>1 DEF IInv, TypeOK, Grounded, GroundedScope, GraphRaises, historyVars
<1> QED  BY <1>2, <1>3, <1>4 DEF IInv

LEMMA LoadKeeps ==
    ASSUME IInv, NEW q \in Requests, Load(q)
    PROVE  IInv'
<1>1. /\ copy' = [copy EXCEPT ![q] = row]
      /\ UNCHANGED <<row, thread, local, outcome, grounded, said, answered>>
  BY DEF Load
<1>2. /\ pc' = [pc EXCEPT ![q] = pc'[q]] /\ pc'[q] \in {"refused", "save", "enter"}
      /\ overlapped' \in SUBSET Requests /\ last' \in Requests \cup {None}
  BY DEF IInv, TypeOK, Load, GoTo, Active
<1>3. TypeOK'
  BY <1>1, <1>2 DEF IInv, TypeOK, Live, Ended
<1>4. OwnCheckpoint'
  BY <1>1, <1>2 DEF IInv, TypeOK, OwnCheckpoint, InGraph
<1>5. Grounded'
  BY <1>1 DEF IInv, TypeOK, Grounded
<1> QED  BY <1>3, <1>4, <1>5 DEF IInv

LEMMA SaveUserKeeps ==
    ASSUME IInv, NEW q \in Requests, SaveUser(q)
    PROVE  IInv'
<1> DEFINE new == [copy[q] EXCEPT !.messages = @ \cup {<<q, "user">>}]
<1>1. copy[q] \in Row /\ row \in Row /\ new \in Row /\ new.scope = copy[q].scope
  BY DEF IInv, TypeOK, Row, Message, Requests, SaveUser
<1> HIDE DEF new
<1>2. row' = row \/ row' = Saved(copy[q], new)
  BY DEF SaveUser, new
<1>3. row' \in Row /\ GroundedScope(row'.scope, grounded)
  BY <1>1, <1>2, SavedIsTyped DEF IInv, Grounded
<1>4. /\ pc' = [pc EXCEPT ![q] = pc'[q]] /\ pc'[q] \in {"enter", "failed"}
      /\ said' \in SUBSET Turns
      /\ UNCHANGED <<thread, copy, local, outcome, grounded, overlapped, answered, last>>
  BY DEF IInv, TypeOK, SaveUser, GoTo
<1>5. TypeOK'
  BY <1>3, <1>4 DEF IInv, TypeOK, Live, Ended
<1>6. OwnCheckpoint'
  BY <1>4 DEF IInv, TypeOK, OwnCheckpoint, InGraph
<1>7. Grounded'
  BY <1>3, <1>4 DEF IInv, Grounded
<1> QED  BY <1>5, <1>6, <1>7 DEF IInv

LEMMA ApplyOutcomeKeeps ==
    ASSUME IInv, NEW q \in Requests, ApplyOutcome(q)
    PROVE  IInv'
<1> DEFINE new == Applied(q)
<1>1. /\ copy[q] \in Row /\ row \in Row /\ outcome[q] \in Outcome
      /\ GroundedScope(copy[q].scope, grounded) /\ GroundedScope(outcome[q].scope, grounded)
  BY DEF IInv, TypeOK, Grounded
<1>2. new \in Row /\ new.scope \in {copy[q].scope, outcome[q].scope}
  BY <1>1 DEF Applied, Row, Outcome, Message
<1> HIDE DEF new
<1>3. row' = row \/ row' = Saved(copy[q], new)
  BY DEF ApplyOutcome, new
<1>4. row' \in Row /\ GroundedScope(row'.scope, grounded)
  BY <1>1, <1>2, <1>3, SavedIsTyped DEF IInv, Grounded
<1>5. /\ pc' = [pc EXCEPT ![q] = pc'[q]] /\ pc'[q] \in {"done", "failed"}
      /\ last' \in {q, last}
      /\ UNCHANGED <<thread, copy, local, outcome, grounded, said, overlapped, answered>>
  BY DEF IInv, TypeOK, ApplyOutcome, GoTo
<1>6. TypeOK'
  BY <1>4, <1>5 DEF IInv, TypeOK, Live, Ended
<1>7. OwnCheckpoint'
  BY <1>5 DEF IInv, TypeOK, OwnCheckpoint, InGraph
<1>8. Grounded'
  BY <1>4, <1>5 DEF IInv, Grounded
<1> QED  BY <1>6, <1>7, <1>8 DEF IInv

LEMMA LeaveKeeps ==
    ASSUME IInv, NEW q \in Requests, Leave(q)
    PROVE  IInv'
<1>1. TypeOK'
  BY DEF IInv, TypeOK, Leave, GoTo, Live, Ended, historyVars
<1>2. OwnCheckpoint'
  BY DEF IInv, TypeOK, OwnCheckpoint, Leave, GoTo, InGraph
<1>3. Grounded'
  BY DEF IInv, Grounded, Leave, historyVars
<1> QED  BY <1>1, <1>2, <1>3 DEF IInv

LEMMA RestartKeeps ==
    ASSUME IInv, Restart
    PROVE  IInv'
<1>1. /\ Fresh(None) \in Values /\ Coherent(Fresh(None))
      /\ GroundedValues(Fresh(None), grounded) /\ Fresh(None).node = "parse"
  BY FreshIsTyped DEF Fresh
<1>2. thread' = [values |-> Fresh(None), owner |-> None, interrupted |-> FALSE]
  BY DEF Restart, NoThread
<1>3. TypeOK'
  BY <1>1, <1>2 DEF IInv, TypeOK, Restart, Ended
<1>4. OwnCheckpoint'
  BY <1>2, ConstantsAssumption DEF OwnCheckpoint, Requests
<1>5. Grounded'
  BY <1>1, <1>2 DEF IInv, Grounded, Restart
<1> QED  BY <1>3, <1>4, <1>5 DEF IInv
-----------------------------------------------------------------------------
LEMMA NextKeeps == IInv /\ [Next]_vars => IInv'
<1> SUFFICES ASSUME IInv, [Next]_vars PROVE IInv'  OBVIOUS
<1>1. ASSUME NEW q \in Requests, Request(q) PROVE IInv'
  BY <1>1, LoadKeeps, SaveUserKeeps, EnterTurnKeeps, EnterResumeKeeps, ParseIntentKeeps,
     GeocodeSearchKeeps, InterruptKeeps, RequestHitlKeeps, ClassifyScopeKeeps,
     ConfirmScopeKeeps, GraphRaisesKeeps, ReadOutcomeKeeps, ApplyOutcomeKeeps, LeaveKeeps
  DEF Request
<1>2. CASE Restart  BY <1>2, RestartKeeps
<1>3. CASE UNCHANGED vars
  BY <1>3 DEF vars, historyVars, IInv, TypeOK, OwnCheckpoint, Grounded
<1> QED  BY <1>1, <1>2, <1>3 DEF Next

(* The inductive invariant: types, what a checkpoint's owner works on, and *)
(* where every scope and choice in the system comes from.                  *)
THEOREM Invariance == Spec => []IInv
  BY InitIInv, NextKeeps, PTL DEF Spec

(* Every variable keeps its type and the values at a node are those it     *)
(* needs, for any number of turns and resumes and any faults.              *)
THEOREM TypeCorrect == Spec => []TypeOK
<1>1. IInv => TypeOK  BY DEF IInv
<1> QED  BY <1>1, Invariance, PTL

(* However turns, resumes, failures and restarts interleave, the scope of  *)
(* the session is a place that was the only match of the turn it is for or *)
(* that the user picked for it.                                            *)
THEOREM ScopeIsNeverASilentChoice == Spec => []NoSilentChoice
<1>1. IInv => NoSilentChoice
  BY DEF IInv, Grounded, GroundedScope, NoSilentChoice
<1> QED  BY <1>1, Invariance, PTL
=============================================================================
