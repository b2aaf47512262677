---------------------------- MODULE ChatDialogue ----------------------------
(***************************************************************************)
(* One chat session (chat/service.py, api/sessions.py) and its dialogue    *)
(* thread (agents/dialogue.py): the turns and the HITL resumes that load   *)
(* the session row, run the LangGraph graph on the thread and apply the    *)
(* outcome to the row.  The graph's checkpointer is the default one, in    *)
(* memory.                                                                 *)
(*                                                                         *)
(* LangGraph is modelled by what dialogue.py relies on.  A run works on    *)
(* values of its own and puts them as the thread's newest checkpoint after *)
(* each node; checkpoints of concurrent runs replace each other.  An       *)
(* interrupt is a note on the run's own checkpoint.  A resume continues    *)
(* from the newest checkpoint, whoever put it, and its answer is there for *)
(* the first node it runs only.                                            *)
(*                                                                         *)
(* A request holds the row as its DB session last loaded it (copy).  The   *)
(* refresh at the end of a save is taken with the step that follows it.    *)
(***************************************************************************)
EXTENDS Naturals

CONSTANTS
    Turns,       \* POST /messages requests; a text is named after its turn
    Resumes,     \* POST /hitl requests
    Places,      \* the geocoder's candidates
    Vague,       \* places whose class is neither city, region nor country
    Hubless,     \* <<t, p>>: t asks for a long stay in p, a country without default hubs
    HubsDefault, \* the option "hubs_default"
    Unknown,     \* a text or choice that names no option
    None,
    Resolved,    \* {"status": "resolved"}
    Faults       \* what may go wrong

ASSUME ConstantsAssumption ==
    /\ Turns \cap Resumes = {}
    /\ Vague \subseteq Places
    /\ Hubless \subseteq Turns \X (Places \ Vague)
    /\ HubsDefault \notin Places
    /\ Unknown \notin Places \cup {HubsDefault}
    /\ None \notin Places \cup Turns \cup Resumes \cup {HubsDefault, Unknown, Resolved}
    /\ Faults \subseteq {"cancel", "db", "graph", "restart"}

VARIABLES
    row,        \* the session row's columns
    thread,     \* the newest checkpoint of the thread
    pc,         \* pc[q]: the await request q is suspended at, or its end
    copy,       \* copy[q]: the row in q's identity map
    local,      \* local[q]: the values q's graph run works on
    outcome,    \* outcome[q]: its DialogueOutcome
    grounded,   \* (history) <<t, p>>: p is t's only match or was picked for it
    said,       \* (history) the turns whose text was committed
    overlapped, \* (history) the requests during which another one was active
    answered,   \* (history) <<q, p>>: resume q picked p from the options it was offered
    last        \* (history) the last request to end well, while none came after

historyVars == <<grounded, said, overlapped, answered, last>>
vars == <<row, thread, pc, copy, local, outcome, historyVars>>

Requests == Turns \cup Resumes
Options == Places \cup {HubsDefault}

(* A question: its kind, its options and the turn whose trip it is about.  *)
Question == [kind : {"place", "hubs"}, options : SUBSET Options, of : Turns]
Hitl == Question \cup {None, Resolved}

(* What stands for no question is none.                                    *)
ASSUME HitlAssumption == Question \cap {None, Resolved} = {}

(* A scope, by the place and the intent classify_scope made it from.       *)
Scope == [place : Places, of : Turns]
Message == Requests \X {"user", "assistant"}

Row == [messages : SUBSET Message, intent : Turns \cup {None},
        hitl : Hitl, scope : Scope \cup {None}]

(* DialogueState with the node to run next; "asked" and "confirmed" are    *)
(* the two ways to reach END.                                              *)
Over == {"asked", "confirmed"}
Values == [text : Turns \cup {None}, intent : Turns \cup {None},
           node : {"parse", "geocode", "request", "classify", "confirm"} \cup Over,
           chosen : Options \cup {None}, scope : Scope \cup {None}, hitl : Hitl]
Fresh(t) == [text |-> t, intent |-> None, node |-> "parse",
             chosen |-> None, scope |-> None, hitl |-> None]
NoThread == [values |-> Fresh(None), owner |-> None, interrupted |-> FALSE]

Outcome == [kind : {"hitl", "confirmed", "ask", "error"}, hitl : Hitl,
            intent : Turns \cup {None}, scope : Scope \cup {None}]
Error == [kind |-> "error", hitl |-> None, intent |-> None, scope |-> None]

InGraph == {"run", "resume"}
Live == {"save", "enter", "read", "apply"} \cup InGraph
Ended == {"done", "failed", "left", "lost", "refused"}
Active == {q \in Requests : pc[q] \in Live}

(* What the nodes after the first may rely on.                             *)
Coherent(v) ==
    /\ v.node \in {"geocode", "request", "classify", "confirm", "confirmed"} => v.intent \in Turns
    /\ v.node = "request" => v.hitl \in Question
    /\ v.node = "request" /\ v.hitl.kind = "hubs" => v.chosen \in Places
    /\ v.node = "classify" => v.chosen \in Options
    /\ v.node \in {"confirm", "confirmed"} => v.scope \in Scope

(* The range of every variable; the values at a node are those it needs,   *)
(* so that its "missing intent" and "missing scope" branches are never     *)
(* taken, and only a thread that is about to ask is interrupted            *)
(* (dialogue.py, node_classify_scope and node_confirm_scope).              *)
TypeOK ==
    /\ row \in Row
    /\ thread \in [values : Values, owner : Requests \cup {None}, interrupted : BOOLEAN]
    /\ Coherent(thread.values)
    /\ thread.interrupted => thread.values.node = "request"
    /\ pc \in [Requests -> {"idle"} \cup Live \cup Ended]
    /\ copy \in [Requests -> Row]
    /\ local \in [Requests -> Values]
    /\ \A q \in Requests : Coherent(local[q])
    /\ outcome \in [Requests -> Outcome]
    /\ grounded \in SUBSET (Turns \X Options)
    /\ said \in SUBSET Turns
    /\ overlapped \in SUBSET Requests
    /\ answered \in SUBSET (Resumes \X Options)
    /\ last \in Requests \cup {None}
-----------------------------------------------------------------------------
NewRow == [messages |-> {}, intent |-> None, hitl |-> None, scope |-> None]

Init ==
    /\ row = NewRow
    /\ thread = NoThread
    /\ pc = [q \in Requests |-> "idle"]
    /\ copy = [q \in Requests |-> NewRow]
    /\ local = [q \in Requests |-> Fresh(None)]
    /\ outcome = [q \in Requests |-> Error]
    /\ grounded = {} /\ said = {} /\ overlapped = {} /\ answered = {}
    /\ last = None

(* Slip: the row is written whole.                                         *)
SavedWhole(old, new) == new

(* A save sends the columns in which new differs from the loaded copy.     *)
Saved(old, new) ==
    [messages |-> IF new.messages = old.messages THEN row.messages ELSE new.messages,
     intent |-> IF new.intent = old.intent THEN row.intent ELSE new.intent,
     hitl |-> IF new.hitl = old.hitl THEN row.hitl ELSE new.hitl,
     scope |-> IF new.scope = old.scope THEN row.scope ELSE new.scope]

Pending(hitl) == hitl \in Question

GoTo(q, place) == pc' = [pc EXCEPT ![q] = place]

(* A request loads the session row.  A resume is refused when nothing is   *)
(* pending.                                                                *)
Load(q) ==
    /\ pc[q] = "idle"
    /\ copy' = [copy EXCEPT ![q] = row]
    /\ IF q \in Resumes /\ ~Pending(row.hitl)
       THEN GoTo(q, "refused") /\ UNCHANGED <<overlapped, last>>
       ELSE /\ GoTo(q, IF q \in Turns THEN "save" ELSE "enter")
            /\ overlapped' = IF Active = {} THEN overlapped
                                            ELSE overlapped \cup Active \cup {q}
            /\ last' = None
    /\ UNCHANGED <<row, thread, local, outcome, grounded, said, answered>>

(* send_message stores the user's text first.                              *)
SaveUser(q) ==
    /\ q \in Turns /\ pc[q] = "save"
    /\ \/ /\ row' = Saved(copy[q], [copy[q] EXCEPT !.messages = @ \cup {<<q, "user">>}])
          /\ said' = said \cup {q}
          /\ \/ GoTo(q, "enter")
             \/ "db" \in Faults /\ GoTo(q, "failed")
       \/ "db" \in Faults /\ GoTo(q, "failed") /\ UNCHANGED <<row, said>>
    /\ UNCHANGED <<thread, copy, local, outcome, grounded, overlapped, answered, last>>
-----------------------------------------------------------------------------
(* The graph.                                                              *)

Put(q, v) ==
    /\ local' = [local EXCEPT ![q] = v]
    /\ thread' = [values |-> v, owner |-> q, interrupted |-> FALSE]

(* Slip: the turn goes on with the row it loaded before it saved.          *)
EnterTurnUnrefreshed(q) ==
    /\ q \in Turns /\ pc[q] = "enter"
    /\ Put(q, Fresh(q))
    /\ GoTo(q, "run")
    /\ UNCHANGED <<row, copy, outcome, historyVars>>

(* run_turn gives every key of the state a new value.                      *)
EnterTurn(q) ==
    /\ q \in Turns /\ pc[q] = "enter"
    /\ copy' = [copy EXCEPT ![q] = row]
    /\ Put(q, Fresh(q))
    /\ GoTo(q, "run")
    /\ UNCHANGED <<row, outcome, historyVars>>

(* A resume of a thread that has ended returns the values it ended with.   *)
EnterResume(q) ==
    /\ q \in Resumes /\ pc[q] = "enter"
    /\ local' = [local EXCEPT ![q] = thread.values]
    /\ GoTo(q, IF thread.values.node \in Over THEN "read" ELSE "resume")
    /\ UNCHANGED <<row, thread, copy, outcome, historyVars>>

At(q, node) == pc[q] \in InGraph /\ local[q].node = node

(* A node returns: its values are put, and the run goes on or ends.        *)
Step(q, v) ==
    /\ Put(q, v)
    /\ GoTo(q, IF v.node \in Over THEN "read" ELSE "run")
    /\ UNCHANGED <<row, copy, outcome, said, overlapped, last>>

(* parse_intent asks when a place or a duration is missing, as in a thread *)
(* that has no text.                                                       *)
ParseIntent(q) ==
    /\ At(q, "parse")
    /\ \/ Step(q, [local[q] EXCEPT !.node = "asked", !.intent = None, !.scope = None, !.hitl = None])
       \/ /\ local[q].text # None
          /\ Step(q, [local[q] EXCEPT !.node = "geocode", !.intent = local[q].text])
    /\ UNCHANGED <<grounded, answered>>

Ask(v, kind, options) ==
    [v EXCEPT !.node = "request",
              !.hitl = [kind |-> kind, options |-> options, of |-> v.intent]]

(* Slip: the first of several matches is taken.                            *)
GeocodePicksFirst(q) ==
    /\ At(q, "geocode")
    /\ \/ Step(q, [local[q] EXCEPT !.node = "asked", !.scope = None, !.hitl = None])
       \/ \E p \in Places :
            Step(q, [local[q] EXCEPT !.node = "classify", !.chosen = p, !.hitl = None])
    /\ UNCHANGED <<grounded, answered>>

(* No match, one, or several to choose from.                               *)
GeocodeSearch(q) ==
    /\ At(q, "geocode")
    /\ \/ /\ Step(q, [local[q] EXCEPT !.node = "asked", !.scope = None, !.hitl = None])
          /\ UNCHANGED grounded
       \/ \E p \in Places :
            /\ Step(q, [local[q] EXCEPT !.node = "classify", !.chosen = p, !.hitl = None])
            /\ grounded' = grounded \cup {<<local[q].intent, p>>}
       \/ \E found \in SUBSET Places :
            /\ \E p1, p2 \in found : p1 # p2
            /\ Step(q, Ask(local[q], "place", found))
            /\ UNCHANGED grounded
    /\ UNCHANGED answered

(* Slip: the interrupt is noted on whatever checkpoint is the newest.      *)
InterruptNewest(q) ==
    /\ pc[q] = "run" /\ local[q].node = "request"
    /\ thread' = [thread EXCEPT !.interrupted = TRUE]
    /\ GoTo(q, "read")
    /\ UNCHANGED <<row, copy, local, outcome, historyVars>>

(* interrupt() in a run that was not resumed at this node.                 *)
Interrupt(q) ==
    /\ pc[q] = "run" /\ local[q].node = "request"
    /\ thread' = [thread EXCEPT !.interrupted = @ \/ thread.owner = q]
    /\ GoTo(q, "read")
    /\ UNCHANGED <<row, copy, local, outcome, historyVars>>

(* interrupt() returns the user's choice: an option, any text for a        *)
(* question about hubs, or something that is not recognised.               *)
RequestHitl(q) ==
    /\ q \in Resumes /\ pc[q] = "resume" /\ local[q].node = "request"
    /\ \E choice \in Options \cup {Unknown} :
        LET v == local[q]
            offered == choice \in v.hitl.options
        IN  /\ IF offered \/ v.hitl.kind = "hubs"
               THEN Step(q, [v EXCEPT !.node = "classify", !.hitl = Resolved,
                                      !.chosen = IF offered THEN choice ELSE @])
               ELSE Step(q, [v EXCEPT !.node = "asked"])
            /\ grounded' = IF offered THEN grounded \cup {<<v.intent, choice>>} ELSE grounded
            /\ answered' = IF offered THEN answered \cup {<<q, choice>>} ELSE answered

(* classify_scope: a place of no known class is asked about again, a long  *)
(* stay in a country without default hubs asks for hubs, anything else is  *)
(* a scope.                                                                *)
Classified(v) ==
    CASE v.chosen \in Vague -> Ask(v, "place", {v.chosen})
      [] <<v.intent, v.chosen>> \in Hubless -> Ask(v, "hubs", {HubsDefault})
      [] OTHER -> [v EXCEPT !.node = "confirm", !.hitl = None,
                            !.scope = [place |-> v.chosen, of |-> v.intent]]

(* Slip: the place is read from the thread and not from the run's values.  *)
ClassifyNewest(q) ==
    /\ At(q, "classify")
    /\ thread.values.chosen \in Places
    /\ Step(q, Classified([local[q] EXCEPT !.chosen = thread.values.chosen]))
    /\ UNCHANGED <<grounded, answered>>

(* The hubs option is not a candidate that from_dict can read.             *)
ClassifyScope(q) ==
    /\ At(q, "classify")
    /\ local[q].chosen \in Places
    /\ Step(q, Classified(local[q]))
    /\ UNCHANGED <<grounded, answered>>

ConfirmScope(q) ==
    /\ At(q, "confirm")
    /\ Step(q, [local[q] EXCEPT !.node = "confirmed"])
    /\ UNCHANGED <<grounded, answered>>

(* ainvoke raises: GeoCandidate.from_dict of the hubs option, which has no *)
(* name, or whatever else fails in a node or the checkpointer.  A turn     *)
(* reports the error and applies nothing.                                  *)
GraphRaises(q) ==
    /\ pc[q] \in InGraph
    /\ \/ "graph" \in Faults
       \/ local[q].node = "classify" /\ local[q].chosen = HubsDefault
    /\ outcome' = [outcome EXCEPT ![q] = Error]
    /\ GoTo(q, IF q \in Turns THEN "failed" ELSE "apply")
    /\ UNCHANGED <<row, thread, copy, local, historyVars>>

(* _outcome_from_state: an interrupt of the newest checkpoint, or how this *)
(* run ended.                                                              *)
OutcomeOf(v) ==
    IF thread.interrupted
    THEN [kind |-> "hitl", hitl |-> thread.values.hitl, intent |-> v.intent, scope |-> None]
    ELSE CASE v.node = "confirmed" ->
                [kind |-> "confirmed", hitl |-> Resolved, intent |-> v.intent, scope |-> v.scope]
           [] v.node = "asked" ->
                [kind |-> "ask", hitl |-> None, intent |-> v.intent, scope |-> None]
           [] OTHER ->
                [kind |-> "hitl", hitl |-> v.hitl, intent |-> v.intent, scope |-> None]

ReadOutcome(q) ==
    /\ pc[q] = "read"
    /\ outcome' = [outcome EXCEPT ![q] = OutcomeOf(local[q])]
    /\ GoTo(q, "apply")
    /\ UNCHANGED <<row, thread, copy, local, historyVars>>
-----------------------------------------------------------------------------
(* Slip: a clarification leaves an older question in the row.              *)
AppliedKeepingQuestion(q) ==
    LET o == outcome[q]
    IN  [messages |-> copy[q].messages \cup {<<q, "assistant">>},
         intent |-> IF o.intent = None THEN copy[q].intent ELSE o.intent,
         hitl |-> IF o.kind \in {"ask", "error"} THEN copy[q].hitl ELSE o.hitl,
         scope |-> IF o.kind = "confirmed" THEN o.scope ELSE copy[q].scope]

(* _apply_outcome: the assistant's message is added in any case, the scope *)
(* set only when confirmed, the question replaced or dropped.              *)
Applied(q) ==
    LET o == outcome[q]
    IN  [messages |-> copy[q].messages \cup {<<q, "assistant">>},
         intent |-> IF o.intent = None THEN copy[q].intent ELSE o.intent,
         hitl |-> IF o.kind = "error" THEN copy[q].hitl ELSE o.hitl,
         scope |-> IF o.kind = "confirmed" THEN o.scope ELSE copy[q].scope]

ApplyOutcome(q) ==
    /\ pc[q] = "apply"
    /\ \/ /\ row' = Saved(copy[q], Applied(q))
          /\ \/ /\ GoTo(q, "done")
                /\ last' = IF outcome[q].kind = "error" THEN last ELSE q
             \/ "db" \in Faults /\ GoTo(q, "failed") /\ UNCHANGED last
       \/ "db" \in Faults /\ GoTo(q, "failed") /\ UNCHANGED <<row, last>>
    /\ UNCHANGED <<thread, copy, local, outcome, grounded, said, overlapped, answered>>

(* The client of a turn leaves: the turn sees it between its steps or is   *)
(* cancelled in one.  A resume is no stream and is not cancelled.          *)
Leave(q) ==
    /\ "cancel" \in Faults
    /\ q \in Turns /\ pc[q] \in Live
    /\ GoTo(q, "left")
    /\ UNCHANGED <<row, thread, copy, local, outcome, historyVars>>

(* The process restarts: requests and the thread are gone.                 *)
Restart ==
    /\ "restart" \in Faults
    /\ thread' = NoThread
    /\ pc' = [q \in Requests |-> IF q \in Active THEN "lost" ELSE pc[q]]
    /\ last' = None
    /\ UNCHANGED <<row, copy, local, outcome, grounded, said, overlapped, answered>>

Request(q) ==
    \/ Load(q) \/ SaveUser(q)
    \/ EnterTurn(q) \/ EnterResume(q)
    \/ ParseIntent(q) \/ GeocodeSearch(q) \/ Interrupt(q) \/ RequestHitl(q)
    \/ ClassifyScope(q) \/ ConfirmScope(q) \/ GraphRaises(q) \/ ReadOutcome(q)
    \/ ApplyOutcome(q) \/ Leave(q)

Next == (\E q \in Requests : Request(q)) \/ Restart

Spec == Init /\ [][Next]_vars
-----------------------------------------------------------------------------
(* The trip scope of a session is never a silent choice: its place was the *)
(* only match of the turn the scope is for, or was picked by the user from *)
(* the options of a question about that turn's trip, however turns,        *)
(* resumes and restarts interleave on the thread.                          *)
NoSilentChoice ==
    row.scope # None => <<row.scope.of, row.scope.place>> \in grounded

(* What the row must show of a thread.                                     *)
Agree(v) ==
    /\ thread.interrupted => row.hitl = v.hitl /\ row.intent = v.intent
    /\ ~thread.interrupted => ~Pending(row.hitl)
    /\ v.node = "confirmed" => row.scope = v.scope /\ row.intent = v.intent

(* When the last request ran alone and ended well, the row and the thread  *)
(* agree, whatever earlier requests, overlapping, cancelled, failed or cut *)
(* off by a restart, left behind: the row is pending exactly when the      *)
(* thread waits for an answer, with the question it waits on.              *)
RowFollowsThread ==
    last # None /\ last \notin overlapped => Agree(thread.values)

(* The text of a turn that overlapped no other request stays in the row's  *)
(* messages, whether or not the turn was cancelled, failed or cut off.     *)
NothingSaidIsLost ==
    \A t \in said \ overlapped : <<t, "user">> \in row.messages

(* The outcome of resume q follows from the option p that it picked.       *)
Heeded(q, p) ==
    LET o == outcome[q] IN
    \/ o.kind = "confirmed" /\ o.scope = [place |-> p, of |-> o.intent]
    \/ /\ o.kind = "hitl"
       /\ q \in overlapped \/ (o.hitl.of = o.intent /\ o.hitl.options \subseteq {p, HubsDefault})
    \/ o.kind = "error" /\ (p = HubsDefault \/ "graph" \in Faults)

(* An answer is heeded, whatever runs beside it on the thread: a resume    *)
(* that picked an option it was offered ends with a scope at that place,   *)
(* for the turn the question was about, or, when no other request ran,     *)
(* with a question about that same place; it does not end as a text that   *)
(* was not recognised, and fails with the graph or on the hubs option only.*)
AnswersAreHeeded ==
    \A q \in Resumes, p \in Options :
        <<q, p>> \in answered /\ pc[q] = "done" => Heeded(q, p)

(* What a save changes of the trip it has from the run it reports, never   *)
(* from the copy the request was loaded with: the scope only from a run    *)
(* that confirmed it, the question and the intent only from one that ended.*)
(* An old scope or question that another request has replaced does not     *)
(* come back, unlike the messages (see NothingSaidIsLost).                 *)
NothingStaleComesBack ==
    [][/\ row'.scope # row.scope =>
            \E q \in Requests : outcome[q].kind = "confirmed" /\ pc[q] = "apply" /\ row'.scope = outcome[q].scope
       /\ row'.hitl # row.hitl =>
            \E q \in Requests : outcome[q].kind # "error" /\ pc[q] = "apply" /\ row'.hitl = outcome[q].hitl
       /\ row'.intent # row.intent =>
            \E q \in Requests : outcome[q].kind # "error" /\ pc[q] = "apply" /\ row'.intent = outcome[q].intent
      ]_vars

(* A resume that picked an offered option and ran alone leads on: to the   *)
(* next question or to a scope (_apply_outcome after node_request_hitl).   *)
AnswersResolve ==
    \A q \in Requests \ overlapped, p \in Options :
        <<q, p>> \in answered /\ pc[q] = "done" => outcome[q].kind \in {"hitl", "confirmed"}
=============================================================================
