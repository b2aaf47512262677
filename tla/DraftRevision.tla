---------------------------- MODULE DraftRevision ----------------------------
(***************************************************************************)
(* The draft of one session and the copies of it: what a generate packs    *)
(* and stores, what a revision asks for and is refused (agents/revise.py,  *)
(* planner/caps.py, agents/generate.py), the trip artifact kept beside the *)
(* session row (trips/service.py), and the reads of the session that make  *)
(* up for a missing artifact (chat/service.py get_session), while the chat *)
(* goes on confirming other trips.                                         *)
(*                                                                         *)
(* A run holds the row as its DB session last refreshed it, and so does a  *)
(* read.  There is one run at a time (OneTaskPerSession of GenerateRunner  *)
(* proves it); its failures, aborts and crashes are all RunFails here.     *)
(* The planner is taken by PlanContract, which PackDays implements.        *)
(***************************************************************************)
EXTENDS PlanLimits

CONSTANTS
    Places,     \* catalogue ids
    MaxDays,    \* bound on the days asked for
    Asks,       \* the days of the trips the chat confirms
    Texts,      \* what revisions say, as the heuristics read it
    Answers,    \* what the model answers, as far as the schema goes
    MaxLoops,   \* ReviseDeps.max_loops
    MaxRuns,    \* bound on the runs
    Gets,       \* GET /sessions/{id} requests
    Trips       \* trip ids

DayNumbers == 1..MaxDays

(* A patch: the day, the walking factor in percent, the two limits, the    *)
(* places to drop, and whether there is a tag or a category.  The names of *)
(* unknown venues are told to the client and used for nothing.  The schema *)
(* of the patch has no day count, so that the check of it never refuses.   *)
(* Numbers are finite.  float() takes an answer's NaN as well: as a factor *)
(* it would ask for nothing, but as a time no comparison would refuse it   *)
(* (caps.py 149) and the packer's limit would never be met (engine.py 169).*)
Patch == [day : Nat \cup {None}, factor : Int \cup {None}, stops : Int \cup {None},
          minutes : Int \cup {None}, drop : SUBSET Places, taste : BOOLEAN]
Text == [blank : BOOLEAN, day : Nat \cup {None}, less : BOOLEAN]

ASSUME ConstantsAssumption ==
    /\ MaxDays \in Nat
    /\ Asks \subseteq DayNumbers
    /\ Texts \subseteq Text
    /\ Answers \subseteq Patch
    /\ MaxLoops \in Nat /\ MaxRuns \in Nat
    /\ None \notin Trips

VARIABLES
    row,    \* the session row
    art,    \* art[t]: the itinerary of trip t's artifact
    run,    \* the expensive run
    get,    \* get[g]: a read of the session
    runs,   \* runs started
    born,   \* (history) the session's shape at the start, see Init
    crossed \* (history) a read and a run that stores a draft or an id overlapped
vars == <<row, art, run, get, runs, born, crossed>>

(* A draft, by the limits each day was packed with and the places on it.   *)
Draft == [caps : Seq(Cap), on : SUBSET Places]
DayCount(draft) == Len(draft.caps)
ASSUME ValuesAssumption == None \notin Draft /\ None \notin Texts

DefaultCap == [stops |-> DefaultStops, minutes |-> DefaultMinutes]

(* prefs: drop_place_ids, the limit of the trip, day_overrides.            *)
Prefs == [drop : SUBSET Places, limit : Limit, over : [DayNumbers -> Limit]]
Everyday == [d \in DayNumbers |-> NoLimit]
NoPrefs == [drop |-> {}, limit |-> NoLimit, over |-> Everyday]
NoPatch == [day |-> None, factor |-> None, stops |-> None, minutes |-> None,
            drop |-> {}, taste |-> FALSE]

Row == [ask : Asks \cup {None}, draft : Draft \cup {None}, trip : Trips \cup {None},
        baseline : Nat \cup {None}, loops : Nat]

(* The run: where it is, what it is, the row it holds, its text, the patch *)
(* as it was asked for (history) and as it was sanitised, what the caps    *)
(* let through and what was packed.                                        *)
Ended == {"idle", "done", "failed"}
Run == [pc : Ended \cup {"parse", "caps", "pack", "persist"}, kind : {"generate", "revise"},
        ask : Asks \cup {None}, trip : Trips \cup {None}, text : Texts \cup {None},
        asked : Patch, patch : Patch, prefs : Prefs, plan : Draft \cup {None}]
Idle == [pc |-> "idle", kind |-> "generate", ask |-> None, trip |-> None,
         text |-> None, asked |-> NoPatch, patch |-> NoPatch,
         prefs |-> NoPrefs, plan |-> None]

Reading == {"check", "store", "mint"}
Get == [pc : {"idle", "done"} \cup Reading, draft : Draft \cup {None}, trip : Trips \cup {None}]
Unread == [pc |-> "idle", draft |-> None, trip |-> None]

Old(days) == [caps |-> [d \in 1..days |-> DefaultCap], on |-> Places]

(* A session is new, or its draft is older than the trip_id column         *)
(* ("untracked") or than the trips table ("unfiled").                      *)
Init ==
    /\ born \in {"new", "untracked", "unfiled"}
    /\ \E days \in Asks, t \in Trips :
         row = [ask |-> IF born = "new" THEN None ELSE days,
                draft |-> IF born = "new" THEN None ELSE Old(days),
                trip |-> IF born = "unfiled" THEN t ELSE None,
                baseline |-> None, loops |-> 0]
    /\ art = [t \in Trips |-> None]
    /\ run = Idle
    /\ get = [g \in Gets |-> Unread]
    /\ runs = 0
    /\ crossed = FALSE

(* The chat confirms a scope for a trip of so many days.                   *)
Confirm(days) ==
    /\ row' = [row EXCEPT !.ask = days]
    /\ UNCHANGED <<art, run, get, runs, born, crossed>>

-----------------------------------------------------------------------------
(* The run.                                                                *)

Begin ==
    /\ run.pc \in Ended
    /\ runs < MaxRuns
    /\ runs' = runs + 1
    /\ UNCHANGED <<art, get, born, crossed>>

(* run_generate loads the row; without a scope there is nothing to do.     *)
StartGenerate ==
    /\ Begin
    /\ row.ask # None
    /\ run' = [Idle EXCEPT !.pc = "pack", !.ask = row.ask, !.trip = row.trip]
    /\ UNCHANGED row

(* run_revise loads the row and saves the baseline, taken from the draft   *)
(* it finds unless there is one.                                           *)
StartRevise(text) ==
    /\ Begin
    /\ row.draft # None
    /\ row' = [row EXCEPT !.baseline = Given(@, DayCount(row.draft))]
    /\ run' = [Idle EXCEPT !.pc = "parse", !.kind = "revise", !.text = text]

(* Slip: a day that is not on the plan is kept.                            *)
SanitizedSlip(patch) == [patch EXCEPT !.drop = @ \cap row.draft.on]

(* _sanitize_patch; the heuristics treat the day in the same way.          *)
Sanitized(patch) ==
    [patch EXCEPT !.day = IF @ \in 1..DayCount(row.draft) THEN @ ELSE None,
                  !.drop = @ \cap row.draft.on]
HasSignal(patch) ==
    patch.drop # {} \/ patch.taste \/ \E f \in {"day", "factor", "stops", "minutes"} : patch[f] # None

(* What the heuristics see: a day and a wish for less walking.             *)
Literally(text) ==
    [NoPatch EXCEPT !.day = text.day,
                    !.factor = IF text.less THEN 60 ELSE None,
                    !.stops = IF text.less THEN 2 ELSE None]

(* The model's patch if there is one and something is left of it, or the   *)
(* heuristics' one, even if they found nothing.  The attempt is counted.   *)
ParseRevise(answer) ==
    /\ run.pc = "parse"
    /\ ~run.text.blank
    /\ LET asked == IF answer # None /\ HasSignal(Sanitized(answer)) THEN answer
                    ELSE Literally(run.text)
       IN run' = [run EXCEPT !.pc = "caps", !.asked = asked, !.patch = Sanitized(asked)]
    /\ row' = [row EXCEPT !.loops = @ + 1]
    /\ UNCHANGED <<art, get, runs, born, crossed>>

(* Slip: the minutes are not compared.                                     *)
RaisesSlip(patch) ==
    \/ patch.factor # None /\ patch.factor > 100
    \/ patch.stops # None /\ patch.stops > DefaultStops

(* cap_raise: the baseline's stops and minutes are the defaults.           *)
Raises(patch) ==
    \/ patch.factor # None /\ patch.factor > 100
    \/ patch.stops # None /\ patch.stops > DefaultStops
    \/ patch.minutes # None /\ patch.minutes > DefaultMinutes

(* check_caps' override: minutes asked for win over a factor.              *)
Override(patch) ==
    [stops |-> patch.stops,
     minutes |-> IF patch.minutes # None THEN patch.minutes
                 ELSE IF patch.factor # None /\ patch.factor < 100
                      THEN (DefaultMinutes * patch.factor) \div 100
                      ELSE None]
PrefsOf(patch) ==
    [drop |-> patch.drop,
     limit |-> IF patch.day = None THEN Override(patch) ELSE NoLimit,
     over |-> [d \in DayNumbers |-> IF d = patch.day THEN Override(patch) ELSE NoLimit]]

(* The caps let the patch pass; the save of the budget refreshes the row,  *)
(* and run_generate works with what it shows now.                          *)
CheckCaps ==
    /\ run.pc = "caps"
    /\ row.loops <= MaxLoops
    /\ ~Raises(run.patch)
    /\ run' = [run EXCEPT !.pc = "pack", !.ask = row.ask, !.trip = row.trip,
                          !.prefs = PrefsOf(run.patch)]
    /\ UNCHANGED <<row, art, get, runs, born, crossed>>

(* The planner answers as its contract has it (PlanContract), for what was *)
(* retrieved and not dropped; an empty retrieve is among RunFails.         *)
Pack(on) ==
    /\ run.pc = "pack"
    /\ LET caps == CapsOf(run.ask, run.prefs) IN
       /\ \E found \in (SUBSET Places) \ {{}} : \E days \in Plans(found \ run.prefs.drop, caps) :
             on = Placed(days)
       /\ run' = [run EXCEPT !.pc = "persist", !.plan = [caps |-> caps, on |-> on]]
    /\ UNCHANGED <<row, art, get, runs, born, crossed>>

Unused(t) == art[t] = None /\ t # row.trip

(* Slip: a trip without an artifact gets another id.                       *)
TripOfSlip(t) == IF run.trip = None THEN Unused(t)
                 ELSE IF art[run.trip] = None THEN Unused(t) ELSE t = run.trip
TripOf(t) == t = run.trip \/ (run.trip = None /\ Unused(t))

(* Slip: the baseline is left to the first revision.                       *)
PersistSlip(t) ==
    /\ run.pc = "persist"
    /\ TripOf(t)
    /\ art' = [art EXCEPT ![t] = run.plan]
    /\ row' = [row EXCEPT !.draft = run.plan, !.trip = IF t = run.trip THEN @ ELSE t]
    /\ run' = [Idle EXCEPT !.pc = "done", !.kind = run.kind]
    /\ crossed' = (crossed \/ \E g \in Gets : get[g].pc \in Reading)
    /\ UNCHANGED <<get, runs, born>>

(* persist_draft: one commit writes the artifact and what has changed of   *)
(* the row the run holds, so the trip id only if the run made it.          *)
Persist(t) ==
    /\ run.pc = "persist"
    /\ TripOf(t)
    /\ art' = [art EXCEPT ![t] = run.plan]
    /\ row' = [row EXCEPT !.draft = run.plan,
                          !.trip = IF t = run.trip THEN @ ELSE t,
                          !.baseline = Given(@, DayCount(run.plan))]
    /\ run' = [Idle EXCEPT !.pc = "done", !.kind = run.kind]
    /\ crossed' = (crossed \/ \E g \in Gets : get[g].pc \in Reading)
    /\ UNCHANGED <<get, runs, born>>

(* Nothing to parse, a cap, an empty retrieve, an abort, a raise, a crash. *)
RunFails ==
    /\ run.pc \notin Ended
    /\ run' = [Idle EXCEPT !.pc = "failed"]
    /\ UNCHANGED <<row, art, get, runs, born, crossed>>

-----------------------------------------------------------------------------
(* The reads: ensure_trip_for_session.                                     *)

GetLoad(g) ==
    /\ get[g].pc = "idle"
    /\ get' = [get EXCEPT ![g] =
          [pc |-> IF row.draft = None THEN "done" ELSE IF row.trip = None THEN "mint" ELSE "check",
           draft |-> row.draft, trip |-> row.trip]]
    /\ UNCHANGED <<row, art, run, runs, born, crossed>>

(* Slip: a tracked trip is stored whether or not it is there.              *)
GetCheckSlip(g) ==
    /\ get[g].pc = "check"
    /\ get' = [get EXCEPT ![g].pc = "store"]
    /\ UNCHANGED <<row, art, run, runs, born, crossed>>

GetCheck(g) ==
    /\ get[g].pc = "check"
    /\ get' = [get EXCEPT ![g].pc = IF art[get[g].trip] = None THEN "store" ELSE "done"]
    /\ UNCHANGED <<row, art, run, runs, born, crossed>>

(* The merge takes over an artifact that has been made in between.         *)
GetStore(g) ==
    /\ get[g].pc = "store"
    /\ art' = [art EXCEPT ![get[g].trip] = get[g].draft]
    /\ get' = [get EXCEPT ![g].pc = "done"]
    /\ UNCHANGED <<row, run, runs, born, crossed>>

(* One commit makes the artifact and its id, whatever the row has by now.  *)
GetMint(g, t) ==
    /\ get[g].pc = "mint"
    /\ Unused(t)
    /\ art' = [art EXCEPT ![t] = get[g].draft]
    /\ row' = [row EXCEPT !.trip = t]
    /\ get' = [get EXCEPT ![g].pc = "done"]
    /\ crossed' = (crossed \/ run.pc \notin Ended)
    /\ UNCHANGED <<run, runs, born>>

GetFails(g) ==
    /\ get[g].pc \in Reading
    /\ get' = [get EXCEPT ![g].pc = "done"]
    /\ UNCHANGED <<row, art, run, runs, born, crossed>>

Next ==
    \/ \E days \in Asks : Confirm(days)
    \/ StartGenerate
    \/ \E text \in Texts : StartRevise(text)
    \/ \E answer \in Answers \cup {None} : ParseRevise(answer)
    \/ CheckCaps
    \/ \E on \in SUBSET Places : Pack(on)
    \/ \E t \in Trips : Persist(t)
    \/ RunFails
    \/ \E g \in Gets : GetLoad(g) \/ GetCheck(g) \/ GetStore(g) \/ GetFails(g)
    \/ \E g \in Gets, t \in Trips : GetMint(g, t)

Spec == Init /\ [][Next]_vars
-----------------------------------------------------------------------------
(* The values of the variables; a draft that a run has stored has its      *)
(* baseline (caps.py 63-83, service.py 79).                                *)
TypeOK ==
    /\ row \in Row
    /\ row.draft # None \/ run.ask # None => row.ask # None
    /\ run \in Run
    /\ run.pc = "parse" => run.text # None
    /\ run.pc \in {"parse", "caps"} => row.draft # None
    /\ run.pc \in {"pack", "persist"} => run.ask # None
    /\ run.pc = "persist" => run.plan # None
    /\ art \in [Trips -> Draft \cup {None}]
    /\ get \in [Gets -> Get]
    /\ \A g \in Gets :
         /\ get[g].pc \in Reading => get[g].draft # None
         /\ get[g].pc \in {"check", "store"} => get[g].trip # None
    /\ runs \in Nat
    /\ born \in {"new", "untracked", "unfiled"}
    /\ crossed \in BOOLEAN
    /\ born = "new" /\ row.draft # None => row.baseline # None

Stored == {art[t] : t \in Trips} \cup {row.draft}
(* No draft that is stored anywhere was packed with more stops or minutes  *)
(* a day than a first plan has: not through a raise, not through a limit   *)
(* of zero, not through a factor and a limit at once, whatever day or      *)
(* whole trip they are for (caps.py 139-182, engine.py 134-144).           *)
WithinOriginalCaps ==
    \A draft \in Stored \ {None} : \A d \in 1..DayCount(draft) :
        /\ draft.caps[d].stops <= DefaultStops
        /\ draft.caps[d].minutes <= DefaultMinutes

(* A revision that succeeds does what was asked for, to the days it was    *)
(* asked for and to no other: the places to drop are gone, the day that    *)
(* was named, or every day when the plan has no such day, has the limits   *)
(* of the patch, and the other days have the defaults again, whatever      *)
(* earlier revisions did to them.  A limit of zero asks for nothing        *)
(* (revise.py 96-149, 161-195, caps.py 160-184, engine.py 118-144).        *)
Honours(asked, old, new) ==
    /\ new.on \cap asked.drop \cap old.on = {}
    /\ \A d \in 1..DayCount(new) :
         LET named == asked.day = d \/ asked.day \notin 1..DayCount(old)
             time == IF asked.minutes # None THEN asked.minutes
                     ELSE IF asked.factor # None /\ asked.factor < 100
                          THEN (DefaultMinutes * asked.factor) \div 100 ELSE None
         IN new.caps[d] = IF named THEN [stops |-> Or(asked.stops, DefaultStops),
                                         minutes |-> Or(time, DefaultMinutes)]
                          ELSE DefaultCap
PatchIsHonoured ==
    [][run.kind = "revise" /\ run'.pc = "done" /\ run.pc # "done" =>
          Honours(run.asked, row.draft, row'.draft)]_vars

(* A session has one trip, and its artifact is the draft of the session:   *)
(* reads never put an older draft back or make a second trip.  Sessions    *)
(* older than the trips table have it too, unless a run overlaps a read    *)
(* that is making up for the missing artifact (service.py 70-91, 105-140). *)
ExportShowsTheDraft ==
    /\ born = "new" => {t \in Trips : art[t] # None} = {row.trip} \ {None}
    /\ row.trip # None /\ art[row.trip] # None /\ (born = "new" \/ ~crossed) =>
          art[row.trip] = row.draft

(* The trip of a session is its trip for good, over every generate,        *)
(* revision and read; only a draft that had none may get two ids at once   *)
(* (service.py 74, 128).                                                   *)
TripIdentityKept ==
    [][born # "untracked" /\ row.trip # None => row'.trip = row.trip]_vars
=============================================================================
