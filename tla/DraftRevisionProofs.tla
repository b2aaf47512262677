------------------------ MODULE DraftRevisionProofs ------------------------
(***************************************************************************)
(* Proofs about DraftRevision: its type invariant, that no stored draft    *)
(* exceeds the original caps, that a session's trip is the one of its      *)
(* draft and stays it, and that a revision does what was asked for.        *)
(***************************************************************************)
EXTENDS DraftRevision, SequenceTheorems, TLAPS

(* The limits on their way into a draft.                                   *)
WithinLimit(limit) ==
    /\ limit.stops # None => limit.stops <= DefaultStops
    /\ limit.minutes # None => limit.minutes <= DefaultMinutes
Within(draft) ==
    \A d \in 1..DayCount(draft) :
        /\ draft.caps[d].stops <= DefaultStops
        /\ draft.caps[d].minutes <= DefaultMinutes
CapsHeld ==
    /\ row.draft # None => Within(row.draft)
    /\ \A t \in Trips : art[t] # None => Within(art[t])
    /\ run.plan # None => Within(run.plan)
    /\ WithinLimit(run.prefs.limit)
    /\ \A d \in DayNumbers : WithinLimit(run.prefs.over[d])
    /\ \A g \in Gets : get[g].draft # None => Within(get[g].draft)

(* Which trip the run, the reads and the session mean.                     *)
OneTrip ==
    /\ born = "unfiled" => row.trip # None
    /\ born = "new" => (row.draft = None <=> row.trip = None)
    /\ born # "untracked" => \A g \in Gets : get[g].pc # "mint"
    /\ (born # "untracked" \/ ~crossed) /\ run.pc \in {"pack", "persist"} => run.trip = row.trip
NewTrip ==
    born = "new" =>
        /\ \A t \in Trips : art[t] # None <=> t = row.trip
        /\ row.trip # None => art[row.trip] = row.draft
        /\ \A g \in Gets : get[g].pc \in Reading => get[g].trip = row.trip /\ get[g].pc # "store"
OldTrip ==
    ~crossed =>
        /\ row.trip # None /\ art[row.trip] # None => art[row.trip] = row.draft
        /\ \A g \in Gets : get[g].pc \in Reading => get[g].draft = row.draft

(* The patch on its way from the answer to the plan.                       *)
PatchFollows ==
    run.kind = "revise" =>
        /\ run.pc \in {"caps", "pack", "persist"} => row.draft # None /\ run.patch = Sanitized(run.asked)
        /\ run.pc \in {"pack", "persist"} => run.prefs = PrefsOf(run.patch)
PlanFollows ==
    run.pc = "persist" =>
        /\ run.plan.caps = CapsOf(run.ask, run.prefs)
        /\ run.plan.on \cap run.prefs.drop = {}

IInv == TypeOK /\ CapsHeld /\ OneTrip /\ NewTrip /\ OldTrip /\ PatchFollows /\ PlanFollows
-----------------------------------------------------------------------------
(* What the operators build is of its type.                                *)
LEMMA LimitsTyped ==
    ASSUME NEW over \in Limit, NEW limit \in Limit
    PROVE  /\ Stops(over, limit) \in Int
           /\ Minutes(over, limit) \in Int
           /\ WithinLimit(over) /\ WithinLimit(limit) =>
                 Stops(over, limit) <= DefaultStops /\ Minutes(over, limit) <= DefaultMinutes
  BY DEF Stops, Minutes, Or, Limit, WithinLimit, DefaultStops, DefaultMinutes

LEMMA CapsTyped ==
    ASSUME NEW days \in DayNumbers, NEW prefs \in Prefs
    PROVE  /\ CapsOf(days, prefs) \in Seq(Cap)
           /\ Len(CapsOf(days, prefs)) = days
           /\ \A d \in 1..days : CapsOf(days, prefs)[d] =
                 [stops |-> Stops(prefs.over[d], prefs.limit),
                  minutes |-> Minutes(prefs.over[d], prefs.limit)]
<1>1. days \in Nat /\ 1..days \subseteq DayNumbers
  BY ConstantsAssumption DEF DayNumbers
<1>2. \A d \in 1..days : prefs.over[d] \in Limit /\ prefs.limit \in Limit
  BY <1>1 DEF Prefs
<1>3. CapsOf(days, prefs) \in [1..days -> Cap]
  BY <1>2, LimitsTyped DEF CapsOf, Cap
<1>4. CapsOf(days, prefs) \in Seq(Cap)
  BY <1>1, <1>3, SeqDef
<1>5. Len(CapsOf(days, prefs)) = days
  BY <1>1, <1>3, <1>4, LenProperties
<1> QED
  BY <1>4, <1>5 DEF CapsOf

LEMMA LiteralTyped ==
    ASSUME NEW text \in Text
    PROVE  Literally(text) \in Patch
<1>1. (IF text.less THEN 60 ELSE None) \in Int \cup {None} /\ (IF text.less THEN 2 ELSE None) \in Int \cup {None}
  OBVIOUS
<1>2. text.day \in Nat \cup {None}
  BY DEF Text
<1> QED
  BY <1>1, <1>2 DEF Literally, Patch, NoPatch

LEMMA SanitizedTyped ==
    ASSUME NEW patch \in Patch
    PROVE  Sanitized(patch) \in Patch
  BY DEF Sanitized, Patch

LEMMA PrefsTyped ==
    ASSUME NEW patch \in Patch
    PROVE  /\ Override(patch) \in Limit
           /\ PrefsOf(patch) \in Prefs
           /\ ~Raises(patch) => /\ WithinLimit(Override(patch))
                                /\ WithinLimit(PrefsOf(patch).limit)
                                /\ \A d \in DayNumbers : WithinLimit(PrefsOf(patch).over[d])
<1>1. patch.factor # None => (DefaultMinutes * patch.factor) \div 100 \in Int
  BY DEF Patch, DefaultMinutes
<1>2. patch.factor # None /\ patch.factor < 100 => (DefaultMinutes * patch.factor) \div 100 <= DefaultMinutes
  BY DEF Patch, DefaultMinutes
<1>3. Override(patch) \in Limit
  BY <1>1 DEF Override, Patch, Limit
<1>4. NoLimit \in Limit /\ WithinLimit(NoLimit)
  BY DEF NoLimit, Limit, WithinLimit
<1>5. PrefsOf(patch) \in Prefs
  BY <1>3, <1>4 DEF PrefsOf, Prefs, Patch
<1>6. ~Raises(patch) => WithinLimit(Override(patch))
  BY <1>2, NoneAssumption DEF Raises, Override, WithinLimit, Patch, DefaultStops, DefaultMinutes
<1> QED
  BY <1>3, <1>4, <1>5, <1>6 DEF PrefsOf

LEMMA IdleTyped ==
    /\ Idle \in Run
    /\ [Idle EXCEPT !.pc = "failed"] \in Run
    /\ NoPatch \in Patch
    /\ NoPrefs \in Prefs
    /\ Idle.plan = None
    /\ WithinLimit(Idle.prefs.limit)
    /\ \A d \in DayNumbers : WithinLimit(Idle.prefs.over[d])
<1>1. NoPatch \in Patch
  BY DEF NoPatch, Patch
<1>2. NoPrefs \in Prefs
  BY DEF NoPrefs, Prefs, NoLimit, Limit, Everyday
<1>3. Idle \in Run
  BY <1>1, <1>2 DEF Idle, Run, Ended
<1>4. [Idle EXCEPT !.pc = "failed"] \in Run
  BY <1>1, <1>2 DEF Idle, Run, Ended
<1> QED
  BY <1>1, <1>2, <1>3, <1>4 DEF Idle, NoPrefs, NoLimit, Everyday, WithinLimit

LEMMA OldTyped ==
    ASSUME NEW days \in Asks
    PROVE  Old(days) \in Draft /\ Within(Old(days))
<1>1. days \in Nat
  BY ConstantsAssumption DEF DayNumbers
<1>2. DefaultCap \in Cap
  BY DEF DefaultCap, Cap, DefaultStops, DefaultMinutes
<1> DEFINE caps == [d \in 1..days |-> DefaultCap]
<1>3. caps \in [1..days -> Cap]
  BY <1>2
<1>4. caps \in Seq(Cap)
  BY <1>1, <1>3, SeqDef
<1>5. Len(caps) = days
  BY <1>1, <1>3, <1>4, LenProperties
<1>6. Old(days) \in Draft
  BY <1>4 DEF Old, Draft
<1>7. \A d \in 1..days : caps[d] = DefaultCap
  OBVIOUS
<1>8. Old(days).caps = caps
  BY DEF Old
<1> HIDE DEF caps
<1>9. Within(Old(days))
  BY <1>5, <1>7, <1>8 DEF Within, DayCount, DefaultCap, DefaultStops, DefaultMinutes
<1> QED
  BY <1>6, <1>9
-----------------------------------------------------------------------------
LEMMA Initially == Init => IInv
<1> SUFFICES ASSUME Init PROVE IInv
  OBVIOUS
<1>1. PICK days \in Asks, t \in Trips :
         row = [ask |-> IF born = "new" THEN None ELSE days,
                draft |-> IF born = "new" THEN None ELSE Old(days),
                trip |-> IF born = "unfiled" THEN t ELSE None,
                baseline |-> None, loops |-> 0]
  BY DEF Init
<1>2. Old(days) \in Draft /\ Within(Old(days))
  BY OldTyped
<1>3. None \notin Asks /\ None \notin Trips
  <2>1. Asks \subseteq Int
    BY ConstantsAssumption DEF DayNumbers
  <2> QED
    BY <2>1, ConstantsAssumption, NoneAssumption
<1>4. Old(days) # None
  BY <1>2, ValuesAssumption
<1>5. TypeOK
  BY <1>1, <1>2, <1>3, IdleTyped DEF Init, TypeOK, Row, Idle, Get, Unread, Reading
<1>6. CapsHeld
  BY <1>1, <1>2, IdleTyped DEF Init, CapsHeld, Unread
<1>7. OneTrip /\ NewTrip /\ OldTrip
  BY <1>1, <1>3, <1>4 DEF Init, OneTrip, NewTrip, OldTrip, Idle, Unread, Reading
<1>8. PatchFollows /\ PlanFollows
  BY DEF Init, PatchFollows, PlanFollows, Idle
<1> QED
  BY <1>5, <1>6, <1>7, <1>8 DEF IInv

LEMMA TypeStep == TypeOK /\ [Next]_vars => TypeOK'
<1> SUFFICES ASSUME TypeOK, [Next]_vars PROVE TypeOK'
  OBVIOUS
<1> USE DEF TypeOK
<1>1. ASSUME NEW days \in Asks, Confirm(days) PROVE TypeOK'
  BY <1>1, ConstantsAssumption, NoneAssumption DEF Confirm, Row, DayNumbers
<1>2. CASE StartGenerate
  <2>1. run' = [Idle EXCEPT !.pc = "pack", !.ask = row.ask, !.trip = row.trip]
    BY <1>2 DEF StartGenerate
  <2>2. run' \in Run
    BY <2>1, IdleTyped DEF Run, Row, Idle
  <2> QED
    BY <1>2, <2>1, <2>2 DEF StartGenerate, Begin, Idle
<1>3. ASSUME NEW text \in Texts, StartRevise(text) PROVE TypeOK'
  <2>1. run' = [Idle EXCEPT !.pc = "parse", !.kind = "revise", !.text = text]
    BY <1>3 DEF StartRevise
  <2>2. run' \in Run
    BY <2>1, IdleTyped DEF Run, Idle
  <2>3. text # None
    BY ValuesAssumption
  <2>4. row.draft \in Draft /\ DayCount(row.draft) \in Nat
    BY <1>3 DEF StartRevise, Row, Draft, DayCount
  <2>5. row' \in Row /\ row'.draft = row.draft /\ row'.ask = row.ask /\ row'.baseline # None
    BY <1>3, <2>4, NoneAssumption DEF StartRevise, Row, Given
  <2> QED
    BY <1>3, <2>1, <2>2, <2>3, <2>5 DEF StartRevise, Begin, Idle
<1>4. ASSUME NEW answer \in Answers \cup {None}, ParseRevise(answer) PROVE TypeOK'
  <2>1. PICK asked : /\ (asked = answer /\ answer # None) \/ asked = Literally(run.text)
                     /\ run' = [run EXCEPT !.pc = "caps", !.asked = asked, !.patch = Sanitized(asked)]
    BY <1>4 DEF ParseRevise
  <2>2. asked \in Patch
    BY <1>4, <2>1, ConstantsAssumption, LiteralTyped DEF ParseRevise, Run
  <2>3. Sanitized(asked) \in Patch
    BY <2>2, SanitizedTyped
  <2>4. run' \in Run
    BY <2>1, <2>2, <2>3 DEF Run
  <2>5. row' \in Row
    BY <1>4 DEF ParseRevise, Row
  <2> QED
    BY <1>4, <2>1, <2>4, <2>5 DEF ParseRevise, Run, Row
<1>5. CASE CheckCaps
  <2>1. PrefsOf(run.patch) \in Prefs
    BY PrefsTyped DEF Run
  <2>2. run' \in Run
    BY <1>5, <2>1 DEF CheckCaps, Run, Row
  <2> QED
    BY <1>5, <2>2 DEF CheckCaps, Run, Row
<1>6. ASSUME NEW on \in SUBSET Places, Pack(on) PROVE TypeOK'
  <2>1. run.ask \in DayNumbers /\ run.prefs \in Prefs
    BY <1>6, ConstantsAssumption DEF Pack, Run
  <2>2. [caps |-> CapsOf(run.ask, run.prefs), on |-> on] \in Draft
    BY <2>1, CapsTyped DEF Draft
  <2>3. run' = [run EXCEPT !.pc = "persist", !.plan = [caps |-> CapsOf(run.ask, run.prefs), on |-> on]]
    BY <1>6 DEF Pack
  <2>4. run' \in Run /\ run'.plan # None
    BY <2>2, <2>3, ValuesAssumption DEF Run
  <2> QED
    BY <1>6, <2>3, <2>4 DEF Pack, Run
<1>7. ASSUME NEW t \in Trips, Persist(t) PROVE TypeOK'
  <2>1. run.plan \in Draft /\ run.plan # None /\ DayCount(run.plan) \in Nat
    BY <1>7 DEF Persist, Run, Draft, DayCount
  <2> DEFINE baseline == Given(row.baseline, DayCount(run.plan))
             trip == IF t = run.trip THEN row.trip ELSE t
  <2>4. baseline \in Nat /\ baseline # None
    BY <2>1, NoneAssumption DEF Row, Given
  <2>5. trip \in Trips \cup {None}
    BY DEF Row
  <2>6. row' = [row EXCEPT !.draft = run.plan, !.trip = trip, !.baseline = baseline]
    BY <1>7 DEF Persist
  <2> HIDE DEF baseline, trip
  <2>2. row' \in Row /\ row'.ask = row.ask /\ row'.baseline # None /\ row'.draft = run.plan
    BY <2>1, <2>4, <2>5, <2>6 DEF Row
  <2>3. row.ask # None
    BY <1>7 DEF Persist
  <2> QED
    BY <1>7, <2>1, <2>2, <2>3, IdleTyped DEF Persist, Idle, Run, Ended
<1>8. CASE RunFails
  BY <1>8, IdleTyped DEF RunFails, Idle
<1>9. ASSUME NEW g \in Gets, GetLoad(g) PROVE TypeOK'
  BY <1>9 DEF GetLoad, Row, Get, Reading
<1>10. ASSUME NEW g \in Gets, GetCheck(g) PROVE TypeOK'
  BY <1>10 DEF GetCheck, Get, Reading
<1>11. ASSUME NEW g \in Gets, GetStore(g) PROVE TypeOK'
  BY <1>11 DEF GetStore, Get, Reading
<1>12. ASSUME NEW g \in Gets, GetFails(g) PROVE TypeOK'
  BY <1>12 DEF GetFails, Get, Reading
<1>13. ASSUME NEW g \in Gets, NEW t \in Trips, GetMint(g, t) PROVE TypeOK'
  BY <1>13 DEF GetMint, Get, Reading, Row
<1>14. CASE UNCHANGED vars
  BY <1>14 DEF vars
<1> QED
  BY <1>1, <1>2, <1>3, <1>4, <1>5, <1>6, <1>7, <1>8, <1>9, <1>10, <1>11, <1>12, <1>13, <1>14 DEF Next

LEMMA CapsStep == TypeOK /\ TypeOK' /\ CapsHeld /\ [Next]_vars => CapsHeld'
<1> SUFFICES ASSUME TypeOK, TypeOK', CapsHeld, [Next]_vars PROVE CapsHeld'
  OBVIOUS
<1> USE DEF TypeOK, CapsHeld
<1>1. ASSUME NEW days \in Asks, Confirm(days) PROVE CapsHeld'
  BY <1>1 DEF Confirm, Row
<1>2. CASE StartGenerate
  BY <1>2, IdleTyped DEF StartGenerate, Begin, Idle
<1>3. ASSUME NEW text \in Texts, StartRevise(text) PROVE CapsHeld'
  BY <1>3, IdleTyped DEF StartRevise, Begin, Idle, Row
<1>4. ASSUME NEW answer \in Answers \cup {None}, ParseRevise(answer) PROVE CapsHeld'
  BY <1>4 DEF ParseRevise, Run, Row
<1>5. CASE CheckCaps
  BY <1>5, PrefsTyped DEF CheckCaps, Run
<1>6. ASSUME NEW on \in SUBSET Places, Pack(on) PROVE CapsHeld'
  <2>1. run.ask \in DayNumbers /\ run.prefs \in Prefs
    BY <1>6, ConstantsAssumption DEF Pack, Run
  <2>2. run' = [run EXCEPT !.pc = "persist", !.plan = [caps |-> CapsOf(run.ask, run.prefs), on |-> on]]
    BY <1>6 DEF Pack
  <2>3. run'.plan.caps = CapsOf(run.ask, run.prefs) /\ run'.prefs = run.prefs
    BY <2>2 DEF Run
  <2>4. Len(CapsOf(run.ask, run.prefs)) = run.ask /\ 1..run.ask \subseteq DayNumbers
    BY <2>1, CapsTyped, ConstantsAssumption DEF DayNumbers
  <2>5. ASSUME NEW d \in 1..run.ask
        PROVE  /\ CapsOf(run.ask, run.prefs)[d].stops <= DefaultStops
               /\ CapsOf(run.ask, run.prefs)[d].minutes <= DefaultMinutes
    <3>1. d \in DayNumbers /\ run.prefs.over[d] \in Limit /\ run.prefs.limit \in Limit
      BY <2>1, <2>4 DEF Prefs
    <3>2. WithinLimit(run.prefs.over[d]) /\ WithinLimit(run.prefs.limit)
      BY <3>1
    <3>3. /\ Stops(run.prefs.over[d], run.prefs.limit) <= DefaultStops
          /\ Minutes(run.prefs.over[d], run.prefs.limit) <= DefaultMinutes
      BY <3>1, <3>2, LimitsTyped
    <3>4. CapsOf(run.ask, run.prefs)[d] =
             [stops |-> Stops(run.prefs.over[d], run.prefs.limit),
              minutes |-> Minutes(run.prefs.over[d], run.prefs.limit)]
      BY <2>1, CapsTyped
    <3> QED
      BY <3>3, <3>4
  <2>6. Within(run'.plan)
    BY <2>3, <2>4, <2>5 DEF Within, DayCount
  <2> QED
    BY <1>6, <2>3, <2>6 DEF Pack
<1>7. ASSUME NEW t \in Trips, Persist(t) PROVE CapsHeld'
  BY <1>7, IdleTyped DEF Persist, Idle, Row
<1>8. CASE RunFails
  BY <1>8, IdleTyped DEF RunFails, Idle
<1>9. ASSUME NEW g \in Gets, GetLoad(g) PROVE CapsHeld'
  BY <1>9 DEF GetLoad, Row
<1>10. ASSUME NEW g \in Gets, GetCheck(g) PROVE CapsHeld'
  BY <1>10 DEF GetCheck, Get
<1>11. ASSUME NEW g \in Gets, GetStore(g) PROVE CapsHeld'
  BY <1>11 DEF GetStore, Get
<1>12. ASSUME NEW g \in Gets, GetFails(g) PROVE CapsHeld'
  BY <1>12 DEF GetFails, Get
<1>13. ASSUME NEW g \in Gets, NEW t \in Trips, GetMint(g, t) PROVE CapsHeld'
  BY <1>13 DEF GetMint, Get, Row
<1>14. CASE UNCHANGED vars
  BY <1>14 DEF vars
<1> QED
  BY <1>1, <1>2, <1>3, <1>4, <1>5, <1>6, <1>7, <1>8, <1>9, <1>10, <1>11, <1>12, <1>13, <1>14 DEF Next

LEMMA TripStep ==
    TypeOK /\ TypeOK' /\ OneTrip /\ NewTrip /\ OldTrip /\ [Next]_vars
        => OneTrip' /\ NewTrip' /\ OldTrip'
<1> SUFFICES ASSUME TypeOK, TypeOK', OneTrip, NewTrip, OldTrip, [Next]_vars
             PROVE OneTrip' /\ NewTrip' /\ OldTrip'
  OBVIOUS
<1> DEFINE Good == OneTrip /\ NewTrip /\ OldTrip
<1> USE DEF TypeOK, OneTrip, NewTrip, OldTrip
<1>0. None \notin Trips
  BY ConstantsAssumption
<1>1. ASSUME NEW days \in Asks, Confirm(days) PROVE Good'
  BY <1>1 DEF Confirm, Row
<1>2. CASE StartGenerate
  BY <1>2 DEF StartGenerate, Begin, Idle
<1>3. ASSUME NEW text \in Texts, StartRevise(text) PROVE Good'
  BY <1>3 DEF StartRevise, Begin, Idle, Row
<1>4. ASSUME NEW answer \in Answers \cup {None}, ParseRevise(answer) PROVE Good'
  BY <1>4 DEF ParseRevise, Run, Row
<1>5. CASE CheckCaps
  BY <1>5 DEF CheckCaps, Run
<1>6. ASSUME NEW on \in SUBSET Places, Pack(on) PROVE Good'
  BY <1>6 DEF Pack, Run
<1>7. ASSUME NEW t \in Trips, Persist(t) PROVE Good'
  <2>1. /\ row'.draft = run.plan /\ run.plan # None
        /\ row'.trip = IF t = run.trip THEN row.trip ELSE t
        /\ art' = [art EXCEPT ![t] = run.plan]
        /\ run'.pc = "done" /\ get' = get /\ born' = born
        /\ ~crossed' => ~crossed /\ \A g \in Gets : get[g].pc \notin Reading
    BY <1>7 DEF Persist, Row, Idle
  <2>2. t = run.trip \/ (run.trip = None /\ art[t] = None /\ t # row.trip)
    BY <1>7 DEF Persist, TripOf, Unused
  <2>3. born # "untracked" \/ ~crossed => run.trip = row.trip /\ row'.trip = t
    BY <1>0, <1>7, <2>1, <2>2 DEF Persist
  <2>4. OneTrip'
    BY <1>0, <2>1, <2>2, <2>3
  <2>5. NewTrip'
    <3> SUFFICES ASSUME born = "new" PROVE NewTrip'
      BY <2>1
    <3>1. row'.trip = t /\ run.trip = row.trip
      BY <2>3
    <3>2. \A u \in Trips : art'[u] # None <=> u = t
      <4>1. \A u \in Trips : u # t => art'[u] = art[u] /\ u # row.trip
        BY <1>0, <2>1, <2>2, <3>1
      <4>2. art'[t] = run.plan /\ run.plan # None
        BY <2>1
      <4> QED
        BY <4>1, <4>2
    <3>3. \A g \in Gets : get[g].pc \in Reading => get[g].trip = t /\ get[g].pc # "store"
      BY <2>2, <3>1 DEF Reading
    <3> QED
      BY <2>1, <3>1, <3>2, <3>3
  <2>6. OldTrip'
    BY <2>1, <2>3
  <2> QED
    BY <2>4, <2>5, <2>6
<1>8. CASE RunFails
  BY <1>8 DEF RunFails, Idle, Ended
<1>9. ASSUME NEW g \in Gets, GetLoad(g) PROVE Good'
  BY <1>9 DEF GetLoad, Row, Reading, Get
<1>10. ASSUME NEW g \in Gets, GetCheck(g) PROVE Good'
  BY <1>10 DEF GetCheck, Get, Reading
<1>11. ASSUME NEW g \in Gets, GetStore(g) PROVE Good'
  BY <1>11 DEF GetStore, Get, Reading
<1>12. ASSUME NEW g \in Gets, GetFails(g) PROVE Good'
  BY <1>12 DEF GetFails, Get, Reading
<1>13. ASSUME NEW g \in Gets, NEW t \in Trips, GetMint(g, t) PROVE Good'
  <2>1. born = "untracked"
    BY <1>13 DEF GetMint
  <2>2. /\ get[g].pc = "mint" /\ get[g].draft # None
        /\ row'.trip = t /\ row'.draft = row.draft
        /\ art' = [art EXCEPT ![t] = get[g].draft]
        /\ run' = run /\ born' = born
        /\ ~crossed' => ~crossed /\ run.pc \notin {"pack", "persist"}
    BY <1>13 DEF GetMint, Row, Ended, Reading
  <2>3. \A h \in Gets : get'[h].pc \in Reading => get'[h] = get[h] /\ get[h].pc \in Reading
    BY <1>13 DEF GetMint, Get, Reading
  <2>4. OneTrip' /\ NewTrip'
    BY <2>1, <2>2
  <2>5. OldTrip'
    BY <2>2, <2>3 DEF Reading
  <2> QED
    BY <2>4, <2>5
<1>14. CASE UNCHANGED vars
  BY <1>14 DEF vars
<1> QED
  BY <1>1, <1>2, <1>3, <1>4, <1>5, <1>6, <1>7, <1>8, <1>9, <1>10, <1>11, <1>12, <1>13, <1>14 DEF Next

LEMMA PatchStep ==
    TypeOK /\ TypeOK' /\ PatchFollows /\ PlanFollows /\ [Next]_vars => PatchFollows' /\ PlanFollows'
<1> SUFFICES ASSUME TypeOK, TypeOK', PatchFollows, PlanFollows, [Next]_vars
             PROVE PatchFollows' /\ PlanFollows'
  OBVIOUS
<1> DEFINE Good == PatchFollows /\ PlanFollows
<1> USE DEF TypeOK, PatchFollows, PlanFollows
<1>1. ASSUME NEW days \in Asks, Confirm(days) PROVE Good'
  BY <1>1 DEF Confirm, Row, Sanitized
<1>2. CASE StartGenerate
  BY <1>2 DEF StartGenerate, Begin, Idle
<1>3. ASSUME NEW text \in Texts, StartRevise(text) PROVE Good'
  BY <1>3 DEF StartRevise, Begin, Idle
<1>4. ASSUME NEW answer \in Answers \cup {None}, ParseRevise(answer) PROVE Good'
  <2>1. PICK asked : run' = [run EXCEPT !.pc = "caps", !.asked = asked, !.patch = Sanitized(asked)]
    BY <1>4 DEF ParseRevise
  <2>2. row'.draft = row.draft /\ row.draft # None
    BY <1>4 DEF ParseRevise, Row
  <2> QED
    BY <2>1, <2>2 DEF Run, Sanitized
<1>5. CASE CheckCaps
  BY <1>5 DEF CheckCaps, Run, Sanitized
<1>6. ASSUME NEW on \in SUBSET Places, Pack(on) PROVE Good'
  <2>1. PICK found \in SUBSET Places :
           \E days \in Plans(found \ run.prefs.drop, CapsOf(run.ask, run.prefs)) : on = Placed(days)
    BY <1>6 DEF Pack
  <2>2. PICK days \in Plans(found \ run.prefs.drop, CapsOf(run.ask, run.prefs)) : on = Placed(days)
    BY <2>1
  <2>3. Placed(days) \cap run.prefs.drop = {}
    BY DEF Plans, Placed
  <2>4. on \cap run.prefs.drop = {}
    BY <2>2, <2>3
  <2> QED
    BY <1>6, <2>4 DEF Pack, Run, Sanitized
<1>7. ASSUME NEW t \in Trips, Persist(t) PROVE Good'
  BY <1>7 DEF Persist, Idle
<1>8. CASE RunFails
  BY <1>8 DEF RunFails, Idle
<1>9. ASSUME NEW g \in Gets, GetLoad(g) PROVE Good'
  BY <1>9 DEF GetLoad, Sanitized
<1>10. ASSUME NEW g \in Gets, GetCheck(g) PROVE Good'
  BY <1>10 DEF GetCheck, Sanitized
<1>11. ASSUME NEW g \in Gets, GetStore(g) PROVE Good'
  BY <1>11 DEF GetStore, Sanitized
<1>12. ASSUME NEW g \in Gets, GetFails(g) PROVE Good'
  BY <1>12 DEF GetFails, Sanitized
<1>13. ASSUME NEW g \in Gets, NEW t \in Trips, GetMint(g, t) PROVE Good'
  BY <1>13 DEF GetMint, Row, Sanitized
<1>14. CASE UNCHANGED vars
  BY <1>14 DEF vars, Sanitized
<1> QED
  BY <1>1, <1>2, <1>3, <1>4, <1>5, <1>6, <1>7, <1>8, <1>9, <1>10, <1>11, <1>12, <1>13, <1>14 DEF Next
-----------------------------------------------------------------------------
(* The strengthening of the invariants below holds in every state: the     *)
(* run, the reads and the row agree on the trip, and the patch, the prefs  *)
(* and the plan of a revision follow from what was asked.                  *)
THEOREM Invariance == Spec => []IInv
<1>1. Init => IInv
  BY Initially
<1>2. IInv /\ [Next]_vars => IInv'
  BY TypeStep, CapsStep, TripStep, PatchStep DEF IInv
<1> QED
  BY <1>1, <1>2, PTL DEF Spec

(* Every variable keeps its type, whatever texts, answers and asks there   *)
(* are, and a draft that a run has stored has its baseline.                *)
THEOREM TypeCorrect == Spec => []TypeOK
<1>1. IInv => TypeOK
  BY DEF IInv
<1> QED
  BY <1>1, Invariance, PTL

(* However often a session is revised, no stored draft has more stops or   *)
(* minutes a day than the first one could have (caps.py, engine.py).       *)
THEOREM CapsAreNeverRaised == Spec => []WithinOriginalCaps
<1>1. IInv => WithinOriginalCaps
  BY DEF IInv, CapsHeld, WithinOriginalCaps, Stored, Within
<1> QED
  BY <1>1, Invariance, PTL

(* The artifact of a session's trip is its draft, for any number of reads  *)
(* and runs (service.py persist_draft, ensure_trip_for_session).           *)
THEOREM ExportIsTheDraft == Spec => []ExportShowsTheDraft
<1>1. IInv => ExportShowsTheDraft
  <2> SUFFICES ASSUME IInv PROVE ExportShowsTheDraft
    OBVIOUS
  <2>1. row.trip \in Trips \cup {None} /\ None \notin Trips
    BY ConstantsAssumption DEF IInv, TypeOK, Row
  <2>2. born = "new" => {t \in Trips : art[t] # None} = {row.trip} \ {None}
    BY <2>1 DEF IInv, NewTrip
  <2>3. row.trip # None /\ art[row.trip] # None /\ (born = "new" \/ ~crossed) => art[row.trip] = row.draft
    BY DEF IInv, NewTrip, OldTrip
  <2> QED
    BY <2>2, <2>3 DEF ExportShowsTheDraft
<1> QED
  BY <1>1, Invariance, PTL

(* A session's trip id never changes once it is there, unless its draft is *)
(* older than the ids (service.py 74, 128).                                *)
THEOREM TripIsKept == Spec => TripIdentityKept
<1>1. IInv /\ [Next]_vars => [born # "untracked" /\ row.trip # None => row'.trip = row.trip]_vars
  <2> SUFFICES ASSUME IInv, Next, born # "untracked", row.trip # None
               PROVE  row'.trip = row.trip
    BY DEF vars
  <2>1. row \in Row
    BY DEF IInv, TypeOK
  <2>2. ASSUME NEW t \in Trips, Persist(t) PROVE row'.trip = row.trip
    <3>1. run.trip = row.trip
      BY <2>2 DEF IInv, OneTrip, Persist
    <3> QED
      BY <2>1, <2>2, <3>1 DEF Persist, TripOf, Row
  <2>3. ASSUME NEW g \in Gets, NEW t \in Trips, GetMint(g, t) PROVE row'.trip = row.trip
    BY <2>3 DEF GetMint, IInv, OneTrip
  <2>4. ASSUME NEW text \in Texts, StartRevise(text) PROVE row'.trip = row.trip
    BY <2>1, <2>4 DEF StartRevise, Row
  <2>5. ASSUME NEW days \in Asks, Confirm(days) PROVE row'.trip = row.trip
    BY <2>1, <2>5 DEF Confirm, Row
  <2>6. ASSUME NEW answer \in Answers \cup {None}, ParseRevise(answer) PROVE row'.trip = row.trip
    BY <2>1, <2>6 DEF ParseRevise, Row
  <2> QED
    BY <2>2, <2>3, <2>4, <2>5, <2>6
    DEF Next, StartGenerate, CheckCaps, Pack, RunFails, GetLoad, GetCheck, GetStore, GetFails
<1> QED
  BY <1>1, Invariance, PTL DEF Spec, TripIdentityKept

(* The limits a plan gets from a patch are those that were asked for.      *)
LEMMA PlanHonours ==
    ASSUME NEW asked \in Patch, NEW days \in DayNumbers, NEW d \in 1..days, row.draft \in Draft
    PROVE  LET named == asked.day = d \/ asked.day \notin 1..DayCount(row.draft)
               time == IF asked.minutes # None THEN asked.minutes
                       ELSE IF asked.factor # None /\ asked.factor < 100
                            THEN (DefaultMinutes * asked.factor) \div 100 ELSE None
           IN CapsOf(days, PrefsOf(Sanitized(asked)))[d] =
                 IF named THEN [stops |-> Or(asked.stops, DefaultStops),
                                minutes |-> Or(time, DefaultMinutes)]
                 ELSE DefaultCap
<1> DEFINE patch == Sanitized(asked)
           prefs == PrefsOf(patch)
           named == asked.day = d \/ asked.day \notin 1..DayCount(row.draft)
           time == IF asked.minutes # None THEN asked.minutes
                   ELSE IF asked.factor # None /\ asked.factor < 100
                        THEN (DefaultMinutes * asked.factor) \div 100 ELSE None
           want == [stops |-> asked.stops, minutes |-> time]
<1>1. d \in DayNumbers /\ d # None
  BY ConstantsAssumption, NoneAssumption DEF DayNumbers
<1>2. patch \in Patch
  BY SanitizedTyped
<1>3. Override(patch) = want
  BY DEF Override, Sanitized, Patch
<1>4. patch.day = IF asked.day \in 1..DayCount(row.draft) THEN asked.day ELSE None
  BY DEF Sanitized, Patch
<1>5. prefs.limit = IF patch.day = None THEN want ELSE NoLimit
  BY <1>3 DEF PrefsOf
<1>6. prefs.over[d] = IF d = patch.day THEN want ELSE NoLimit
  BY <1>1, <1>3 DEF PrefsOf
<1>7. prefs \in Prefs
  BY <1>2, PrefsTyped
<1>8. CapsOf(days, prefs)[d] = [stops |-> Stops(prefs.over[d], prefs.limit),
                                minutes |-> Minutes(prefs.over[d], prefs.limit)]
  BY <1>7, CapsTyped
<1>9. None \notin 1..DayCount(row.draft)
  BY NoneAssumption
<1>10. CASE named
  <2>1. \/ prefs.over[d] = want /\ prefs.limit = NoLimit
        \/ prefs.over[d] = NoLimit /\ prefs.limit = want
        \/ prefs.over[d] = want /\ prefs.limit = want
    BY <1>1, <1>4, <1>5, <1>6, <1>10
  <2>2. /\ Stops(prefs.over[d], prefs.limit) = Or(want.stops, DefaultStops)
        /\ Minutes(prefs.over[d], prefs.limit) = Or(want.minutes, DefaultMinutes)
    <3> HIDE DEF prefs, want
    <3> QED
      BY <2>1 DEF Stops, Minutes, Or, NoLimit
  <2> QED
    BY <1>8, <1>10, <2>2
<1>11. CASE ~named
  <2>1. prefs.over[d] = NoLimit /\ prefs.limit = NoLimit
    BY <1>1, <1>4, <1>5, <1>6, <1>9, <1>11
  <2>2. /\ Stops(prefs.over[d], prefs.limit) = DefaultStops
        /\ Minutes(prefs.over[d], prefs.limit) = DefaultMinutes
    BY <2>1 DEF Stops, Minutes, Or, NoLimit
  <2> QED
    BY <1>8, <1>11, <2>2 DEF DefaultCap
<1> QED
  BY <1>10, <1>11

(* A revision that succeeds does what was asked for, to the days that were *)
(* named and to no other (revise.py, caps.py, engine.py).                  *)
THEOREM RevisionsDoWhatWasAsked == Spec => PatchIsHonoured
<1>1. IInv /\ IInv' /\ [Next]_vars =>
         [run.kind = "revise" /\ run'.pc = "done" /\ run.pc # "done" =>
             Honours(run.asked, row.draft, row'.draft)]_vars
  <2> SUFFICES ASSUME IInv, Next, run.kind = "revise", run'.pc = "done", run.pc # "done"
               PROVE  Honours(run.asked, row.draft, row'.draft)
    BY DEF vars
  <2>1. PICK t \in Trips : Persist(t)
    BY DEF Next, Confirm, StartGenerate, StartRevise, ParseRevise, CheckCaps, Pack, RunFails,
           GetLoad, GetCheck, GetStore, GetFails, GetMint, Idle, IInv, TypeOK, Run
  <2>2. /\ row.draft # None /\ run.plan # None /\ run.ask # None
        /\ run.patch = Sanitized(run.asked) /\ run.prefs = PrefsOf(run.patch)
        /\ run.plan.caps = CapsOf(run.ask, run.prefs) /\ run.plan.on \cap run.prefs.drop = {}
    BY <2>1 DEF IInv, TypeOK, PatchFollows, PlanFollows, Persist
  <2>3. /\ row.draft \in Draft /\ run.asked \in Patch /\ run.prefs \in Prefs
        /\ run.ask \in DayNumbers /\ row'.draft = run.plan
    BY <2>1, <2>2, ConstantsAssumption DEF IInv, TypeOK, Row, Run, Persist
  <2>4. row'.draft.on \cap run.asked.drop \cap row.draft.on = {}
    BY <2>2, <2>3 DEF PrefsOf, Sanitized, Patch
  <2>5. DayCount(row'.draft) = run.ask
    BY <2>2, <2>3, CapsTyped DEF DayCount
  <2> QED
    BY <2>2, <2>3, <2>4, <2>5, PlanHonours DEF Honours
<1> QED
  BY <1>1, Invariance, PTL DEF Spec, PatchIsHonoured

-----------------------------------------------------------------------------
(* What the planner may rely on, and what may be relied on in its answer.  *)

PackerIsCalledLowered ==
    run.pc = "pack" =>
        /\ run.ask \in DayNumbers
        /\ run.prefs.limit \in Lowered
        /\ \A d \in DayNumbers : run.prefs.over[d] \in Lowered

(* The assumption under which PackDays is checked and proved holds of      *)
(* every call a run makes: no limit it passes is above the default, and it *)
(* asks for a number of days (revise.py 360-372, caps.py 160-184).         *)
THEOREM CallsAreLowered == Spec => []PackerIsCalledLowered
<1>1. IInv => PackerIsCalledLowered
  <2> SUFFICES ASSUME IInv, run.pc = "pack"
               PROVE  /\ run.ask \in DayNumbers
                      /\ run.prefs.limit \in Lowered
                      /\ \A d \in DayNumbers : run.prefs.over[d] \in Lowered
    BY DEF PackerIsCalledLowered
  <2>1. run \in Run /\ run.ask # None
    BY DEF IInv, TypeOK
  <2>2. run.ask \in DayNumbers
    BY <2>1, ConstantsAssumption DEF Run
  <2>3. run.prefs.limit \in Limit /\ \A d \in DayNumbers : run.prefs.over[d] \in Limit
    BY <2>1 DEF Run, Prefs
  <2>4. WithinLimit(run.prefs.limit) /\ \A d \in DayNumbers : WithinLimit(run.prefs.over[d])
    BY DEF IInv, CapsHeld
  <2> QED
    BY <2>2, <2>3, <2>4 DEF Lowered, WithinLimit
<1> QED
  BY <1>1, Invariance, PTL
=============================================================================
