----------------------------- MODULE PlanLimits -----------------------------
(***************************************************************************)
(* The limits of a day, as the packer (planner/engine.py) and the caps of  *)
(* a revision (planner/caps.py) both know them: how many stops it has and  *)
(* how many minutes of visits and transfers.  A limit may be not given.    *)
(* And the plans that the packer may make of them.                         *)
(***************************************************************************)
EXTENDS Integers, Sequences, FiniteSets

CONSTANT None

ASSUME NoneAssumption == None \notin Int

DefaultStops == 4       \* _DEFAULT_MAX_STOPS_PER_DAY
DefaultMinutes == 240   \* _DEFAULT_DAY_TRAVEL_BUDGET_S

(* `a or b`: zero is as good as nothing.                                   *)
Or(a, b) == IF a \in {None, 0} THEN b ELSE a
(* The first value given.                                                  *)
Given(a, b) == IF a = None THEN b ELSE a

(* max_stops_per_day and day_travel_budget_s of prefs or of one entry of   *)
(* day_overrides.                                                          *)
Limit == [stops : Int \cup {None}, minutes : Int \cup {None}]
NoLimit == [stops |-> None, minutes |-> None]

(* What the packer makes of a day's override and the trip's limit.         *)
Stops(over, limit) == Or(over.stops, Or(limit.stops, DefaultStops))
Minutes(over, limit) == Or(over.minutes, Or(limit.minutes, DefaultMinutes))

(* The limits the packer gives each of so many days, from prefs.           *)
Cap == [stops : Int, minutes : Int]
CapsOf(days, prefs) ==
    [d \in 1..days |-> [stops |-> Stops(prefs.over[d], prefs.limit),
                        minutes |-> Minutes(prefs.over[d], prefs.limit)]]

(* The revise caps let no budget above the default pass                    *)
(* (PackerIsCalledLowered of DraftRevisionProofs).                         *)
Lowered == {l \in Limit : l.minutes = None \/ l.minutes <= DefaultMinutes}

(* The places of each day that may come out of a call: no place has two    *)
(* days, no day more than its stops, and a day is left empty only when it  *)
(* has no room or nothing is left for it.                                  *)
Plans(kept, caps) ==
    {days \in [1..Len(caps) -> SUBSET kept] :
        /\ \A d, e \in 1..Len(caps) : d # e => days[d] \cap days[e] = {}
        /\ \A d \in 1..Len(caps) :
              IF days[d] = {} THEN caps[d].stops <= 0 \/ kept \subseteq UNION {days[e] : e \in 1..d}
              ELSE Cardinality(days[d]) <= caps[d].stops}
Placed(days) == UNION {days[d] : d \in DOMAIN days}
=============================================================================
