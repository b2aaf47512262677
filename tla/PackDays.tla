------------------------------ MODULE PackDays ------------------------------
(***************************************************************************)
(* One call of the day packer and of the validator behind it               *)
(* (planner/engine.py pack_days, planner/matrix.py travel_matrix,          *)
(* planner/validate.py validate_itinerary), as run_generate calls them.    *)
(*                                                                         *)
(* A step is one turn of the packer's loops.  The arguments are chosen     *)
(* once, in Init, from Inputs.  A place is its rank in the (name, id)      *)
(* order of the sort; times are in minutes; a spot stands for a pair of    *)
(* coordinates, and Walk for the haversine distance at walking speed.      *)
(***************************************************************************)
EXTENDS PlanLimits

CONSTANTS
    NPlaces,    \* catalogue places are 1..NPlaces
    Hubs,       \* entries of scope["hubs"]
    Spots,      \* coordinates
    Walk,       \* Walk[<<a, b>>]: minutes on foot between two spots
    Far,        \* pairs of spots the validator finds more than 400 km apart
    Box,        \* Box[h]: the spots in hub h's bbox, none when it has no bbox
    MaxDays,    \* bound on the days asked for
    Inputs,     \* the arguments of the modelled calls
    NoHub

Places == 1..NPlaces
DayNumbers == 1..MaxDays

Visit == 45             \* _DEFAULT_VISIT_SECONDS
Overhead == 5           \* _HAVERSINE_FIXED_PENALTY_S

(* The places a scope's retrieve returns, drop_place_ids, those that carry *)
(* a preferred tag and those of the preferred category, the days of prefs  *)
(* and of the scope, its hubs, which come from a table and differ, the     *)
(* coordinates, the limits of the trip and those of single days.           *)
Input == [places : SUBSET Places, dropped : SUBSET Places,
          tagged : SUBSET Places, liked : SUBSET Places,
          wanted : DayNumbers \cup {None}, scoped : DayNumbers \cup {None},
          hubs : {h \in Seq(Hubs) : \A i, j \in 1..Len(h) : h[i] = h[j] => i = j},
          at : [Places -> Spots],
          limit : Lowered, over : [DayNumbers -> Lowered]]

ASSUME ConstantsAssumption ==
    /\ NPlaces \in Nat
    /\ MaxDays \in Nat /\ MaxDays >= 3
    /\ Walk \in [Spots \X Spots -> Nat]
    /\ Box \in [Hubs -> SUBSET Spots]
    /\ NoHub \notin Hubs
    /\ Inputs \subseteq Input

(* Distances are a metric, and 400 km is more than a day's walk.  The      *)
(* validator takes the difference of two longitudes without wrapping it,   *)
(* so this leaves out trips across the date line.                          *)
ASSUME MetricAssumption ==
    /\ \A a, b, c \in Spots : Walk[<<a, c>>] <= Walk[<<a, b>>] + Walk[<<b, c>>]
    /\ \A a, b \in Spots : <<a, b>> \in Far => Walk[<<a, b>>] > DefaultMinutes

VARIABLES
    input,  \* the arguments
    pc,     \* "next" before a day, "fill" in its loop, then "packed", "checked"
    plan,   \* the days packed so far
    today,  \* the day being filled
    pool,   \* candidates the loop has not come to
    used,   \* the set `used`
    spent,  \* travel_used
    errors  \* ValidateResult.errors, by kind
vars == <<input, pc, plan, today, pool, used, spent, errors>>

Day == [hub : Hubs \cup {NoHub}, stops : Seq(Places)]
Blank == [hub |-> NoHub, stops |-> <<>>]
Elems(s) == {s[i] : i \in 1..Len(s)}

Greater(a, b) == IF a >= b THEN a ELSE b
Lesser(a, b) == IF a <= b THEN a ELSE b

MaxStops(d) == Stops(input.over[d], input.limit)
Budget(d) == Minutes(input.over[d], input.limit)

Kept == input.places \ input.dropped
(* Slip: the default is taken for a least number of days.                  *)
NDaysSlip == Greater(3, Given(input.wanted, Given(input.scoped, 1)))
(* The scope's days have been counted when it was classified.              *)
NDays == Greater(1, Given(input.wanted, Given(input.scoped, 3)))

(* Days are dealt to the hubs in order, the first ones get the remainder.  *)
(* The sum of the counts is the number of days, so the code's corrections  *)
(* of the counts and of day_hubs never do anything.                        *)
NHubs == Len(input.hubs)
(* Slip: the last hubs get the remainder.                                  *)
DaysBeforeSlip(k) ==
    (k - 1) * (NDays \div NHubs) + Greater(0, k - 1 - (NHubs - (NDays % NHubs)))
DaysBefore(k) == (k - 1) * (NDays \div NHubs) + Lesser(k - 1, NDays % NHubs)
DayHub(d) ==
    IF NHubs = 0 THEN NoHub
    ELSE input.hubs[CHOOSE k \in 1..NHubs : DaysBefore(k) < d /\ d <= DaysBefore(k + 1)]

(* Catalogue places carry no hub_id, so only the box tells.                *)
Near(p, h) == input.at[p] \in Box[h]
Belongs(p, h) == h = NoHub \/ Near(p, h)

(* sort_key: a preferred tag, then the preferred category, then the name.  *)
Key(p) == p + (IF p \in input.liked THEN 0 ELSE NPlaces)
            + (IF p \in input.tagged THEN 0 ELSE 2 * NPlaces)
First(p) == p \in pool /\ \A q \in pool : Key(p) <= Key(q)

(* travel_matrix without a routing table.  Catalogue places have their     *)
(* coordinates (models.py 68-69), so the flat time for a place without     *)
(* them never applies, nor does the validator's skip of such a pair.       *)
Travel(p, q) == IF p = q THEN 0 ELSE Walk[<<input.at[p], input.at[q]>>] + Overhead
Transfer(p) == IF today.stops = <<>> THEN 0
               ELSE Travel(today.stops[Len(today.stops)], p)
(* Slip: the visit of the new place is not counted.                        *)
FitsSlip(p) == today.stops = <<>> \/ spent + Transfer(p) <= Budget(Len(plan) + 1)
Fits(p) == today.stops = <<>> \/ spent + Transfer(p) + Visit <= Budget(Len(plan) + 1)
Full == Len(today.stops) >= MaxStops(Len(plan) + 1)

Init ==
    /\ input \in Inputs
    /\ pc = "next"
    /\ plan = <<>>
    /\ today = Blank
    /\ pool = {}
    /\ used = {}
    /\ spent = 0
    /\ errors = {}

(* Nothing to place: the days are there, with no stop and no hub.          *)
EmptyDays ==
    /\ pc = "next"
    /\ Kept = {}
    /\ plan' = [d \in 1..NDays |-> Blank]
    /\ pc' = "packed"
    /\ UNCHANGED <<input, today, pool, used, spent, errors>>

(* Slip: the fallback offers the places of earlier days again.             *)
OpenDayAgainSlip ==
    /\ pc = "next"
    /\ Kept # {}
    /\ Len(plan) < NDays
    /\ LET hub == DayHub(Len(plan) + 1)
           close == {p \in Kept \ used : Belongs(p, hub)}
       IN /\ today' = [hub |-> hub, stops |-> <<>>]
          /\ pool' = IF close = {} THEN Kept ELSE close
    /\ spent' = 0
    /\ pc' = "fill"
    /\ UNCHANGED <<input, plan, used, errors>>
(* Slip: a hub day with a single place near it is topped up from the rest. *)
OpenDayTopUpSlip ==
    /\ pc = "next"
    /\ Kept # {}
    /\ Len(plan) < NDays
    /\ LET hub == DayHub(Len(plan) + 1)
           close == {p \in Kept \ used : Belongs(p, hub)}
       IN /\ today' = [hub |-> hub, stops |-> <<>>]
          /\ pool' = IF Cardinality(close) < 2 THEN Kept \ used ELSE close
    /\ spent' = 0
    /\ pc' = "fill"
    /\ UNCHANGED <<input, plan, used, errors>>
(* Slip: the time of the new day is not a number yet.                      *)
OpenDayUnsetSlip ==
    /\ pc = "next"
    /\ Kept # {}
    /\ Len(plan) < NDays
    /\ LET hub == DayHub(Len(plan) + 1)
           close == {p \in Kept \ used : Belongs(p, hub)}
       IN /\ today' = [hub |-> hub, stops |-> <<>>]
          /\ pool' = IF close = {} THEN Kept \ used ELSE close
    /\ spent' = None
    /\ pc' = "fill"
    /\ UNCHANGED <<input, plan, used, errors>>

(* Slip: no fallback for a hub with nothing left near it.                  *)
OpenDayNoFallbackSlip ==
    /\ pc = "next"
    /\ Kept # {}
    /\ Len(plan) < NDays
    /\ LET hub == DayHub(Len(plan) + 1)
       IN /\ today' = [hub |-> hub, stops |-> <<>>]
          /\ pool' = {p \in Kept \ used : Belongs(p, hub)}
    /\ spent' = 0
    /\ pc' = "fill"
    /\ UNCHANGED <<input, plan, used, errors>>

(* The candidates of the next day: what is left near its hub, or whatever  *)
(* is left when nothing is.                                                *)
OpenDay ==
    /\ pc = "next"
    /\ Kept # {}
    /\ Len(plan) < NDays
    /\ LET hub == DayHub(Len(plan) + 1)
           close == {p \in Kept \ used : Belongs(p, hub)}
       IN /\ today' = [hub |-> hub, stops |-> <<>>]
          /\ pool' = IF close = {} THEN Kept \ used ELSE close
    /\ spent' = 0
    /\ pc' = "fill"
    /\ UNCHANGED <<input, plan, used, errors>>

AddStop(p) ==
    /\ pc = "fill"
    /\ ~Full
    /\ First(p)
    /\ Fits(p)
    /\ today' = [today EXCEPT !.stops = Append(today.stops, p)]
    /\ used' = used \cup {p}
    /\ spent' = spent + Transfer(p) + Visit
    /\ pool' = pool \ {p}
    /\ UNCHANGED <<input, pc, plan, errors>>

(* Slip: the loop ends at the first place that does not fit.               *)
SkipPlaceSlip(p) ==
    /\ pc = "fill"
    /\ ~Full
    /\ First(p)
    /\ ~Fits(p)
    /\ pool' = {}
    /\ UNCHANGED <<input, pc, plan, today, used, spent, errors>>

SkipPlace(p) ==
    /\ pc = "fill"
    /\ ~Full
    /\ First(p)
    /\ ~Fits(p)
    /\ pool' = pool \ {p}
    /\ UNCHANGED <<input, pc, plan, today, used, spent, errors>>

CloseDay ==
    /\ pc = "fill"
    /\ Full \/ pool = {}
    /\ plan' = Append(plan, today)
    /\ pc' = "next"
    /\ UNCHANGED <<input, today, pool, used, spent, errors>>

EndPack ==
    /\ pc = "next"
    /\ Kept # {}
    /\ Len(plan) = NDays
    /\ pc' = "packed"
    /\ UNCHANGED <<input, plan, today, pool, used, spent, errors>>

(* The errors of validate_itinerary.  The country filter has been applied  *)
(* by retrieve, with the same country, so foreign_poi does not occur.      *)
Twice == \E i, j \in 1..Len(plan) :
           \E k \in 1..Len(plan[i].stops), l \in 1..Len(plan[j].stops) :
              <<i, k>> # <<j, l>> /\ plan[i].stops[k] = plan[j].stops[l]
Stray == \E i \in 1..Len(plan) : ~(Elems(plan[i].stops) \subseteq input.places)
TooFar == \E i \in 1..Len(plan) : \E k \in 2..Len(plan[i].stops) :
             <<input.at[plan[i].stops[k - 1]], input.at[plan[i].stops[k]]>> \in Far
TooManyDays ==
    LET cap == Given(input.wanted, input.scoped) IN cap # None /\ Len(plan) > cap

Validate ==
    /\ pc = "packed"
    /\ errors' = {e \in {"day_cap_exceeded", "unknown_venue", "duplicate_stop", "transfer_insanity"} :
                    \/ e = "day_cap_exceeded" /\ TooManyDays
                    \/ e = "unknown_venue" /\ Stray
                    \/ e = "duplicate_stop" /\ Twice
                    \/ e = "transfer_insanity" /\ TooFar}
    /\ pc' = "checked"
    /\ UNCHANGED <<input, plan, today, pool, used, spent>>

Next ==
    \/ EmptyDays \/ OpenDay \/ CloseDay \/ EndPack \/ Validate
    \/ \E p \in Places : AddStop(p) \/ SkipPlace(p)

Spec == Init /\ [][Next]_vars
-----------------------------------------------------------------------------
(* The values of the variables.                                            *)
TypeOK ==
    /\ input \in Input
    /\ pc \in {"next", "fill", "packed", "checked"}
    /\ plan \in Seq(Day)
    /\ today \in Day
    /\ pool \subseteq Places
    /\ used \subseteq Places
    /\ spent \in Nat
    /\ errors \subseteq {"day_cap_exceeded", "unknown_venue", "duplicate_stop", "transfer_insanity"}

Days == IF pc = "fill" THEN Append(plan, today) ELSE plan
(* Visits and transfers of a day, added up from its stops.                 *)
TimeOf(stops) ==
    LET time[k \in 0..Len(stops)] ==
            IF k = 0 THEN 0
            ELSE time[k - 1] + Visit + (IF k = 1 THEN 0 ELSE Travel(stops[k - 1], stops[k]))
    IN time[Len(stops)]
(* What the days up to the i-th take.                                      *)
TakenBy(i) == UNION {Elems(Days[j].stops) : j \in 1..i}

(* A place is a stop at most once in the whole plan, and one that was      *)
(* asked to be dropped is not a stop at all: the days share one list of    *)
(* candidates and a hub day that finds nothing near it takes from all      *)
(* (engine.py used, dropped, 138-150).                                     *)
EachPlaceOnce ==
    /\ \A i \in 1..Len(Days) : Elems(Days[i].stops) \subseteq Kept
    /\ \A i, j \in 1..Len(Days) :
         \A k \in 1..Len(Days[i].stops), l \in 1..Len(Days[j].stops) :
            Days[i].stops[k] = Days[j].stops[l] => i = j /\ k = l

(* A day has no more stops than its own limit, the trip's or the default   *)
(* allows, and a day of several stops takes no more time than it may,      *)
(* whatever was skipped in between; limits of zero count as not given and  *)
(* negative ones leave the day empty (engine.py 126-186).                  *)
WithinCaps ==
    \A i \in 1..Len(Days) :
        /\ Len(Days[i].stops) <= Greater(0, MaxStops(i))
        /\ Len(Days[i].stops) > 1 => TimeOf(Days[i].stops) <= Budget(i)

(* Each hub has its days in one block, in the order of the scope, and no   *)
(* hub has more days than an earlier one or one day less than it: with     *)
(* enough days none goes without (engine.py 97-116).                       *)
HubsInSequence ==
    pc \in {"packed", "checked"} /\ Kept # {} /\ NHubs > 0 =>
        LET DaysOf(k) == {d \in 1..Len(plan) : plan[d].hub = input.hubs[k]}
        IN /\ Cardinality(UNION {DaysOf(k) : k \in 1..NHubs}) = NDays
           /\ \A j, k \in 1..NHubs : j < k =>
                /\ \A c \in DaysOf(j), d \in DaysOf(k) : c < d
                /\ Cardinality(DaysOf(j)) - Cardinality(DaysOf(k)) \in {0, 1}

(* A stop away from its day's hub is there only because every place near   *)
(* that hub is a stop of an earlier day: the fallback never mixes with     *)
(* the hub's own places (engine.py 138-150).                               *)
AwayOnlyWhenNearIsTaken ==
    \A i \in 1..Len(Days) : \A p \in Elems(Days[i].stops) :
        ~Belongs(p, Days[i].hub) =>
            {q \in Kept : Belongs(q, Days[i].hub)} \subseteq TakenBy(i - 1)

(* A day ends below its number of stops only when no place it was offered  *)
(* and that is still unplaced could follow its last stop in time, although *)
(* the loop never goes back to a place it skipped; so a day stays empty    *)
(* only when nothing is left (engine.py 159-186).                          *)
NothingLeftThatFits ==
    \A i \in 1..Len(plan) :
        LET stops == plan[i].stops
            offered == {p \in Kept \ TakenBy(i) :
                           \/ Belongs(p, plan[i].hub)
                           \/ \A q \in Elems(stops) : ~Belongs(q, plan[i].hub)}
        IN Len(stops) < MaxStops(i) =>
             \A p \in offered :
                /\ stops # <<>>
                /\ TimeOf(stops) + Travel(stops[Len(stops)], p) + Visit > Budget(i)

(* The validator never refuses what the packer made: a run does not fail   *)
(* for a plan it could have packed otherwise, and its two checks of the    *)
(* day count and of the transfers agree with the packer's own limits       *)
(* (validate.py 25-64 against engine.py 17-28, 159-186).                   *)
PackedPlanIsValid == pc = "checked" => errors = {}

(* What the pipelines take from pack_days and validate_itinerary: a plan   *)
(* that was accepted, by the places of its days (generate.py 91-147).      *)
Call == [kept |-> Kept, caps |-> CapsOf(NDays, input)]
Answered == IF pc = "checked" /\ errors = {}
            THEN [d \in 1..Len(plan) |-> Elems(plan[d].stops)] ELSE None
Contract == INSTANCE PlanContract WITH call <- Call, plan <- Answered

(* The packer and the validator together keep the planner's contract: a    *)
(* plan of as many days as were asked for, within the limits of each, with *)
(* no place twice and no day empty without need.                           *)
KeepsPlanContract == Contract!Spec
=============================================================================
