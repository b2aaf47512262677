--------------------------- MODULE PackDaysProofs ---------------------------
(***************************************************************************)
(* Proofs about PackDays, for any places, hubs, distances and arguments.   *)
(* What adds up the time of a day is recursive and stays with TLC; that a  *)
(* single transfer is short enough follows from the budget alone.          *)
(***************************************************************************)
EXTENDS PackDays, SequenceTheorems, FiniteSetTheorems,
        WellFoundedInduction, TLAPS

(* How far the packer is in the days it has to make.                       *)
DayInHand ==
    /\ Len(plan) <= NDays
    /\ pc = "fill" => Len(plan) < NDays
    /\ pc \in {"packed", "checked"} => Len(plan) = NDays

(* `used` is what the days hold.                                           *)
UsedIsPlaced ==
    used = {p \in Places : \E i \in 1..Len(Days) : p \in Elems(Days[i].stops)}

(* What the loop may still come to is unplaced; a day is empty only before *)
(* its first place.                                                        *)
PoolIsLeft ==
    pc = "fill" =>
        /\ pool \subseteq Kept \ used
        /\ today.stops = <<>> => pool # {} \/ Kept \subseteq used
        /\ spent = TimeOf(today.stops)

(* The day in hand is one of places near the hub, or nothing near the hub  *)
(* is left.                                                                *)
NearTaken == {q \in Kept : Belongs(q, today.hub)} \subseteq TakenBy(Len(plan))
NearOrTaken == pc = "fill" => NearTaken \/ \A q \in pool : Belongs(q, today.hub)

(* What the loop has skipped would still take too long.                    *)
SkippedDoNotFit ==
    pc = "fill" =>
        \A p \in Kept \ (used \cup pool) :
            Belongs(p, today.hub) \/ NearTaken =>
                /\ today.stops # <<>>
                /\ spent + Travel(today.stops[Len(today.stops)], p) + Visit > Budget(Len(plan) + 1)

(* No two stops in a row are farther apart than a day's budget.            *)
ShortLegs ==
    \A i \in 1..Len(Days) : \A k \in 2..Len(Days[i].stops) :
        Walk[<<input.at[Days[i].stops[k - 1]], input.at[Days[i].stops[k]]>>] <= DefaultMinutes

(* Days are the hubs' in turn.                                             *)
HubOfDay == Kept # {} => \A i \in 1..Len(Days) : Days[i].hub = DayHub(i)

(* What holds of the days, whatever the loop has before it.                *)
DaysInv ==
    /\ UsedIsPlaced
    /\ EachPlaceOnce
    /\ WithinCaps
    /\ AwayOnlyWhenNearIsTaken
    /\ ShortLegs
    /\ HubOfDay

IInv ==
    /\ TypeOK
    /\ DayInHand
    /\ DaysInv
    /\ PoolIsLeft
    /\ NearOrTaken
    /\ SkippedDoNotFit
    /\ NothingLeftThatFits
    /\ PackedPlanIsValid

-----------------------------------------------------------------------------
(* Limits and days.                                                        *)

LEMMA NDaysType ==
    ASSUME input \in Input PROVE NDays \in DayNumbers
  BY ConstantsAssumption, NoneAssumption DEF Input, NDays, Greater, Given, DayNumbers

(* A limit that is not given, or lowered, gives at most the default.       *)
LEMMA BudgetIsLow ==
    ASSUME input \in Input, NEW d \in DayNumbers
    PROVE  /\ Budget(d) \in Int /\ Budget(d) <= DefaultMinutes
           /\ MaxStops(d) \in Int
  <1>1. input.limit \in Lowered /\ input.over[d] \in Lowered
    BY DEF Input
  <1> QED
    BY <1>1, NoneAssumption
    DEF Budget, MaxStops, Minutes, Stops, Or, Lowered, Limit, DefaultMinutes, DefaultStops

(* A set of numbers that is not empty has a least element.                 *)
LEMMA Least ==
    ASSUME NEW T \in SUBSET Nat, T # {}
    PROVE  \E m \in T : \A k \in T : m <= k
  <1> DEFINE R == OpToRel(<, Nat)
  <1>1. PICK m \in T : \A k \in T : <<k, m>> \notin R
    <2>1. IsWellFoundedOn(R, Nat)
      BY NatLessThanWellFounded
    <2> HIDE DEF R
    <2> QED BY <2>1, WFMin
  <1>2. \A k \in T : ~(k < m)
    BY <1>1 DEF OpToRel
  <1> QED
    BY <1>2

(* Each hub has the whole quotient of the days, and the first ones a day   *)
(* of the remainder each (engine.py 97-108).                               *)
THEOREM DaysAreDealt ==
    ASSUME input \in Input, NHubs # 0
    PROVE  /\ DaysBefore(1) = 0 /\ DaysBefore(NHubs + 1) = NDays
           /\ \A k \in 1..(NHubs + 1) : DaysBefore(k) \in Nat
           /\ \A k \in 1..NHubs :
                DaysBefore(k + 1) - DaysBefore(k) =
                    NDays \div NHubs + (IF k <= NDays % NHubs THEN 1 ELSE 0)
           /\ \A j, k \in 1..(NHubs + 1) : j <= k => DaysBefore(j) <= DaysBefore(k)
  <1> DEFINE q == NDays \div NHubs
             r == NDays % NHubs
  <1>1. NHubs \in Nat \ {0} /\ NDays \in Nat
    <2>1. input.hubs \in Seq(Hubs)
      BY DEF Input
    <2> QED
      BY <2>1, LenProperties, NDaysType, ConstantsAssumption DEF NHubs, DayNumbers
  <1>2. /\ q \in Nat /\ r \in 0..(NHubs - 1)
        /\ NDays = NHubs * q + r
    BY <1>1
  <1>3. \A k : DaysBefore(k) = (k - 1) * q + Lesser(k - 1, r)
    BY DEF DaysBefore
  <1> HIDE DEF q, r
  <1>4. \A k \in 1..(NHubs + 1) : (k - 1) * q \in Nat
    <2> TAKE k \in 1..(NHubs + 1)
    <2>1. k - 1 \in Nat
      BY <1>1
    <2> QED BY <1>2, <2>1
  <1>5. \A k \in 1..(NHubs + 1) : DaysBefore(k) \in Nat
    BY <1>1, <1>2, <1>3, <1>4 DEF Lesser
  <1>6. DaysBefore(1) = 0
    <2>1. (1 - 1) * q = 0
      BY <1>2
    <2> QED BY <1>2, <1>3, <2>1 DEF Lesser
  <1>7. DaysBefore(NHubs + 1) = NDays
    <2>1. (NHubs + 1) - 1 = NHubs /\ NHubs * q \in Int
      BY <1>1, <1>2
    <2>2. Lesser(NHubs, r) = r
      BY <1>1, <1>2 DEF Lesser
    <2> QED BY <1>2, <1>3, <2>1, <2>2
  <1>8. ASSUME NEW k \in 1..NHubs
        PROVE  DaysBefore(k + 1) - DaysBefore(k) = q + (IF k <= r THEN 1 ELSE 0)
    <2>1. k \in Nat /\ (k + 1) - 1 = k /\ k * q = (k - 1) * q + q /\ (k - 1) * q \in Nat
      <3>1. k \in Nat /\ k - 1 \in Nat
        BY <1>1
      <3> QED BY <3>1, <1>2
    <2>2. Lesser(k, r) - Lesser(k - 1, r) = IF k <= r THEN 1 ELSE 0
      BY <2>1, <1>2 DEF Lesser
    <2>3. Lesser(k, r) \in Int /\ Lesser(k - 1, r) \in Int
      BY <2>1, <1>2 DEF Lesser
    <2>4. DaysBefore(k + 1) = k * q + Lesser(k, r) /\ DaysBefore(k) = (k - 1) * q + Lesser(k - 1, r)
      BY <2>1, <1>3
    <2> QED
      BY <2>1, <2>2, <2>3, <2>4, <1>2
  <1>9. ASSUME NEW j \in 1..(NHubs + 1), NEW k \in 1..(NHubs + 1), j <= k
        PROVE  DaysBefore(j) <= DaysBefore(k)
    <2>1. j - 1 \in Nat /\ k - 1 \in Nat /\ k - j \in Nat
      BY <1>9, <1>1
    <2>2. (k - 1) * q = (j - 1) * q + (k - j) * q /\ (k - j) * q \in Nat
      BY <2>1, <1>2
    <2>3. Lesser(j - 1, r) <= Lesser(k - 1, r)
      BY <2>1, <1>2 DEF Lesser
    <2>4. Lesser(j - 1, r) \in Int /\ Lesser(k - 1, r) \in Int
      BY <2>1, <1>2 DEF Lesser
    <2>5. DaysBefore(j) = (j - 1) * q + Lesser(j - 1, r) /\ DaysBefore(k) = (k - 1) * q + Lesser(k - 1, r)
      BY <1>3
    <2> QED
      BY <2>2, <2>3, <2>4, <2>5, <1>4
  <1> QED
    BY <1>5, <1>6, <1>7, <1>8, <1>9 DEF q, r

(* Every day falls to a hub, if there are hubs, and to one only.           *)
LEMMA DayHasHub ==
    ASSUME input \in Input, NHubs # 0, NEW d \in 1..NDays
    PROVE  \E k \in 1..NHubs : DaysBefore(k) < d /\ d <= DaysBefore(k + 1)
  <1> DEFINE T == {k \in 1..NHubs : d <= DaysBefore(k + 1)}
  <1>1. NHubs \in Nat \ {0} /\ NDays \in Nat
    <2>1. input.hubs \in Seq(Hubs)
      BY DEF Input
    <2> QED
      BY <2>1, LenProperties, NDaysType, ConstantsAssumption DEF NHubs, DayNumbers
  <1>2. DaysBefore(1) = 0 /\ DaysBefore(NHubs + 1) = NDays
    BY DaysAreDealt
  <1>3. \A k \in 1..(NHubs + 1) : DaysBefore(k) \in Nat
    BY DaysAreDealt
  <1>4. T # {} /\ T \in SUBSET Nat
    <2>1. NHubs \in 1..NHubs /\ d <= NDays
      BY <1>1
    <2>2. NHubs \in T
      BY <2>1, <1>2
    <2>3. T \in SUBSET Nat
      BY <1>1
    <2> HIDE DEF T
    <2> QED BY <2>2, <2>3
  <1>5. PICK k \in T : \A l \in T : k <= l
    BY <1>4, Least
  <1>6. DaysBefore(k) < d
    <2>1. CASE k = 1
      BY <2>1, <1>1, <1>2
    <2>2. CASE k # 1
      <3>1. k - 1 \notin T
        BY <1>1, <1>5, <2>2
      <3>2. k - 1 \in 1..NHubs /\ (k - 1) + 1 = k /\ k \in 1..(NHubs + 1)
        BY <1>1, <1>5, <2>2
      <3> QED BY <3>1, <3>2, <1>3, <1>1
    <2> QED BY <2>1, <2>2
  <1> QED
    BY <1>5, <1>6

LEMMA HubIs ==
    ASSUME input \in Input, NHubs # 0, NEW d \in 1..NDays
    PROVE  \E k \in 1..NHubs : DayHub(d) = input.hubs[k] /\ DaysBefore(k) < d /\ d <= DaysBefore(k + 1)
  BY DayHasHub DEF DayHub

LEMMA HubType ==
    ASSUME input \in Input, NEW d \in 1..NDays
    PROVE  DayHub(d) \in Hubs \cup {NoHub}
  <1>1. CASE NHubs = 0
    BY <1>1 DEF DayHub
  <1>2. CASE NHubs # 0
    <2>1. input.hubs \in Seq(Hubs)
      BY DEF Input
    <2> QED
      BY <1>2, <2>1, HubIs, ElementOfSeq DEF NHubs
  <1> QED
    BY <1>1, <1>2

LEMMA HubHasItsBlock ==
    ASSUME input \in Input, NHubs # 0, NEW d \in 1..NDays, NEW k \in 1..NHubs
    PROVE  DayHub(d) = input.hubs[k] <=> DaysBefore(k) < d /\ d <= DaysBefore(k + 1)
  <1>1. PICK j \in 1..NHubs : DayHub(d) = input.hubs[j] /\ DaysBefore(j) < d /\ d <= DaysBefore(j + 1)
    BY HubIs
  <1>2. NHubs \in Nat /\ (input.hubs[j] = input.hubs[k] => j = k)
    <2>1. /\ input.hubs \in Seq(Hubs)
          /\ \A i, l \in 1..Len(input.hubs) : input.hubs[i] = input.hubs[l] => i = l
      BY DEF Input
    <2> QED BY <2>1, LenProperties DEF NHubs
  <1>3. /\ j + 1 \in 1..(NHubs + 1) /\ k + 1 \in 1..(NHubs + 1)
        /\ j \in 1..(NHubs + 1) /\ k \in 1..(NHubs + 1)
    BY <1>2
  <1>4. /\ DaysBefore(j) \in Nat /\ DaysBefore(k) \in Nat
        /\ DaysBefore(j + 1) \in Nat /\ DaysBefore(k + 1) \in Nat
        /\ j + 1 <= k => DaysBefore(j + 1) <= DaysBefore(k)
        /\ k + 1 <= j => DaysBefore(k + 1) <= DaysBefore(j)
    BY <1>3, DaysAreDealt
  <1>5. ASSUME DaysBefore(k) < d, d <= DaysBefore(k + 1) PROVE j = k
    BY <1>1, <1>4, <1>5
  <1> QED
    BY <1>1, <1>2, <1>5

(* What a transfer takes, from wherever the day is.                        *)
LEMMA WalkType ==
    ASSUME input \in Input, NEW p \in Places, NEW q \in Places
    PROVE  /\ input.at[p] \in Spots /\ input.at[q] \in Spots
           /\ Walk[<<input.at[p], input.at[q]>>] \in Nat
           /\ Travel(p, q) \in Nat
  <1>1. input.at[p] \in Spots /\ input.at[q] \in Spots
    BY DEF Input
  <1>2. Walk[<<input.at[p], input.at[q]>>] \in Nat
    BY <1>1, ConstantsAssumption
  <1> QED
    BY <1>1, <1>2 DEF Travel, Overhead

LEMMA TransferType ==
    ASSUME TypeOK, NEW p \in Places
    PROVE  Transfer(p) \in Nat
  <1>1. CASE today.stops = <<>>
    BY <1>1 DEF Transfer
  <1>2. CASE today.stops # <<>>
    <2>1. today.stops \in Seq(Places)
      BY DEF TypeOK, Day
    <2>2. today.stops[Len(today.stops)] \in Places
      BY <1>2, <2>1, EmptySeq, ElementOfSeq
    <2>3. input \in Input
      BY DEF TypeOK
    <2> QED
      BY <1>2, <2>2, <2>3, WalkType DEF Transfer
  <1> QED
    BY <1>1, <1>2

(* The day in hand is one of the days there are limits for.                *)
LEMMA InDays ==
    ASSUME TypeOK, DayInHand, pc = "fill"
    PROVE  Len(plan) \in Nat /\ Len(plan) + 1 \in 1..NDays /\ Len(plan) + 1 \in DayNumbers
  <1>1. NDays \in DayNumbers /\ Len(plan) \in Nat
    BY NDaysType, LenProperties DEF TypeOK
  <1> QED
    BY <1>1, ConstantsAssumption DEF DayInHand, DayNumbers

-----------------------------------------------------------------------------
(* The time of a day.  TimeOf is a recursive function over the stops; a    *)
(* least counterexample takes the place of an induction.                   *)

After(f, k, s) ==
    IF k = 0 THEN 0
    ELSE f[k - 1] + Visit + (IF k = 1 THEN 0 ELSE Travel(s[k - 1], s[k]))
Adds(f, n, s) == f = [k \in 0..n |-> After(f, k, s)]

LEMMA AddsExists ==
    ASSUME NEW n \in Nat, NEW s
    PROVE  \E f : Adds(f, n, s)
  <1> DEFINE T == {m \in Nat : ~\E f : Adds(f, m, s)}
  <1>1. SUFFICES ASSUME T # {} PROVE FALSE
    BY <1>1
  <1>2. PICK m \in T : \A k \in T : m <= k
    BY <1>1, Least
  <1>3. CASE m = 0
    <2> DEFINE f == [k \in 0..0 |-> 0]
    <2>1. f = [k \in 0..0 |-> After(f, k, s)]
      BY DEF After
    <2> QED BY <1>2, <1>3, <2>1 DEF Adds, After
  <1>4. CASE m # 0
    <2>1. m \in Nat /\ m - 1 \in Nat /\ m - 1 \notin T
      BY <1>2, <1>4
    <2>2. PICK g : Adds(g, m - 1, s)
      BY <2>1
    <2> DEFINE f == [k \in 0..m |-> After(g, k, s)]
    <2>3. \A k \in 0..(m - 1) : f[k] = g[k]
      BY <2>1, <2>2 DEF Adds, After
    <2>4. f = [k \in 0..m |-> After(f, k, s)]
      <3>1. ASSUME NEW k \in 0..m, k # 0 PROVE f[k - 1] = g[k - 1]
        <4>1. k - 1 \in 0..(m - 1)
          BY <3>1, <2>1
        <4> HIDE DEF f
        <4> QED BY <4>1, <2>3
      <3> HIDE DEF f
      <3>2. f = [k \in 0..m |-> After(g, k, s)]
        BY DEF f
      <3>3. \A k \in 0..m : After(g, k, s) = After(f, k, s)
        BY <3>1 DEF After
      <3> QED BY <3>2, <3>3
    <2> QED BY <1>2, <2>4 DEF Adds, After
  <1> QED
    BY <1>3, <1>4

(* Two such sums agree where both are defined.                             *)
LEMMA AddsAgree ==
    ASSUME NEW n \in Nat, NEW m \in Nat, n <= m, NEW f, NEW g, NEW s, NEW t,
           Adds(f, n, s), Adds(g, m, t), \A k \in 1..n : s[k] = t[k]
    PROVE  \A k \in 0..n : f[k] = g[k]
  <1> DEFINE T == {k \in 0..n : f[k] # g[k]}
  <1>1. SUFFICES ASSUME T # {} PROVE FALSE
    BY <1>1
  <1>2. PICK k \in T : \A j \in T : k <= j
    <2>1. T \in SUBSET Nat
      OBVIOUS
    <2> QED BY <1>1, <2>1, Least
  <1>3. k \in 0..n /\ k \in 0..m /\ f[k] # g[k]
    BY <1>2
  <1>4. k # 0
    BY <1>3 DEF Adds, After
  <1>5. k - 1 \in 0..n /\ k - 1 \notin T
    BY <1>2, <1>3, <1>4
  <1>6. f[k - 1] = g[k - 1] /\ s[k] = t[k] /\ (k # 1 => s[k - 1] = t[k - 1])
    BY <1>3, <1>4, <1>5
  <1> QED
    BY <1>3, <1>4, <1>6 DEF Adds, After

LEMMA TimeOfAdds ==
    ASSUME NEW stops, Len(stops) \in Nat
    PROVE  \E f : Adds(f, Len(stops), stops) /\ TimeOf(stops) = f[Len(stops)]
  <1> DEFINE f == CHOOSE g : Adds(g, Len(stops), stops)
  <1>1. Adds(f, Len(stops), stops)
    BY AddsExists
  <1>2. TimeOf(stops) = f[Len(stops)]
    BY DEF TimeOf, Adds, After
  <1> QED
    BY <1>1, <1>2

LEMMA TimeOfNone == TimeOf(<<>>) = 0
  <1>1. PICK f : Adds(f, Len(<<>>), <<>>) /\ TimeOf(<<>>) = f[Len(<<>>)]
    BY TimeOfAdds
  <1> QED
    BY <1>1 DEF Adds, After

(* The packer's own sum is the time of the day.                            *)
LEMMA TimeOfAppend ==
    ASSUME NEW stops \in Seq(Places), NEW p \in Places
    PROVE  TimeOf(Append(stops, p)) =
              TimeOf(stops) + Visit + (IF stops = <<>> THEN 0 ELSE Travel(stops[Len(stops)], p))
  <1> DEFINE n == Len(stops)
             more == Append(stops, p)
  <1>1. n \in Nat /\ Len(more) = n + 1 /\ more[n + 1] = p /\ \A k \in 1..n : more[k] = stops[k]
    BY LenProperties
  <1>2. PICK f : Adds(f, n, stops) /\ TimeOf(stops) = f[n]
    BY <1>1, TimeOfAdds
  <1>3. PICK g : Adds(g, n + 1, more) /\ TimeOf(more) = g[n + 1]
    <2> HIDE DEF n, more
    <2>1. Len(more) \in Nat
      BY <1>1
    <2>2. \E g : Adds(g, Len(more), more) /\ TimeOf(more) = g[Len(more)]
      BY <2>1, TimeOfAdds
    <2> QED BY <1>1, <2>2
  <1> HIDE DEF n, more
  <1>4. f[n] = g[n]
    <2>1. \A k \in 0..n : f[k] = g[k]
      BY <1>1, <1>2, <1>3, AddsAgree
    <2> QED BY <1>1, <2>1
  <1>5. g[n + 1] = g[n] + Visit + (IF n + 1 = 1 THEN 0 ELSE Travel(more[n], more[n + 1]))
    <2>1. n + 1 \in 0..(n + 1) /\ n + 1 # 0 /\ (n + 1) - 1 = n
      BY <1>1
    <2> QED BY <1>3, <2>1 DEF Adds, After
  <1>6. n + 1 = 1 <=> stops = <<>>
    BY <1>1, EmptySeq DEF n
  <1>7. stops # <<>> => more[n] = stops[n]
    BY <1>1, <1>6
  <1> QED
    BY <1>1, <1>2, <1>3, <1>4, <1>5, <1>6, <1>7 DEF n, more

LEMMA TimeOfStays ==
    ASSUME input' = input, NEW stops PROVE TimeOf(stops)' = TimeOf(stops)
  BY DEF TimeOf, Travel

-----------------------------------------------------------------------------
(* The days, and what does not change them.                                *)

LEMMA DaysAre ==
    ASSUME TypeOK
    PROVE  /\ Len(plan) \in Nat
           /\ Days \in Seq(Day)
           /\ Len(Days) = IF pc = "fill" THEN Len(plan) + 1 ELSE Len(plan)
           /\ \A i \in 1..Len(plan) : Days[i] = plan[i]
           /\ pc = "fill" => Days[Len(plan) + 1] = today
  BY LenProperties DEF TypeOK, Days

LEMMA SameHubs ==
    ASSUME input' = input PROVE \A d : DayHub(d)' = DayHub(d)
  BY DEF DayHub, DaysBefore, NDays, NHubs

LEMMA SameDays ==
    ASSUME DaysInv, input' = input, used' = used, Days' = Days
    PROVE  DaysInv'
  <1>1. UsedIsPlaced'
    BY DEF DaysInv, UsedIsPlaced
  <1>2. EachPlaceOnce'
    BY DEF DaysInv, EachPlaceOnce, Kept
  <1>3. WithinCaps'
    <2>1. \A i : TimeOf(Days[i].stops)' = TimeOf(Days[i].stops)
      BY TimeOfStays
    <2> QED
      BY <2>1 DEF DaysInv, WithinCaps, MaxStops, Budget
  <1>4. AwayOnlyWhenNearIsTaken'
    BY DEF DaysInv, AwayOnlyWhenNearIsTaken, TakenBy, Belongs, Near, Kept
  <1>5. ShortLegs'
    BY DEF DaysInv, ShortLegs
  <1>6. HubOfDay'
    BY SameHubs DEF DaysInv, HubOfDay, Kept
  <1> QED
    BY <1>1, <1>2, <1>3, <1>4, <1>5, <1>6 DEF DaysInv

(* The finished days stay as they are.                                     *)
LEMMA SamePlan ==
    ASSUME TypeOK, TypeOK', NothingLeftThatFits, input' = input, plan' = plan
    PROVE  NothingLeftThatFits'
  <1>1. \A i \in 1..Len(plan) : TakenBy(i)' = TakenBy(i)
    <2> SUFFICES ASSUME NEW i \in 1..Len(plan) PROVE TakenBy(i)' = TakenBy(i)
      OBVIOUS
    <2>1. \A j \in 1..i : j \in 1..Len(plan) /\ Days'[j] = Days[j]
      <3>1. \A j \in 1..Len(plan) : Days[j] = plan[j]
        BY DaysAre
      <3>2. \A j \in 1..Len(plan) : Days'[j] = plan[j]
        BY LenProperties DEF TypeOK, Days
      <3> QED BY <3>1, <3>2, DaysAre
    <2> QED BY <2>1 DEF TakenBy
  <1>2. \A s : TimeOf(s)' = TimeOf(s)
    BY TimeOfStays
  <1>3. /\ Kept' = Kept
        /\ \A d : MaxStops(d)' = MaxStops(d) /\ Budget(d)' = Budget(d)
        /\ \A p, q : Travel(p, q)' = Travel(p, q)
        /\ \A p, h : Belongs(p, h)' = Belongs(p, h)
    BY DEF Kept, MaxStops, Budget, Travel, Belongs, Near
  <1> SUFFICES ASSUME NEW i \in 1..Len(plan), Len(plan[i].stops) < MaxStops(i),
                      NEW p \in Kept \ TakenBy(i),
                      \/ Belongs(p, plan[i].hub)
                      \/ \A q \in Elems(plan[i].stops) : ~Belongs(q, plan[i].hub)
               PROVE  /\ plan[i].stops # <<>>
                      /\ TimeOf(plan[i].stops) + Travel(plan[i].stops[Len(plan[i].stops)], p) + Visit > Budget(i)
    BY <1>1, <1>2, <1>3 DEF NothingLeftThatFits
  <1> QED
    BY DEF NothingLeftThatFits

LEMMA TakenIsUsed ==
    ASSUME TypeOK, UsedIsPlaced
    PROVE  TakenBy(Len(Days)) = used
  <1>1. \A i \in 1..Len(Days) : Elems(Days[i].stops) \subseteq Places
    <2>1. \A i \in 1..Len(Days) : Days[i] \in Day
      BY DaysAre, ElementOfSeq
    <2>2. \A i \in 1..Len(Days) : Days[i].stops \in Seq(Places)
      BY <2>1 DEF Day
    <2> QED BY <2>2, ElementOfSeq DEF Elems
  <1> QED
    BY <1>1 DEF TakenBy, UsedIsPlaced

-----------------------------------------------------------------------------
(* The beginning and the steps.                                            *)

LEMMA InitInv == Init => IInv
  <1> SUFFICES ASSUME Init PROVE IInv
    OBVIOUS
  <1> USE DEF Init
  <1>1. input \in Input
    BY ConstantsAssumption
  <1>2. Days = <<>> /\ Len(Days) = 0
    BY DEF Days
  <1>3. TypeOK
    BY <1>1, EmptySeq DEF TypeOK, Day, Blank
  <1>4. DayInHand
    BY <1>1, NDaysType DEF DayInHand, DayNumbers
  <1>5. DaysInv
    BY <1>2 DEF DaysInv, UsedIsPlaced, EachPlaceOnce, WithinCaps, AwayOnlyWhenNearIsTaken, ShortLegs, HubOfDay
  <1> QED
    BY <1>3, <1>4, <1>5
    DEF IInv, PoolIsLeft, NearOrTaken, SkippedDoNotFit, NothingLeftThatFits, PackedPlanIsValid

LEMMA EmptyDaysStep ==
    ASSUME IInv, EmptyDays PROVE IInv'
  <1> USE DEF EmptyDays
  <1>1. NDays \in Nat /\ NDays' = NDays
    BY NDaysType, ConstantsAssumption DEF IInv, TypeOK, DayNumbers, NDays
  <1>2. Blank \in Day /\ Blank.stops = <<>> /\ Len(Blank.stops) = 0
    BY EmptySeq DEF Blank, Day
  <1>3. plan' \in Seq(Day) /\ Len(plan') = NDays
    BY <1>1, <1>2, SeqDef
  <1>4. TypeOK'
    BY <1>3 DEF IInv, TypeOK
  <1>5. /\ Len(Days') = NDays
        /\ \A i \in 1..NDays : Days'[i] = Blank
    BY <1>1, <1>3 DEF Days
  <1>6. Kept' = {} /\ used = {} /\ used' = {}
    <2>1. \A i \in 1..Len(Days) : Elems(Days[i].stops) = {}
      BY DEF IInv, DaysInv, EachPlaceOnce
    <2> QED BY <2>1 DEF IInv, DaysInv, UsedIsPlaced, Kept
  <1>7. DaysInv'
    <2>1. UsedIsPlaced'
      BY <1>2, <1>5, <1>6 DEF UsedIsPlaced, Elems
    <2>2. EachPlaceOnce'
      BY <1>2, <1>5 DEF EachPlaceOnce, Elems
    <2>3. WithinCaps'
      <3>1. \A d \in 1..NDays : MaxStops(d)' \in Int
        <4> TAKE d \in 1..NDays
        <4>1. d \in DayNumbers
          BY NDaysType, ConstantsAssumption DEF IInv, TypeOK, DayNumbers
        <4> QED BY <4>1, BudgetIsLow DEF IInv, TypeOK, MaxStops
      <3> QED BY <1>2, <1>5, <3>1 DEF WithinCaps, Greater
    <2>4. AwayOnlyWhenNearIsTaken'
      BY <1>2, <1>5 DEF AwayOnlyWhenNearIsTaken, Elems
    <2>5. ShortLegs'
      <3>1. \A i \in 1..NDays : 2..Len(Days'[i].stops) = {}
        BY <1>2, <1>5
      <3> QED BY <1>5, <3>1 DEF ShortLegs
    <2> QED
      BY <1>6, <2>1, <2>2, <2>3, <2>4, <2>5 DEF DaysInv, HubOfDay
  <1>8. NothingLeftThatFits'
    BY <1>6 DEF NothingLeftThatFits
  <1> QED
    BY <1>1, <1>3, <1>4, <1>7, <1>8
    DEF IInv, DayInHand, PoolIsLeft, NearOrTaken, SkippedDoNotFit, PackedPlanIsValid

LEMMA OpenDayStep ==
    ASSUME IInv, OpenDay PROVE IInv'
  <1> USE DEF OpenDay
  <1> DEFINE n == Len(plan)
             hub == DayHub(n + 1)
             close == {p \in Kept \ used : Belongs(p, hub)}
  <1>1. /\ today' = [hub |-> hub, stops |-> <<>>]
        /\ pool' = IF close = {} THEN Kept \ used ELSE close
    OBVIOUS
  <1>2. n \in Nat /\ n + 1 \in 1..NDays /\ NDays \in DayNumbers
    BY NDaysType, LenProperties, ConstantsAssumption DEF IInv, DayInHand, TypeOK, DayNumbers
  <1>3. hub \in Hubs \cup {NoHub}
    BY <1>2, HubType DEF IInv, TypeOK
  <1>4. close \subseteq Places /\ Kept \subseteq Places
    BY DEF IInv, TypeOK, Kept, Input
  <1> HIDE DEF hub, close
  <1>5. today' \in Day /\ today'.stops = <<>> /\ Len(today'.stops) = 0 /\ today'.hub = hub
    BY <1>1, <1>3, EmptySeq DEF Day
  <1>6. TypeOK'
    BY <1>1, <1>4, <1>5 DEF IInv, TypeOK
  <1>7. /\ Days = plan
        /\ Days' = Append(plan, today')
        /\ Len(Days') = n + 1
        /\ \A i \in 1..n : Days'[i] = plan[i]
        /\ Days'[n + 1] = today'
    BY <1>5, LenProperties DEF Days, IInv, TypeOK
  <1>8. /\ Kept' = Kept /\ NDays' = NDays
        /\ \A d : MaxStops(d)' = MaxStops(d) /\ Budget(d)' = Budget(d)
        /\ \A p, h : Belongs(p, h)' = Belongs(p, h)
    BY DEF Kept, NDays, MaxStops, Budget, Belongs, Near
  <1>9. \A i \in 0..n : TakenBy(i)' = TakenBy(i)
    BY <1>2, <1>7 DEF TakenBy
  <1>10. DaysInv'
    <2>1. UsedIsPlaced'
      BY <1>2, <1>5, <1>7 DEF IInv, DaysInv, UsedIsPlaced, Elems
    <2>2. EachPlaceOnce'
      BY <1>2, <1>5, <1>7, <1>8 DEF IInv, DaysInv, EachPlaceOnce, Elems
    <2>3. WithinCaps'
      <3>1. \A s : TimeOf(s)' = TimeOf(s)
        BY TimeOfStays
      <3>2. MaxStops(n + 1) \in Int
        BY <1>2, BudgetIsLow, ConstantsAssumption DEF IInv, TypeOK, DayNumbers
      <3>3. Len(today'.stops) <= Greater(0, MaxStops(n + 1))
        BY <1>5, <3>2 DEF Greater
      <3>4. ASSUME NEW i \in 1..(n + 1)
            PROVE  /\ Len(Days'[i].stops) <= Greater(0, MaxStops(i))
                   /\ Len(Days'[i].stops) > 1 => TimeOf(Days'[i].stops) <= Budget(i)
        <4>1. CASE i \in 1..n
          BY <4>1, <1>7 DEF IInv, DaysInv, WithinCaps
        <4>2. CASE i = n + 1
          BY <4>2, <1>5, <1>7, <3>3
        <4> QED BY <4>1, <4>2, <1>2
      <3> QED
        BY <1>7, <1>8, <3>1, <3>4 DEF WithinCaps, Greater
    <2>4. AwayOnlyWhenNearIsTaken'
      <3> SUFFICES ASSUME NEW i \in 1..(n + 1), NEW p \in Elems(Days'[i].stops),
                          ~Belongs(p, Days'[i].hub)
                   PROVE  {q \in Kept : Belongs(q, Days'[i].hub)} \subseteq TakenBy(i - 1)'
        BY <1>7, <1>8 DEF AwayOnlyWhenNearIsTaken
      <3>1. CASE i \in 1..n
        <4>1. i - 1 \in 0..n /\ Days'[i] = Days[i]
          BY <3>1, <1>2, <1>7
        <4>2. {q \in Kept : Belongs(q, Days[i].hub)} \subseteq TakenBy(i - 1)
          BY <3>1, <4>1, <1>7 DEF IInv, DaysInv, AwayOnlyWhenNearIsTaken
        <4> QED BY <4>1, <4>2, <1>9
      <3>2. CASE i = n + 1
        BY <3>2, <1>5, <1>7 DEF Elems
      <3> QED BY <3>1, <3>2, <1>2
    <2>5. ShortLegs'
      <3>1. \A i \in 1..(n + 1) : (i \in 1..n /\ Days'[i] = Days[i]) \/ 2..Len(Days'[i].stops) = {}
        BY <1>2, <1>5, <1>7
      <3>2. \A i \in 1..n : \A k \in 2..Len(Days[i].stops) :
               Walk[<<input.at[Days[i].stops[k - 1]], input.at[Days[i].stops[k]]>>] <= DefaultMinutes
        BY <1>7 DEF IInv, DaysInv, ShortLegs
      <3>3. ASSUME NEW i \in 1..(n + 1), NEW k \in 2..Len(Days'[i].stops)
            PROVE  Walk[<<input.at[Days'[i].stops[k - 1]], input.at[Days'[i].stops[k]]>>] <= DefaultMinutes
        <4>1. i \in 1..n /\ Days'[i] = Days[i]
          BY <3>1, <3>3
        <4> QED BY <3>2, <3>3, <4>1
      <3>4. input' = input /\ 1..Len(Days') = 1..(n + 1)
        BY <1>7
      <3> HIDE DEF OpenDay
      <3> QED
        BY <3>3, <3>4 DEF ShortLegs
    <2>6. HubOfDay'
      <3>1. \A i \in 1..(n + 1) : Days'[i].hub = DayHub(i)
        BY <1>2, <1>5, <1>7 DEF IInv, DaysInv, HubOfDay, hub
      <3> QED BY <1>7, <3>1, SameHubs DEF HubOfDay
    <2> QED
      BY <2>1, <2>2, <2>3, <2>4, <2>5, <2>6 DEF DaysInv
  <1>11. PoolIsLeft'
    <2>1. TimeOf(<<>>)' = 0
      BY TimeOfNone, TimeOfStays
    <2>2. pool' \subseteq Kept \ used
      BY <1>1 DEF close
    <2>3. pool' # {} \/ Kept \subseteq used
      BY <1>1
    <2> QED
      BY <1>5, <1>8, <2>1, <2>2, <2>3 DEF PoolIsLeft
  <1>12. NearTaken' <=> close = {}
    <2>1. TakenBy(n) = used
      BY TakenIsUsed DEF IInv, DaysInv, Days
    <2>2. NearTaken' <=> {q \in Kept : Belongs(q, hub)} \subseteq used
      BY <1>2, <1>5, <1>8, <1>9, <2>1 DEF NearTaken
    <2> QED
      BY <2>2 DEF close
  <1>13. NearOrTaken'
    BY <1>1, <1>5, <1>8, <1>12 DEF NearOrTaken, close
  <1>14. SkippedDoNotFit'
    BY <1>1, <1>5, <1>8, <1>12 DEF SkippedDoNotFit, close
  <1>15. NothingLeftThatFits'
    BY <1>6, SamePlan DEF IInv
  <1> QED
    BY <1>2, <1>6, <1>8, <1>10, <1>11, <1>13, <1>14, <1>15
    DEF IInv, DayInHand, PackedPlanIsValid

(* Nothing changes but what the loop has before it, or which days are      *)
(* finished.                                                               *)
LEMMA SkipPlaceStep ==
    ASSUME IInv, NEW p \in Places, SkipPlace(p) PROVE IInv'
  <1> USE DEF SkipPlace
  <1>1. TypeOK'
    BY DEF IInv, TypeOK
  <1>2. Days' = Days /\ Kept' = Kept /\ NDays' = NDays
    BY DEF Days, Kept, NDays
  <1>3. DaysInv'
    BY <1>2, SameDays DEF IInv
  <1>4. /\ \A d : Budget(d)' = Budget(d)
        /\ \A q, r : Travel(q, r)' = Travel(q, r)
        /\ \A q, h : Belongs(q, h)' = Belongs(q, h)
        /\ \A i : TakenBy(i)' = TakenBy(i)
        /\ \A s : TimeOf(s)' = TimeOf(s)
    BY <1>2, TimeOfStays DEF Budget, Travel, Belongs, Near, TakenBy
  <1>5. today.stops # <<>> /\ spent + Travel(today.stops[Len(today.stops)], p) + Visit > Budget(Len(plan) + 1)
    <2>1. today.stops # <<>> /\ ~(spent + Transfer(p) + Visit <= Budget(Len(plan) + 1))
      BY DEF Fits
    <2>2. Transfer(p) = Travel(today.stops[Len(today.stops)], p)
      BY <2>1 DEF Transfer
    <2>3. Transfer(p) \in Nat /\ Budget(Len(plan) + 1) \in Int
      BY TransferType, InDays, BudgetIsLow DEF IInv, TypeOK
    <2> QED BY <2>1, <2>2, <2>3 DEF IInv, TypeOK, Visit
  <1>6. PoolIsLeft'
    BY <1>2, <1>4, <1>5 DEF IInv, PoolIsLeft
  <1>7. NearTaken' = NearTaken
    BY <1>2, <1>4 DEF NearTaken
  <1>8. NearOrTaken'
    BY <1>4, <1>7 DEF IInv, NearOrTaken
  <1>9. SkippedDoNotFit'
    BY <1>2, <1>4, <1>5, <1>7 DEF IInv, SkippedDoNotFit
  <1>10. NothingLeftThatFits'
    BY <1>1, SamePlan DEF IInv
  <1> QED
    BY <1>1, <1>2, <1>3, <1>6, <1>8, <1>9, <1>10 DEF IInv, DayInHand, PackedPlanIsValid

LEMMA CloseDayStep ==
    ASSUME IInv, CloseDay PROVE IInv'
  <1> USE DEF CloseDay
  <1> DEFINE n == Len(plan)
  <1>1. n \in Nat /\ n + 1 \in 1..NDays /\ NDays \in DayNumbers
    BY NDaysType, LenProperties, ConstantsAssumption DEF IInv, DayInHand, TypeOK, DayNumbers
  <1>2. TypeOK'
    BY DEF IInv, TypeOK
  <1>3. /\ Days' = Days /\ Days = plan' /\ Len(plan') = n + 1
        /\ plan'[n + 1] = today /\ \A i \in 1..n : plan'[i] = plan[i]
    BY LenProperties DEF Days, IInv, TypeOK
  <1>4. DaysInv'
    BY <1>3, SameDays DEF IInv
  <1>5. /\ Kept' = Kept /\ NDays' = NDays
        /\ \A d : MaxStops(d)' = MaxStops(d) /\ Budget(d)' = Budget(d)
        /\ \A q, r : Travel(q, r)' = Travel(q, r)
        /\ \A q, h : Belongs(q, h)' = Belongs(q, h)
        /\ \A i : TakenBy(i)' = TakenBy(i)
        /\ \A s : TimeOf(s)' = TimeOf(s)
    BY <1>3, TimeOfStays DEF Kept, NDays, MaxStops, Budget, Travel, Belongs, Near, TakenBy
  <1>6. TakenBy(n + 1) = used
    BY <1>3, TakenIsUsed DEF IInv, DaysInv
  <1>7. NothingLeftThatFits'
    <2> SUFFICES ASSUME NEW i \in 1..(n + 1), Len(plan'[i].stops) < MaxStops(i),
                        NEW p \in Kept \ TakenBy(i),
                        \/ Belongs(p, plan'[i].hub)
                        \/ \A q \in Elems(plan'[i].stops) : ~Belongs(q, plan'[i].hub)
                 PROVE  /\ plan'[i].stops # <<>>
                        /\ TimeOf(plan'[i].stops) + Travel(plan'[i].stops[Len(plan'[i].stops)], p) + Visit > Budget(i)
      BY <1>3, <1>5 DEF NothingLeftThatFits
    <2>1. CASE i \in 1..n
      BY <2>1, <1>3 DEF IInv, NothingLeftThatFits
    <2>2. CASE i = n + 1
      <3>1. plan'[i] = today /\ p \in Kept \ used
        BY <2>2, <1>3, <1>6
      <3>2. pool = {}
        <4>1. Len(today.stops) \in Nat /\ MaxStops(n + 1) \in Int
          BY <1>1, InDays, BudgetIsLow, LenProperties DEF IInv, TypeOK, Day
        <4> QED BY <2>2, <3>1, <4>1 DEF Full
      <3>3. today.stops # <<>> /\ spent = TimeOf(today.stops)
        BY <3>1, <3>2 DEF IInv, PoolIsLeft
      <3>4. Belongs(p, today.hub) \/ NearTaken
        <4>1. SUFFICES ASSUME \A q \in Elems(today.stops) : ~Belongs(q, today.hub)
                       PROVE  NearTaken
          BY <3>1
        <4>2. Len(today.stops) \in Nat \ {0}
          BY <3>3, EmptySeq DEF IInv, TypeOK, Day
        <4>3. today.stops[1] \in Elems(Days[n + 1].stops) /\ n + 1 \in 1..Len(Days)
          BY <4>2, <1>1, <1>3 DEF Elems
        <4>4. ~Belongs(today.stops[1], Days[n + 1].hub)
          BY <4>1, <4>3, <1>3
        <4>5. {q \in Kept : Belongs(q, Days[n + 1].hub)} \subseteq TakenBy((n + 1) - 1)
          BY <4>3, <4>4 DEF IInv, DaysInv, AwayOnlyWhenNearIsTaken
        <4>6. (n + 1) - 1 = n /\ Days[n + 1] = today
          BY <1>1, <1>3
        <4> QED BY <4>5, <4>6 DEF NearTaken
      <3> QED
        BY <2>2, <3>1, <3>2, <3>3, <3>4 DEF IInv, SkippedDoNotFit
    <2> QED BY <2>1, <2>2, <1>1
  <1> QED
    BY <1>1, <1>2, <1>3, <1>4, <1>5, <1>7
    DEF IInv, DayInHand, PoolIsLeft, NearOrTaken, SkippedDoNotFit, PackedPlanIsValid

(* A place is added to the day in hand.                                    *)
LEMMA AddStopStep ==
    ASSUME IInv, NEW p \in Places, AddStop(p) PROVE IInv'
  <1> DEFINE n == Len(plan)
             old == today.stops
             new == Append(old, p)
             last == old[Len(old)]
  <1>1. /\ pc = "fill" /\ pc' = "fill" /\ ~Full /\ p \in pool /\ Fits(p)
        /\ today' = [today EXCEPT !.stops = new]
        /\ used' = used \cup {p} /\ pool' = pool \ {p}
        /\ spent' = spent + Transfer(p) + Visit
        /\ input' = input /\ plan' = plan /\ errors' = errors
    BY DEF AddStop, First
  <1>2. /\ n \in Nat /\ n + 1 \in 1..NDays /\ n + 1 \in DayNumbers
        /\ MaxStops(n + 1) \in Int /\ Budget(n + 1) \in Int /\ Budget(n + 1) <= DefaultMinutes
    BY <1>1, InDays, BudgetIsLow DEF IInv, TypeOK
  <1>3. /\ old \in Seq(Places) /\ Len(old) \in Nat /\ today \in Day
        /\ old # <<>> => Len(old) \in 1..Len(old) /\ last \in Places
    <2>1. old \in Seq(Places) /\ today \in Day
      BY DEF IInv, TypeOK, Day
    <2>2. Len(old) \in Nat /\ (old # <<>> => Len(old) \in 1..Len(old))
      BY <2>1, EmptySeq, LenProperties
    <2> QED BY <2>1, <2>2, ElementOfSeq
  <1>4. /\ new \in Seq(Places) /\ new # <<>> /\ Len(new) = Len(old) + 1
        /\ \A k \in 1..Len(old) : new[k] = old[k]
        /\ new[Len(old) + 1] = p
    BY <1>3
  <1>5. today' \in Day /\ today'.stops = new /\ today'.hub = today.hub
    BY <1>1, <1>3, <1>4 DEF Day
  <1>6. Transfer(p) \in Nat /\ spent \in Nat /\ (old # <<>> => Transfer(p) = Travel(last, p))
    BY TransferType DEF IInv, TypeOK, Transfer
  <1>7. spent = TimeOf(old) /\ p \in Kept /\ p \notin used /\ pool \subseteq Kept \ used
    BY <1>1 DEF IInv, PoolIsLeft
  <1>8. /\ Len(Days) = n + 1 /\ Len(Days') = n + 1
        /\ \A i \in 1..n : Days'[i] = Days[i]
        /\ Days[n + 1] = today /\ Days'[n + 1] = today'
    BY <1>1, <1>5, LenProperties DEF Days, IInv, TypeOK
  <1>9. /\ Kept' = Kept /\ NDays' = NDays
        /\ \A d : MaxStops(d)' = MaxStops(d) /\ Budget(d)' = Budget(d)
        /\ \A q, r : Travel(q, r)' = Travel(q, r)
        /\ \A q, h : Belongs(q, h)' = Belongs(q, h)
        /\ \A s : TimeOf(s)' = TimeOf(s)
    BY <1>1, TimeOfStays DEF Kept, NDays, MaxStops, Budget, Travel, Belongs, Near
  <1>10. \A i \in 0..n : TakenBy(i)' = TakenBy(i)
    BY <1>2, <1>8 DEF TakenBy
  <1>11. Elems(new) = Elems(old) \cup {p}
    BY <1>3, <1>4 DEF Elems
  <1>12. TimeOf(new) = spent + Visit + Transfer(p)
    BY <1>3, <1>6, <1>7, TimeOfAppend DEF Transfer, Visit
  <1>13. old # <<>> => spent + Transfer(p) + Visit <= Budget(n + 1)
    BY <1>1 DEF Fits
  <1> HIDE DEF new, last
  <1>14. TypeOK'
    BY <1>1, <1>5, <1>6 DEF IInv, TypeOK, Visit
  <1>15. UsedIsPlaced'
    <2>1. \A i \in 1..(n + 1) : Elems(Days'[i].stops) =
                                  Elems(Days[i].stops) \cup (IF i = n + 1 THEN {p} ELSE {})
      BY <1>2, <1>5, <1>8, <1>11
    <2>2. n + 1 \in 1..(n + 1)
      BY <1>2
    <2>3. used = {q \in Places : \E i \in 1..(n + 1) : q \in Elems(Days[i].stops)}
      BY <1>8 DEF IInv, DaysInv, UsedIsPlaced
    <2>4. used' = {q \in Places : \E i \in 1..(n + 1) : q \in Elems(Days'[i].stops)}
      BY <2>1, <2>2, <2>3, <1>1
    <2> QED BY <2>4, <1>8 DEF UsedIsPlaced
  <1>16. EachPlaceOnce'
    <2>1. \A i \in 1..(n + 1) : Elems(Days'[i].stops) \subseteq Kept
      BY <1>2, <1>5, <1>7, <1>8, <1>11 DEF IInv, DaysInv, EachPlaceOnce
    <2>2. ASSUME NEW i \in 1..(n + 1), NEW j \in 1..(n + 1),
                 NEW k \in 1..Len(Days'[i].stops), NEW l \in 1..Len(Days'[j].stops),
                 Days'[i].stops[k] = Days'[j].stops[l]
          PROVE  i = j /\ k = l
      <3>1. \A h \in 1..(n + 1) : \A m \in 1..Len(Days'[h].stops) :
               \/ m \in 1..Len(Days[h].stops) /\ Days'[h].stops[m] = Days[h].stops[m]
                                              /\ Days[h].stops[m] # p
               \/ h = n + 1 /\ m = Len(old) + 1 /\ Days'[h].stops[m] = p
        <4> TAKE h \in 1..(n + 1)
        <4> TAKE m \in 1..Len(Days'[h].stops)
        <4>1. \A o \in 1..Len(Days[h].stops) : Days[h].stops[o] # p
          BY <1>7, <1>8 DEF IInv, DaysInv, UsedIsPlaced, Elems
        <4>2. CASE h \in 1..n
          BY <4>1, <4>2, <1>8
        <4>3. CASE h = n + 1
          BY <4>1, <4>3, <1>3, <1>4, <1>5, <1>8
        <4> QED BY <4>2, <4>3, <1>2
      <3>2. ASSUME k \in 1..Len(Days[i].stops), l \in 1..Len(Days[j].stops),
                   Days[i].stops[k] = Days[j].stops[l]
            PROVE  i = j /\ k = l
        BY <3>2, <1>8 DEF IInv, DaysInv, EachPlaceOnce
      <3>3. CASE Days'[i].stops[k] = p
        BY <2>2, <3>1, <3>3
      <3>4. CASE Days'[i].stops[k] # p
        BY <2>2, <3>1, <3>2, <3>4
      <3> QED BY <3>3, <3>4
    <2> QED
      BY <2>1, <2>2, <1>8, <1>9 DEF EachPlaceOnce
  <1>17. WithinCaps'
    <2>1. ASSUME NEW i \in 1..(n + 1)
          PROVE  /\ Len(Days'[i].stops) <= Greater(0, MaxStops(i))
                 /\ Len(Days'[i].stops) > 1 => TimeOf(Days'[i].stops) <= Budget(i)
      <3>1. CASE i \in 1..n
        BY <3>1, <1>2, <1>8 DEF IInv, DaysInv, WithinCaps
      <3>2. CASE i = n + 1
        <4>1. Len(new) <= Greater(0, MaxStops(n + 1))
          BY <1>1, <1>2, <1>3, <1>4 DEF Full, Greater
        <4>2. ASSUME Len(new) > 1 PROVE TimeOf(new) <= Budget(n + 1)
          <5>1. old # <<>>
            BY <4>2, <1>4
          <5> QED BY <5>1, <1>2, <1>6, <1>12, <1>13 DEF Visit
        <4> QED BY <3>2, <4>1, <4>2, <1>5, <1>8
      <3> QED BY <3>1, <3>2, <1>2
    <2> QED
      BY <2>1, <1>8, <1>9 DEF WithinCaps, Greater
  <1>18. NearTaken' = NearTaken
    BY <1>1, <1>2, <1>5, <1>9, <1>10 DEF NearTaken
  <1>19. AwayOnlyWhenNearIsTaken'
    <2> SUFFICES ASSUME NEW i \in 1..(n + 1), NEW q \in Elems(Days'[i].stops),
                        ~Belongs(q, Days'[i].hub)
                 PROVE  {r \in Kept : Belongs(r, Days'[i].hub)} \subseteq TakenBy(i - 1)'
      BY <1>8, <1>9 DEF AwayOnlyWhenNearIsTaken
    <2>1. i - 1 \in 0..n /\ TakenBy(i - 1)' = TakenBy(i - 1) /\ Days'[i].hub = Days[i].hub
      BY <1>2, <1>5, <1>8, <1>10
    <2>2. CASE q \in Elems(Days[i].stops)
      BY <2>1, <2>2, <1>8 DEF IInv, DaysInv, AwayOnlyWhenNearIsTaken
    <2>3. CASE q \notin Elems(Days[i].stops)
      <3>1. i = n + 1 /\ q = p
        BY <2>3, <1>2, <1>5, <1>8, <1>11
      <3>2. NearTaken
        BY <3>1, <1>1, <1>5, <1>8 DEF IInv, NearOrTaken
      <3>3. i - 1 = n /\ Days[i].hub = today.hub
        BY <3>1, <1>2, <1>8
      <3> QED
        BY <2>1, <3>2, <3>3 DEF NearTaken
    <2> QED BY <2>2, <2>3
  <1>20. ShortLegs'
    <2>1. ASSUME NEW i \in 1..(n + 1), NEW k \in 2..Len(Days'[i].stops)
          PROVE  Walk[<<input.at[Days'[i].stops[k - 1]], input.at[Days'[i].stops[k]]>>] <= DefaultMinutes
      <3>1. CASE i \in 1..n
        BY <2>1, <3>1, <1>8 DEF IInv, DaysInv, ShortLegs
      <3>2. CASE i = n + 1 /\ k \in 2..Len(old)
        <4>1. k - 1 \in 1..Len(old) /\ k \in 1..Len(old)
          BY <3>2, <1>3
        <4>2. Days'[i].stops[k - 1] = Days[i].stops[k - 1] /\ Days'[i].stops[k] = Days[i].stops[k]
          BY <3>2, <4>1, <1>4, <1>5, <1>8
        <4> QED
          BY <3>2, <4>2, <1>2, <1>8 DEF IInv, DaysInv, ShortLegs
      <3>3. CASE i = n + 1 /\ k = Len(old) + 1
        <4>1. k - 1 = Len(old) /\ Len(old) >= 1 /\ old # <<>>
          BY <2>1, <3>3, <1>3, EmptySeq
        <4>2. Days'[i].stops[k - 1] = last /\ Days'[i].stops[k] = p
          BY <3>3, <4>1, <1>3, <1>4, <1>5, <1>8 DEF last
        <4>3. Travel(last, p) + Visit <= DefaultMinutes
          BY <4>1, <1>2, <1>6, <1>13 DEF Visit, DefaultMinutes
        <4>4. last # p
          <5>1. last \in Elems(Days[n + 1].stops) /\ n + 1 \in 1..Len(Days) /\ last \in Places
            BY <4>1, <1>2, <1>3, <1>8 DEF Elems, last
          <5> QED BY <5>1, <1>7 DEF IInv, DaysInv, UsedIsPlaced
        <4>5. Walk[<<input.at[last], input.at[p]>>] \in Nat
          BY <4>1, <1>3, WalkType DEF IInv, TypeOK
        <4> QED
          BY <4>2, <4>3, <4>4, <4>5 DEF Travel, Overhead, Visit, DefaultMinutes
      <3> QED
        BY <2>1, <3>1, <3>2, <3>3, <1>2, <1>3, <1>4, <1>5, <1>8
    <2>2. input' = input /\ 1..Len(Days') = 1..(n + 1)
      BY <1>1, <1>8
    <2> QED
      BY <2>1, <2>2 DEF ShortLegs
  <1>21. PoolIsLeft'
    BY <1>1, <1>4, <1>5, <1>6, <1>7, <1>9, <1>12 DEF PoolIsLeft, Visit
  <1>22. NearOrTaken'
    BY <1>1, <1>5, <1>9, <1>18 DEF IInv, NearOrTaken
  <1>23. SkippedDoNotFit'
    <2> SUFFICES ASSUME NEW q \in Kept, q \notin used, q # p, q \notin pool,
                        Belongs(q, today.hub) \/ NearTaken
                 PROVE  spent' + Travel(p, q) + Visit > Budget(n + 1)
      BY <1>1, <1>4, <1>5, <1>9, <1>18 DEF SkippedDoNotFit
    <2>1. old # <<>> /\ spent + Travel(last, q) + Visit > Budget(n + 1)
      BY <1>1 DEF IInv, SkippedDoNotFit, last
    <2>2. q \in Places /\ last \in Places
      BY <2>1, <1>3 DEF IInv, TypeOK, Kept, Input
    <2>3. last # p /\ last # q
      <3>1. last \in Elems(Days[n + 1].stops) /\ n + 1 \in 1..Len(Days)
        BY <2>1, <1>2, <1>3, <1>8 DEF Elems, last
      <3> QED BY <2>2, <3>1, <1>7 DEF IInv, DaysInv, UsedIsPlaced
    <2>4. /\ Walk[<<input.at[last], input.at[q]>>] \in Nat
          /\ Walk[<<input.at[last], input.at[p]>>] \in Nat
          /\ Walk[<<input.at[p], input.at[q]>>] \in Nat
      BY <2>2, WalkType DEF IInv, TypeOK
    <2>5. Walk[<<input.at[last], input.at[q]>>]
             <= Walk[<<input.at[last], input.at[p]>>] + Walk[<<input.at[p], input.at[q]>>]
      <3>1. input.at[last] \in Spots /\ input.at[p] \in Spots /\ input.at[q] \in Spots
        BY <2>2, WalkType DEF IInv, TypeOK
      <3> QED BY <3>1, MetricAssumption
    <2>6. /\ Travel(last, q) = Walk[<<input.at[last], input.at[q]>>] + 5
          /\ Travel(last, p) = Walk[<<input.at[last], input.at[p]>>] + 5
          /\ Travel(p, q) = Walk[<<input.at[p], input.at[q]>>] + 5
      BY <2>3 DEF Travel, Overhead
    <2>7. spent' = spent + Travel(last, p) + 45 /\ Visit = 45
      BY <2>1, <1>1, <1>6 DEF Visit
    <2>8. /\ Travel(last, q) \in Nat /\ Travel(last, p) \in Nat /\ Travel(p, q) \in Nat
          /\ Travel(last, q) <= Travel(last, p) + Travel(p, q)
      BY <2>4, <2>5, <2>6
    <2>9. spent \in Nat /\ Budget(n + 1) \in Int
      BY <1>2, <1>6
    <2> QED
      BY <2>1, <2>7, <2>8, <2>9
  <1>24. NothingLeftThatFits'
    BY <1>1, <1>14, SamePlan DEF IInv
  <1>25. HubOfDay'
    <2>1. \A i \in 1..(n + 1) : Days'[i].hub = Days[i].hub
      BY <1>2, <1>5, <1>8
    <2>2. Kept # {} => \A i \in 1..(n + 1) : Days[i].hub = DayHub(i)
      BY <1>8 DEF IInv, DaysInv, HubOfDay
    <2> QED BY <2>1, <2>2, <1>1, <1>8, <1>9, SameHubs DEF HubOfDay
  <1> QED
    BY <1>1, <1>9, <1>14, <1>15, <1>16, <1>17, <1>19, <1>20, <1>21, <1>22, <1>23, <1>24, <1>25
    DEF IInv, DaysInv, DayInHand, PackedPlanIsValid

(* The plan is complete, or complete and looked at.                        *)
LEMMA EndPackStep ==
    ASSUME IInv, EndPack PROVE IInv'
  <1> USE DEF EndPack
  <1>1. TypeOK'
    BY DEF IInv, TypeOK
  <1>2. Days' = Days /\ NDays' = NDays
    BY DEF Days, NDays
  <1>3. DaysInv'
    BY <1>2, SameDays DEF IInv
  <1>4. NothingLeftThatFits'
    BY <1>1, SamePlan DEF IInv
  <1> QED
    BY <1>1, <1>2, <1>3, <1>4
    DEF IInv, DayInHand, PoolIsLeft, NearOrTaken, SkippedDoNotFit, PackedPlanIsValid

LEMMA ValidateStep ==
    ASSUME IInv, Validate PROVE IInv'
  <1> USE DEF Validate
  <1>1. TypeOK'
    BY DEF IInv, TypeOK
  <1>2. Days = plan /\ Days' = Days /\ NDays' = NDays
    BY DEF Days, NDays
  <1>3. DaysInv'
    BY <1>2, SameDays DEF IInv
  <1>4. NothingLeftThatFits'
    BY <1>1, SamePlan DEF IInv
  <1>5. ~TooManyDays
    <2>1. NDays = Len(plan) /\ input \in Input
      BY DEF IInv, DayInHand, TypeOK
    <2>2. ASSUME NEW d \in DayNumbers, d = Given(input.wanted, input.scoped) PROVE NDays = d
      BY <2>1, <2>2, ConstantsAssumption, NoneAssumption DEF NDays, Given, Greater, DayNumbers, Input
    <2>3. Given(input.wanted, input.scoped) \in DayNumbers \cup {None}
      BY <2>1 DEF Given, Input
    <2>4. NDays \in Int
      BY <2>1, NDaysType DEF DayNumbers
    <2> QED
      BY <2>1, <2>2, <2>3, <2>4 DEF TooManyDays
  <1>6. ~Twice /\ ~Stray
    BY <1>2 DEF IInv, DaysInv, EachPlaceOnce, Twice, Stray, Kept
  <1>7. ~TooFar
    <2> SUFFICES ASSUME NEW i \in 1..Len(plan), NEW k \in 2..Len(plan[i].stops)
                 PROVE  <<input.at[plan[i].stops[k - 1]], input.at[plan[i].stops[k]]>> \notin Far
      BY DEF TooFar
    <2>1. plan[i].stops \in Seq(Places) /\ input.at \in [Places -> Spots]
      <3>1. plan[i] \in Day /\ input \in Input
        BY ElementOfSeq DEF IInv, TypeOK
      <3> QED BY <3>1 DEF Day, Input
    <2>2. k \in 1..Len(plan[i].stops) /\ k - 1 \in 1..Len(plan[i].stops)
      BY <2>1, LenProperties
    <2>3. input.at[plan[i].stops[k - 1]] \in Spots /\ input.at[plan[i].stops[k]] \in Spots
      BY <2>1, <2>2, ElementOfSeq
    <2>4. Walk[<<input.at[plan[i].stops[k - 1]], input.at[plan[i].stops[k]]>>] <= DefaultMinutes
      BY <1>2 DEF IInv, DaysInv, ShortLegs
    <2>5. Walk[<<input.at[plan[i].stops[k - 1]], input.at[plan[i].stops[k]]>>] \in Nat
      BY <2>3, ConstantsAssumption
    <2> QED
      BY <2>3, <2>4, <2>5, MetricAssumption DEF DefaultMinutes
  <1>8. errors' = {}
    BY <1>5, <1>6, <1>7
  <1> QED
    BY <1>1, <1>2, <1>3, <1>4, <1>8
    DEF IInv, DayInHand, PoolIsLeft, NearOrTaken, SkippedDoNotFit, PackedPlanIsValid

LEMMA NextInv == IInv /\ [Next]_vars => IInv'
  <1> SUFFICES ASSUME IInv, [Next]_vars PROVE IInv'
    OBVIOUS
  <1>1. CASE EmptyDays
    BY <1>1, EmptyDaysStep
  <1>2. CASE OpenDay
    BY <1>2, OpenDayStep
  <1>3. CASE CloseDay
    BY <1>3, CloseDayStep
  <1>4. CASE EndPack
    BY <1>4, EndPackStep
  <1>5. CASE Validate
    BY <1>5, ValidateStep
  <1>6. ASSUME NEW p \in Places, AddStop(p) PROVE IInv'
    BY <1>6, AddStopStep
  <1>7. ASSUME NEW p \in Places, SkipPlace(p) PROVE IInv'
    BY <1>7, SkipPlaceStep
  <1>8. CASE UNCHANGED vars
    <2> USE <1>8 DEF vars
    <2>1. TypeOK'
      BY DEF IInv, TypeOK
    <2>2. Days' = Days /\ NDays' = NDays /\ Kept' = Kept
      BY DEF Days, NDays, Kept
    <2>3. DaysInv'
      BY <2>2, SameDays DEF IInv
    <2>4. NothingLeftThatFits'
      BY <2>1, SamePlan DEF IInv
    <2>5. /\ \A d : Budget(d)' = Budget(d)
          /\ \A q, r : Travel(q, r)' = Travel(q, r)
          /\ \A q, h : Belongs(q, h)' = Belongs(q, h)
          /\ \A i : TakenBy(i)' = TakenBy(i)
          /\ \A s : TimeOf(s)' = TimeOf(s)
      BY <2>2, TimeOfStays DEF Budget, Travel, Belongs, Near, TakenBy
    <2>6. NearTaken' = NearTaken
      BY <2>2, <2>5 DEF NearTaken
    <2> QED
      BY <2>1, <2>2, <2>3, <2>4, <2>5, <2>6
      DEF IInv, DayInHand, PoolIsLeft, NearOrTaken, SkippedDoNotFit, PackedPlanIsValid
  <1> QED
    BY <1>1, <1>2, <1>3, <1>4, <1>5, <1>6, <1>7, <1>8 DEF Next

-----------------------------------------------------------------------------
(* The inductive invariant holds of every call (pack_days, engine.py       *)
(* 57-192, and validate_itinerary).                                        *)
THEOREM Invariance == Spec => []IInv
  BY InitInv, NextInv, PTL DEF Spec

(* The packer's variables keep their types; in particular every day has a  *)
(* hub of the scope, however many days and hubs there are (engine.py       *)
(* 97-125).                                                                *)
THEOREM TypeCorrect == Spec => []TypeOK
  <1>1. IInv => TypeOK
    BY DEF IInv
  <1> QED
    BY Invariance, <1>1, PTL

(* No place is visited twice in a plan and no dropped place is visited     *)
(* (engine.py 138-150, 172-174).                                           *)
THEOREM NoPlaceTwice == Spec => []EachPlaceOnce
  <1>1. IInv => EachPlaceOnce
    BY DEF IInv, DaysInv
  <1> QED
    BY Invariance, <1>1, PTL

(* Every day keeps to its number of stops and to its time, as the sum over *)
(* its stops gives it (engine.py 126-186).                                 *)
THEOREM DaysKeepToTheirCaps == Spec => []WithinCaps
  <1>1. IInv => WithinCaps
    BY DEF IInv, DaysInv
  <1> QED
    BY Invariance, <1>1, PTL

(* A hub's day leaves its hub only when nothing near it is left (engine.py *)
(* 138-152).                                                               *)
THEOREM HubsComeFirst == Spec => []AwayOnlyWhenNearIsTaken
  <1>1. IInv => AwayOnlyWhenNearIsTaken
    BY DEF IInv, DaysInv
  <1> QED
    BY Invariance, <1>1, PTL

(* The days of each hub are one block, in the order of the scope, and      *)
(* differ by at most one from hub to hub (engine.py 97-116).               *)
THEOREM HubsTakeTurns == Spec => []HubsInSequence
  <1>1. IInv => HubsInSequence
    <2> SUFFICES ASSUME IInv, pc \in {"packed", "checked"}, Kept # {}, NHubs > 0
                 PROVE  LET DaysOf(k) == {d \in 1..Len(plan) : plan[d].hub = input.hubs[k]}
                        IN /\ Cardinality(UNION {DaysOf(k) : k \in 1..NHubs}) = NDays
                           /\ \A j, k \in 1..NHubs : j < k =>
                                /\ \A c \in DaysOf(j), d \in DaysOf(k) : c < d
                                /\ Cardinality(DaysOf(j)) - Cardinality(DaysOf(k)) \in {0, 1}
      BY DEF HubsInSequence
    <2> DEFINE DaysOf(k) == {d \in 1..Len(plan) : plan[d].hub = input.hubs[k]}
    <2>1. /\ input \in Input /\ Len(plan) = NDays /\ NDays \in Nat /\ NHubs \in Nat /\ NHubs # 0
          /\ \A d \in 1..NDays : plan[d].hub = DayHub(d)
      <3>1. input \in Input /\ Len(plan) = NDays /\ Days = plan
        BY DEF IInv, TypeOK, DayInHand, Days
      <3>2. NDays \in Nat
        BY <3>1, NDaysType, ConstantsAssumption DEF DayNumbers
      <3>3. NHubs \in Nat
        <4>1. input.hubs \in Seq(Hubs)
          BY <3>1 DEF Input
        <4> QED BY <4>1, LenProperties DEF NHubs
      <3> QED
        BY <3>1, <3>2, <3>3 DEF IInv, DaysInv, HubOfDay
    <2>2. \A k \in 1..(NHubs + 1) : DaysBefore(k) \in Nat /\ DaysBefore(k) <= NDays
      <3>1. \A k \in 1..(NHubs + 1) : k <= NHubs + 1 /\ NHubs + 1 \in 1..(NHubs + 1)
        BY <2>1
      <3> QED BY <3>1, <2>1, DaysAreDealt
    <2>3. ASSUME NEW k \in 1..NHubs
          PROVE  DaysOf(k) = (DaysBefore(k) + 1)..DaysBefore(k + 1)
      <3>1. /\ DaysBefore(k) \in Nat
            /\ DaysBefore(k + 1) \in Nat /\ DaysBefore(k + 1) <= NDays
        <4>1. k \in 1..(NHubs + 1) /\ k + 1 \in 1..(NHubs + 1)
          BY <2>1
        <4> QED BY <4>1, <2>2
      <3>2. \A d \in 1..NDays : d \in DaysOf(k) <=> DaysBefore(k) < d /\ d <= DaysBefore(k + 1)
        BY <2>1, HubHasItsBlock
      <3> QED
        BY <3>1, <3>2, <2>1
    <2>4. ASSUME NEW k \in 1..NHubs
          PROVE  Cardinality(DaysOf(k)) = NDays \div NHubs + (IF k <= NDays % NHubs THEN 1 ELSE 0)
      <3>1. DaysBefore(k + 1) - DaysBefore(k) = NDays \div NHubs + (IF k <= NDays % NHubs THEN 1 ELSE 0)
        BY <2>1, DaysAreDealt
      <3>2. DaysBefore(k) \in Nat /\ DaysBefore(k + 1) \in Nat /\ DaysBefore(k) <= DaysBefore(k + 1)
        <4>1. k \in 1..(NHubs + 1) /\ k + 1 \in 1..(NHubs + 1) /\ k <= k + 1
          BY <2>1
        <4> QED BY <4>1, <2>1, <2>2, DaysAreDealt
      <3>3. Cardinality((DaysBefore(k) + 1)..DaysBefore(k + 1)) = DaysBefore(k + 1) - DaysBefore(k)
        BY <3>2, FS_Interval
      <3> QED
        BY <3>1, <3>3, <2>3
    <2> HIDE DEF DaysOf
    <2>5. Cardinality(UNION {DaysOf(k) : k \in 1..NHubs}) = NDays
      <3>1. \A d \in 1..NDays : \E k \in 1..NHubs : d \in DaysOf(k)
        BY <2>1, HubIs DEF DaysOf
      <3>2. \A k \in 1..NHubs : DaysOf(k) \subseteq 1..NDays
        BY <2>1 DEF DaysOf
      <3>3. UNION {DaysOf(k) : k \in 1..NHubs} = 1..NDays
        BY <3>1, <3>2
      <3>4. Cardinality(1..NDays) = NDays
        BY <2>1, FS_Interval
      <3> QED BY <3>3, <3>4
    <2>6. ASSUME NEW j \in 1..NHubs, NEW k \in 1..NHubs, j < k
          PROVE  /\ \A c \in DaysOf(j), d \in DaysOf(k) : c < d
                 /\ Cardinality(DaysOf(j)) - Cardinality(DaysOf(k)) \in {0, 1}
      <3>1. /\ j + 1 \in 1..(NHubs + 1) /\ k \in 1..(NHubs + 1) /\ j + 1 <= k
        BY <2>1, <2>6
      <3>2. DaysBefore(j + 1) <= DaysBefore(k)
        BY <3>1, <2>1, DaysAreDealt
      <3>3. DaysBefore(j + 1) \in Nat /\ DaysBefore(k) \in Nat
        BY <3>1, <2>2
      <3>4. \A c \in DaysOf(j), d \in DaysOf(k) : c < d
        <4>1. DaysOf(j) = (DaysBefore(j) + 1)..DaysBefore(j + 1)
          BY <2>3
        <4>2. DaysOf(k) = (DaysBefore(k) + 1)..DaysBefore(k + 1)
          BY <2>3
        <4>3. DaysBefore(j) \in Nat /\ DaysBefore(k + 1) \in Nat
          <5>1. j \in 1..(NHubs + 1) /\ k + 1 \in 1..(NHubs + 1)
            BY <2>1
          <5> QED BY <5>1, <2>2
        <4> QED BY <4>1, <4>2, <4>3, <3>2, <3>3
      <3>5. NDays \div NHubs \in Int /\ NDays % NHubs \in Int
        BY <2>1
      <3> QED
        BY <3>4, <3>5, <2>4, <2>6
    <2> QED
      BY <2>5, <2>6 DEF DaysOf
  <1> QED
    BY Invariance, <1>1, PTL

(* One pass over the candidates is enough: no place it skipped fits when   *)
(* the day is closed, if distances are a metric (engine.py 159-186).       *)
THEOREM OnePassIsEnough == Spec => []NothingLeftThatFits
  <1>1. IInv => NothingLeftThatFits
    BY DEF IInv
  <1> QED
    BY Invariance, <1>1, PTL

(* The validator accepts every plan of the packer (validate.py 12-64).     *)
THEOREM PackedPlansAreAccepted == Spec => []PackedPlanIsValid
  <1>1. IInv => PackedPlanIsValid
    BY DEF IInv
  <1> QED
    BY Invariance, <1>1, PTL

LEMMA CapsAre ==
    ASSUME TypeOK
    PROVE  /\ CapsOf(NDays, input) \in Seq(Cap)
           /\ Len(CapsOf(NDays, input)) = NDays
           /\ \A d \in 1..NDays : CapsOf(NDays, input)[d].stops = MaxStops(d) /\ MaxStops(d) \in Int
  <1> DEFINE caps == CapsOf(NDays, input)
  <1>1. input \in Input /\ NDays \in DayNumbers
    BY NDaysType DEF TypeOK
  <1>2. NDays \in Nat /\ 1..NDays \subseteq DayNumbers
    BY <1>1, ConstantsAssumption DEF DayNumbers
  <1>3. input.limit \in Limit /\ \A d \in 1..NDays : input.over[d] \in Limit
    BY <1>1, <1>2 DEF Input, Lowered
  <1>4. \A d \in 1..NDays : Stops(input.over[d], input.limit) \in Int /\ Minutes(input.over[d], input.limit) \in Int
    BY <1>3 DEF Limit, Stops, Minutes, Or, DefaultStops, DefaultMinutes
  <1>5. caps \in [1..NDays -> Cap]
    BY <1>4 DEF CapsOf, Cap
  <1>6. caps \in Seq(Cap)
    BY <1>2, <1>5, SeqDef
  <1>7. Len(caps) = NDays
    BY <1>2, <1>5, <1>6, LenProperties
  <1> QED
    BY <1>4, <1>6, <1>7 DEF CapsOf, MaxStops

(* A packed plan without a single stop means that there was no place to    *)
(* visit or no day with room for one: whatever the hubs, the distances and *)
(* what earlier days took, the packer never answers with nothing where     *)
(* something was possible (engine.py 126-186).                             *)
NothingOnlyForNothing ==
    pc \in {"packed", "checked"} /\ (\A d \in 1..Len(plan) : plan[d].stops = <<>>) =>
        Kept = {} \/ \A d \in 1..NDays : MaxStops(d) <= 0

THEOREM PlansAreEmptyForAReason == Spec => []NothingOnlyForNothing
  <1>1. IInv => NothingOnlyForNothing
    <2> SUFFICES ASSUME IInv, pc \in {"packed", "checked"},
                        \A d \in 1..Len(plan) : plan[d].stops = <<>>,
                        NEW d \in 1..NDays, ~(MaxStops(d) <= 0)
                 PROVE  Kept = {}
      BY DEF NothingOnlyForNothing
    <2>1. Days = plan /\ Len(plan) = NDays /\ NDays \in Nat
      BY LenProperties DEF IInv, TypeOK, DayInHand, Days
    <2>2. d \in 1..Len(plan) /\ plan[d].stops = <<>> /\ Len(plan[d].stops) = 0
      BY <2>1
    <2>3. Len(plan[d].stops) < MaxStops(d)
      BY <2>2, CapsAre DEF IInv
    <2>4. TakenBy(d) = {}
      <3>1. \A i \in 1..d : Elems(Days[i].stops) = {}
        BY <2>1, <2>2 DEF Elems
      <3> QED
        BY <3>1 DEF TakenBy
    <2>5. \A p \in Kept \ TakenBy(d) : plan[d].stops # <<>>
      BY <2>2, <2>3 DEF IInv, NothingLeftThatFits, Elems
    <2> QED
      BY <2>2, <2>4, <2>5
  <1> QED
    BY Invariance, <1>1, PTL

-----------------------------------------------------------------------------
(* The planner's contract.                                                 *)

LEMMA FewElems ==
    ASSUME NEW s \in Seq(Places)
    PROVE  Cardinality(Elems(s)) \in Nat /\ Cardinality(Elems(s)) <= Len(s)
  <1>1. Len(s) \in Nat /\ s \in [1..Len(s) -> Elems(s)]
    BY LenProperties DEF Elems
  <1>2. s \in Surjection(1..Len(s), Elems(s))
    BY <1>1 DEF Surjection, Elems
  <1>3. IsFiniteSet(1..Len(s)) /\ Cardinality(1..Len(s)) = Len(s)
    BY <1>1, FS_Interval
  <1>4. IsFiniteSet(Elems(s)) /\ Cardinality(Elems(s)) <= Len(s)
    BY <1>2, <1>3, FS_Surjection
  <1> QED
    BY <1>4, FS_CardinalityType

(* What the packer hands over is one of the plans of the contract.         *)
LEMMA PlanIsGood ==
    ASSUME IInv, pc \in {"packed", "checked"}
    PROVE  [d \in 1..Len(plan) |-> Elems(plan[d].stops)] \in Plans(Kept, CapsOf(NDays, input))
  <1> DEFINE days == [d \in 1..Len(plan) |-> Elems(plan[d].stops)]
             caps == CapsOf(NDays, input)
  <1>1. TypeOK /\ Days = plan /\ Len(plan) = NDays /\ Len(plan) \in Nat /\ plan \in Seq(Day)
    BY LenProperties DEF IInv, TypeOK, DayInHand, Days
  <1>2. /\ Len(caps) = Len(plan)
        /\ \A d \in 1..Len(plan) : caps[d].stops = MaxStops(d) /\ MaxStops(d) \in Int
    BY <1>1, CapsAre
  <1>3. \A d \in 1..Len(plan) : plan[d].stops \in Seq(Places)
    <2>1. \A d \in 1..Len(plan) : plan[d] \in Day
      BY <1>1, ElementOfSeq
    <2> QED
      BY <2>1 DEF Day
  <1> HIDE DEF caps
  <1>4. days \in [1..Len(caps) -> SUBSET Kept]
    BY <1>1, <1>2 DEF IInv, DaysInv, EachPlaceOnce
  <1>5. ASSUME NEW d \in 1..Len(caps), NEW e \in 1..Len(caps), d # e
        PROVE  days[d] \cap days[e] = {}
    BY <1>1, <1>2, <1>5 DEF IInv, DaysInv, EachPlaceOnce, Elems
  <1>6. ASSUME NEW d \in 1..Len(caps), days[d] = {}
        PROVE  caps[d].stops <= 0 \/ Kept \subseteq UNION {days[e] : e \in 1..d}
    <2>1. d \in 1..Len(plan) /\ Elems(plan[d].stops) = {}
      BY <1>2, <1>6
    <2>2. plan[d].stops = <<>>
      <3>1. plan[d].stops \in Seq(Places) /\ Len(plan[d].stops) \in Nat
        BY <1>3, <2>1, LenProperties
      <3>2. ~(1 \in 1..Len(plan[d].stops))
        BY <2>1 DEF Elems
      <3>3. Len(plan[d].stops) = 0
        BY <3>1, <3>2
      <3> QED
        BY <3>1, <3>3, EmptySeq
    <2>4. CASE MaxStops(d) > 0
      <3>1. Kept \subseteq TakenBy(d)
        BY <2>1, <2>2, <2>4 DEF IInv, NothingLeftThatFits
      <3>2. \A e \in 1..d : e \in 1..Len(plan) /\ days[e] = Elems(Days[e].stops)
        BY <1>1, <2>1
      <3>3. TakenBy(d) = UNION {days[e] : e \in 1..d}
        BY <3>2 DEF TakenBy
      <3> QED
        BY <3>1, <3>3
    <2> QED
      BY <1>2, <2>1, <2>4
  <1>7. ASSUME NEW d \in 1..Len(caps), days[d] # {}
        PROVE  Cardinality(days[d]) <= caps[d].stops
    <2>1. d \in 1..Len(plan) /\ days[d] = Elems(plan[d].stops) /\ plan[d].stops \in Seq(Places)
      BY <1>2, <1>3
    <2>2. Cardinality(days[d]) \in Nat /\ Cardinality(days[d]) <= Len(plan[d].stops)
      BY <2>1, FewElems
    <2>3. Len(plan[d].stops) \in Nat /\ Len(plan[d].stops) # 0
      BY <1>7, <2>1, LenProperties DEF Elems
    <2>4. Len(plan[d].stops) <= Greater(0, MaxStops(d))
      BY <1>1, <2>1 DEF IInv, DaysInv, WithinCaps
    <2> QED
      BY <1>2, <2>1, <2>2, <2>3, <2>4 DEF Greater
  <1> QED
    BY <1>4, <1>5, <1>6, <1>7 DEF Plans, caps

(* The packer and the validator implement the planner's contract: every    *)
(* call starts as a call of the contract, and every step is its answer or  *)
(* changes nothing that the contract shows (engine.py 57-192, validate.py  *)
(* 12-64).                                                                 *)
THEOREM PlannerKeepsContract == Spec => KeepsPlanContract
  <1>1. Init /\ IInv => Contract!Init
    <2> SUFFICES ASSUME Init, IInv PROVE Contract!Init
      OBVIOUS
    <2>1. Answered = None
      BY DEF Init, Answered
    <2>2. CapsOf(NDays, input) \in Seq(Cap)
      BY CapsAre DEF IInv
    <2>3. Kept \subseteq Places
      BY DEF IInv, TypeOK, Input, Kept
    <2> QED
      BY <2>1, <2>2, <2>3 DEF Contract!Init, Contract!Call, Contract!Cap, Cap, Call
  <1>2. IInv /\ IInv' /\ [Next]_vars => [Contract!Answer]_(Contract!vars)
    <2> SUFFICES ASSUME IInv, IInv', [Next]_vars PROVE [Contract!Answer]_(Contract!vars)
      OBVIOUS
    <2>1. input' = input
      BY DEF Next, EmptyDays, OpenDay, CloseDay, EndPack, Validate, AddStop, SkipPlace, vars
    <2>2. Call' = Call
      BY <2>1 DEF Call, Kept, CapsOf, NDays
    <2>3. CASE Validate
      <3>1. pc = "packed" /\ pc' = "checked" /\ plan' = plan
        BY <2>3 DEF Validate
      <3>2. Answered = None
        BY <3>1 DEF Answered
      <3>3. Answered' = [d \in 1..Len(plan) |-> Elems(plan[d].stops)]
        BY <3>1 DEF IInv, PackedPlanIsValid, Answered
      <3>4. Answered' \in Plans(Call.kept, Call.caps)
        BY <3>1, <3>3, PlanIsGood DEF Call
      <3>5. Contract!Plans(Call.kept, Call.caps) = Plans(Call.kept, Call.caps)
        <4>1. \A S : Contract!Cardinality(S) = Cardinality(S)
          BY DEF Contract!Cardinality, Cardinality
        <4> QED
          BY <4>1 DEF Contract!Plans, Plans
      <3> QED
        BY <2>2, <3>2, <3>4, <3>5 DEF Contract!Answer
    <2>4. CASE ~Validate
      <3>1. Answered' = Answered
        BY <2>4 DEF Next, EmptyDays, OpenDay, CloseDay, EndPack, AddStop, SkipPlace, vars, Answered
      <3> QED
        BY <2>2, <3>1 DEF Contract!vars
    <2> QED
      BY <2>3, <2>4
  <1> QED
    BY <1>1, <1>2, Invariance, PTL DEF Spec, KeepsPlanContract, Contract!Spec
=============================================================================
