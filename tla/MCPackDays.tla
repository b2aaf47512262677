----------------------------- MODULE MCPackDays -----------------------------
(* Values for the constants of PackDays' runs.                             *)
EXTENDS PackDays

CONSTANTS near, mid, away, moon, old, new, bare

(* Four spots on a line: two in walking distance of each other, one that   *)
(* a day reaches once, one it cannot reach.                                *)
Minute == [s \in Spots |-> CASE s = near -> 0 [] s = mid -> 20 [] s = away -> 110 [] s = moon -> 7000]
LineWalk == [ab \in Spots \X Spots |->
                IF Minute[ab[1]] <= Minute[ab[2]] THEN Minute[ab[2]] - Minute[ab[1]]
                ELSE Minute[ab[1]] - Minute[ab[2]]]
LineFar == {ab \in Spots \X Spots : LineWalk[ab] > 6000}
(* One hub around near and mid, one around away, one without a bbox.       *)
Boxes == [h \in Hubs |-> CASE h = old -> {near, mid} [] h = new -> {away} [] h = bare -> {}]

Less == [stops |-> 2, minutes |-> 144]      \* "less walking"
Zero == [stops |-> 0, minutes |-> 0]
Minus == [stops |-> -1, minutes |-> None]
Tight == [stops |-> None, minutes |-> -60]
Everyday == [d \in DayNumbers |-> NoLimit]
Limits == {<<NoLimit, Everyday>>, <<Less, Everyday>>, <<Zero, Everyday>>, <<Minus, Everyday>>,
           <<Tight, Everyday>>, <<NoLimit, [Everyday EXCEPT ![2] = Less]>>}

Trips == {<<1, <<>>>>, <<2, <<old>>>>, <<3, <<new, old>>>>, <<2, <<old, bare, new>>>>, <<None, <<bare, old>>>>}

Drops == {<<{}, {}>>, <<{1}, {}>>, <<{1}, {NPlaces}>>, <<Places, {}>>}
Calls == {[places |-> Places, dropped |-> c[1][1], tagged |-> c[1][2], liked |-> {3},
           wanted |-> c[2][1], scoped |-> None, hubs |-> c[2][2], at |-> c[3],
           limit |-> c[4][1], over |-> c[4][2]] :
             c \in {x \in Drops \X Trips \X [Places -> Spots] \X Limits :
                       x[1][1] = Places => \A p \in Places : x[3][p] = near}}
=============================================================================
