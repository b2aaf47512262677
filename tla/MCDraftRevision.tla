--------------------------- MODULE MCDraftRevision ---------------------------
(* Values for the constants of DraftRevision's runs.                       *)
EXTENDS DraftRevision, TLC

CONSTANTS p, t1, t2, t3, g1, g2

(* Blank, "less walking day 3", and something without a meaning.           *)
Said == {[blank |-> TRUE, day |-> None, less |-> FALSE],
         [blank |-> FALSE, day |-> 3, less |-> TRUE],
         [blank |-> FALSE, day |-> None, less |-> FALSE]}

Shorter == [NoPatch EXCEPT !.day = 2, !.minutes = 100, !.factor = 60]
Nothing == [NoPatch EXCEPT !.day = 3, !.stops = 0, !.factor = 0]
Never == [NoPatch EXCEPT !.stops = -1]
Without == [NoPatch EXCEPT !.drop = {p}, !.factor = 100]
Longer == [NoPatch EXCEPT !.day = 2, !.minutes = 300]
Further == [NoPatch EXCEPT !.factor = 150]
Replies == {Shorter, Nothing, Never, Without, Longer, Further}

Alike == Permutations(Trips) \cup Permutations(Gets)
=============================================================================
