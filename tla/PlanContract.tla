---------------------------- MODULE PlanContract ----------------------------
(***************************************************************************)
(* What one call of the planner promises the pipelines that store what it  *)
(* returns, without loops, hubs, distances or a validator: asked with the  *)
(* places it may use and the limits of each day, it answers once, with a   *)
(* plan of exactly those days in which no place is visited twice, no day   *)
(* has more stops than it may, and no day stays empty that could have had  *)
(* a stop.  PackDays implements this contract, and DraftRevision takes the *)
(* planner by it.                                                          *)
(***************************************************************************)
EXTENDS PlanLimits

CONSTANT Places

VARIABLES
    call,   \* the places to choose from and the limits of the days
    plan    \* the answer: the places of each day

vars == <<call, plan>>

Call == [kept : SUBSET Places, caps : Seq(Cap)]

Init ==
    /\ call \in Call
    /\ plan = None

Answer ==
    /\ plan = None
    /\ plan' \in Plans(call.kept, call.caps)
    /\ UNCHANGED call

Spec == Init /\ [][Answer]_vars
=============================================================================
