---------------------------- MODULE RunContract ----------------------------
(***************************************************************************)
(* What the expensive budget promises for a chat session, without queues,  *)
(* tasks, flags or requests: a session has at most one run at a time, a    *)
(* run replaces the session's draft at most once and only while it is the  *)
(* session's run, and what it reports at its end tells the truth about the *)
(* draft: "done" only after it was replaced, "aborted" only if it was not. *)
(* GenerateRunner implements this contract.                                *)
(***************************************************************************)
CONSTANTS
    Runs,       \* runs of the generate / revise pipeline
    Sessions,   \* chat sessions
    SessionOf,  \* SessionOf[r]: the session run r was started for
    Before      \* what a session may hold before any of these runs stored a draft

VARIABLES
    phase,  \* phase[r]: how far run r is
    draft   \* draft[x]: the run that wrote session x's stored draft

vars == <<phase, draft>>

Ended == {"done", "aborted", "error", "lost"}
Phase == {"idle", "running", "stored"} \cup Ended

Active(x) == {r \in Runs : SessionOf[r] = x /\ phase[r] \in {"running", "stored"}}

Init ==
    /\ phase = [r \in Runs |-> "idle"]
    /\ draft \in [Sessions -> Before]

-----------------------------------------------------------------------------
(* A run is let in only when its session has none.                         *)
Begin(r) ==
    /\ phase[r] = "idle"
    /\ Active(SessionOf[r]) = {}
    /\ phase' = [phase EXCEPT ![r] = "running"]
    /\ UNCHANGED draft

(* The one moment at which a run replaces the draft.                       *)
Store(r) ==
    /\ phase[r] = "running"
    /\ phase' = [phase EXCEPT ![r] = "stored"]
    /\ draft' = [draft EXCEPT ![SessionOf[r]] = r]

(* A run that never stored a draft may not claim success, and a run that   *)
(* stored one may not claim to have been aborted.  An error makes no claim.*)
End(r) ==
    /\ \/ phase[r] = "running" /\ \E o \in {"aborted", "error"} : phase' = [phase EXCEPT ![r] = o]
       \/ phase[r] = "stored"  /\ \E o \in {"done", "error"} : phase' = [phase EXCEPT ![r] = o]
    /\ UNCHANGED draft

(* The server process dies: every run of every session dies with it.       *)
Crash ==
    /\ phase' = [r \in Runs |-> IF phase[r] \in {"running", "stored"} THEN "lost" ELSE phase[r]]
    /\ UNCHANGED draft

Next == Crash \/ \E r \in Runs : Begin(r) \/ Store(r) \/ End(r)

Spec == Init /\ [][Next]_vars
=============================================================================
