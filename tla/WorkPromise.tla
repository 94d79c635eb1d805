---------------------------- MODULE WorkPromise ----------------------------
(***************************************************************************)
(* What src/threadwork/BThreadWork.h promises about each work item,        *)
(* whatever threads do the work: it is posted, executed at most once,      *)
(* reported at most once and only after it was fully executed, and when    *)
(* BThreadWork_Free returns the work function has either fully executed or *)
(* was never called and never will be.                                     *)
(***************************************************************************)
CONSTANT Works

VARIABLE phase      \* phase[w]: where the work item stands

Phases == {"idle", "posted", "executing", "executed", "reported"}

PInit == phase = [w \in Works |-> "idle"]

Move(w, from, to) == /\ phase[w] \in from
                     /\ phase' = [phase EXCEPT ![w] = to]

Post(w) == Move(w, {"idle"}, "posted")
Execute(w) == Move(w, {"posted"}, "executing")
Finish(w) == Move(w, {"executing"}, "executed")
Report(w) == Move(w, {"executed"}, "reported")
Release(w) == Move(w, {"posted", "executed", "reported"}, "idle")

PNext == \E w \in Works : \/ Post(w) \/ Execute(w) \/ Finish(w)
                          \/ Report(w) \/ Release(w)

PSpec == PInit /\ [][PNext]_phase
=============================================================================
