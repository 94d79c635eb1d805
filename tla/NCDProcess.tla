----------------------------- MODULE NCDProcess -----------------------------
(***************************************************************************)
(* One process of the NCD interpreter (src/ncd/NCDInterpreter.c): its      *)
(* statements, and the two pointers that say how far it has come.  The     *)
(* statements up to AP are initialised and, except maybe the last, up; no  *)
(* statement beyond FP exists; those between AP and FP have to go.         *)
(* Statements are counted from 1, so ap and fp are numbers of statements.  *)
(***************************************************************************)
EXTENDS Integers

PStates == {"WORKING", "UP", "WAITING", "TERMINATING"}
SStates == {"FORGOTTEN", "CHILD", "ADULT", "DYING"}

\* struct process.  unclean holds the statements whose module instance is in
\* STATE_DOWN_UNCLEAN; the other states of an instance follow from st.
Process(n) == [state : PStates, ap : 0..n, fp : 0..n, error : BOOLEAN, timer : BOOLEAN,
               st : [1..n -> SStates], unclean : SUBSET (1..n)]

\* process_allocate and process_new.
process_new(n) == [state |-> "WORKING", ap |-> 0, fp |-> 0, error |-> FALSE, timer |-> FALSE,
                   st |-> [i \in 1..n |-> "FORGOTTEN"], unclean |-> {}]

AtMost(a, b) == IF a > b THEN b ELSE a

process_have_child(p) == p.ap > 0 /\ p.st[p.ap] = "CHILD"

\* What process_assert_pointers asserts.
PointersOK(p) ==
    /\ p.ap <= p.fp
    /\ \A i \in DOMAIN p.st : /\ i < p.ap => p.st[i] = "ADULT"
                              /\ i = p.ap => p.st[i] \in {"ADULT", "CHILD"}
                              /\ i = p.fp => p.st[i] # "FORGOTTEN"
                              /\ i > p.fp => p.st[i] = "FORGOTTEN"

\* The loop after "update FP": down to the last statement that is left.
UpdatedFP(st, fp) ==
    CHOOSE k \in 0..fp : /\ k > 0 => st[k] # "FORGOTTEN"
                         /\ \A j \in (k + 1)..fp : st[j] = "FORGOTTEN"

----------------------------------------------------------------------------
\* The cases of statement_instance_func_event, with the instance's own change
\* of state in NCDModuleInst_Backend_Up, _Down, _DownUp, _Dead, _DeadError.

EventUp(p, i) == [p EXCEPT !.st[i] = "ADULT", !.unclean = @ \ {i}]

\* The statements after i are left where they are, as if they were not affected.
EventDown_KeepAP(p, i) ==
    [p EXCEPT !.st[i] = "CHILD", !.unclean = @ \cup {i},
              !.error = IF i <= p.ap THEN FALSE ELSE @]

\* The instance does not remember that it has to be told of the clean state.
EventDown_Clean(p, i) ==
    [p EXCEPT !.st[i] = "CHILD", !.error = IF i <= p.ap THEN FALSE ELSE @, !.ap = AtMost(@, i)]

EventDown(p, i) ==
    [p EXCEPT !.st[i] = "CHILD", !.unclean = @ \cup {i},
              !.error = IF i <= p.ap THEN FALSE ELSE @, !.ap = AtMost(@, i)]

EventDownUp(p, i) ==
    [p EXCEPT !.error = IF i <= p.ap THEN FALSE ELSE @, !.ap = AtMost(@, i)]

\* DEAD, and with is_error DEADERROR.
EventDead(p, i, is_error) ==
    LET st == [p.st EXCEPT ![i] = "FORGOTTEN"]
    IN  [p EXCEPT !.st = st, !.unclean = @ \ {i},
                  !.error = IF is_error /\ i <= p.ap THEN TRUE ELSE @,
                  !.ap = AtMost(@, i - 1), !.fp = UpdatedFP(st, @)]

\* process_advance: the next statement is a child and counted by both pointers.
Advanced(p) == [p EXCEPT !.st[p.ap + 1] = "CHILD", !.ap = @ + 1, !.fp = @ + 1]

\* The statement is ordered to die: SSTATE_DYING, and NCDModuleInst_Die.
Dying(p, i) == [p EXCEPT !.st[i] = "DYING", !.unclean = @ \ {i}]

\* The part of NCDModuleInst_Clean before func_clean is called.
Cleaned(p, i) == [p EXCEPT !.unclean = @ \ {i}]

\* The loop of process_work_job_handler_terminating: from the end, statements
\* whose module has no func_die (those in nodie) are freed on the spot.  Frees
\* all statements after k, the last one that has to be waited for.
LastToWaitFor(p, nodie) ==
    CHOOSE k \in 0..p.fp :
        /\ k > 0 => p.st[k] = "DYING" \/ (p.st[k] # "FORGOTTEN" /\ k \notin nodie)
        /\ \A j \in (k + 1)..p.fp : p.st[j] = "FORGOTTEN" \/ (p.st[j] # "DYING" /\ j \in nodie)

FreedAfter(p, k) ==
    [p EXCEPT !.st = [j \in DOMAIN @ |-> IF j > k THEN "FORGOTTEN" ELSE @[j]],
              !.unclean = {j \in @ : j <= k}, !.ap = AtMost(@, k), !.fp = k]
=============================================================================
