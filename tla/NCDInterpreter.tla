--------------------------- MODULE NCDInterpreter ---------------------------
(***************************************************************************)
(* The NCD interpreter (src/ncd/NCDInterpreter.c) with the interface to    *)
(* its modules (src/ncd/NCDModule.c) and the call() module                 *)
(* (src/ncd/modules/call2.c), whose statements run a process template.     *)
(* Other modules do whatever the interface allows, whenever it allows it:  *)
(* between any two jobs, because modules have jobs of their own.  Handlers *)
(* are operators from a state of the interpreter to the states they may    *)
(* leave.                                                                  *)
(***************************************************************************)
EXTENDS NCDProcess, JobList, FiniteSets

CONSTANTS
    Procs,      \* the processes there can be
    Program,    \* the statements of each: "die" and "nodie" for a module with and
                \* without func_die, a process for a call() of that template
    NULL

VARIABLE interp     \* NCDInterpreter: processes, call() instances, jobs

vars == <<interp>>

Statements(p) == 1..Len(Program[p])
Calls == UNION {{<<p, i>> : i \in Statements(p)} : p \in Procs}
IsCall(c, t) == Program[c[1]][c[2]] = t

\* NCDInterpProcess_IsTemplate; Caller is the module_process's side of a process.
Templates == {t \in Procs : \E c \in Calls : IsCall(c, t)}
Caller == [t \in Templates |-> CHOOSE c \in Calls : IsCall(c, t)]

\* The state of a call2.c instance; NULL when there is none.
CStates == {"WORKING", "UP", "WAITING", "TERMINATING", "NONE"}

\* Procs is finite, and a process exists once per call() statement that can run it.
ASSUME ProgramAssumption ==
    /\ \A S \in SUBSET Procs : Cardinality(S) \in Nat
    /\ NULL \notin Procs \cup CStates
    /\ \A p \in Procs : NULL \notin Process(Len(Program[p]))
    /\ {"die", "nodie"} \cap Procs = {}
    /\ Program \in [Procs -> Seq(Procs \cup {"die", "nodie"})]
    /\ \A c, d \in Calls : \A t \in Procs : IsCall(c, t) /\ IsCall(d, t) => c = d
    /\ \A c \in Calls : ~IsCall(c, c[1])

TypeOK ==
    /\ DOMAIN interp = {"proc", "call", "jobs", "terminating", "finished"}
    /\ DOMAIN interp.proc = Procs
    /\ \A p \in Procs : interp.proc[p] \in Process(Len(Program[p])) \cup {NULL}
    /\ interp.call \in [Templates -> CStates \cup {NULL}]
    /\ interp.jobs \in Seq(Procs)
    /\ interp.terminating \in BOOLEAN /\ interp.finished \in BOOLEAN

\* interp->processes.
Living(s) == {p \in Procs : s.proc[p] # NULL}

\* The lists of the members of S, each once.
Orders(S) ==
    {list \in [1..Cardinality(S) -> S] :
        NoDup(list) /\ \A p \in S : BSmallPending_IsSet(list, p)}

Before(list, p, q) == \E i, j \in DOMAIN list : i < j /\ list[i] = p /\ list[j] = q

\* NCDInterpreter_Init: the processes that are not templates, each with its work job set.
Init ==
    \E jobs \in Orders(Procs \ Templates) :
        interp = [proc |-> [p \in Procs |-> IF p \in Templates THEN NULL
                                            ELSE process_new(Len(Program[p]))],
                  call |-> [t \in Templates |-> NULL], jobs |-> jobs,
                  terminating |-> FALSE, finished |-> FALSE]

----------------------------------------------------------------------------
SetProc(s, p, q) == [s EXCEPT !.proc = [@ EXCEPT ![p] = q]]
SetCall(s, t, state) == [s EXCEPT !.call = [@ EXCEPT ![t] = state]]
SetWork(s, p) == [s EXCEPT !.jobs = BSmallPending_Set(@, p)]
SetState(s, p, state) == SetProc(s, p, [s.proc[p] EXCEPT !.state = state])

\* statement_instance_func_event: the work job is set, and the event applied.
statement_instance_func_event(s, p, q) == SetProc(SetWork(s, p), p, q)

\* The state is changed without the work job being set.
process_start_terminating_NoWork(s, p) == SetState(s, p, "TERMINATING")

\* process_start_terminating.
process_start_terminating(s, p) == SetState(SetWork(s, p), p, "TERMINATING")

\* process_handler_event of call2.c, and instance_free.
NCDModuleProcess_Interp_Up(s, t) ==
    LET c == Caller[t]
    IN  SetCall(statement_instance_func_event(s, c[1], EventUp(s.proc[c[1]], c[2])), t, "UP")

NCDModuleProcess_Interp_Down(s, t) ==
    LET c == Caller[t]
    IN  SetCall(statement_instance_func_event(s, c[1], EventDown(s.proc[c[1]], c[2])), t, "WAITING")

NCDModuleProcess_Interp_Terminated(s, t) ==
    LET c == Caller[t]
    IN  SetCall(statement_instance_func_event(s, c[1], EventDead(s.proc[c[1]], c[2], FALSE)), t, NULL)

\* The process is put to work without its work job being set.
NCDModuleProcess_Continue_NoWork(s, t) == SetCall(SetState(s, t, "WORKING"), t, "WORKING")

\* process_moduleprocess_func_event, from func_clean and func_die of call2.c.
NCDModuleProcess_Continue(s, t) == SetCall(SetState(SetWork(s, t), t, "WORKING"), t, "WORKING")
NCDModuleProcess_Terminate(s, t) == SetCall(process_start_terminating(s, t), t, "TERMINATING")

\* func_new_templ: no template (STATE_NONE), a new process, or the failure to make one.
func_new_templ(s, p, i, t) ==
    {SetCall(statement_instance_func_event(s, p, EventUp(s.proc[p], i)), t, "NONE"),
     SetCall(SetProc(SetWork(s, t), t, process_new(Len(Program[t]))), t, "WORKING"),
     statement_instance_func_event(s, p, EventDead(s.proc[p], i, TRUE))}

\* NCDModuleInst_Die, with func_die of call2.c.
NCDModuleInst_Die(s, p, i) ==
    LET k == Program[p][i]
        q == Dying(s.proc[p], i)
        dead == statement_instance_func_event(s, p, EventDead(q, i, FALSE))
    IN  IF k \in Templates
        THEN IF s.call[k] = "NONE" THEN SetCall(dead, k, NULL)
             ELSE NCDModuleProcess_Terminate(SetProc(s, p, q), k)
        ELSE IF k = "nodie" THEN dead ELSE SetProc(s, p, q)

\* NCDModuleInst_Clean, with func_clean of call2.c.
NCDModuleInst_Clean(s, p, i) ==
    LET k == Program[p][i]
        cleaned == SetProc(s, p, Cleaned(s.proc[p], i))
    IN  IF i \in s.proc[p].unclean /\ k \in Templates /\ s.call[k] = "WAITING"
        THEN NCDModuleProcess_Continue(cleaned, k) ELSE cleaned

\* process_advance: resolving the module or evaluating the arguments can fail.
process_advance(s, p) ==
    LET q == s.proc[p]
        i == q.ap + 1
        advanced == SetProc(s, p, Advanced(q))
    IN  {SetProc(SetWork(s, p), p, [q EXCEPT !.error = TRUE])} \cup
        (IF Program[p][i] \in Templates THEN func_new_templ(advanced, p, i, Program[p][i])
         ELSE {advanced})

----------------------------------------------------------------------------
\* The work job's handlers.
process_work_job_handler_working(s, p) ==
    LET q == s.proc[p]
    IN  CASE q.ap < q.fp ->
               {IF q.st[q.fp] = "DYING" THEN s ELSE NCDModuleInst_Die(s, p, q.fp)}
          [] q.ap = q.fp /\ process_have_child(q) ->
               {NCDModuleInst_Clean(s, p, q.ap)}
          [] q.ap = q.fp /\ ~process_have_child(q) /\ q.ap = Len(Program[p]) ->
               LET up == SetState(s, p, "UP")
               IN  {IF p \in Templates THEN NCDModuleProcess_Interp_Up(up, p) ELSE up}
          [] OTHER ->
               IF q.error THEN {SetProc(s, p, [q EXCEPT !.error = FALSE, !.timer = TRUE])}
               ELSE process_advance(s, p)

\* A template goes down without waiting for its caller.
process_work_job_handler_up_NoPause(s, p) ==
    process_work_job_handler_working(SetState(s, p, "WORKING"), p)

process_work_job_handler_up(s, p) ==
    IF p \in Templates
    THEN {NCDModuleProcess_Interp_Down(SetState(s, p, "WAITING"), p)}
    ELSE process_work_job_handler_working(SetState(s, p, "WORKING"), p)

process_work_job_handler_waiting(s, p) == {s}

\* The process is freed without its creator being told.
process_end_Silent(s, p) ==
    IF s.terminating /\ Living(s) = {p} THEN [SetProc(s, p, NULL) EXCEPT !.finished = TRUE]
    ELSE SetProc(s, p, NULL)

\* process_free, and what the terminating handler does after it.
process_end(s, p) ==
    LET freed == SetProc(s, p, NULL)
    IN  IF s.terminating /\ Living(s) = {p} THEN [freed EXCEPT !.finished = TRUE]
        ELSE IF p \in Templates THEN NCDModuleProcess_Interp_Terminated(freed, p) ELSE freed

process_work_job_handler_terminating(s, p) ==
    LET k == LastToWaitFor(s.proc[p], {i \in Statements(p) : Program[p][i] = "nodie"})
        q == FreedAfter(s.proc[p], k)
        t == SetProc(s, p, q)
    IN  {CASE k = 0 -> process_end(t, p)
           [] k > 0 /\ q.st[k] = "DYING" -> t
           [] OTHER -> NCDModuleInst_Die(SetProc(t, p, [q EXCEPT !.ap = AtMost(@, k - 1)]), p, k)}

work_job_handler(s, p) ==
    CASE s.proc[p].state = "WORKING" -> process_work_job_handler_working(s, p)
      [] s.proc[p].state = "UP" -> process_work_job_handler_up(s, p)
      [] s.proc[p].state = "WAITING" -> process_work_job_handler_waiting(s, p)
      [] s.proc[p].state = "TERMINATING" -> process_work_job_handler_terminating(s, p)
----------------------------------------------------------------------------
\* The reactor runs the newest job.
RunJob ==
    /\ interp.jobs # <<>> /\ ~interp.finished
    /\ interp' \in work_job_handler([interp EXCEPT !.jobs = Tail(@)], Head(interp.jobs))

\* process_wait_timer_handler: timers are looked at when no job is left.
WaitTimer(p) ==
    /\ interp.jobs = <<>> /\ p \in Living(interp) /\ interp.proc[p].timer
    /\ LET q == [interp.proc[p] EXCEPT !.timer = FALSE]
           s == SetProc(interp, p, q)
       IN  IF q.ap # q.fp \/ process_have_child(q) \/ q.ap = Len(Program[p]) THEN interp' = s
           ELSE interp' \in process_advance(s, p)

\* start_terminate, from NCDInterpreter_RequestShutdown or a module's InterpExit:
\* process_start_terminating for the processes that are not templates, in the
\* order of the program, which is left open here.  Their jobs go before those
\* of the templates.
Shutdown ==
    /\ ~interp.terminating /\ ~interp.finished
    /\ LET mains == Living(interp) \ Templates
           old == {p \in Procs : BSmallPending_IsSet(interp.jobs, p)}
           s == [interp EXCEPT !.terminating = TRUE]
       IN  IF Living(interp) = {} THEN interp' = [s EXCEPT !.finished = TRUE]
           ELSE \E jobs \in Orders(mains \cup old) :
                  /\ \A p \in mains, q \in old \ mains : Before(jobs, p, q)
                  /\ \A p, q \in old \ mains : Before(jobs, p, q) <=> Before(interp.jobs, p, q)
                  /\ interp' = [s EXCEPT
                         !.jobs = jobs,
                         !.proc = [p \in Procs |-> IF p \in mains
                                                   THEN [@[p] EXCEPT !.state = "TERMINATING"]
                                                   ELSE @[p]]]

\* What a module other than call() does of itself: the instance of statement i of
\* process p, in one of the given statement states, reports an event.
Module(p, i, states) ==
    /\ ~interp.finished /\ p \in Living(interp)
    /\ Program[p][i] \notin Templates /\ interp.proc[p].st[i] \in states

ModuleUp(p, i) ==
    /\ Module(p, i, {"CHILD"})
    /\ interp' = statement_instance_func_event(interp, p, EventUp(interp.proc[p], i))
ModuleDown(p, i) ==
    /\ Module(p, i, {"ADULT"})
    /\ interp' = statement_instance_func_event(interp, p, EventDown(interp.proc[p], i))
ModuleDownUp(p, i) ==
    /\ Module(p, i, {"ADULT"})
    /\ interp' = statement_instance_func_event(interp, p, EventDownUp(interp.proc[p], i))
ModuleDead(p, i) ==
    /\ Module(p, i, {"CHILD", "ADULT"})
    /\ \E is_error \in BOOLEAN :
         interp' = statement_instance_func_event(interp, p, EventDead(interp.proc[p], i, is_error))
\* The module was told to die, and has done so.
ModuleDied(p, i) ==
    /\ Module(p, i, {"DYING"})
    /\ \E is_error \in BOOLEAN :
         interp' = statement_instance_func_event(interp, p, EventDead(interp.proc[p], i, is_error))

\* handler_finished has ended the program.
Finished == interp.finished /\ UNCHANGED vars

ModuleNext(p, i) ==
    \/ ModuleUp(p, i) \/ ModuleDown(p, i) \/ ModuleDownUp(p, i) \/ ModuleDead(p, i)
    \/ ModuleDied(p, i)
Next ==
    \/ RunJob \/ Shutdown \/ Finished
    \/ \E p \in Procs : WaitTimer(p) \/ \E i \in Statements(p) : ModuleNext(p, i)

Spec == Init /\ [][Next]_vars

\* A module that was told to die does so.  That the reactor runs its jobs is part
\* of Drains below.
FairSpec ==
    /\ Spec
    /\ \A c \in {c \in Calls : IsCall(c, "die")} : WF_vars(ModuleDied(c[1], c[2]))

----------------------------------------------------------------------------
\* In every process AP and FP are where process_assert_pointers expects them,
\* after any events in any order.
Pointers == TypeOK /\ \A p \in Living(interp) : PointersOK(interp.proc[p])

\* A call() instance, the statement that holds it and the process it runs are
\* always in matching states, so neither side ever reports an event that the
\* other one does not expect (the asserts on the states of NCDModuleProcess).
\* While the called process works or ends, no statement exists after the call.
CallMirrorsTemplate ==
    \A t \in Templates :
        LET c == Caller[t]
            state == interp.call[t]
        IN  /\ state \in {NULL, "NONE"} <=> t \notin Living(interp)
            /\ t \in Living(interp) => state = interp.proc[t].state
            /\ state # NULL =>
                 /\ c[1] \in Living(interp)
                 /\ interp.proc[c[1]].st[c[2]] =
                      CASE state \in {"WORKING", "WAITING"} -> "CHILD"
                        [] state \in {"UP", "NONE"} -> "ADULT"
                        [] state = "TERMINATING" -> "DYING"
                 /\ state = "WAITING" <=> c[2] \in interp.proc[c[1]].unclean
                 /\ state \in {"WORKING", "TERMINATING"} => interp.proc[c[1]].fp = c[2]

\* When no job is left, no process has been forgotten: each waits for a dying
\* statement, a child that has been told of the clean state, its retry timer or
\* the process that called it, or it is up with all its statements.
NothingStuck ==
    interp.jobs = <<>> =>
        /\ interp.terminating /\ Living(interp) = {} => interp.finished
        /\ \A p \in Living(interp) :
             LET q == interp.proc[p]
                 dying == q.ap < q.fp /\ q.st[q.fp] = "DYING"
             IN  CASE q.state = "WORKING" ->
                        \/ dying
                        \/ q.ap = q.fp /\ process_have_child(q) /\ q.ap \notin q.unclean
                        \/ /\ q.ap = q.fp /\ ~process_have_child(q)
                           /\ q.ap < Len(Program[p]) /\ q.timer /\ ~q.error
                   [] q.state = "UP" -> q.ap = Len(Program[p]) /\ ~process_have_child(q)
                   [] q.state = "WAITING" -> interp.call[p] = "WAITING"
                   [] q.state = "TERMINATING" -> dying

\* The timer of process p has expired and process_advance is about to be called.
Retries(p) ==
    LET q == interp.proc[p]
    IN  /\ interp.jobs = <<>> /\ q.timer
        /\ q.ap = q.fp /\ ~process_have_child(q) /\ q.ap < Len(Program[p])

\* When process_wait_timer_handler advances one of these processes, it is working and
\* has no error (the asserts at the beginning of process_advance).  True of the
\* processes that are not templates.
RetriesSafe(procs) ==
    \A p \in Living(interp) \cap procs :
        Retries(p) => interp.proc[p].state = "WORKING" /\ ~interp.proc[p].error

\* What the comment in process_wait_timer_handler says of every process: "Note: the
\* asserts for this are indeed satisfied, though this it not trivial to prove."
\* A template may have gone down, and be waiting for its caller, when a timer set
\* before that expires.
RetryAsserts == RetriesSafe(Procs)

\* Statement i of process p is initialised, or ended by the interpreter, in this
\* step.  A statement without func_die, and a call() of nothing, is gone at once.
Begins(p, i) == interp.proc[p].st[i] = "FORGOTTEN" /\ interp'.proc[p].st[i] # "FORGOTTEN"
Ends(p, i) ==
    /\ interp.proc[p].st[i] \in {"CHILD", "ADULT"}
    /\ \/ interp'.proc[p].st[i] = "DYING"
       \/ RunJob /\ interp'.proc[p].st[i] = "FORGOTTEN"

\* Statements live like a stack: one is initialised when all before it are up, and
\* the interpreter ends it, by func_die or at once, when all after it are gone.
\* For the statements of a called template, those after the call() are gone too,
\* except while the template is waiting for permission to continue.  (A module may
\* die by itself at any time; that is not the interpreter's doing.)
LikeAStack ==
    [][\A p \in Living(interp) : p \in Living(interp)' => \A i \in Statements(p) :
         LET q == interp'.proc[p]
         IN  Begins(p, i) \/ Ends(p, i) =>
               /\ \A j \in Statements(p) : j > i => q.st[j] = "FORGOTTEN"
               /\ Begins(p, i) => \A j \in 1..(i - 1) : q.st[j] = "ADULT"
               /\ p \in Templates /\ q.state # "WAITING" =>
                    interp'.proc[Caller[p][1]].fp = Caller[p][2]]_vars

\* The reactor runs its jobs, and modules do not keep it busy with jobs for ever.
Drains == []<>(interp.jobs = <<>>)

\* A shutdown comes to its end.
ShutdownFinishes == Drains => (interp.terminating ~> interp.finished)

\* A template that is paused after it went down is allowed to continue or told to
\* terminate: its caller's later statements die, and the call() statement is told
\* of the clean state (the comment on NCDMODULE_EVENT_DOWN asks for this).
PauseEnds ==
    Drains => \A t \in Templates : interp.call[t] = "WAITING" ~> interp.call[t] # "WAITING"
=============================================================================
