------------------------ MODULE NCDInterpreterProofs ------------------------
(***************************************************************************)
(* Every action of NCDInterpreter keeps the invariant, for every program:  *)
(* any number of processes and statements, and calls nested to any depth.  *)
(***************************************************************************)
EXTENDS NCDInterpreterHandlers

\* The next statement is initialised, or is not because something failed.
LEMMA AdvanceDone ==
  ASSUME NEW s, NEW p \in Procs, Ready(s, p), s.proc[p].ap = s.proc[p].fp,
         ~process_have_child(s.proc[p]), s.proc[p].ap < Size(p),
         s.proc[p].state \notin {"UP", "TERMINATING"}, NEW u \in process_advance(s, p)
  PROVE  Done(s, u)
<1> DEFINE n == Size(p)
           q == s.proc[p]
           i == q.ap + 1
           d == Advanced(q)
           a == SetProc(s, p, d)
           t == Program[p][i]
           f == [q EXCEPT !.error = TRUE]
<1>1. /\ Sound(s) /\ q # NULL /\ Tidy(n, q) /\ n \in Nat /\ DOMAIN q.st = 1..n /\ q \in Process(n)
      /\ DOMAIN s.proc = Procs
  BY ReadyFacts
<1>2. \/ u = SetProc(SetWork(s, p), p, f)
      \/ t \in Templates /\ u \in func_new_templ(a, p, i, t)
      \/ t \notin Templates /\ u = a
  BY DEF process_advance
<1> HIDE DEF n, q, i, f
<1>3. /\ Changed(n, q, d, i, "CHILD") /\ i \in 1..n /\ q.st[i] = "FORGOTTEN"
      /\ i \notin d.unclean /\ d.fp = i /\ d.ap = i
      /\ \A j \in 1..(i - 1) : d.st[j] = "ADULT"
  BY <1>1, AdvancedChanges DEF n, q, i
<1> HIDE DEF d
<1>4. Tidy(n, d) /\ d.st[i] = "CHILD" /\ d.state = q.state BY <1>1, <1>3 DEF Changed
<1>5. StackStep(q, d) BY <1>1, <1>3, <1>4, ChangedStack DEF q
<1>6. Quiet(n, d) BY <1>3, <1>4 DEF Quiet, process_have_child, q
<1>7. a.proc[p] = d BY <1>1 DEF SetProc, Sound
<1> HIDE DEF t, a
<1>8. CASE u = SetProc(SetWork(s, p), p, f)
  <2>1. /\ f \in Process(n) /\ f.state = q.state /\ f.st = q.st /\ f.unclean = q.unclean
        /\ f.ap = q.ap /\ f.fp = q.fp
    BY <1>1, Zenon DEF f, Process
  <2>2. Tidy(n, f) /\ (\A j \in 1..n : Kept(q, f, j)) /\ StackStep(q, f)
    BY <1>1, <2>1, SameStatements
  <2>3. CallsKept(p, q, f) BY <2>2 DEF CallsKept, n
  <2>4. QED BY <1>8, <2>1, <2>2, <2>3, EventDone DEF statement_instance_func_event, n, q
<1>9. CASE t \notin Templates /\ u = a
  <2>1. CallsKept(p, q, d) BY <1>3, <1>9 DEF CallsKept, Changed, n, t
  <2>2. QED BY <1>4, <1>5, <1>6, <1>9, <2>1, QuietDone DEF n, q, a
<1>10. CASE t \in Templates /\ u \in func_new_templ(a, p, i, t)
  <2>1. /\ p = Caller[t][1] /\ i = Caller[t][2] /\ p # t /\ t \in Procs
        /\ s.call[t] = NULL /\ Mirror(s.call[t], s.proc[t], q, i)
    <3>1. i \in 1..Size(p) BY <1>3, Zenon DEF n
    <3>2. QED BY ONLY p \in Procs, <1>1, <1>3, <1>10, <3>1, OwnCalls, SMTT(30) DEF q, t
  <2>2. s.proc[t] = NULL BY <2>1, Zenon DEF Mirror
  <2> DEFINE e1 == EventUp(d, i)
             e2 == EventDead(d, i, TRUE)
             r == process_new(Len(Program[t]))
  <2>3. \/ u = SetCall(statement_instance_func_event(a, p, e1), t, "NONE")
        \/ u = SetCall(SetProc(SetWork(a, t), t, r), t, "WORKING")
        \/ u = statement_instance_func_event(a, p, e2)
    BY <1>7, <1>10, Zenon DEF func_new_templ
  <2>4. "NONE" # NULL /\ "WORKING" # NULL BY ProgramAssumption DEF CStates
  <2>5. d # NULL BY <1>4, ProgramFacts DEF Tidy, n
  <2>6. CASE u = SetCall(statement_instance_func_event(a, p, e1), t, "NONE")
    <3>1. Changed(n, d, e1, i, "ADULT") /\ i \notin e1.unclean BY <1>1, <1>3, <1>4, EventUpChanges, Zenon
    <3> HIDE DEF e1
    <3>2. Changed(n, q, e1, i, "ADULT") BY <1>1, <1>3, <3>1, ChangedTwice
    <3>3. StackStep(q, e1)
      <4>1. /\ Tidy(n, e1) /\ e1.state = d.state /\ e1.st = [d.st EXCEPT ![i] = "ADULT"]
            /\ DOMAIN d.st = 1..n /\ DOMAIN e1.st = 1..n
        BY <1>4, <3>1 DEF Changed, Tidy, Process
      <4>2. e1.fp <= i
        <5>1. \A j \in 1..n : j > i => e1.st[j] = "FORGOTTEN"
          BY <1>1, <1>3, <1>4, <4>1 DEF Tidy, PointersOK
        <5>2. QED BY <1>1, <1>3, <4>1, <5>1 DEF Tidy, PointersOK, Process
      <4>3. \A j \in 1..(i - 1) : e1.st[j] = "ADULT" BY <1>1, <1>3, <4>1
      <4>4. e1.state # "UP" BY <1>4, <4>1 DEF q
      <4>5. QED BY <1>1, <1>3, <3>2, <4>2, <4>3, <4>4, ChangedStack
    <3>4. Joined(s, u, t, e1, NULL, "NONE", BSmallPending_Set(s.jobs, p))
      BY <1>1, <1>10, <2>1, <2>2, <2>6, JoinedEvent, Zenon DEF a
    <3>5. e1 # NULL /\ e1.st[i] = "ADULT"
      BY <1>1, <1>3, <3>2, ProgramFacts DEF Changed, Tidy, n
    <3>6. Mirror("NONE", NULL, e1, i) BY <2>4, <3>1, <3>5 DEF Mirror
    <3>7. OwnKept(s, t, NULL) BY <1>1, <2>1, <2>2, OwnKeptNew
    <3>8. JoinOK(s, t, p, i, e1, NULL, "NONE")
      BY <1>1, <1>10, <2>1, <3>2, <3>6, <3>7, Zenon DEF JoinOK, CStates, n, q
    <3>9. QED BY <2>2, <3>3, <3>4, <3>8, EventJoinedDone, Zenon DEF q
  <2>7. CASE u = SetCall(SetProc(SetWork(a, t), t, r), t, "WORKING")
    <3>1. /\ Tidy(Size(t), r) /\ r.state = "WORKING" /\ \A j \in 1..Size(t) : r.st[j] = "FORGOTTEN"
      BY <2>1, NewFacts, ProgramFacts DEF Size
    <3> HIDE DEF r
    <3>2. r # NULL BY <2>1, <3>1, ProgramFacts, Zenon DEF Tidy
    <3>3. Joined(s, u, t, d, r, "WORKING", BSmallPending_Set(s.jobs, t))
      BY <1>1, <1>10, <2>1, <2>7, JoinedState, Zenon DEF a
    <3>4. Mirror("WORKING", r, d, i) BY <1>3, <1>4, <2>4, <2>5, <3>1, <3>2 DEF Mirror
    <3>5. OwnKept(s, t, r) BY <1>1, <2>1, <2>2, <3>1, OwnKeptNew, Zenon
    <3>6. JoinOK(s, t, p, i, d, r, "WORKING")
      BY <1>1, <1>3, <1>10, <2>1, <3>1, <3>4, <3>5, Zenon DEF JoinOK, CStates, n, q
    <3>7. u.proc[p] = d BY <2>1, <3>3, Zenon DEF Joined
    <3>8. QED BY <1>5, <1>6, <2>1, <2>2, <3>2, <3>3, <3>6, <3>7, JoinedDone, Zenon DEF n, q
  <2>8. CASE u = statement_instance_func_event(a, p, e2)
    <3>1. Changed(n, d, e2, i, "FORGOTTEN") BY <1>1, <1>3, <1>4, EventDeadChanges, Zenon
    <3> HIDE DEF e2
    <3>2. Changed(n, q, e2, i, "FORGOTTEN") BY <1>1, <1>3, <3>1, ChangedTwice
    <3>3. StackStep(q, e2) BY <1>1, <1>3, <3>2, ChangedStack
    <3>4. Joined(s, SetCall(u, t, NULL), t, e2, NULL, NULL, BSmallPending_Set(s.jobs, p))
      BY <1>1, <1>10, <2>1, <2>2, <2>8, JoinedEvent, Zenon DEF a
    <3>5. s.call \in [Templates -> CStates \cup {NULL}] BY <1>1, Zenon DEF Sound
    <3>6. u.call = s.call /\ DOMAIN u = DOMAIN s
      BY <1>1, <2>8 DEF statement_instance_func_event, SetWork, SetProc, a, Sound
    <3>7. [s.call EXCEPT ![t] = NULL] = s.call BY <1>10, <2>1, <3>5
    <3>8. Joined(s, u, t, e2, NULL, NULL, BSmallPending_Set(s.jobs, p))
      BY <1>1, <3>4, <3>6, <3>7 DEF Joined, SetCall, Sound
    <3>9. e2.st[i] = "FORGOTTEN" BY <1>1, <1>3, <3>2 DEF Changed
    <3>10. Mirror(NULL, NULL, e2, i) BY <3>9, MirrorNull
    <3>11. OwnKept(s, t, NULL) BY <1>1, <2>1, <2>2, OwnKeptNew
    <3>12. JoinOK(s, t, p, i, e2, NULL, NULL)
      BY <1>1, <1>10, <2>1, <3>2, <3>10, <3>11, Zenon DEF JoinOK, n, q
    <3>13. QED BY <2>2, <3>3, <3>8, <3>12, EventJoinedDone DEF q
  <2>9. QED BY <2>3, <2>6, <2>7, <2>8, Zenon
<1>11. QED BY <1>2, <1>8, <1>9, <1>10

\* A handler that changes nothing.
LEMMA NothingDone ==
  ASSUME NEW s, NEW p \in Procs, Ready(s, p), Quiet(Size(p), s.proc[p])
  PROVE  Done(s, s)
<1>1. \A q : StackStep(q, q) BY DEF StackStep
<1>2. QED BY <1>1 DEF Ready, Done, Settled, Stack, Awake

\* process_work_job_handler_working leaves all as it should be.
LEMMA WorkingDone ==
  ASSUME NEW s, NEW p \in Procs, Ready(s, p), s.proc[p].state = "WORKING",
         NEW u \in process_work_job_handler_working(s, p)
  PROVE  Done(s, u)
<1> DEFINE n == Size(p)  q == s.proc[p]
<1>1. /\ Sound(s) /\ q # NULL /\ Tidy(n, q) /\ n \in Nat /\ DOMAIN q.st = 1..n /\ q \in Process(n)
  BY ReadyFacts
<1>2. q.ap \in 0..n /\ q.fp \in 0..n /\ q.ap <= q.fp BY <1>1 DEF Tidy, PointersOK, Process
<1>3. CASE q.ap < q.fp
  <2>1. u = IF q.st[q.fp] = "DYING" THEN s ELSE NCDModuleInst_Die(s, p, q.fp)
    BY <1>2, <1>3 DEF process_work_job_handler_working
  <2>2. CASE q.st[q.fp] = "DYING"
    <3>1. Quiet(n, q) BY <1>3, <2>2 DEF Quiet
    <3>2. QED BY <2>1, <2>2, <3>1, NothingDone
  <2>3. CASE q.st[q.fp] # "DYING"
    <3>1. Done(s, NCDModuleInst_Die(s, p, q.fp)) BY <1>3, <2>3, DieDone
    <3>2. QED BY <2>1, <2>3, <3>1
  <2>4. QED BY <2>2, <2>3
<1>4. CASE q.ap = q.fp /\ process_have_child(q)
  <2>1. u = NCDModuleInst_Clean(s, p, q.ap) BY <1>2, <1>4 DEF process_work_job_handler_working
  <2>2. QED BY <1>4, <2>1, CleanDone
<1>5. CASE q.ap = q.fp /\ ~process_have_child(q) /\ q.ap = n
  <2>1. u = IF p \in Templates THEN NCDModuleProcess_Interp_Up(SetState(s, p, "UP"), p)
            ELSE SetState(s, p, "UP")
    BY <1>2, <1>5 DEF process_work_job_handler_working, Size
  <2>2. CASE p \in Templates BY <1>5, <2>1, <2>2, InterpUpDone
  <2>3. CASE p \notin Templates
    <3> DEFINE r == [q EXCEPT !.state = "UP"]
    <3>1. "UP" \in PStates BY DEF PStates
    <3>2. /\ Tidy(n, r) /\ r.state = "UP" /\ r.st = q.st /\ r.ap = q.ap /\ CallsKept(p, q, r)
          /\ StackStep(q, r)
      BY ONLY p \in Procs, <1>1, <3>1, ToState
    <3>3. u = SetProc(s, p, r) BY <2>1, <2>3 DEF SetState
    <3> HIDE DEF r
    <3>4. Quiet(n, r) BY <1>5, <3>2 DEF Quiet, process_have_child
    <3>5. QED BY <2>3, <3>2, <3>3, <3>4, QuietDone
  <2>4. QED BY <2>2, <2>3
<1>6. CASE q.ap = q.fp /\ ~process_have_child(q) /\ q.ap # n
  <2>1. u \in IF q.error THEN {SetProc(s, p, [q EXCEPT !.error = FALSE, !.timer = TRUE])}
              ELSE process_advance(s, p)
    BY <1>2, <1>6 DEF process_work_job_handler_working, Size
  <2>2. q.ap < n BY <1>1, <1>2, <1>6
  <2>3. CASE q.error
    <3> DEFINE r == [q EXCEPT !.error = FALSE, !.timer = TRUE]
    <3>1. /\ r \in Process(n) /\ r.state = q.state /\ r.st = q.st /\ r.unclean = q.unclean
          /\ r.ap = q.ap /\ r.fp = q.fp /\ ~r.error /\ r.timer
      BY <1>1, Zenon DEF Process
    <3>2. u = SetProc(s, p, r) BY <2>1, <2>3
    <3> HIDE DEF r
    <3>3. Tidy(n, r) /\ (\A j \in 1..n : Kept(q, r, j)) /\ StackStep(q, r)
      BY ONLY <1>1, <3>1, SameStatements
    <3>4. Quiet(n, r) BY <1>6, <2>2, <3>1, Zenon DEF Quiet, process_have_child
    <3>5. CallsKept(p, q, r) BY <3>3 DEF CallsKept
    <3>6. QED BY <3>1, <3>2, <3>3, <3>4, <3>5, QuietDone
  <2>4. CASE ~q.error BY <1>6, <2>1, <2>2, <2>4, AdvanceDone
  <2>5. QED BY <2>3, <2>4
<1>7. QED BY <1>2, <1>3, <1>4, <1>5, <1>6

\* So does process_work_job_handler_up.
LEMMA UpDone ==
  ASSUME NEW s, NEW p \in Procs, Ready(s, p), s.proc[p].state = "UP",
         NEW u \in process_work_job_handler_up(s, p)
  PROVE  Done(s, u)
<1>1. CASE p \in Templates BY <1>1, InterpDownDone DEF process_work_job_handler_up
<1>2. CASE p \notin Templates
  <2> DEFINE q == s.proc[p]
             r == [q EXCEPT !.state = "WORKING"]
             v == SetProc(s, p, r)
  <2>1. Sound(s) /\ q # NULL BY ReadyFacts
  <2>2. "WORKING" \in PStates BY DEF PStates
  <2>3. Tidy(Size(p), r) /\ r.state = "WORKING" /\ r.st = q.st /\ CallsKept(p, q, r)
    BY ONLY p \in Procs, <2>1, <2>2, ToState
  <2>4. u \in process_work_job_handler_working(v, p)
    BY <1>2 DEF process_work_job_handler_up, SetState
  <2> HIDE DEF r
  <2>5. Ready(v, p) /\ v.proc[p] = r /\ \A y \in Procs : y # p => v.proc[y] = s.proc[y]
    BY <1>2, <2>3, StillReady
  <2> HIDE DEF v
  <2>6. Done(v, u) BY <2>3, <2>4, <2>5, WorkingDone
  <2>7. Stack(s, u)
    <3>1. \A w : StackStep(r, w) => StackStep(q, w) BY <2>3, SMTT(30) DEF StackStep
    <3>2. r # NULL BY <2>5 DEF Ready
    <3>3. QED BY <2>5, <2>6, <3>1, <3>2 DEF Done, Stack
  <2>8. QED BY <2>6, <2>7 DEF Done
<1>3. QED BY <1>1, <1>2

\* A process that nobody called and that has no statements can go.
LEMMA FreeSound ==
  ASSUME NEW s, Sound(s), NEW p \in Procs, p \notin Templates, s.proc[p] # NULL,
         \A j \in 1..Size(p) : s.proc[p].st[j] = "FORGOTTEN", ~BSmallPending_IsSet(s.jobs, p),
         NEW u, DOMAIN u = DOMAIN s, u.proc = [s.proc EXCEPT ![p] = NULL], u.call = s.call,
         u.jobs = s.jobs, u.terminating = s.terminating, u.finished \in BOOLEAN
  PROVE  Sound(u)
<1>1. /\ DOMAIN s.proc = Procs /\ DOMAIN u.proc = Procs /\ u.proc[p] = NULL
      /\ \A y \in Procs : y # p => u.proc[y] = s.proc[y]
  BY DEF Sound
<1>2. ASSUME NEW t \in Templates
      PROVE  Mirror(u.call[t], u.proc[t], u.proc[Caller[t][1]], Caller[t][2])
  <2> DEFINE d == Caller[t][1]  j == Caller[t][2]
  <2>1. /\ t \in Procs /\ d \in Procs /\ d # t /\ j \in 1..Size(d) /\ Program[d][j] = t
    BY CallerFacts
  <2>2. Mirror(s.call[t], s.proc[t], s.proc[d], j) BY DEF Sound
  <2> HIDE DEF d, j
  <2>3. u.proc[t] = s.proc[t] BY <1>1, <2>1
  <2>4. CASE d = p
    <3>1. s.call[t] = NULL BY <2>1, <2>4, OwnCalls
    <3>2. s.proc[t] = NULL BY <2>2, <3>1 DEF Mirror
    <3>3. Mirror(NULL, NULL, u.proc[d], j) BY <1>1, <2>4, MirrorNull
    <3>4. QED BY <2>3, <3>1, <3>2, <3>3 DEF d, j
  <2>5. CASE d # p BY <1>1, <2>1, <2>2, <2>3, <2>5 DEF d, j
  <2>6. QED BY <2>4, <2>5
<1>3. \A y \in Procs : u.proc[y] # NULL =>
         Tidy(Size(y), u.proc[y]) /\ (u.proc[y].state = "WAITING" => y \in Templates)
  BY <1>1 DEF Sound
<1>4. \A y \in Procs : BSmallPending_IsSet(u.jobs, y) => u.proc[y] # NULL BY <1>1 DEF Sound
<1>5. QED BY <1>1, <1>2, <1>3, <1>4 DEF Sound

\* The process has no statements left.
LEMMA EndDone ==
  ASSUME NEW s, NEW p \in Procs, Ready(s, p), s.proc[p].state = "TERMINATING",
         \A j \in 1..Size(p) : s.proc[p].st[j] = "FORGOTTEN", ~BSmallPending_IsSet(s.jobs, p)
  PROVE  Done(s, process_end(s, p)) /\ process_end(s, p).proc[p] = NULL
<1> DEFINE freed == SetProc(s, p, NULL)
           last == s.terminating /\ Living(s) = {p}
           u == process_end(s, p)
<1>1. Sound(s) /\ s.proc[p] # NULL /\ DOMAIN s.proc = Procs BY DEF Ready, Sound
<1>2. ASSUME p \in Templates PROVE Living(s) # {p}
  <2>1. Caller[p][1] \in Procs /\ Caller[p][1] # p /\ s.proc[Caller[p][1]] # NULL
    BY <1>1, <1>2, CalledFacts
  <2>2. QED BY <2>1 DEF Living
<1>3. CASE p \in Templates
  <2>1. u = NCDModuleProcess_Interp_Terminated(freed, p) BY <1>2, <1>3 DEF process_end
  <2>2. QED BY <1>3, <2>1, InterpTerminatedDone
<1>4. CASE p \notin Templates
  <2>1. u = IF last THEN [freed EXCEPT !.finished = TRUE] ELSE freed BY <1>4 DEF process_end
  <2>2. /\ DOMAIN u = DOMAIN s /\ u.proc = [s.proc EXCEPT ![p] = NULL] /\ u.call = s.call
        /\ u.jobs = s.jobs /\ u.terminating = s.terminating
        /\ u.finished = IF last THEN TRUE ELSE s.finished
    BY <1>1, <2>1 DEF SetProc, Sound
  <2> HIDE DEF u
  <2>3. u.finished \in BOOLEAN BY <1>1, <2>2, Zenon DEF Sound
  <2>4. Sound(u) BY <1>1, <1>4, <2>2, <2>3, FreeSound, Zenon
  <2>5. u.proc[p] = NULL /\ \A y \in Procs : y # p => u.proc[y] = s.proc[y] BY <1>1, <2>2
  <2>6. ~s.finished BY <1>1 DEF Ready, EndSeen
  <2>7. (\A y \in Procs : u.proc[y] = NULL) <=> Living(s) = {p} BY <1>1, <2>5 DEF Living
  <2>8. EndSeen(u) BY <2>2, <2>6, <2>7 DEF EndSeen
  <2>9. \A y \in Procs : Awake(u, y) BY <2>2, <2>5 DEF Awake, Ready
  <2>10. Stack(s, u)
    <3>1. \A q : StackStep(q, q) BY DEF StackStep
    <3>2. QED BY <2>5, <3>1 DEF Stack
  <2>11. QED BY <2>4, <2>5, <2>8, <2>9, <2>10 DEF Done, Settled, u
<1>5. QED BY <1>3, <1>4

\* process_work_job_handler_terminating leaves all as it should be.
LEMMA TerminatingDone ==
  ASSUME NEW s, NEW p \in Procs, Ready(s, p), s.proc[p].state = "TERMINATING",
         ~BSmallPending_IsSet(s.jobs, p), NEW u \in process_work_job_handler_terminating(s, p)
  PROVE  Done(s, u)
<1> DEFINE n == Size(p)
           q == s.proc[p]
           nodie == {i \in Statements(p) : Program[p][i] = "nodie"}
           k == LastToWaitFor(q, nodie)
           r == FreedAfter(q, k)
           t == SetProc(s, p, r)
           a == AtMost(r.ap, k - 1)
           l == [r EXCEPT !.ap = a]
<1>1. /\ Sound(s) /\ q # NULL /\ Tidy(n, q) /\ n \in Nat /\ DOMAIN q.st = 1..n /\ q \in Process(n)
  BY ReadyFacts
<1>2. u = CASE k = 0 -> process_end(t, p)
            [] k > 0 /\ r.st[k] = "DYING" -> t
            [] OTHER -> NCDModuleInst_Die(SetProc(t, p, [r EXCEPT !.ap = AtMost(@, k - 1)]), p, k)
  BY SMTT(30) DEF process_work_job_handler_terminating
<1>3. \A i \in 1..n : Program[p][i] \in Templates => i \notin nodie BY CallerFacts
<1> HIDE DEF n, q, nodie
<1>4. ToWaitFor(q, nodie, k) BY <1>1, LastToWaitForFacts
<1> HIDE DEF k
<1>5. /\ Tidy(n, r) /\ r.state = q.state /\ r.fp = k /\ k \in 0..n
      /\ k > 0 => r.st[k] # "FORGOTTEN"
      /\ \A j \in 1..n : j > k => r.st[j] = "FORGOTTEN"
      /\ \A j \in 1..n : j \notin nodie => Kept(q, r, j)
      /\ \A j \in 1..n : j <= k => r.st[j] = q.st[j]
  BY <1>1, <1>4, FreedChanges
<1> HIDE DEF r
<1>6. CallsKept(p, q, r) BY <1>3, <1>5 DEF CallsKept, n
<1>7. Ready(t, p) /\ t.proc[p] = r /\ (\A y \in Procs : y # p => t.proc[y] = s.proc[y]) /\ t.jobs = s.jobs
  BY <1>5, <1>6, StillReady DEF n, q
<1> HIDE DEF t
<1>8. r # NULL BY <1>7 DEF Ready
<1>9. CASE k = 0
  <2>1. u = process_end(t, p) BY <1>2, <1>9
  <2>2. \A j \in 1..n : r.st[j] = "FORGOTTEN" BY <1>1, <1>5, <1>9
  <2>3. Done(t, u) /\ u.proc[p] = NULL BY <1>5, <1>7, <2>1, <2>2, EndDone DEF n, q
  <2>4. Stack(s, u) BY <1>7, <2>3 DEF Done, Stack
  <2>5. QED BY <2>3, <2>4 DEF Done
<1>10. ASSUME NEW w, StackStep(r, w), Tidy(n, w), w.state # "UP",
              \A j \in 1..n : j > k => w.st[j] = "FORGOTTEN"
       PROVE  StackStep(q, w)
  <2>1. DOMAIN r.st = 1..n BY <1>5 DEF Tidy, Process
  <2>2. SUFFICES ASSUME NEW j \in 1..n,
                        \/ q.st[j] = "FORGOTTEN" /\ w.st[j] # "FORGOTTEN"
                        \/ q.st[j] \in {"CHILD", "ADULT"} /\ w.st[j] \in {"DYING", "FORGOTTEN"}
                 PROVE  /\ w.fp <= j /\ w.state # "UP"
                        /\ q.st[j] = "FORGOTTEN" => \A m \in 1..(j - 1) : w.st[m] = "ADULT"
    BY <1>1 DEF StackStep
  <2>3. CASE j <= k
    <3>1. r.st[j] = q.st[j] BY <1>5, <2>3
    <3>2. QED BY <1>10, <2>1, <2>2, <3>1 DEF StackStep
  <2>4. CASE j > k
    <3>1. q.st[j] # "FORGOTTEN" BY <1>10, <2>2, <2>4
    <3>2. w.fp \in 0..n /\ (w.fp > 0 => w.st[w.fp] # "FORGOTTEN")
      BY <1>1, <1>10 DEF Tidy, PointersOK, Process
    <3>3. w.fp <= k BY <1>1, <1>5, <1>10, <3>2
    <3>4. QED BY <1>1, <1>5, <1>10, <2>4, <3>1, <3>2, <3>3
  <2>5. QED BY <1>1, <1>5, <2>3, <2>4
<1>11. CASE k > 0 /\ r.st[k] = "DYING"
  <2>1. u = t BY <1>2, <1>11
  <2>2. r.ap < k
    <3>1. r.ap \in 0..n /\ r.ap <= k /\ k \in 1..n /\ DOMAIN r.st = 1..n
      BY <1>1, <1>5, <1>11 DEF Tidy, PointersOK, Process
    <3>2. r.ap # k BY <1>5, <1>11, <3>1 DEF Tidy, PointersOK
    <3>3. QED BY <1>1, <3>1, <3>2
  <2>3. Quiet(n, r) BY <1>5, <1>11, <2>2 DEF Quiet, q
  <2>4. StackStep(r, r) BY DEF StackStep
  <2>5. StackStep(q, r) BY <1>5, <1>10, <2>4 DEF q
  <2>6. QED BY <1>5, <1>6, <2>1, <2>3, <2>5, QuietDone DEF n, q, t
<1>12. CASE k > 0 /\ r.st[k] # "DYING"
  <2> DEFINE v == SetProc(t, p, l)
  <2>1. u = NCDModuleInst_Die(v, p, k) BY <1>2, <1>12
  <2>2. r.ap \in 0..n BY <1>5 DEF Tidy, Process
  <2>3. a \in 0..r.ap /\ a < k BY <1>5, <1>12, <2>2 DEF AtMost
  <2> HIDE DEF a
  <2>4. Tidy(n, l) /\ l.state = r.state /\ l.st = r.st /\ l.ap = a /\ l.fp = r.fp /\ l.unclean = r.unclean
    BY <1>1, <1>5, <2>3, APLowered
  <2> HIDE DEF l
  <2>5. CallsKept(p, r, l) BY <2>4 DEF CallsKept, Kept
  <2>6. Ready(v, p) /\ v.proc[p] = l /\ \A y \in Procs : y # p => v.proc[y] = t.proc[y]
    BY <1>7, <2>4, <2>5, StillReady DEF n
  <2> HIDE DEF v
  <2>7. /\ Done(v, u) /\ u.proc[p] # NULL /\ u.proc[p].state # "UP"
        /\ \A j \in 1..n : j > k => u.proc[p].st[j] = "FORGOTTEN"
    BY <1>5, <1>12, <2>1, <2>3, <2>4, <2>6, DieDone DEF n, q
  <2>8. StackStep(q, u.proc[p])
    <3>1. StackStep(l, u.proc[p]) BY <2>6, <2>7 DEF Done, Stack, Ready
    <3>2. StackStep(r, u.proc[p]) BY <2>4, <3>1 DEF StackStep
    <3>3. Tidy(n, u.proc[p]) BY <2>7 DEF Done, Settled, Sound, n
    <3>4. QED BY <1>10, <2>7, <3>2, <3>3
  <2>9. Stack(s, u) BY <1>7, <2>6, <2>7, <2>8 DEF Done, Stack, q
  <2>10. QED BY <2>7, <2>9 DEF Done
<1>13. QED BY <1>5, <1>9, <1>11, <1>12

\* And so does the work job in every state of its process.
LEMMA WorkDone ==
  ASSUME NEW s, NEW p \in Procs, Ready(s, p), ~BSmallPending_IsSet(s.jobs, p),
         NEW u \in work_job_handler(s, p)
  PROVE  Done(s, u)
<1>1. s.proc[p].state \in PStates BY ReadyFacts DEF Process
<1>2. CASE s.proc[p].state = "WORKING" BY <1>2, WorkingDone DEF work_job_handler
<1>3. CASE s.proc[p].state = "UP" BY <1>3, UpDone DEF work_job_handler
<1>4. CASE s.proc[p].state = "WAITING"
  <2>1. Quiet(Size(p), s.proc[p]) BY <1>4 DEF Quiet
  <2>2. u = s BY <1>4 DEF work_job_handler, process_work_job_handler_waiting
  <2>3. QED BY <2>1, <2>2, NothingDone
<1>5. CASE s.proc[p].state = "TERMINATING" BY <1>5, TerminatingDone DEF work_job_handler
<1>6. QED BY <1>1, <1>2, <1>3, <1>4, <1>5 DEF PStates

-----------------------------------------------------------------------------
(* The actions.                                                             *)

\* The lists Init and Shutdown choose from: each member once, and no other.
LEMMA OrderTyped ==
  ASSUME NEW S \in SUBSET Procs, NEW list \in Orders(S)
  PROVE  list \in Seq(S) /\ NoDup(list) /\ \A p : BSmallPending_IsSet(list, p) <=> p \in S
<1>1. Cardinality(S) \in Nat BY ProgramAssumption
<1>2. list \in Seq(S) /\ DOMAIN list = 1..Cardinality(S) BY <1>1 DEF Orders
<1>3. QED BY <1>2 DEF Orders, BSmallPending_IsSet

\* The inductive invariant holds when the program has been set up.
LEMMA InitHolds ==
  ASSUME Init
  PROVE  IInv
<1>1. PICK jobs \in Orders(Procs \ Templates) :
        interp = [proc |-> [p \in Procs |-> IF p \in Templates THEN NULL
                                            ELSE process_new(Len(Program[p]))],
                  call |-> [t \in Templates |-> NULL], jobs |-> jobs,
                  terminating |-> FALSE, finished |-> FALSE]
  BY Zenon DEF Init
<1>2. /\ jobs \in Seq(Procs \ Templates) /\ NoDup(jobs)
      /\ \A p : BSmallPending_IsSet(jobs, p) <=> p \in Procs \ Templates
  BY OrderTyped
<1>3. jobs \in Seq(Procs) BY <1>2
<1>4. /\ DOMAIN interp = {"proc", "call", "jobs", "terminating", "finished"}
      /\ DOMAIN interp.proc = Procs /\ interp.jobs = jobs /\ interp.call = [t \in Templates |-> NULL]
      /\ ~interp.terminating /\ ~interp.finished
      /\ interp.terminating \in BOOLEAN /\ interp.finished \in BOOLEAN
      /\ \A p \in Templates : interp.proc[p] = NULL
      /\ \A p \in Procs \ Templates : interp.proc[p] = process_new(Size(p))
  BY <1>1 DEF Size, Templates
<1>5. ASSUME NEW p \in Procs, p \notin Templates
      PROVE  /\ Tidy(Size(p), interp.proc[p]) /\ interp.proc[p].state = "WORKING"
             /\ interp.proc[p] # NULL
             /\ \A j \in 1..Size(p) : interp.proc[p].st[j] = "FORGOTTEN"
  BY <1>4, <1>5, NewFacts, ProgramFacts DEF Tidy
<1>6. ASSUME NEW t \in Templates
      PROVE  Mirror(interp.call[t], interp.proc[t], interp.proc[Caller[t][1]], Caller[t][2])
  <2>1. Caller[t][1] \in Procs /\ Caller[t][2] \in 1..Size(Caller[t][1]) BY CallerFacts
  <2>2. interp.call[t] = NULL /\ interp.proc[t] = NULL BY <1>4
  <2>3. interp.proc[Caller[t][1]] # NULL => interp.proc[Caller[t][1]].st[Caller[t][2]] = "FORGOTTEN"
    BY <1>4, <1>5, <2>1
  <2>4. QED BY <2>2, <2>3, MirrorNull
<1>7. Sound(interp) BY <1>2, <1>3, <1>4, <1>5, <1>6 DEF Sound
<1>8. EndSeen(interp) BY <1>4 DEF EndSeen
<1>9. \A p \in Procs : Awake(interp, p) BY <1>2, <1>4 DEF Awake
<1>10. QED BY <1>7, <1>8, <1>9 DEF IInv

\* Between handlers every process can be the one whose handler begins.
LEMMA ReadyNow ==
  ASSUME IInv, NEW p \in Living(interp)
  PROVE  p \in Procs /\ Ready(interp, p) /\ interp.proc[p] # NULL /\ Awake(interp, p)
BY DEF IInv, Ready, Living

\* Running a job, and each of the other actions, keeps the invariant.
LEMMA RunJobDone ==
  ASSUME IInv, RunJob
  PROVE  Done(interp, interp')
<1> DEFINE s == [interp EXCEPT !.jobs = Tail(@)]
           p == Head(interp.jobs)
<1>1. Sound(interp) /\ EndSeen(interp) /\ \A y \in Procs : Awake(interp, y) BY DEF IInv
<1>2. interp.jobs \in Seq(Procs) /\ NoDup(interp.jobs) /\ interp.jobs # <<>> BY <1>1 DEF Sound, RunJob
<1>3. /\ p \in Procs /\ Tail(interp.jobs) \in Seq(Procs) /\ NoDup(Tail(interp.jobs))
      /\ \A y : BSmallPending_IsSet(Tail(interp.jobs), y) <=> BSmallPending_IsSet(interp.jobs, y) /\ y # p
      /\ BSmallPending_IsSet(interp.jobs, p)
  BY <1>2, TailFacts
<1>4. /\ DOMAIN s = DOMAIN interp /\ s.proc = interp.proc /\ s.call = interp.call
      /\ s.jobs = Tail(interp.jobs) /\ s.terminating = interp.terminating /\ s.finished = interp.finished
  BY <1>1 DEF Sound
<1>5. interp' \in work_job_handler(s, p) BY DEF RunJob
<1> HIDE DEF s, p
<1>6. Sound(s) BY <1>1, <1>3, <1>4 DEF Sound
<1>7. EndSeen(s) BY <1>1, <1>4 DEF EndSeen
<1>8. \A y \in Procs : y # p => Awake(s, y) BY <1>1, <1>3, <1>4 DEF Awake
<1>9. s.proc[p] # NULL BY <1>1, <1>3, <1>4 DEF Sound
<1>10. Ready(s, p) BY <1>6, <1>7, <1>8, <1>9 DEF Ready
<1>11. Done(s, interp') BY <1>3, <1>4, <1>5, <1>10, WorkDone
<1>12. QED BY <1>4, <1>11 DEF Done, Stack

\* The retry timer: with no job left, a process that can advance is not up and not
\* terminating.
LEMMA WaitTimerDone ==
  ASSUME IInv, NEW p \in Procs, WaitTimer(p)
  PROVE  Done(interp, interp')
<1> DEFINE n == Size(p)
           q == interp.proc[p]
           r == [q EXCEPT !.timer = FALSE]
           s == SetProc(interp, p, r)
<1>1. p \in Living(interp) /\ interp.jobs = <<>> BY DEF WaitTimer
<1>2. Ready(interp, p) /\ Awake(interp, p) BY <1>1, ReadyNow
<1>3. /\ Sound(interp) /\ q # NULL /\ Tidy(n, q) /\ n \in Nat /\ q \in Process(n)
  BY <1>2, ReadyFacts
<1>4. /\ r \in Process(n) /\ r.state = q.state /\ r.st = q.st /\ r.unclean = q.unclean
      /\ r.ap = q.ap /\ r.fp = q.fp
  BY <1>3, Zenon DEF Process
<1>5. IF r.ap # r.fp \/ process_have_child(r) \/ r.ap = n THEN interp' = s
      ELSE interp' \in process_advance(s, p)
  BY DEF WaitTimer, Size
<1>6. Quiet(n, q)
  <2>1. ~BSmallPending_IsSet(interp.jobs, p) BY <1>1 DEF BSmallPending_IsSet
  <2>2. QED BY <1>2, <1>3, <2>1 DEF Awake
<1> HIDE DEF n, q, r
<1>7. Tidy(n, r) /\ (\A j \in 1..n : Kept(q, r, j)) /\ StackStep(q, r)
  BY <1>3, <1>4, SameStatements
<1>8. CallsKept(p, q, r) BY <1>7 DEF CallsKept, n
<1>9. CASE r.ap # r.fp \/ process_have_child(r) \/ r.ap = n
  <2>1. interp' = s BY <1>5, <1>9
  <2>2. Quiet(n, r) BY <1>3, <1>4, <1>6, <1>9 DEF Quiet, process_have_child, Process
  <2>3. QED BY <1>2, <1>4, <1>7, <1>8, <2>1, <2>2, QuietDone DEF n, q
<1>10. CASE ~(r.ap # r.fp \/ process_have_child(r) \/ r.ap = n)
  <2>1. interp' \in process_advance(s, p) BY <1>5, <1>10
  <2>2. Ready(s, p) /\ s.proc[p] = r /\ \A y \in Procs : y # p => s.proc[y] = interp.proc[y]
    <3>1. Tidy(Size(p), r) /\ r.state = interp.proc[p].state /\ CallsKept(p, interp.proc[p], r)
      BY <1>4, <1>7, <1>8 DEF n, q
    <3>2. QED BY <1>2, <3>1, StillReady, SMTT(30)
  <2> HIDE DEF s
  <2>3. r.ap < n BY <1>3, <1>4, <1>10 DEF Process
  <2>4. r.state \notin {"UP", "TERMINATING"}
    BY <1>3, <1>4, <1>6, <1>10 DEF Quiet, Process
  <2>5. Done(s, interp') BY <1>10, <2>1, <2>2, <2>3, <2>4, AdvanceDone DEF n
  <2>6. Stack(interp, interp')
    <3>1. \A w : StackStep(r, w) => StackStep(q, w) BY <1>4 DEF StackStep
    <3>2. r # NULL BY <2>2 DEF Ready
    <3>3. QED BY <2>2, <2>5, <3>1, <3>2 DEF Done, Stack, q
  <2>7. QED BY <2>5, <2>6 DEF Done
<1>11. QED BY <1>9, <1>10

\* start_terminate: the processes that are not templates get their jobs.
LEMMA ShutdownDone ==
  ASSUME IInv, Shutdown
  PROVE  Done(interp, interp')
<1> DEFINE mains == Living(interp) \ Templates
           old == {p \in Procs : BSmallPending_IsSet(interp.jobs, p)}
           s == [interp EXCEPT !.terminating = TRUE]
<1>1. Sound(interp) /\ EndSeen(interp) /\ (\A y \in Procs : Awake(interp, y)) BY DEF IInv
<1>2. DOMAIN interp = {"proc", "call", "jobs", "terminating", "finished"} /\ DOMAIN interp.proc = Procs
  BY <1>1 DEF Sound
<1>3. ~interp.finished BY Zenon DEF Shutdown
<1>4. \A q : StackStep(q, q) BY DEF StackStep
<1>5. CASE Living(interp) = {}
  <2> DEFINE u == [s EXCEPT !.finished = TRUE]
  <2>1. interp' = u BY <1>5 DEF Shutdown
  <2>2. /\ DOMAIN u = DOMAIN interp /\ u.proc = interp.proc /\ u.call = interp.call
        /\ u.jobs = interp.jobs /\ u.terminating = TRUE /\ u.finished = TRUE
    BY <1>2
  <2> HIDE DEF u
  <2>3. Sound(u) BY <1>1, <2>2, Zenon DEF Sound
  <2>4. EndSeen(u) BY <1>5, <2>2 DEF EndSeen, Living
  <2>5. \A y \in Procs : Awake(u, y) BY <1>1, <2>2 DEF Awake
  <2>6. Stack(interp, u) BY <1>4, <2>2 DEF Stack
  <2>7. QED BY <2>1, <2>3, <2>4, <2>5, <2>6 DEF Done, Settled
<1>6. CASE Living(interp) # {}
  <2> DEFINE proc == [p \in Procs |-> IF p \in mains THEN [interp.proc[p] EXCEPT !.state = "TERMINATING"]
                                      ELSE interp.proc[p]]
             u == interp'
  <2>1. PICK jobs \in Orders(mains \cup old) :
          interp' = [s EXCEPT !.jobs = jobs,
                              !.proc = [p \in Procs |-> IF p \in mains
                                                        THEN [@[p] EXCEPT !.state = "TERMINATING"]
                                                        ELSE @[p]]]
    BY <1>6, Zenon DEF Shutdown
  <2>2. /\ DOMAIN u = DOMAIN interp /\ u.proc = proc /\ u.call = interp.call
        /\ u.jobs = jobs /\ u.terminating = TRUE /\ u.finished = interp.finished
    BY <1>2, <2>1
  <2>3. mains \in SUBSET Procs /\ old \in SUBSET Procs /\ mains \cup old \in SUBSET Procs
    BY DEF Living
  <2>4. /\ jobs \in Seq(mains \cup old) /\ NoDup(jobs)
        /\ \A p : BSmallPending_IsSet(jobs, p) <=> p \in mains \cup old
    BY <2>3, OrderTyped
  <2>5. jobs \in Seq(Procs) BY <2>3, <2>4
  <2>6. /\ DOMAIN u.proc = Procs
        /\ \A p \in Procs \ mains : u.proc[p] = interp.proc[p]
        /\ \A p \in mains : u.proc[p] = [interp.proc[p] EXCEPT !.state = "TERMINATING"]
    BY <2>2, <2>3
  <2> HIDE DEF u, proc
  <2>7. ASSUME NEW p \in mains
        PROVE  /\ Tidy(Size(p), u.proc[p]) /\ u.proc[p] # NULL /\ u.proc[p].state = "TERMINATING"
               /\ CallsKept(p, interp.proc[p], u.proc[p]) /\ StackStep(interp.proc[p], u.proc[p])
    <3>1. p \in Procs /\ interp.proc[p] # NULL BY DEF Living
    <3>2. "TERMINATING" \in PStates BY DEF PStates
    <3> HIDE DEF mains
    <3>3. u.proc[p] = [interp.proc[p] EXCEPT !.state = "TERMINATING"] BY <2>6
    <3>4. QED BY ONLY <1>1, <3>1, <3>2, <3>3, ToState
  <2>8. ASSUME NEW t \in Templates
        PROVE  Mirror(u.call[t], u.proc[t], u.proc[Caller[t][1]], Caller[t][2])
    <3> DEFINE d == Caller[t][1]  j == Caller[t][2]
    <3>1. t \in Procs /\ d \in Procs /\ j \in 1..Size(d) /\ Program[d][j] = t BY CallerFacts
    <3>2. Mirror(interp.call[t], interp.proc[t], interp.proc[d], j) BY <1>1 DEF Sound
    <3> HIDE DEF d, j
    <3>3. u.call[t] = interp.call[t] /\ u.proc[t] = interp.proc[t] BY <2>2, <2>6, <3>1
    <3>4. CASE d \in mains
      <4>1. Kept(interp.proc[d], u.proc[d], j) /\ u.proc[d] # NULL BY <2>7, <3>1, <3>4 DEF CallsKept
      <4>2. interp.proc[d] # NULL BY <3>4 DEF Living
      <4>3. QED BY <3>2, <3>3, <4>1, <4>2, MirrorKept DEF d, j
    <3>5. CASE d \notin mains BY <2>6, <3>1, <3>2, <3>3, <3>5 DEF d, j
    <3>6. QED BY <3>4, <3>5
  <2>9. \A p \in Procs : u.proc[p] # NULL =>
           Tidy(Size(p), u.proc[p]) /\ (u.proc[p].state = "WAITING" => p \in Templates)
    BY <1>1, <2>6, <2>7 DEF Sound
  <2>10. \A p \in Procs : BSmallPending_IsSet(u.jobs, p) => u.proc[p] # NULL
    BY <1>1, <2>2, <2>4, <2>6, <2>7 DEF Sound
  <2>11. Sound(u) BY <1>1, <2>2, <2>4, <2>5, <2>6, <2>8, <2>9, <2>10, Zenon DEF Sound
  <2>12. EndSeen(u)
    <3>1. PICK p \in Procs : interp.proc[p] # NULL BY <1>6 DEF Living
    <3>2. u.proc[p] # NULL BY <2>6, <2>7, <3>1
    <3>3. QED BY <1>3, <2>2, <3>2, Zenon DEF EndSeen
  <2>13. \A y \in Procs : Awake(u, y) BY <1>1, <2>2, <2>4, <2>6 DEF Awake
  <2>14. Stack(interp, u) BY <1>4, <2>6, <2>7 DEF Stack
  <2>15. QED BY <2>11, <2>12, <2>13, <2>14 DEF Done, Settled, u
<1>7. QED BY <1>5, <1>6

\* An event of a module other than call(): a statement may die by itself, and not
\* like in a stack.
LEMMA ModuleNextSettled ==
  ASSUME IInv, NEW p \in Procs, NEW i \in Statements(p), ModuleNext(p, i)
  PROVE  Settled(interp') /\ \A y \in Procs : Steady(interp.proc[y], interp'.proc[y])
<1> DEFINE n == Size(p)  q == interp.proc[p]
<1>1. p \in Living(interp) /\ Program[p][i] \notin Templates
  BY DEF ModuleNext, ModuleUp, ModuleDown, ModuleDownUp, ModuleDead, ModuleDied, Module
<1>2. Ready(interp, p) BY <1>1, ReadyNow
<1>3. Tidy(n, q) /\ n \in Nat /\ i \in 1..n BY <1>2, ReadyFacts, ProgramFacts
<1> HIDE DEF n, q
<1>4. ASSUME NEW r, NEW x \in {"ADULT", "CHILD", "FORGOTTEN"}, Changed(n, q, r, i, x),
             q.st[i] # "FORGOTTEN", interp' = statement_instance_func_event(interp, p, r)
      PROVE  Settled(interp') /\ \A y \in Procs : Steady(interp.proc[y], interp'.proc[y])
  <2>1. Tidy(n, r) /\ r.state = q.state BY <1>4 DEF Changed
  <2>2. CallsKept(p, q, r) BY <1>1, <1>4 DEF CallsKept, Changed, n
  <2>3. /\ Settled(interp') /\ interp'.proc[p] = r
        /\ \A y \in Procs : y # p => interp'.proc[y] = interp.proc[y]
    BY <1>2, <1>4, <2>1, <2>2, EventSettled DEF n, q
  <2>4. Steady(q, r)
    <3>1. r.st = [q.st EXCEPT ![i] = x] BY <1>4 DEF Changed
    <3>2. QED BY <1>4, <3>1 DEF Steady
  <2>5. \A z : Steady(z, z) BY DEF Steady
  <2>6. QED BY <2>3, <2>4, <2>5, Zenon DEF q
<1>5. CASE ModuleUp(p, i)
  <2>1. q.st[i] = "CHILD" /\ interp' = statement_instance_func_event(interp, p, EventUp(q, i))
    BY <1>5 DEF ModuleUp, Module, q
  <2>2. Changed(n, q, EventUp(q, i), i, "ADULT") BY <1>3, <2>1, EventUpChanges
  <2>3. QED BY <1>4, <2>1, <2>2
<1>6. CASE ModuleDown(p, i)
  <2>1. q.st[i] = "ADULT" /\ interp' = statement_instance_func_event(interp, p, EventDown(q, i))
    BY <1>6 DEF ModuleDown, Module, q
  <2>2. Changed(n, q, EventDown(q, i), i, "CHILD") BY <1>3, <2>1, EventDownChanges
  <2>3. QED BY <1>4, <2>1, <2>2
<1>7. CASE ModuleDownUp(p, i)
  <2>1. q.st[i] = "ADULT" /\ interp' = statement_instance_func_event(interp, p, EventDownUp(q, i))
    BY <1>7 DEF ModuleDownUp, Module, q
  <2>2. Changed(n, q, EventDownUp(q, i), i, "ADULT") BY <1>3, <2>1, EventDownUpChanges
  <2>3. QED BY <1>4, <2>1, <2>2
<1>8. CASE ModuleDead(p, i) \/ ModuleDied(p, i)
  <2>1. PICK e \in BOOLEAN :
          /\ q.st[i] # "FORGOTTEN"
          /\ interp' = statement_instance_func_event(interp, p, EventDead(q, i, e))
    BY <1>8 DEF ModuleDead, ModuleDied, Module, q
  <2>2. Changed(n, q, EventDead(q, i, e), i, "FORGOTTEN") BY <1>3, <2>1, EventDeadChanges
  <2>3. QED BY <1>4, <2>1, <2>2
<1>9. QED BY <1>5, <1>6, <1>7, <1>8 DEF ModuleNext

\* Every step keeps the invariant.  Statements live like a stack in it, or none is
\* initialised or told to die.
LEMMA NextDone ==
  ASSUME IInv, [Next]_vars
  PROVE  /\ IInv' /\ Settled(interp')
         /\ RunJob => Stack(interp, interp')
         /\ Stack(interp, interp') \/ \A y \in Procs : Steady(interp.proc[y], interp'.proc[y])
<1>1. ASSUME UNCHANGED vars PROVE Done(interp, interp')
  <2>1. interp' = interp BY <1>1 DEF vars
  <2>2. \A q : StackStep(q, q) BY DEF StackStep
  <2>3. Stack(interp, interp) BY <2>2 DEF Stack
  <2>4. QED BY <2>1, <2>3 DEF Done, Settled, IInv
<1>2. RunJob => Done(interp, interp') BY RunJobDone
<1>3. \/ Done(interp, interp')
      \/ Settled(interp') /\ \A y \in Procs : Steady(interp.proc[y], interp'.proc[y])
  <2>1. CASE Shutdown BY <2>1, ShutdownDone
  <2>2. CASE Finished BY <1>1, <2>2 DEF Finished
  <2>3. ASSUME NEW p \in Procs, WaitTimer(p) PROVE Done(interp, interp') BY <2>3, WaitTimerDone
  <2>4. ASSUME NEW p \in Procs, NEW i \in Statements(p), ModuleNext(p, i)
        PROVE  Settled(interp') /\ \A y \in Procs : Steady(interp.proc[y], interp'.proc[y])
    BY <2>4, ModuleNextSettled
  <2>5. QED BY <1>1, <1>2, <2>1, <2>2, <2>3, <2>4 DEF Next
<1>4. Settled(interp') BY <1>3 DEF Done
<1>5. IInv' BY <1>4 DEF Settled, IInv
<1>6. QED BY <1>2, <1>3, <1>4, <1>5 DEF Done

-----------------------------------------------------------------------------
(* The theorems.                                                            *)

\* The inductive invariant holds always.
LEMMA SpecIInv == Spec => []IInv
<1>1. Init => IInv BY InitHolds
<1>2. IInv /\ [Next]_vars => IInv' BY NextDone
<1>3. QED BY <1>1, <1>2, PTL DEF Spec

\* The pointers of every process are where process_assert_pointers expects them,
\* whatever program is interpreted and whatever its modules do, and all state has
\* its type.
THEOREM PointersAlways == Spec => []Pointers
<1>1. ASSUME IInv PROVE Pointers
  <2>1. Sound(interp) BY <1>1 DEF IInv
  <2>2. TypeOK BY <2>1 DEF Sound, TypeOK, Tidy, Size
  <2>3. QED BY <2>1, <2>2 DEF Pointers, Living, Sound, Tidy
<1>2. QED BY <1>1, SpecIInv, PTL

\* A call() instance, the statement that holds it and the process of its template
\* are always in matching states, for any nesting of calls.
THEOREM CallMirrorsTemplateAlways == Spec => []CallMirrorsTemplate
<1>1. ASSUME IInv PROVE CallMirrorsTemplate
  <2>1. SUFFICES ASSUME NEW t \in Templates
                 PROVE  LET c == Caller[t]
                            state == interp.call[t]
                        IN  /\ state \in {NULL, "NONE"} <=> t \notin Living(interp)
                            /\ t \in Living(interp) => state = interp.proc[t].state
                            /\ state # NULL =>
                                 /\ c[1] \in Living(interp)
                                 /\ interp.proc[c[1]].st[c[2]] =
                                      CASE state \in {"WORKING", "WAITING"} -> "CHILD"
                                        [] state \in {"UP", "NONE"} -> "ADULT"
                                        [] state = "TERMINATING" -> "DYING"
                                 /\ state = "WAITING" <=> c[2] \in interp.proc[c[1]].unclean
                                 /\ state \in {"WORKING", "TERMINATING"} =>
                                      interp.proc[c[1]].fp = c[2]
    BY Zenon DEF CallMirrorsTemplate
  <2> DEFINE p == Caller[t][1]  i == Caller[t][2]  x == interp.call[t]
  <2>2. t \in Procs /\ p \in Procs BY CallerFacts
  <2>3. Mirror(x, interp.proc[t], interp.proc[p], i) /\ x \in CStates \cup {NULL} BY <1>1 DEF IInv, Sound
  <2> HIDE DEF p, i, x
  <2>4. ASSUME x # NULL
        PROVE  interp.proc[p].st[i] = CASE x \in {"WORKING", "WAITING"} -> "CHILD"
                                        [] x \in {"UP", "NONE"} -> "ADULT"
                                        [] x = "TERMINATING" -> "DYING"
    <3>1. CASE x \in {"WORKING", "WAITING"} BY <2>3, <3>1 DEF Mirror
    <3>2. CASE x \in {"UP", "NONE"} BY <2>3, <3>2 DEF Mirror
    <3>3. CASE x = "TERMINATING" BY <2>3, <3>3 DEF Mirror
    <3>4. QED BY <2>3, <2>4, <3>1, <3>2, <3>3 DEF CStates
  <2>5. /\ x \in {NULL, "NONE"} <=> t \notin Living(interp)
        /\ t \in Living(interp) => x = interp.proc[t].state
        /\ x # NULL => p \in Living(interp)
        /\ x # NULL => (x = "WAITING" <=> i \in interp.proc[p].unclean)
        /\ x \in {"WORKING", "TERMINATING"} => interp.proc[p].fp = i
    BY <2>2, <2>3 DEF Mirror, Living
  <2>6. QED BY <2>4, <2>5, Zenon DEF p, i, x
<1>2. QED BY <1>1, SpecIInv, PTL

\* When no job is left every process is waiting for something that will happen, and
\* the end of the last process has ended the program.
THEOREM NothingStuckAlways == Spec => []NothingStuck
<1>1. ASSUME IInv PROVE NothingStuck
  <2>1. SUFFICES ASSUME interp.jobs = <<>>
                 PROVE  /\ interp.terminating /\ Living(interp) = {} => interp.finished
                        /\ \A p \in Living(interp) :
                             LET q == interp.proc[p]
                                 dying == q.ap < q.fp /\ q.st[q.fp] = "DYING"
                             IN  CASE q.state = "WORKING" ->
                                        \/ dying
                                        \/ q.ap = q.fp /\ process_have_child(q) /\ q.ap \notin q.unclean
                                        \/ /\ q.ap = q.fp /\ ~process_have_child(q)
                                           /\ q.ap < Len(Program[p]) /\ q.timer /\ ~q.error
                                   [] q.state = "UP" -> q.ap = Len(Program[p]) /\ ~process_have_child(q)
                                   [] q.state = "WAITING" -> interp.call[p] = "WAITING"
                                   [] q.state = "TERMINATING" -> dying
    BY Zenon DEF NothingStuck
  <2>2. interp.terminating /\ Living(interp) = {} => interp.finished
    BY <1>1 DEF IInv, EndSeen, Living
  <2>3. ASSUME NEW p \in Living(interp)
        PROVE  LET q == interp.proc[p]
                   dying == q.ap < q.fp /\ q.st[q.fp] = "DYING"
               IN  CASE q.state = "WORKING" ->
                          \/ dying
                          \/ q.ap = q.fp /\ process_have_child(q) /\ q.ap \notin q.unclean
                          \/ /\ q.ap = q.fp /\ ~process_have_child(q)
                             /\ q.ap < Len(Program[p]) /\ q.timer /\ ~q.error
                     [] q.state = "UP" -> q.ap = Len(Program[p]) /\ ~process_have_child(q)
                     [] q.state = "WAITING" -> interp.call[p] = "WAITING"
                     [] q.state = "TERMINATING" -> dying
    <3> DEFINE q == interp.proc[p]
    <3>1. p \in Procs /\ Ready(interp, p) /\ q # NULL /\ Awake(interp, p) BY <1>1, ReadyNow
    <3>2. ~BSmallPending_IsSet(interp.jobs, p) BY <2>1 DEF BSmallPending_IsSet
    <3>3. Quiet(Size(p), q) BY <3>1, <3>2 DEF Awake
    <3>4. q.state \in PStates BY <3>1, ReadyFacts DEF Process
    <3>5. ASSUME q.state = "WAITING" PROVE interp.call[p] = "WAITING"
      <4>1. Sound(interp) BY <1>1 DEF IInv
      <4>2. p \in Templates BY <3>1, <3>5, <4>1 DEF Sound
      <4>3. QED BY <3>1, <3>5, <4>1, <4>2, CalledFacts
    <3> HIDE DEF q
    <3>6. QED BY <3>3, <3>4, <3>5, Zenon DEF Quiet, PStates, Size, q
  <2>4. QED BY <2>2, <2>3, Zenon
<1>2. QED BY <1>1, SpecIInv, PTL

\* The asserts at the beginning of process_advance hold whenever the retry timer of
\* a process that is not a template leads there: it is working, without an error.
THEOREM MainRetriesSafe == Spec => []RetriesSafe(Procs \ Templates)
<1>1. ASSUME IInv PROVE RetriesSafe(Procs \ Templates)
  <2>1. SUFFICES ASSUME NEW p \in Living(interp), p \notin Templates, Retries(p)
                 PROVE  interp.proc[p].state = "WORKING" /\ ~interp.proc[p].error
    BY DEF RetriesSafe
  <2> DEFINE q == interp.proc[p]
  <2>2. p \in Procs /\ Ready(interp, p) /\ q # NULL /\ Awake(interp, p) BY <1>1, ReadyNow
  <2>3. interp.jobs = <<>> /\ q.ap = q.fp /\ ~process_have_child(q) /\ q.ap < Size(p)
    BY <2>1 DEF Retries, Size
  <2>4. ~BSmallPending_IsSet(interp.jobs, p) BY <2>3 DEF BSmallPending_IsSet
  <2>5. Quiet(Size(p), q) BY <2>2, <2>4 DEF Awake
  <2>6. q.state \in PStates /\ q.ap \in Int /\ Size(p) \in Int BY <2>2, ReadyFacts DEF Process
  <2>7. q.state # "WAITING" BY <1>1, <2>1, <2>2 DEF IInv, Sound
  <2> HIDE DEF q
  <2>8. QED BY <2>3, <2>5, <2>6, <2>7, SMTT(30) DEF Quiet, PStates, q
<1>2. QED BY <1>1, SpecIInv, PTL

\* Statements are initialised and ended by the interpreter like a stack, those of a
\* called template while nothing follows the call() unless the template is waiting.
THEOREM StatementsLikeAStack == Spec => LikeAStack
<1> DEFINE Step ==
      \A p \in Living(interp) : p \in Living(interp)' => \A i \in Statements(p) :
         LET q == interp'.proc[p]
         IN  Begins(p, i) \/ Ends(p, i) =>
               /\ \A j \in Statements(p) : j > i => q.st[j] = "FORGOTTEN"
               /\ Begins(p, i) => \A j \in 1..(i - 1) : q.st[j] = "ADULT"
               /\ p \in Templates /\ q.state # "WAITING" =>
                    interp'.proc[Caller[p][1]].fp = Caller[p][2]
<1>1. ASSUME IInv, [Next]_vars PROVE [Step]_vars
  <2>1. /\ IInv' /\ Settled(interp') /\ (RunJob => Stack(interp, interp'))
        /\ Stack(interp, interp') \/ \A y \in Procs : Steady(interp.proc[y], interp'.proc[y])
    BY <1>1, NextDone
  <2>2. SUFFICES ASSUME NEW p \in Living(interp), p \in Living(interp)', NEW i \in Statements(p),
                        Begins(p, i) \/ Ends(p, i)
                 PROVE  LET q == interp'.proc[p]
                        IN  /\ \A j \in Statements(p) : j > i => q.st[j] = "FORGOTTEN"
                            /\ Begins(p, i) => \A j \in 1..(i - 1) : q.st[j] = "ADULT"
                            /\ p \in Templates /\ q.state # "WAITING" =>
                                 interp'.proc[Caller[p][1]].fp = Caller[p][2]
    OBVIOUS
  <2> DEFINE q == interp.proc[p]  r == interp'.proc[p]
  <2>3. p \in Procs /\ q # NULL /\ r # NULL BY <2>2 DEF Living
  <2>4. Sound(interp) /\ Sound(interp') BY <1>1, <2>1 DEF IInv, Settled
  <2>5. /\ Tidy(Size(p), q) /\ Tidy(Size(p), r) /\ Size(p) \in Nat /\ i \in 1..Size(p)
        /\ Statements(p) = 1..Size(p)
    BY <2>3, <2>4, ProgramFacts, SMTT(30) DEF Sound
  <2>6. DOMAIN q.st = 1..Size(p) /\ r.state \in PStates BY <2>5 DEF Tidy, Process
  <2>7. \/ q.st[i] = "FORGOTTEN" /\ r.st[i] # "FORGOTTEN"
        \/ q.st[i] \in {"CHILD", "ADULT"} /\ r.st[i] = "DYING"
        \/ RunJob /\ q.st[i] \in {"CHILD", "ADULT"} /\ r.st[i] = "FORGOTTEN"
    BY <2>2 DEF Begins, Ends
  <2>8. StackStep(q, r)
    <3>1. RunJob \/ ~Steady(q, r) BY <2>5, <2>6, <2>7 DEF Steady
    <3>2. Stack(interp, interp') BY <2>1, <2>3, <3>1
    <3>3. QED BY <2>3, <3>2 DEF Stack
  <2>9. r.fp <= i /\ r.state # "UP" /\ (q.st[i] = "FORGOTTEN" => \A j \in 1..(i - 1) : r.st[j] = "ADULT")
    BY <2>5, <2>6, <2>7, <2>8 DEF StackStep
  <2>10. \A j \in Statements(p) : j > i => r.st[j] = "FORGOTTEN"
    BY <2>5, <2>9 DEF Tidy, PointersOK, Process
  <2>11. ASSUME p \in Templates, r.state # "WAITING"
         PROVE  interp'.proc[Caller[p][1]].fp = Caller[p][2]
    <3>1. Mirror(r.state, r, interp'.proc[Caller[p][1]], Caller[p][2])
      BY <2>3, <2>4, <2>11, CalledFacts
    <3>2. r.state \in {"WORKING", "TERMINATING"} BY <2>6, <2>9, <2>11 DEF PStates
    <3>3. QED BY <3>1, <3>2, Zenon DEF Mirror
  <2>12. QED BY <2>9, <2>10, <2>11 DEF Begins
<1>2. QED BY <1>1, SpecIInv, PTL DEF Spec, LikeAStack
=============================================================================
