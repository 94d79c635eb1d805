------------------------- MODULE BThreadWorkProofs -------------------------
(***************************************************************************)
(* Safety of the work dispatcher for any number of threads and work items: *)
(* the lists and states agree, nothing is used after it was freed, and no  *)
(* wakeup and no result is lost.  The dispatcher keeps the promise of      *)
(* BThreadWork.h: BThreadWork implements WorkPromise.                      *)
(***************************************************************************)
EXTENDS BThreadWork, JobListProofs

\* Where a worker is determines what it holds.
PcInv ==
    \A t \in Threads :
        /\ tpc[t] \in {"loop", "post", "write"} <=> mutex = t
        /\ running_work[t] # NULL <=> tpc[t] \in {"work", "relock"}
        /\ posting[t] # NULL <=> tpc[t] = "post"
        /\ tpc[t] = "exited" => cancel
        /\ t <= num_threads => tpc[t] # "none"
        /\ t > num_threads => tpc[t] \in {"none", "exited"}

\* Where the main thread is determines which threads and items there are.
MainInv ==
    /\ cancel => mpc \in {"signal", "join", "freed"}
    /\ mpc = "join" => num_threads > 0
    /\ mpc \in {"create", "stop", "signal", "join", "freed"} => \A w \in Works : state[w] = "none"
    /\ mpc \notin {"create", "stop", "signal", "join", "freed"} => num_threads \in {0, ThreadCount}
    /\ mpc \in {"dispatch", "free", "sem_wait", "free_relock"} => num_threads > 0
    /\ mpc \in {"free", "sem_wait", "free_relock", "job_work", "job_done"} => mw \in Works
    /\ mpc = "free" => state[mw] # "none"
    /\ mpc = "sem_wait" => state[mw] \in {"RUNNING", "FINISHED"}
    /\ mpc = "free_relock" => state[mw] = "FINISHED"
    /\ mpc \in {"job_work", "job_done"} => state[mw] = "JOB" /\ ~BSmallPending_IsSet(jobs, mw)
    /\ \A w \in Works : /\ state[w] = "JOB" => num_threads = 0
                        /\ state[w] \notin {"none", "JOB"} => num_threads > 0

\* The jobs of the dispatcher: more_job with threads, items without.
JobsInv == /\ NoDup(jobs)
           /\ \A w \in Works : BSmallPending_IsSet(jobs, w) => state[w] = "JOB"
           /\ BSmallPending_IsSet(jobs, MORE) => num_threads > 0 \/ mpc = "signal"

\* The semaphore of an item is posted once, by the thread that finished it.
SemInv == \A w \in Works :
            /\ finished_sem[w] = 1 => state[w] \in {"FINISHED", "FORGOTTEN", "none", "JOB"}
            /\ \A t \in Threads : posting[t] = w => state[w] = "FINISHED" /\ finished_sem[w] = 0

IInv == /\ TypeOK /\ PcInv /\ MainInv /\ JobsInv /\ SemInv
        /\ ListsMatchStates /\ NoLostWakeup /\ NoStrandedResult

\* The dispatcher starts between none and MAX_THREADS threads.
LEMMA ThreadCountFacts == ThreadCount \in Nat /\ Threads \subseteq Nat \ {0}
BY BThreadWorkAssumption DEF ThreadCount, Threads

\* When no item is initialised both lists are empty.
LEMMA EmptyLists ==
  ASSUME TypeOK, ListsMatchStates, \A w \in Works : state[w] = "none"
  PROVE  pending_list = <<>> /\ finished_list = <<>>
<1>1. ~\E w \in Works : BSmallPending_IsSet(pending_list, w) BY DEF ListsMatchStates
<1>2. ~\E w \in Works : BSmallPending_IsSet(finished_list, w) BY DEF ListsMatchStates
<1>3. QED BY <1>1, <1>2, EmptyFacts DEF TypeOK

\* The steps of the workers keep the invariant.
LEMMA ThreadsKeep ==
  ASSUME IInv, NEW t \in Threads, ThreadStep(t) \/ SpuriousWakeup(t)
  PROVE  IInv'
<1> USE ThreadCountFacts, BThreadWorkAssumption DEF IInv, mainVars, threadVars
<1>1. CASE ThreadLock(t)
  <2> USE <1>1 DEF ThreadLock, At, Goto
  <2>1. TypeOK' /\ PcInv' /\ MainInv'
    BY DEF TypeOK, PcInv, MainInv
  <2>2. JobsInv' /\ SemInv' /\ ListsMatchStates'
    BY DEF TypeOK, PcInv, JobsInv, SemInv, ListsMatchStates
  <2>3. NoLostWakeup' /\ NoStrandedResult'
    BY DEF TypeOK, PcInv, MainInv, ListsMatchStates, NoLostWakeup, NoStrandedResult
  <2>4. QED BY <2>1, <2>2, <2>3
<1>2. CASE ThreadExit(t)
  <2> USE <1>2 DEF ThreadExit, At, Goto
  <2>1. pending_list = <<>> /\ finished_list = <<>>
    BY EmptyLists DEF MainInv
  <2>2. TypeOK' /\ PcInv' /\ MainInv'
    BY <2>1 DEF TypeOK, PcInv, MainInv
  <2>3. JobsInv' /\ SemInv' /\ ListsMatchStates'
    BY <2>1 DEF TypeOK, PcInv, JobsInv, SemInv, ListsMatchStates
  <2>4. NoLostWakeup' /\ NoStrandedResult'
    BY <2>1 DEF TypeOK, PcInv, MainInv, ListsMatchStates, NoLostWakeup, NoStrandedResult
  <2>5. QED BY <2>2, <2>3, <2>4
<1>3. CASE ThreadWait(t)
  <2> USE <1>3 DEF ThreadWait, At, Goto
  <2>1. TypeOK' /\ PcInv' /\ MainInv'
    BY DEF TypeOK, PcInv, MainInv
  <2>2. JobsInv' /\ SemInv' /\ ListsMatchStates'
    BY DEF TypeOK, PcInv, JobsInv, SemInv, ListsMatchStates
  <2>3. NoLostWakeup' /\ NoStrandedResult'
    BY DEF TypeOK, PcInv, MainInv, ListsMatchStates, NoLostWakeup, NoStrandedResult
  <2>4. QED BY <2>1, <2>2, <2>3
<1>4. CASE SpuriousWakeup(t)
  <2> USE <1>4 DEF SpuriousWakeup, At, Goto
  <2>1. TypeOK' /\ PcInv' /\ MainInv'
    BY DEF TypeOK, PcInv, MainInv
  <2>2. JobsInv' /\ SemInv' /\ ListsMatchStates'
    BY DEF TypeOK, PcInv, JobsInv, SemInv, ListsMatchStates
  <2>3. NoLostWakeup' /\ NoStrandedResult'
    BY DEF TypeOK, PcInv, MainInv, ListsMatchStates, NoLostWakeup, NoStrandedResult
  <2>4. QED BY <2>1, <2>2, <2>3
<1>5. CASE ThreadGrab(t)
  <2> USE <1>5 DEF ThreadGrab, At, Goto
  <2>1. /\ pending_list' \in Seq(Works) /\ NoDup(pending_list') /\ Head(pending_list) \in Works
        /\ BSmallPending_IsSet(pending_list, Head(pending_list))
        /\ \A y : BSmallPending_IsSet(pending_list', y) <=> BSmallPending_IsSet(pending_list, y) /\ y # Head(pending_list)
    BY TailFacts DEF TypeOK, ListsMatchStates
  <2>2. state[Head(pending_list)] = "PENDING"
    BY <2>1 DEF ListsMatchStates
  <2>3. TypeOK' /\ PcInv' /\ MainInv'
    BY <2>1, <2>2, SMTT(30) DEF TypeOK, PcInv, MainInv
  <2>4. JobsInv' /\ SemInv'
    BY <2>1, <2>2 DEF TypeOK, PcInv, JobsInv, SemInv, ListsMatchStates
  <2>5. ListsMatchStates'
    <3>1. \A v \in Works : state'[v] = IF v = Head(pending_list) THEN "RUNNING" ELSE state[v]
      BY DEF TypeOK
    <3>2. \A u \in Threads : running_work'[u] = IF u = t THEN Head(pending_list) ELSE running_work[u]
      BY DEF TypeOK
    <3>3. running_work[t] = NULL /\ \A u \in Threads : running_work[u] # Head(pending_list)
      BY <2>1, <2>2 DEF PcInv, ListsMatchStates
    <3>4. ASSUME NEW v \in Works
          PROVE  /\ state'[v] = "PENDING" <=> BSmallPending_IsSet(pending_list', v)
                 /\ state'[v] = "FINISHED" <=> BSmallPending_IsSet(finished_list', v)
                 /\ state'[v] = "RUNNING" <=> \E u \in Threads : running_work'[u] = v
      BY <2>1, <2>2, <3>1, <3>2, <3>3 DEF ListsMatchStates
    <3>5. ASSUME NEW u \in Threads, NEW v \in Threads,
                 running_work'[u] = running_work'[v], running_work'[u] # NULL
          PROVE  u = v
      BY <3>2, <3>3, <3>5 DEF ListsMatchStates
    <3>6. QED BY <2>1, <3>4, <3>5, SMTT(30) DEF ListsMatchStates
  <2>6. NoLostWakeup' /\ NoStrandedResult'
    BY <2>1, <2>2, SMTT(30) DEF TypeOK, PcInv, MainInv, ListsMatchStates, NoLostWakeup, NoStrandedResult
  <2>7. QED BY <2>3, <2>4, <2>5, <2>6
<1>6. CASE ThreadWorked(t)
  <2> USE <1>6 DEF ThreadWorked, At, Goto
  <2>1. TypeOK' /\ PcInv' /\ MainInv'
    BY DEF TypeOK, PcInv, MainInv
  <2>2. JobsInv' /\ SemInv' /\ ListsMatchStates'
    BY DEF TypeOK, PcInv, JobsInv, SemInv, ListsMatchStates
  <2>3. NoLostWakeup' /\ NoStrandedResult'
    BY DEF TypeOK, PcInv, MainInv, ListsMatchStates, NoLostWakeup, NoStrandedResult
  <2>4. QED BY <2>1, <2>2, <2>3
<1>7. CASE ThreadRelease(t)
  <2> USE <1>7 DEF ThreadRelease, At, Goto
  <2>1. /\ running_work[t] \in Works /\ state[running_work[t]] = "RUNNING"
        /\ ~BSmallPending_IsSet(finished_list, running_work[t])
    BY DEF TypeOK, PcInv, ListsMatchStates
  <2>2. /\ finished_list' \in Seq(Works) /\ NoDup(finished_list') /\ finished_list' # <<>>
        /\ \A y : BSmallPending_IsSet(finished_list', y) <=> BSmallPending_IsSet(finished_list, y) \/ y = running_work[t]
    <3>1. finished_list \in Seq(Works) /\ NoDup(finished_list) BY DEF TypeOK, ListsMatchStates
    <3> HIDE <1>7 DEF IInv, ThreadRelease
    <3>2. finished_list' = Append(finished_list, running_work[t]) BY <1>7 DEF ThreadRelease
    <3>3. QED BY <2>1, <3>1, <3>2, AppendFacts
  <2>3. TypeOK' /\ PcInv' /\ MainInv'
    BY <2>1, <2>2, SMTT(30) DEF TypeOK, PcInv, MainInv
  <2>4. JobsInv' /\ SemInv' /\ ListsMatchStates'
    BY <2>1, <2>2 DEF TypeOK, PcInv, JobsInv, SemInv, ListsMatchStates
  <2>5. NoLostWakeup' /\ NoStrandedResult'
    BY <2>1, <2>2 DEF TypeOK, PcInv, MainInv, ListsMatchStates, NoLostWakeup, NoStrandedResult
  <2>6. QED BY <2>3, <2>4, <2>5
<1>8. CASE ThreadPost(t)
  <2> USE <1>8 DEF ThreadPost, At, Goto
  <2>1. posting[t] \in Works /\ finished_sem[posting[t]] = 0
    BY DEF TypeOK, PcInv, SemInv
  <2>2. TypeOK' /\ PcInv' /\ MainInv'
    BY <2>1, SMTT(30) DEF TypeOK, PcInv, MainInv
  <2>3. JobsInv' /\ SemInv' /\ ListsMatchStates'
    BY <2>1 DEF TypeOK, PcInv, JobsInv, SemInv, ListsMatchStates
  <2>4. NoLostWakeup' /\ NoStrandedResult'
    BY <2>1 DEF TypeOK, PcInv, MainInv, ListsMatchStates, NoLostWakeup, NoStrandedResult
  <2>5. QED BY <2>2, <2>3, <2>4
<1>9. CASE ThreadWrite(t)
  <2> USE <1>9 DEF ThreadWrite, At, Goto
  <2>1. TypeOK' /\ PcInv' /\ MainInv'
    BY DEF TypeOK, PcInv, MainInv
  <2>2. JobsInv' /\ SemInv' /\ ListsMatchStates'
    BY DEF TypeOK, PcInv, JobsInv, SemInv, ListsMatchStates
  <2>3. NoLostWakeup' /\ NoStrandedResult'
    BY DEF TypeOK, PcInv, MainInv, ListsMatchStates, NoLostWakeup, NoStrandedResult
  <2>4. QED BY <2>1, <2>2, <2>3
<1>10. QED BY <1>1, <1>2, <1>3, <1>4, <1>5, <1>6, <1>7, <1>8, <1>9 DEF ThreadStep

\* Posting an item, starting its job and freeing it without threads do.
LEMMA WorksKeep ==
  ASSUME IInv, NEW w \in Works, WorkNext(w) \/ JobStart(w)
  PROVE  IInv'
<1> USE ThreadCountFacts, BThreadWorkAssumption DEF IInv, mainVars, threadVars
<1>1. CASE WorkInit(w)
  <2> USE <1>1 DEF WorkInit, PostSignal, Signal, Idle
  <2>1. /\ pending_list' \in Seq(Works) /\ NoDup(pending_list') /\ pending_list' # <<>>
        /\ \A y : BSmallPending_IsSet(pending_list', y) <=> BSmallPending_IsSet(pending_list, y) \/ y = w
    BY AppendFacts, SMTT(30) DEF TypeOK, ListsMatchStates
  <2>2. \E t \in 1..num_threads : tpc'[t] \notin {"wait", "exited", "none"}
    <3>1. num_threads = ThreadCount /\ 1 \in Threads /\ Threads = 1..num_threads /\ ~cancel
      BY DEF MainInv, Threads
    <3>2. CASE Idle = {} /\ UNCHANGED tpc
      <4>1. running_work[1] # NULL BY <3>1, <3>2
      <4>2. QED BY <3>1, <3>2, <4>1 DEF PcInv
    <3>3. ASSUME NEW t \in Idle, tpc' = Signal(tpc, t)
          PROVE  tpc'[t] \notin {"wait", "exited", "none"}
      <4>1. t \in Threads /\ running_work[t] = NULL BY <3>1, <3>3
      <4>2. tpc[t] \in {"lock", "wait"} BY <3>1, <4>1 DEF PcInv, TypeOK
      <4>3. QED BY <3>3, <4>1, <4>2 DEF TypeOK
    <3>4. QED BY <3>1, <3>2, <3>3
  <2>3. TypeOK' /\ MainInv'
    BY <2>1, <2>2 DEF TypeOK, PcInv, MainInv
  <2>4. PcInv'
    <3>1. CASE UNCHANGED tpc BY <3>1 DEF PcInv
    <3>2. ASSUME NEW t \in Idle, tpc' = Signal(tpc, t) PROVE PcInv'
      <4>1. t \in Threads BY DEF TypeOK, Threads
      <4>2. CASE tpc[t] # "wait" BY <3>2, <4>2 DEF PcInv
      <4>3. CASE tpc[t] = "wait"
        <5>1. tpc' = [tpc EXCEPT ![t] = "lock"] BY <3>2, <4>3
        <5>2. QED BY <4>1, <4>3, <5>1 DEF PcInv, TypeOK
      <4>4. QED BY <4>2, <4>3
    <3>3. QED BY <3>1, <3>2
  <2>5. JobsInv' /\ SemInv' /\ ListsMatchStates'
    BY <2>1, <2>2 DEF TypeOK, PcInv, JobsInv, SemInv, ListsMatchStates
  <2>6. NoLostWakeup' /\ NoStrandedResult'
    BY <2>1, <2>2 DEF TypeOK, PcInv, MainInv, ListsMatchStates, NoLostWakeup, NoStrandedResult
  <2>7. QED BY <2>3, <2>4, <2>5, <2>6
<1>2. CASE WorkInitJob(w)
  <2> USE <1>2 DEF WorkInitJob
  <2>1. w \in Works \cup {MORE}
    BY DEF TypeOK
  <2>2. /\ jobs' \in Seq(Works \cup {MORE}) /\ NoDup(jobs')
        /\ \A y : BSmallPending_IsSet(jobs', y) <=> BSmallPending_IsSet(jobs, y) \/ y = w
    <3>1. jobs \in Seq(Works \cup {MORE}) /\ NoDup(jobs) BY DEF TypeOK, JobsInv
    <3> HIDE <1>2 DEF IInv, WorkInitJob
    <3>2. jobs' = BSmallPending_Set(jobs, w) BY <1>2 DEF WorkInitJob
    <3>3. QED BY <2>1, <3>1, <3>2, SetFacts
  <2>3. TypeOK' /\ PcInv' /\ MainInv'
    BY <2>1, <2>2 DEF TypeOK, PcInv, MainInv
  <2>4. JobsInv' /\ SemInv' /\ ListsMatchStates'
    BY <2>1, <2>2 DEF TypeOK, PcInv, JobsInv, SemInv, ListsMatchStates
  <2>5. NoLostWakeup' /\ NoStrandedResult'
    BY <2>1, <2>2 DEF TypeOK, PcInv, MainInv, ListsMatchStates, NoLostWakeup, NoStrandedResult
  <2>6. QED BY <2>3, <2>4, <2>5
<1>3. CASE JobStart(w)
  <2> USE <1>3 DEF JobStart
  <2>1. /\ jobs' \in Seq(Works \cup {MORE}) /\ NoDup(jobs') /\ Head(jobs) \in Works \cup {MORE}
        /\ BSmallPending_IsSet(jobs, Head(jobs))
        /\ \A y : BSmallPending_IsSet(jobs', y) <=> BSmallPending_IsSet(jobs, y) /\ y # Head(jobs)
    BY TailFacts DEF TypeOK, JobsInv
  <2>2. TypeOK' /\ PcInv' /\ MainInv'
    BY <2>1, SMTT(30) DEF TypeOK, PcInv, MainInv, JobsInv
  <2>3. JobsInv' /\ SemInv' /\ ListsMatchStates'
    BY <2>1 DEF TypeOK, PcInv, JobsInv, SemInv, ListsMatchStates
  <2>4. NoLostWakeup' /\ NoStrandedResult'
    BY <2>1 DEF TypeOK, PcInv, MainInv, ListsMatchStates, NoLostWakeup, NoStrandedResult
  <2>5. QED BY <2>2, <2>3, <2>4
<1>4. CASE FreeCall(w)
  <2> USE <1>4 DEF FreeCall
  <2>1. TypeOK' /\ PcInv' /\ MainInv'
    BY SMTT(30) DEF TypeOK, PcInv, MainInv
  <2>2. JobsInv' /\ SemInv' /\ ListsMatchStates'
    BY DEF TypeOK, PcInv, JobsInv, SemInv, ListsMatchStates
  <2>3. NoLostWakeup' /\ NoStrandedResult'
    BY DEF TypeOK, PcInv, MainInv, ListsMatchStates, NoLostWakeup, NoStrandedResult
  <2>4. QED BY <2>1, <2>2, <2>3
<1>5. CASE FreeJob(w)
  <2> USE <1>5 DEF FreeJob
  <2>1. state[w] = "JOB"
    BY DEF TypeOK, MainInv
  <2>2. /\ jobs' \in Seq(Works \cup {MORE}) /\ NoDup(jobs')
        /\ \A y : BSmallPending_IsSet(jobs', y) <=> BSmallPending_IsSet(jobs, y) /\ y # w
    BY <2>1, RemoveFacts DEF TypeOK, JobsInv, BSmallPending_Unset
  <2>3. TypeOK' /\ PcInv' /\ MainInv'
    BY <2>1, <2>2 DEF TypeOK, PcInv, MainInv
  <2>4. JobsInv' /\ SemInv' /\ ListsMatchStates'
    BY <2>1, <2>2, SMTT(30) DEF TypeOK, PcInv, JobsInv, SemInv, ListsMatchStates
  <2>5. NoLostWakeup' /\ NoStrandedResult'
    BY <2>1, <2>2, SMTT(30) DEF TypeOK, PcInv, MainInv, ListsMatchStates, NoLostWakeup, NoStrandedResult
  <2>6. QED BY <2>3, <2>4, <2>5
<1>6. QED BY <1>1, <1>2, <1>3, <1>4, <1>5 DEF WorkNext

\* So do starting the threads and the handlers of the event loop.
LEMMA LoopKeeps ==
  ASSUME IInv, \/ CreateNext \/ JobWorked \/ JobReport \/ PipeHandler \/ MoreJob
               \/ DispatchNone \/ Dispatch
  PROVE  IInv'
<1> USE ThreadCountFacts, BThreadWorkAssumption DEF IInv, mainVars, threadVars
<1>1. CASE CreateThread
  <2> USE <1>1 DEF CreateThread, Goto
  <2>1. pending_list = <<>> /\ finished_list = <<>>
    BY EmptyLists DEF MainInv
  <2>2. num_threads + 1 \in Threads
    BY <2>1 DEF TypeOK, Threads
  <2>3. TypeOK' /\ PcInv' /\ MainInv'
    BY <2>1, <2>2, SMTT(30) DEF TypeOK, PcInv, MainInv
  <2>4. JobsInv' /\ SemInv' /\ ListsMatchStates'
    BY <2>1, <2>2 DEF TypeOK, PcInv, JobsInv, SemInv, ListsMatchStates
  <2>5. NoLostWakeup' /\ NoStrandedResult'
    BY <2>1, <2>2 DEF TypeOK, PcInv, MainInv, ListsMatchStates, NoLostWakeup, NoStrandedResult
  <2>6. QED BY <2>3, <2>4, <2>5
<1>2. CASE CreateFail
  <2> USE <1>2 DEF CreateFail
  <2>1. TypeOK' /\ PcInv' /\ MainInv'
    BY DEF TypeOK, PcInv, MainInv
  <2>2. JobsInv' /\ SemInv' /\ ListsMatchStates'
    BY DEF TypeOK, PcInv, JobsInv, SemInv, ListsMatchStates
  <2>3. NoLostWakeup' /\ NoStrandedResult'
    BY DEF TypeOK, PcInv, MainInv, ListsMatchStates, NoLostWakeup, NoStrandedResult
  <2>4. QED BY <2>1, <2>2, <2>3
<1>3. CASE CreateDone
  <2> USE <1>3 DEF CreateDone
  <2>1. TypeOK' /\ PcInv' /\ MainInv'
    BY SMTT(30) DEF TypeOK, PcInv, MainInv
  <2>2. JobsInv' /\ SemInv' /\ ListsMatchStates'
    BY DEF TypeOK, PcInv, JobsInv, SemInv, ListsMatchStates
  <2>3. NoLostWakeup' /\ NoStrandedResult'
    BY DEF TypeOK, PcInv, MainInv, ListsMatchStates, NoLostWakeup, NoStrandedResult
  <2>4. QED BY <2>1, <2>2, <2>3
<1>4. CASE JobWorked
  <2> USE <1>4 DEF JobWorked
  <2>1. TypeOK' /\ PcInv' /\ MainInv'
    BY DEF TypeOK, PcInv, MainInv
  <2>2. JobsInv' /\ SemInv' /\ ListsMatchStates'
    BY DEF TypeOK, PcInv, JobsInv, SemInv, ListsMatchStates
  <2>3. NoLostWakeup' /\ NoStrandedResult'
    BY DEF TypeOK, PcInv, MainInv, ListsMatchStates, NoLostWakeup, NoStrandedResult
  <2>4. QED BY <2>1, <2>2, <2>3
<1>5. CASE JobReport
  <2> USE <1>5 DEF JobReport
  <2>1. TypeOK' /\ PcInv' /\ MainInv'
    BY DEF TypeOK, PcInv, MainInv
  <2>2. JobsInv' /\ SemInv' /\ ListsMatchStates'
    BY DEF TypeOK, PcInv, JobsInv, SemInv, ListsMatchStates
  <2>3. NoLostWakeup' /\ NoStrandedResult'
    BY DEF TypeOK, PcInv, MainInv, ListsMatchStates, NoLostWakeup, NoStrandedResult
  <2>4. QED BY <2>1, <2>2, <2>3
<1>6. CASE PipeHandler
  <2> USE <1>6 DEF PipeHandler
  <2>1. TypeOK' /\ PcInv' /\ MainInv'
    BY DEF TypeOK, PcInv, MainInv
  <2>2. JobsInv' /\ SemInv' /\ ListsMatchStates'
    BY DEF TypeOK, PcInv, JobsInv, SemInv, ListsMatchStates
  <2>3. NoLostWakeup' /\ NoStrandedResult'
    BY DEF TypeOK, PcInv, MainInv, ListsMatchStates, NoLostWakeup, NoStrandedResult
  <2>4. QED BY <2>1, <2>2, <2>3
<1>7. CASE MoreJob
  <2> USE <1>7 DEF MoreJob
  <2>1. /\ jobs' \in Seq(Works \cup {MORE}) /\ NoDup(jobs') /\ Head(jobs) \in Works \cup {MORE}
        /\ BSmallPending_IsSet(jobs, Head(jobs))
        /\ \A y : BSmallPending_IsSet(jobs', y) <=> BSmallPending_IsSet(jobs, y) /\ y # Head(jobs)
    BY TailFacts DEF TypeOK, JobsInv
  <2>2. TypeOK' /\ PcInv' /\ MainInv'
    BY <2>1, SMTT(30) DEF TypeOK, PcInv, MainInv, JobsInv
  <2>3. JobsInv' /\ SemInv' /\ ListsMatchStates'
    BY <2>1 DEF TypeOK, PcInv, JobsInv, SemInv, ListsMatchStates
  <2>4. NoLostWakeup' /\ NoStrandedResult'
    BY <2>1 DEF TypeOK, PcInv, MainInv, ListsMatchStates, NoLostWakeup, NoStrandedResult
  <2>5. QED BY <2>2, <2>3, <2>4
<1>8. CASE DispatchNone
  <2> USE <1>8 DEF DispatchNone
  <2>1. TypeOK' /\ PcInv' /\ MainInv'
    BY DEF TypeOK, PcInv, MainInv
  <2>2. JobsInv' /\ SemInv' /\ ListsMatchStates'
    BY DEF TypeOK, PcInv, JobsInv, SemInv, ListsMatchStates
  <2>3. NoLostWakeup' /\ NoStrandedResult'
    BY DEF TypeOK, PcInv, MainInv, ListsMatchStates, NoLostWakeup, NoStrandedResult
  <2>4. QED BY <2>1, <2>2, <2>3
<1>9. CASE Dispatch
  <2> USE <1>9 DEF Dispatch
  <2>1. /\ finished_list' \in Seq(Works) /\ NoDup(finished_list') /\ Head(finished_list) \in Works
        /\ BSmallPending_IsSet(finished_list, Head(finished_list))
        /\ \A y : BSmallPending_IsSet(finished_list', y) <=> BSmallPending_IsSet(finished_list, y) /\ y # Head(finished_list)
    BY TailFacts DEF TypeOK, ListsMatchStates
  <2>2. /\ jobs' \in Seq(Works \cup {MORE}) /\ NoDup(jobs')
        /\ \A y : BSmallPending_IsSet(jobs', y) <=>
             BSmallPending_IsSet(jobs, y) \/ (y = MORE /\ finished_list' # <<>>)
    <3> DEFINE r == BSmallPending_Set(jobs, MORE)
    <3>1. jobs \in Seq(Works \cup {MORE}) /\ NoDup(jobs) BY DEF TypeOK, JobsInv
    <3>2. /\ r \in Seq(Works \cup {MORE}) /\ NoDup(r)
          /\ \A y : BSmallPending_IsSet(r, y) <=> BSmallPending_IsSet(jobs, y) \/ y = MORE
      BY <3>1, SetFacts
    <3>3. jobs' = IF finished_list' # <<>> THEN r ELSE jobs OBVIOUS
    <3> HIDE DEF r
    <3>4. QED BY ONLY <3>1, <3>2, <3>3
  <2>3. state[Head(finished_list)] = "FINISHED"
    BY <2>1, <2>2 DEF ListsMatchStates
  <2>4. TypeOK' BY <2>1, <2>2, <2>3, SMTT(30) DEF TypeOK, PcInv, MainInv
  <2>5. PcInv' BY <2>1, <2>2, <2>3 DEF TypeOK, PcInv
  <2>6. MainInv' BY <2>1, <2>2, <2>3, SMTT(30) DEF TypeOK, PcInv, MainInv
  <2>7. JobsInv' 
    <3>1. num_threads' > 0 BY DEF MainInv
    <3>2. ASSUME NEW w \in Works, BSmallPending_IsSet(jobs', w) PROVE state'[w] = "JOB"
      <4>1. BSmallPending_IsSet(jobs, w) BY <2>2, <3>2, SMTT(30)
      <4>2. state[w] = "JOB" BY <4>1 DEF JobsInv
      <4>3. QED BY <4>2, <2>1, <2>3 DEF TypeOK
    <3>3. QED BY <2>2, <3>1, <3>2 DEF JobsInv
  <2>8. SemInv' BY <2>1, <2>2, <2>3, SMTT(30) DEF TypeOK, PcInv, SemInv, ListsMatchStates
  <2>9. ListsMatchStates' BY <2>1, <2>2, <2>3, SMTT(30) DEF TypeOK, PcInv, ListsMatchStates
  <2>10. NoLostWakeup' BY <2>1, <2>2, <2>3, SMTT(30) DEF TypeOK, PcInv, MainInv, NoLostWakeup, ListsMatchStates
  <2>11. NoStrandedResult' BY <2>1, <2>2, <2>3 DEF TypeOK, NoStrandedResult, MainInv
  <2>12. QED BY <2>4, <2>5, <2>6, <2>7, <2>8, <2>9, <2>10, <2>11
<1>10. QED BY <1>1, <1>2, <1>3, <1>4, <1>5, <1>6, <1>7, <1>8, <1>9, SMTT(30) DEF CreateNext

\* So does freeing an item in any of its states.
LEMMA FreeKeeps ==
  ASSUME IInv, FreeNext
  PROVE  IInv'
<1> USE ThreadCountFacts, BThreadWorkAssumption DEF IInv, mainVars, threadVars
<1>1. CASE FreePending
  <2> USE <1>1 DEF FreePending, FreeReturn
  <2>1. /\ pending_list' \in Seq(Works) /\ NoDup(pending_list')
        /\ \A y : BSmallPending_IsSet(pending_list', y) <=> BSmallPending_IsSet(pending_list, y) /\ y # mw
    BY RemoveFacts DEF TypeOK, ListsMatchStates
  <2>2. mw \in Works /\ pending_list # <<>>
    BY <2>1, EmptyFacts DEF TypeOK, MainInv, ListsMatchStates
  <2>3. TypeOK' /\ PcInv' /\ MainInv'
    BY <2>1, <2>2, SMTT(30) DEF TypeOK, PcInv, MainInv
  <2>4. JobsInv' /\ SemInv' /\ ListsMatchStates'
    BY <2>1, <2>2 DEF TypeOK, PcInv, JobsInv, SemInv, ListsMatchStates
  <2>5. NoLostWakeup' /\ NoStrandedResult'
    BY <2>1, <2>2 DEF TypeOK, PcInv, MainInv, ListsMatchStates, NoLostWakeup, NoStrandedResult
  <2>6. QED BY <2>3, <2>4, <2>5
<1>2. CASE FreeRunning
  <2> USE <1>2 DEF FreeRunning
  <2>1. TypeOK' /\ PcInv' /\ MainInv'
    BY SMTT(30) DEF TypeOK, PcInv, MainInv
  <2>2. JobsInv' /\ SemInv' /\ ListsMatchStates'
    BY DEF TypeOK, PcInv, JobsInv, SemInv, ListsMatchStates
  <2>3. NoLostWakeup' /\ NoStrandedResult'
    BY DEF TypeOK, PcInv, MainInv, ListsMatchStates, NoLostWakeup, NoStrandedResult
  <2>4. QED BY <2>1, <2>2, <2>3
<1>3. CASE FreeFinished
  <2> USE <1>3 DEF FreeFinished, FreeReturn
  <2>1. /\ finished_list' \in Seq(Works) /\ NoDup(finished_list')
        /\ \A y : BSmallPending_IsSet(finished_list', y) <=> BSmallPending_IsSet(finished_list, y) /\ y # mw
    BY RemoveFacts DEF TypeOK, ListsMatchStates
  <2>2. mw \in Works /\ finished_list # <<>>
    BY <2>1, EmptyFacts DEF TypeOK, MainInv, ListsMatchStates
  <2>3. TypeOK' /\ PcInv' /\ MainInv'
    BY <2>1, <2>2, SMTT(30) DEF TypeOK, PcInv, MainInv
  <2>4. JobsInv' /\ SemInv' /\ ListsMatchStates'
    BY <2>1, <2>2, SMTT(30) DEF TypeOK, PcInv, JobsInv, SemInv, ListsMatchStates
  <2>5. NoLostWakeup' /\ NoStrandedResult'
    BY <2>1, <2>2 DEF TypeOK, PcInv, MainInv, ListsMatchStates, NoLostWakeup, NoStrandedResult
  <2>6. QED BY <2>3, <2>4, <2>5
<1>4. CASE FreeForgotten
  <2> USE <1>4 DEF FreeForgotten, FreeReturn
  <2>1. TypeOK' /\ PcInv' /\ MainInv'
    BY SMTT(30) DEF TypeOK, PcInv, MainInv
  <2>2. JobsInv' /\ SemInv' /\ ListsMatchStates'
    BY DEF TypeOK, PcInv, JobsInv, SemInv, ListsMatchStates
  <2>3. NoLostWakeup' /\ NoStrandedResult'
    BY DEF TypeOK, PcInv, MainInv, ListsMatchStates, NoLostWakeup, NoStrandedResult
  <2>4. QED BY <2>1, <2>2, <2>3
<1>5. CASE SemWait
  <2> USE <1>5 DEF SemWait
  <2>1. mw \in Works /\ state[mw] = "FINISHED"
    <3>1. mw \in Works /\ state[mw] \in {"RUNNING", "FINISHED"} BY DEF MainInv
    <3>2. finished_sem[mw] = 1 BY <3>1 DEF TypeOK
    <3>3. QED BY <3>1, <3>2 DEF SemInv
  <2>2. TypeOK' /\ PcInv' /\ MainInv'
    BY <2>1, SMTT(30) DEF TypeOK, PcInv, MainInv
  <2>3. JobsInv' /\ SemInv' /\ ListsMatchStates'
    BY <2>1, SMTT(30) DEF TypeOK, PcInv, JobsInv, SemInv, ListsMatchStates
  <2>4. NoLostWakeup' /\ NoStrandedResult'
    BY <2>1, SMTT(30) DEF TypeOK, PcInv, MainInv, ListsMatchStates, NoLostWakeup, NoStrandedResult
  <2>5. QED BY <2>2, <2>3, <2>4
<1>6. CASE FreeRelock
  <2> USE <1>6 DEF FreeRelock, FreeReturn
  <2>1. /\ finished_list' \in Seq(Works) /\ NoDup(finished_list')
        /\ \A y : BSmallPending_IsSet(finished_list', y) <=> BSmallPending_IsSet(finished_list, y) /\ y # mw
    BY RemoveFacts DEF TypeOK, ListsMatchStates
  <2>2. mw \in Works /\ state[mw] = "FINISHED" /\ finished_list # <<>>
    BY <2>1, EmptyFacts DEF TypeOK, MainInv, ListsMatchStates
  <2>3. TypeOK' /\ PcInv' /\ MainInv'
    BY <2>1, <2>2, SMTT(30) DEF TypeOK, PcInv, MainInv
  <2>4. JobsInv' /\ SemInv' /\ ListsMatchStates'
    BY <2>1, <2>2, SMTT(30) DEF TypeOK, PcInv, JobsInv, SemInv, ListsMatchStates
  <2>5. NoLostWakeup' /\ NoStrandedResult'
    BY <2>1, <2>2, SMTT(30) DEF TypeOK, PcInv, MainInv, ListsMatchStates, NoLostWakeup, NoStrandedResult
  <2>6. QED BY <2>3, <2>4, <2>5
<1>7. QED BY <1>1, <1>2, <1>3, <1>4, <1>5, <1>6 DEF FreeNext

\* So does stopping the threads.
LEMMA StopKeeps ==
  ASSUME IInv, \/ DispatcherFree \/ StopNext \/ UNCHANGED vars
  PROVE  IInv'
<1> USE ThreadCountFacts, BThreadWorkAssumption DEF IInv, mainVars, threadVars
<1>1. CASE DispatcherFree
  <2> USE <1>1 DEF DispatcherFree
  <2>1. TypeOK' /\ PcInv' /\ MainInv'
    BY SMTT(30) DEF TypeOK, PcInv, MainInv
  <2>2. JobsInv' /\ SemInv' /\ ListsMatchStates'
    BY DEF TypeOK, PcInv, JobsInv, SemInv, ListsMatchStates
  <2>3. NoLostWakeup' /\ NoStrandedResult'
    BY SMTT(30) DEF TypeOK, PcInv, MainInv, ListsMatchStates, NoLostWakeup, NoStrandedResult
  <2>4. QED BY <2>1, <2>2, <2>3
<1>2. CASE StopCancel
  <2> USE <1>2 DEF StopCancel
  <2>1. TypeOK' /\ PcInv' /\ MainInv'
    BY SMTT(30) DEF TypeOK, PcInv, MainInv
  <2>2. JobsInv' /\ SemInv' /\ ListsMatchStates'
    BY DEF TypeOK, PcInv, JobsInv, SemInv, ListsMatchStates
  <2>3. NoLostWakeup' /\ NoStrandedResult'
    BY SMTT(30) DEF TypeOK, PcInv, MainInv, ListsMatchStates, NoLostWakeup, NoStrandedResult
  <2>4. QED BY <2>1, <2>2, <2>3
<1>3. CASE StopSignal
  <2> USE <1>3 DEF StopSignal, Signal
  <2>1. TypeOK' /\ PcInv' /\ MainInv'
    BY Zenon DEF TypeOK, PcInv, MainInv
  <2>2. JobsInv' /\ SemInv' /\ ListsMatchStates'
    BY SMTT(30) DEF TypeOK, PcInv, JobsInv, SemInv, ListsMatchStates
  <2>3. NoLostWakeup' /\ NoStrandedResult'
    BY SMTT(30) DEF TypeOK, PcInv, MainInv, ListsMatchStates, NoLostWakeup, NoStrandedResult
  <2>4. QED BY <2>1, <2>2, <2>3
<1>4. CASE StopJoin
  <2> USE <1>4 DEF StopJoin
  <2>1. TypeOK' /\ PcInv' /\ MainInv'
    BY SMTT(30) DEF TypeOK, PcInv, MainInv
  <2>2. JobsInv' /\ SemInv' /\ ListsMatchStates'
    BY SMTT(30) DEF TypeOK, PcInv, JobsInv, SemInv, ListsMatchStates
  <2>3. NoLostWakeup' /\ NoStrandedResult'
    BY SMTT(30) DEF TypeOK, PcInv, MainInv, ListsMatchStates, NoLostWakeup, NoStrandedResult
  <2>4. QED BY <2>1, <2>2, <2>3
<1>5. CASE StopDone
  <2> USE <1>5 DEF StopDone
  <2>1. /\ jobs' \in Seq(Works \cup {MORE}) /\ NoDup(jobs')
        /\ \A y : BSmallPending_IsSet(jobs', y) <=> BSmallPending_IsSet(jobs, y) /\ y # MORE
    BY RemoveFacts DEF TypeOK, JobsInv, BSmallPending_Unset
  <2>2. pending_list = <<>> /\ finished_list = <<>>
    BY <2>1, EmptyLists DEF MainInv
  <2>3. TypeOK' /\ PcInv' /\ MainInv'
    BY <2>1, <2>2, SMTT(30) DEF TypeOK, PcInv, MainInv
  <2>4. JobsInv' /\ SemInv' /\ ListsMatchStates'
    BY <2>1, <2>2, SMTT(30) DEF TypeOK, PcInv, JobsInv, SemInv, ListsMatchStates
  <2>5. NoLostWakeup' /\ NoStrandedResult'
    BY <2>1, <2>2, SMTT(30) DEF TypeOK, PcInv, MainInv, ListsMatchStates, NoLostWakeup, NoStrandedResult
  <2>6. QED BY <2>3, <2>4, <2>5
<1>6. CASE UNCHANGED vars
  <2> USE <1>6 DEF vars
  <2>1. TypeOK' /\ PcInv' /\ MainInv'
    BY SMTT(30) DEF TypeOK, PcInv, MainInv
  <2>2. JobsInv' /\ SemInv' /\ ListsMatchStates'
    BY DEF JobsInv, SemInv, ListsMatchStates
  <2>3. NoLostWakeup' /\ NoStrandedResult'
    BY DEF NoLostWakeup, NoStrandedResult
  <2>4. QED BY <2>1, <2>2, <2>3
<1>7. QED BY <1>1, <1>2, <1>3, <1>4, <1>5, <1>6 DEF StopNext

\* Every step of the dispatcher keeps the invariant.
LEMMA StepKeeps == IInv /\ [Next]_vars => IInv'
BY ThreadsKeep, WorksKeep, LoopKeeps, FreeKeeps, StopKeeps
DEF Next, LoopNext, Terminated

\* The invariant holds in every behaviour.
LEMMA Invariance == Spec => []IInv
<1>1. ASSUME Init PROVE IInv
  <2> USE <1>1 DEF Init
  <2>1. <<>> \in Seq(Works) /\ <<>> \in Seq(Works \cup {MORE}) /\ DOMAIN <<>> = {} OBVIOUS
  <2>2. \A x : ~BSmallPending_IsSet(<<>>, x) BY <2>1 DEF BSmallPending_IsSet
  <2>3. TypeOK
    <3>1. 0 \in 0..1 /\ 0 \in 0..PipeCap /\ 0 \in 0..ThreadCount
      BY ThreadCountFacts, BThreadWorkAssumption
    <3>2. QED BY <2>1, <3>1, Zenon DEF TypeOK
  <2>4. PcInv BY ThreadCountFacts, BThreadWorkAssumption DEF PcInv
  <2>5. MainInv BY DEF MainInv
  <2>6. JobsInv /\ ListsMatchStates
    BY <2>1, <2>2, BThreadWorkAssumption DEF JobsInv, ListsMatchStates, NoDup
  <2>7. SemInv BY BThreadWorkAssumption DEF SemInv
  <2>8. NoLostWakeup /\ NoStrandedResult BY DEF NoLostWakeup, NoStrandedResult
  <2>9. QED BY <2>3, <2>4, <2>5, <2>6, <2>7, <2>8 DEF IInv
<1>2. QED BY <1>1, StepKeeps, PTL DEF Spec

\* Lists, states and running threads agree: the ASSERTs on BThreadWork.state
\* cannot fail, for any number of threads and items.
THEOREM ListsAgree == Spec => []ListsMatchStates
<1>1. IInv => ListsMatchStates BY DEF IInv
<1>2. QED BY <1>1, Invariance, PTL

\* No thread uses an item after BThreadWork_Free has returned.
THEOREM FreedUntouched == Spec => []NoTouchAfterFree
<1>1. ASSUME IInv PROVE NoTouchAfterFree
  <2> SUFFICES ASSUME NEW t \in Threads, NEW w \in Works, InHand(t, w) PROVE state[w] # "none"
    BY DEF NoTouchAfterFree
  <2>1. CASE running_work[t] = w BY <1>1, <2>1, SMTT(30) DEF IInv, ListsMatchStates
  <2>2. CASE posting[t] = w BY <1>1, <2>2 DEF IInv, SemInv
  <2>3. QED BY <2>1, <2>2 DEF InHand
<1>2. QED BY <1>1, Invariance, PTL

\* Pending work always has a thread that is awake to take it.
THEOREM WakeupsKept == Spec => []NoLostWakeup
<1>1. IInv => NoLostWakeup BY DEF IInv
<1>2. QED BY <1>1, Invariance, PTL

\* A finished item always has something on its way to the event loop.
THEOREM ResultsKept == Spec => []NoStrandedResult
<1>1. IInv => NoStrandedResult BY DEF IInv
<1>2. QED BY <1>1, Invariance, PTL

-----------------------------------------------------------------------------
\* The promise of BThreadWork.h.

\* The promise seen from the phases: one item moves and the others stay.
LEMMA OneMoves ==
  ASSUME NEW w \in Works, NEW from, NEW to, Phase(w) \in from, Phase(w)' = to,
         \A v \in Works \ {w} : Phase(v)' = Phase(v)
  PROVE  Promise!Move(w, from, to)
BY Zenon DEF Promise!Move

\* No item moves when neither the states, nor the direct jobs, nor the
\* executions in progress change.
LEMMA NoneMoves ==
  ASSUME state' = state,
         \A v \in Works : BSmallPending_IsSet(jobs', v) <=> BSmallPending_IsSet(jobs, v),
         \/ mpc \notin {"job_work", "job_done"} /\ mpc' \notin {"job_work", "job_done"}
         \/ mpc' = mpc /\ mw' = mw,
         \A t \in Threads, v \in Works :
            running_work'[t] = v /\ tpc'[t] = "work" <=> running_work[t] = v /\ tpc[t] = "work"
  PROVE  UNCHANGED [w \in Works |-> Phase(w)]
<1>1. ASSUME NEW v \in Works PROVE Phase(v)' = Phase(v)
  <2>1. Posted(v)' <=> Posted(v) BY DEF Posted
  <2>2. Executing(v)' <=> Executing(v) BY DEF Executing
  <2>3. Executed(v)' <=> Executed(v) BY DEF Executed
  <2>4. QED BY <2>1, <2>2, <2>3, SMTT(30) DEF Phase
<1>2. QED BY <1>1

\* The steps that no item notices.
LEMMA Stutters ==
  ASSUME IInv,
         \/ \E t \in Threads : \/ ThreadLock(t) \/ ThreadExit(t) \/ ThreadWait(t)
                               \/ SpuriousWakeup(t) \/ ThreadPost(t) \/ ThreadWrite(t)
         \/ CreateNext \/ StopNext \/ DispatcherFree \/ UNCHANGED vars
         \/ PipeHandler \/ MoreJob \/ DispatchNone \/ FreeRunning \/ SemWait
         \/ \E w \in Works : FreeCall(w)
  PROVE  UNCHANGED [w \in Works |-> Phase(w)]
<1> USE DEF IInv, mainVars, threadVars
<1>1. ASSUME NEW t \in Threads,
             \/ ThreadLock(t) \/ ThreadExit(t) \/ ThreadWait(t)
             \/ SpuriousWakeup(t) \/ ThreadPost(t) \/ ThreadWrite(t)
      PROVE  UNCHANGED [w \in Works |-> Phase(w)]
  <2>1. state' = state /\ jobs' = jobs /\ mpc' = mpc /\ mw' = mw /\ running_work' = running_work
    BY <1>1, Zenon DEF ThreadLock, ThreadExit, ThreadWait, SpuriousWakeup, ThreadPost, ThreadWrite
  <2>2. \E pc : pc # "work" /\ tpc' = [tpc EXCEPT ![t] = pc] /\ tpc[t] # "work"
    BY <1>1, Zenon DEF ThreadLock, ThreadExit, ThreadWait, SpuriousWakeup, ThreadPost, ThreadWrite, At, Goto
  <2>3. \A u \in Threads : tpc'[u] = "work" <=> tpc[u] = "work" BY <2>2 DEF TypeOK
  <2>4. QED BY <2>1, <2>3, NoneMoves, SMTT(30)
<1>2. ASSUME CreateNext PROVE UNCHANGED [w \in Works |-> Phase(w)]
  <2>1. /\ state' = state /\ jobs' = jobs /\ running_work' = running_work
        /\ mpc \notin {"job_work", "job_done"} /\ mpc' \notin {"job_work", "job_done"}
    BY <1>2, SMTT(30) DEF CreateNext, CreateThread, CreateFail, CreateDone
  <2>2. \A u \in Threads : tpc'[u] = "work" <=> tpc[u] = "work"
    BY <1>2, ThreadCountFacts, SMTT(30)
    DEF CreateNext, CreateThread, CreateFail, CreateDone, Goto, TypeOK, PcInv
  <2>3. QED BY <2>1, <2>2, NoneMoves, Zenon
<1>3. ASSUME StopNext PROVE UNCHANGED [w \in Works |-> Phase(w)]
  <2>1. /\ state' = state /\ running_work' = running_work
        /\ mpc \notin {"job_work", "job_done"} /\ mpc' \notin {"job_work", "job_done"}
    BY <1>3, Zenon DEF StopNext, StopCancel, StopSignal, StopJoin, StopDone, threadVars
  <2>5. /\ tpc' = tpc \/ tpc' = Signal(tpc, num_threads)
        /\ jobs' = jobs \/ jobs' = BSmallPending_Unset(jobs, MORE)
    BY <1>3, Zenon DEF StopNext, StopCancel, StopSignal, StopJoin, StopDone, threadVars
  <2>2. \A u \in Threads : tpc'[u] = "work" <=> tpc[u] = "work"
    <3>1. tpc = [u \in Threads |-> tpc[u]] BY DEF TypeOK
    <3>2. QED BY ONLY <2>5, <3>1 DEF Signal
  <2>3. \A v \in Works : BSmallPending_IsSet(jobs', v) <=> BSmallPending_IsSet(jobs, v)
    <3>1. CASE jobs' = jobs BY <3>1
    <3>2. CASE jobs' = BSmallPending_Unset(jobs, MORE)
      <4>1. jobs \in Seq(Works \cup {MORE}) /\ NoDup(jobs) BY DEF TypeOK, JobsInv
      <4>2. jobs' = LinkedList1_Remove(jobs, MORE) BY <3>2 DEF BSmallPending_Unset
      <4>3. \A y : BSmallPending_IsSet(jobs', y) <=> BSmallPending_IsSet(jobs, y) /\ y # MORE
        BY <4>1, <4>2, RemoveFacts
      <4>4. QED BY <4>3, BThreadWorkAssumption
    <3>3. QED BY <2>5, <3>1, <3>2, Zenon
  <2>4. QED BY <2>1, <2>2, <2>3, NoneMoves, Zenon
<1>4. ASSUME DispatcherFree \/ PipeHandler \/ DispatchNone \/ FreeRunning \/ SemWait
             \/ \E w \in Works : FreeCall(w)
      PROVE  UNCHANGED [w \in Works |-> Phase(w)]
  <2>1. /\ state' = state /\ jobs' = jobs /\ running_work' = running_work /\ tpc' = tpc
        /\ mpc \notin {"job_work", "job_done"} /\ mpc' \notin {"job_work", "job_done"}
    BY <1>4, Zenon DEF DispatcherFree, PipeHandler, DispatchNone, FreeRunning, SemWait, FreeCall
  <2>2. QED BY <2>1, NoneMoves, Zenon
<1>5. ASSUME MoreJob PROVE UNCHANGED [w \in Works |-> Phase(w)]
  <2>1. /\ state' = state /\ running_work' = running_work /\ tpc' = tpc
        /\ mpc \notin {"job_work", "job_done"} /\ mpc' \notin {"job_work", "job_done"}
    BY <1>5 DEF MoreJob
  <2>2. \A v \in Works : BSmallPending_IsSet(jobs', v) <=> BSmallPending_IsSet(jobs, v)
    <3>1. jobs \in Seq(Works \cup {MORE}) /\ NoDup(jobs) BY DEF TypeOK, JobsInv
    <3>2. \A y : BSmallPending_IsSet(jobs', y) <=> BSmallPending_IsSet(jobs, y) /\ y # Head(jobs)
      BY <1>5, <3>1, TailFacts DEF MoreJob
    <3>3. QED BY <1>5, <3>2, BThreadWorkAssumption DEF MoreJob
  <2>3. QED BY <2>1, <2>2, NoneMoves, Zenon
<1>6. ASSUME UNCHANGED vars PROVE UNCHANGED [w \in Works |-> Phase(w)]
  <2>1. /\ state' = state /\ jobs' = jobs /\ running_work' = running_work /\ tpc' = tpc
        /\ mpc' = mpc /\ mw' = mw
    BY <1>6 DEF vars
  <2>2. QED BY <2>1, NoneMoves, Zenon
<1>7. QED BY <1>1, <1>2, <1>3, <1>4, <1>5, <1>6

\* The steps of the worker threads: an item is taken, executed, handed over.
LEMMA ThreadsKeepPromise ==
  ASSUME IInv, NEW t \in Threads, ThreadGrab(t) \/ ThreadWorked(t) \/ ThreadRelease(t)
  PROVE  Promise!PNext \/ UNCHANGED [w \in Works |-> Phase(w)]
<1> USE DEF IInv, mainVars
<1>1. ASSUME ThreadGrab(t) PROVE Promise!PNext
  <2>1. Head(pending_list) \in Works /\ state[Head(pending_list)] = "PENDING"
    BY <1>1, TailFacts, SMTT(30) DEF TypeOK, ListsMatchStates, ThreadGrab
  <2>2. PICK w \in Works : w = Head(pending_list) BY <2>1
  <2>3. /\ state' = [state EXCEPT ![w] = "RUNNING"]
        /\ running_work' = [running_work EXCEPT ![t] = w]
        /\ tpc' = [tpc EXCEPT ![t] = "work"] /\ jobs' = jobs /\ mpc' = mpc /\ mw' = mw
        /\ tpc[t] = "loop"
    BY <1>1, <2>2 DEF ThreadGrab, Goto, At
  <2>4. Phase(w) = "posted" BY <2>1, <2>2 DEF Phase, Posted
  <2>5. Phase(w)' = "executing" BY <2>3 DEF Phase, Posted, Executing, TypeOK
  <2>6. ASSUME NEW v \in Works \ {w} PROVE Phase(v)' = Phase(v)
    BY <2>3, SMTT(30) DEF Phase, Posted, Executing, Executed, TypeOK, PcInv
  <2>7. Promise!Move(w, {"posted"}, "executing") BY <2>4, <2>5, <2>6, OneMoves
  <2>8. QED BY <2>7 DEF Promise!PNext, Promise!Execute
<1>2. ASSUME ThreadWorked(t) PROVE Promise!PNext
  <2>1. running_work[t] \in Works /\ state[running_work[t]] = "RUNNING"
    BY <1>2, SMTT(30) DEF TypeOK, PcInv, ListsMatchStates, ThreadWorked, At
  <2>2. PICK w \in Works : w = running_work[t] BY <2>1
  <2>3. /\ state' = state /\ running_work' = running_work
        /\ tpc' = [tpc EXCEPT ![t] = "relock"] /\ jobs' = jobs /\ mpc' = mpc /\ mw' = mw
        /\ tpc[t] = "work"
    BY <1>2 DEF ThreadWorked, Goto, At
  <2>4. Phase(w) = "executing" BY <2>1, <2>2, <2>3, Zenon DEF Phase, Posted, Executing
  <2>5. Phase(w)' = "executed"
    <3>1. ~\E u \in Threads : running_work'[u] = w /\ tpc'[u] = "work"
      BY <2>1, <2>2, <2>3, BThreadWorkAssumption DEF ListsMatchStates, TypeOK
    <3>2. ~(mpc' = "job_work" /\ mw' = w) BY <2>1, <2>2, <2>3, Zenon DEF MainInv
    <3>3. QED BY <2>1, <2>2, <2>3, <3>1, <3>2, Zenon DEF Phase, Posted, Executing, Executed
  <2>6. ASSUME NEW v \in Works \ {w} PROVE Phase(v)' = Phase(v)
    BY <2>2, <2>3 DEF Phase, Posted, Executing, Executed, TypeOK
  <2>7. Promise!Move(w, {"executing"}, "executed") BY <2>4, <2>5, <2>6, OneMoves
  <2>8. QED BY <2>7 DEF Promise!PNext, Promise!Finish
<1>3. ASSUME ThreadRelease(t) PROVE UNCHANGED [w \in Works |-> Phase(w)]
  <2>1. running_work[t] \in Works /\ state[running_work[t]] = "RUNNING"
    BY <1>3, SMTT(30) DEF TypeOK, PcInv, ListsMatchStates, ThreadRelease, At
  <2>2. PICK w \in Works : w = running_work[t] BY <2>1
  <2>3. /\ state' = [state EXCEPT ![w] = "FINISHED"]
        /\ running_work' = [running_work EXCEPT ![t] = NULL]
        /\ tpc' = [tpc EXCEPT ![t] = "post"] /\ jobs' = jobs /\ mpc' = mpc /\ mw' = mw
        /\ tpc[t] = "relock"
    BY <1>3, <2>2 DEF ThreadRelease, Goto, At
  <2>4. ~\E u \in Threads : running_work[u] = w /\ tpc[u] = "work"
    BY <2>1, <2>2, <2>3, BThreadWorkAssumption, SMTT(30) DEF ListsMatchStates, TypeOK
  <2>5. ~\E u \in Threads : running_work'[u] = w /\ tpc'[u] = "work"
    BY <2>3, <2>4, BThreadWorkAssumption DEF TypeOK
  <2>6. ~(mpc \in {"job_work", "job_done"} /\ mw = w) BY <2>1, <2>2, Zenon DEF MainInv
  <2>7. Phase(w) = "executed" /\ Phase(w)' = "executed"
    BY <2>1, <2>2, <2>3, <2>4, <2>5, <2>6 DEF Phase, Posted, Executing, Executed, TypeOK
  <2>8. ASSUME NEW v \in Works \ {w} PROVE Phase(v)' = Phase(v)
    BY <2>2, <2>3, BThreadWorkAssumption, SMTT(30) DEF Phase, Posted, Executing, Executed, TypeOK
  <2>9. \A v \in Works : Phase(v)' = Phase(v) BY <2>7, <2>8
  <2>10. QED BY <2>9
<1>4. QED BY <1>1, <1>2, <1>3

\* The steps of the main thread: an item is posted, run as a job, reported.
LEMMA MainKeepsPromise ==
  ASSUME IInv,
         \/ \E w \in Works : WorkInit(w) \/ WorkInitJob(w) \/ JobStart(w) \/ FreeJob(w)
         \/ JobWorked \/ JobReport \/ Dispatch
  PROVE  Promise!PNext
<1> USE DEF IInv, mainVars, threadVars
<1>1. ASSUME NEW w \in Works, WorkInit(w) PROVE Promise!PNext
  <2>1. /\ state[w] = "none" /\ state' = [state EXCEPT ![w] = "PENDING"]
        /\ running_work' = running_work /\ jobs' = jobs /\ mpc' = mpc /\ mw' = mw
    BY <1>1 DEF WorkInit
  <2>2. \A u \in Threads : tpc'[u] = "work" <=> tpc[u] = "work"
    BY <1>1, SMTT(30) DEF WorkInit, PostSignal, Signal, Idle, TypeOK
  <2>3. Phase(w) = "idle" /\ Phase(w)' = "posted" BY <2>1 DEF Phase, Posted, TypeOK
  <2>4. ASSUME NEW v \in Works \ {w} PROVE Phase(v)' = Phase(v)
    BY <2>1, <2>2 DEF Phase, Posted, Executing, Executed, TypeOK
  <2>5. Promise!Move(w, {"idle"}, "posted") BY <2>3, <2>4, OneMoves
  <2>6. QED BY <2>5 DEF Promise!PNext, Promise!Post
<1>2. ASSUME NEW w \in Works, WorkInitJob(w) PROVE Promise!PNext
  <2>1. /\ state[w] = "none" /\ state' = [state EXCEPT ![w] = "JOB"]
        /\ running_work' = running_work /\ tpc' = tpc /\ mpc' = mpc /\ mw' = mw
    BY <1>2 DEF WorkInitJob
  <2>2. \A y : BSmallPending_IsSet(jobs', y) <=> BSmallPending_IsSet(jobs, y) \/ y = w
    <3>1. jobs \in Seq(Works \cup {MORE}) /\ NoDup(jobs) /\ w \in Works \cup {MORE}
      BY DEF TypeOK, JobsInv
    <3>2. jobs' = BSmallPending_Set(jobs, w) BY <1>2 DEF WorkInitJob
    <3> HIDE DEF IInv
    <3>3. QED BY <3>1, <3>2, SetFacts
  <2>3. Phase(w) = "idle" /\ Phase(w)' = "posted" BY <2>1, <2>2 DEF Phase, Posted, TypeOK
  <2>4. ASSUME NEW v \in Works \ {w} PROVE Phase(v)' = Phase(v)
    BY <2>1, <2>2, SMTT(30) DEF Phase, Posted, Executing, Executed, TypeOK
  <2>5. Promise!Move(w, {"idle"}, "posted") BY <2>3, <2>4, OneMoves
  <2>6. QED BY <2>5 DEF Promise!PNext, Promise!Post
<1>3. ASSUME NEW w \in Works, JobStart(w) PROVE Promise!PNext
  <2>1. /\ state' = state /\ running_work' = running_work /\ tpc' = tpc
        /\ mpc = "loop" /\ mpc' = "job_work" /\ mw' = w
    BY <1>3 DEF JobStart
  <2>2. /\ BSmallPending_IsSet(jobs, w)
        /\ \A y : BSmallPending_IsSet(jobs', y) <=> BSmallPending_IsSet(jobs, y) /\ y # w
    BY <1>3, TailFacts, SMTT(30) DEF JobStart, TypeOK, JobsInv
  <2>3. state[w] = "JOB" BY <2>2 DEF JobsInv
  <2>4. Phase(w) = "posted" BY <2>2, <2>3 DEF Phase, Posted
  <2>5. Phase(w)' = "executing" BY <2>1, <2>2, <2>3, SMTT(30) DEF Phase, Posted, Executing
  <2>6. ASSUME NEW v \in Works \ {w} PROVE Phase(v)' = Phase(v)
    BY <2>1, <2>2, Zenon DEF Phase, Posted, Executing, Executed
  <2>7. Promise!Move(w, {"posted"}, "executing") BY <2>4, <2>5, <2>6, OneMoves
  <2>8. QED BY <2>7 DEF Promise!PNext, Promise!Execute
<1>4. ASSUME JobWorked \/ JobReport PROVE Promise!PNext
  <2>1. /\ state' = state /\ running_work' = running_work /\ tpc' = tpc /\ jobs' = jobs
        /\ \/ mpc = "job_work" /\ mpc' = "job_done" /\ mw' = mw
           \/ mpc = "job_done" /\ mpc' = "loop"
    BY <1>4 DEF JobWorked, JobReport
  <2>2. mw \in Works /\ state[mw] = "JOB" /\ ~BSmallPending_IsSet(jobs, mw) BY <2>1 DEF MainInv
  <2>3. PICK w \in Works : w = mw BY <2>2
  <2>4. ~\E u \in Threads : running_work[u] = w BY <2>2, <2>3, Zenon DEF ListsMatchStates
  <2>5. ASSUME NEW v \in Works \ {w} PROVE Phase(v)' = Phase(v)
    BY <2>1, <2>3, SMTT(30) DEF Phase, Posted, Executing, Executed
  <2>6. CASE mpc = "job_work"
    <3>1. Phase(w) = "executing" /\ Phase(w)' = "executed"
      BY <2>1, <2>2, <2>3, <2>4, <2>6, Zenon DEF Phase, Posted, Executing, Executed
    <3>2. Promise!Move(w, {"executing"}, "executed") BY <2>5, <3>1, OneMoves
    <3>3. QED BY <3>2 DEF Promise!PNext, Promise!Finish
  <2>7. CASE mpc = "job_done"
    <3>1. Phase(w) = "executed" /\ Phase(w)' = "reported"
      BY <2>1, <2>2, <2>3, <2>4, <2>7, Zenon DEF Phase, Posted, Executing, Executed
    <3>2. Promise!Move(w, {"executed"}, "reported") BY <2>5, <3>1, OneMoves
    <3>3. QED BY <3>2 DEF Promise!PNext, Promise!Report
  <2>8. QED BY <2>1, <2>6, <2>7
<1>5. ASSUME NEW w \in Works, FreeJob(w) PROVE Promise!PNext
  <2>1. /\ state' = [state EXCEPT ![w] = "none"] /\ mpc = "loop"
        /\ running_work' = running_work /\ tpc' = tpc /\ mpc' = mpc /\ mw' = mw
    BY <1>5 DEF FreeJob
  <2>2. state[w] = "JOB" BY <1>5, SMTT(30) DEF FreeJob, MainInv, TypeOK
  <2>3. \A y : BSmallPending_IsSet(jobs', y) <=> BSmallPending_IsSet(jobs, y) /\ y # w
    <3>1. jobs \in Seq(Works \cup {MORE}) /\ NoDup(jobs) BY DEF TypeOK, JobsInv
    <3>2. jobs' = LinkedList1_Remove(jobs, w) BY <1>5 DEF FreeJob, BSmallPending_Unset
    <3>3. QED BY <3>1, <3>2, RemoveFacts
  <2>4. ~\E u \in Threads : running_work[u] = w BY <2>2, Zenon DEF ListsMatchStates
  <2>5. Phase(w) \in {"posted", "executed", "reported"} /\ Phase(w)' = "idle"
    BY <2>1, <2>2, <2>4 DEF Phase, Posted, Executing, Executed, TypeOK
  <2>6. ASSUME NEW v \in Works \ {w} PROVE Phase(v)' = Phase(v)
    BY <2>1, <2>3, SMTT(30) DEF Phase, Posted, Executing, Executed, TypeOK
  <2>7. Promise!Move(w, {"posted", "executed", "reported"}, "idle") BY <2>5, <2>6, OneMoves
  <2>8. QED BY <2>7 DEF Promise!PNext, Promise!Release
<1>6. ASSUME Dispatch PROVE Promise!PNext
  <2>1. Head(finished_list) \in Works /\ state[Head(finished_list)] = "FINISHED"
    <3>1. finished_list # <<>> BY <1>6, Zenon DEF Dispatch
    <3>2. /\ finished_list \in Seq(Works) /\ NoDup(finished_list)
          /\ \A v \in Works : BSmallPending_IsSet(finished_list, v) <=> state[v] = "FINISHED"
      BY DEF TypeOK, ListsMatchStates
    <3>3. QED BY ONLY <3>1, <3>2, TailFacts
  <2>2. PICK w \in Works : w = Head(finished_list) BY <2>1
  <2>3. /\ state' = [state EXCEPT ![w] = "FORGOTTEN"] /\ mpc = "dispatch" /\ mpc' = "loop"
        /\ running_work' = running_work /\ tpc' = tpc
    BY <1>6, <2>2 DEF Dispatch
  <2>4. \A v \in Works : BSmallPending_IsSet(jobs', v) <=> BSmallPending_IsSet(jobs, v)
    <3>1. jobs \in Seq(Works \cup {MORE}) /\ NoDup(jobs) /\ MORE \in Works \cup {MORE}
      BY DEF TypeOK, JobsInv
    <3>2. jobs' = jobs \/ jobs' = BSmallPending_Set(jobs, MORE) BY <1>6 DEF Dispatch
    <3> HIDE DEF IInv
    <3>3. jobs' = jobs \/
          \A y : BSmallPending_IsSet(jobs', y) <=> BSmallPending_IsSet(jobs, y) \/ y = MORE
      BY <3>1, <3>2, SetFacts
    <3>4. QED BY <3>3, BThreadWorkAssumption
  <2>5. ~\E u \in Threads : running_work[u] = w BY <2>1, <2>2, SMTT(30) DEF ListsMatchStates
  <2>6. Phase(w) = "executed" /\ Phase(w)' = "reported"
    BY <2>1, <2>2, <2>3, <2>5, SMTT(30) DEF Phase, Posted, Executing, Executed, TypeOK
  <2>7. ASSUME NEW v \in Works \ {w} PROVE Phase(v)' = Phase(v)
    BY <2>3, <2>4, SMTT(30) DEF Phase, Posted, Executing, Executed, TypeOK
  <2>8. Promise!Move(w, {"executed"}, "reported") BY <2>6, <2>7, OneMoves
  <2>9. QED BY <2>8 DEF Promise!PNext, Promise!Report
<1>7. QED BY <1>1, <1>2, <1>3, <1>4, <1>5, <1>6

\* BThreadWork_Free returns only when the item is not being executed.
LEMMA FreeKeepsPromise ==
  ASSUME IInv, FreePending \/ FreeFinished \/ FreeForgotten \/ FreeRelock
  PROVE  Promise!PNext
<1> USE DEF IInv, threadVars
<1>1. /\ mpc \in {"free", "free_relock"} /\ mpc' = "loop"
      /\ state' = [state EXCEPT ![mw] = "none"] /\ running_work' = running_work
      /\ tpc' = tpc /\ jobs' = jobs
      /\ mpc = "free" => state[mw] \in {"PENDING", "FINISHED", "FORGOTTEN"}
  BY SMTT(30) DEF FreePending, FreeFinished, FreeForgotten, FreeRelock, FreeReturn
<1>2. mw \in Works /\ state[mw] \in {"PENDING", "FINISHED", "FORGOTTEN"} BY <1>1 DEF MainInv
<1>3. PICK w \in Works : w = mw BY <1>2
<1>4. ~\E u \in Threads : running_work[u] = w BY <1>2, <1>3 DEF ListsMatchStates
<1>5. Phase(w) \in {"posted", "executed", "reported"} /\ Phase(w)' = "idle"
  BY <1>1, <1>2, <1>3, <1>4, SMTT(30) DEF Phase, Posted, Executing, Executed, TypeOK
<1>6. ASSUME NEW v \in Works \ {w} PROVE Phase(v)' = Phase(v)
  BY <1>1, <1>3, SMTT(30) DEF Phase, Posted, Executing, Executed, TypeOK
<1>7. Promise!Move(w, {"posted", "executed", "reported"}, "idle") BY <1>5, <1>6, OneMoves
<1>8. QED BY <1>7 DEF Promise!PNext, Promise!Release

\* The dispatcher implements the promise of BThreadWork.h: in particular, when
\* BThreadWork_Free returns the work function is not running and will not run.
THEOREM PromiseKept == Spec => KeepsPromise
<1>1. Init => Promise!PInit
  BY DEF Init, Promise!PInit, Phase
<1>2. IInv /\ [Next]_vars => [Promise!PNext]_([w \in Works |-> Phase(w)])
  <2> SUFFICES ASSUME IInv, [Next]_vars
               PROVE  Promise!PNext \/ UNCHANGED [w \in Works |-> Phase(w)]
    OBVIOUS
  <2>1. CASE \E t \in Threads : ThreadStep(t) \/ SpuriousWakeup(t)
    BY <2>1, Stutters, ThreadsKeepPromise DEF ThreadStep
  <2>2. CASE \E w \in Works : WorkNext(w)
    BY <2>2, Stutters, MainKeepsPromise DEF WorkNext
  <2>3. CASE FreeNext
    BY <2>3, Stutters, FreeKeepsPromise DEF FreeNext
  <2>4. CASE LoopNext
    BY <2>4, Stutters, MainKeepsPromise DEF LoopNext
  <2>5. CASE CreateNext \/ DispatcherFree \/ StopNext \/ Terminated \/ UNCHANGED vars
    BY <2>5, Stutters DEF Terminated
  <2>6. QED BY <2>1, <2>2, <2>3, <2>4, <2>5 DEF Next
<1>3. QED BY <1>1, <1>2, Invariance, PTL DEF Spec, KeepsPromise, Promise!PSpec
=============================================================================
