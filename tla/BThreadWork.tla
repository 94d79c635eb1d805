---------------------------- MODULE BThreadWork ----------------------------
(***************************************************************************)
(* The work dispatcher of src/threadwork/BThreadWork.c: worker threads     *)
(* take work items from a list under a mutex, execute them, and hand them  *)
(* back to the event loop through a second list and a pipe.  The main      *)
(* thread posts items, frees them at any moment and stops the threads.     *)
(*                                                                         *)
(* A step of a worker is the code between two points at which another      *)
(* thread could see the difference.  The main thread's critical sections   *)
(* contain no such point and are single steps that need the mutex free.    *)
(***************************************************************************)
EXTENDS JobList

CONSTANTS
    num_threads_hint,   \* argument of BThreadWorkDispatcher_Init; it may also be 0
    MAX_THREADS,        \* BTHREADWORK_MAX_THREADS
    Works,              \* the BThreadWork objects of the program
    PipeCap,            \* bytes the pipe holds before a write would block
    ReadSize,           \* bytes one read of the pipe takes (64 in the code)
    MORE,               \* the dispatcher's more_job
    NULL                \* no work item, no thread

\* The number of threads that BThreadWorkDispatcher_Init tries to start.
ThreadCount ==
    LET hint == IF num_threads_hint < 0 THEN 2 ELSE num_threads_hint
    IN  IF hint > MAX_THREADS THEN MAX_THREADS ELSE hint

Threads == 1..ThreadCount

ASSUME BThreadWorkAssumption ==
    /\ num_threads_hint \in Int
    /\ MAX_THREADS \in Nat \ {0}
    /\ PipeCap \in Nat \ {0}
    /\ ReadSize \in Nat \ {0}
    /\ MORE \notin Works
    /\ NULL \notin Works /\ NULL \notin Threads

VARIABLES
    pending_list, finished_list,    \* lists of work items
    state,          \* BThreadWork.state, "none" when not initialised
    finished_sem,   \* value of the item's semaphore
    running_work,   \* running_work of each thread
    posting,        \* local w of a thread that has just finished it
    mutex,          \* the worker that holds the mutex, or NULL
    tpc,            \* where each worker is
    pipe,           \* bytes in the pipe
    jobs,           \* the reactor's job list: more_job and direct work jobs
    cancel,
    num_threads,
    mpc,            \* where the main thread is
    mw              \* the work item the main thread deals with

threadVars == <<running_work, posting, tpc>>
mainVars == <<num_threads, mpc, mw>>
vars == <<pending_list, finished_list, state, finished_sem, threadVars, mutex,
          pipe, jobs, cancel, mainVars>>

TypeOK ==
    /\ pending_list \in Seq(Works) /\ finished_list \in Seq(Works)
    /\ state \in [Works -> {"none", "PENDING", "RUNNING", "FINISHED", "FORGOTTEN", "JOB"}]
    /\ finished_sem \in [Works -> 0..1]
    /\ running_work \in [Threads -> Works \cup {NULL}]
    /\ posting \in [Threads -> Works \cup {NULL}]
    /\ mutex \in Threads \cup {NULL}
    /\ tpc \in [Threads -> {"none", "lock", "loop", "wait", "work", "relock",
                            "post", "write", "exited"}]
    /\ pipe \in 0..PipeCap
    /\ jobs \in Seq(Works \cup {MORE})
    /\ cancel \in BOOLEAN
    /\ num_threads \in 0..ThreadCount
    /\ mpc \in {"create", "loop", "dispatch", "job_work", "job_done", "free",
                "sem_wait", "free_relock", "stop", "signal", "join", "freed"}
    /\ mw \in Works \cup {NULL}

\* BThreadWorkDispatcher_Init sets num_threads only when there are to be threads; for
\* a hint of 0 it is read all the same.  It is zero then because every dispatcher of
\* the repository (twd of client.c, twd of server.c) is an object of file scope.
Init ==
    /\ pending_list = <<>> /\ finished_list = <<>>
    /\ state = [w \in Works |-> "none"]
    /\ finished_sem = [w \in Works |-> 0]
    /\ running_work = [t \in Threads |-> NULL]
    /\ posting = [t \in Threads |-> NULL]
    /\ mutex = NULL
    /\ tpc = [t \in Threads |-> "none"]
    /\ pipe = 0
    /\ jobs = <<>>
    /\ cancel = FALSE
    /\ num_threads = 0
    /\ mpc = "create"
    /\ mw = NULL
-----------------------------------------------------------------------------
(* dispatcher_thread *)

At(t, pc) == tpc[t] = pc
Goto(t, pc) == tpc' = [tpc EXCEPT ![t] = pc]

\* The lock at the start of the thread, and the one pthread_cond_wait takes
\* before it returns.
ThreadLock(t) ==
    /\ At(t, "lock") /\ mutex = NULL
    /\ mutex' = t
    /\ Goto(t, "loop")
    /\ UNCHANGED <<pending_list, finished_list, state, finished_sem, running_work,
                   posting, pipe, jobs, cancel, mainVars>>

\* cancel is set: leave the loop and unlock.
ThreadExit(t) ==
    /\ At(t, "loop") /\ cancel
    /\ mutex' = NULL
    /\ Goto(t, "exited")
    /\ UNCHANGED <<pending_list, finished_list, state, finished_sem, running_work,
                   posting, pipe, jobs, cancel, mainVars>>

\* Nothing to do: pthread_cond_wait unlocks and waits.
ThreadWait(t) ==
    /\ At(t, "loop") /\ ~cancel
    /\ pending_list = <<>>
    /\ mutex' = NULL
    /\ Goto(t, "wait")
    /\ UNCHANGED <<pending_list, finished_list, state, finished_sem, running_work,
                   posting, pipe, jobs, cancel, mainVars>>

\* pthread_cond_wait may return without a signal.
SpuriousWakeup(t) ==
    /\ At(t, "wait")
    /\ Goto(t, "lock")
    /\ UNCHANGED <<pending_list, finished_list, state, finished_sem, running_work,
                   posting, mutex, pipe, jobs, cancel, mainVars>>

\* Grab the work, but leave it linked for the next thread.
ThreadGrabLinked(t) ==
    /\ At(t, "loop") /\ ~cancel
    /\ pending_list # <<>>
    /\ running_work' = [running_work EXCEPT ![t] = Head(pending_list)]
    /\ state' = [state EXCEPT ![Head(pending_list)] = "RUNNING"]
    /\ mutex' = NULL
    /\ Goto(t, "work")
    /\ UNCHANGED <<pending_list, finished_list, finished_sem, posting, pipe, jobs, cancel, mainVars>>

\* Grab the work and unlock.
ThreadGrab(t) ==
    /\ At(t, "loop") /\ ~cancel
    /\ pending_list # <<>>
    /\ pending_list' = Tail(pending_list)
    /\ running_work' = [running_work EXCEPT ![t] = Head(pending_list)]
    /\ state' = [state EXCEPT ![Head(pending_list)] = "RUNNING"]
    /\ mutex' = NULL
    /\ Goto(t, "work")
    /\ UNCHANGED <<finished_list, finished_sem, posting, pipe, jobs, cancel, mainVars>>

\* work_func returns.
ThreadWorked(t) ==
    /\ At(t, "work")
    /\ Goto(t, "relock")
    /\ UNCHANGED <<pending_list, finished_list, state, finished_sem, running_work,
                   posting, mutex, pipe, jobs, cancel, mainVars>>

\* Lock and release the work.
ThreadRelease(t) ==
    /\ At(t, "relock") /\ mutex = NULL
    /\ mutex' = t
    /\ finished_list' = Append(finished_list, running_work[t])
    /\ state' = [state EXCEPT ![running_work[t]] = "FINISHED"]
    /\ posting' = [posting EXCEPT ![t] = running_work[t]]
    /\ running_work' = [running_work EXCEPT ![t] = NULL]
    /\ Goto(t, "post")
    /\ UNCHANGED <<pending_list, finished_sem, pipe, jobs, cancel, mainVars>>

\* sem_post left out.
ThreadNoPost(t) ==
    /\ At(t, "post")
    /\ posting' = [posting EXCEPT ![t] = NULL]
    /\ Goto(t, "write")
    /\ UNCHANGED <<pending_list, finished_list, state, finished_sem, running_work, mutex,
                   pipe, jobs, cancel, mainVars>>

\* sem_post
ThreadPost(t) ==
    /\ At(t, "post")
    /\ finished_sem' = [finished_sem EXCEPT ![posting[t]] = @ + 1]
    /\ posting' = [posting EXCEPT ![t] = NULL]
    /\ Goto(t, "write")
    /\ UNCHANGED <<pending_list, finished_list, state, running_work, mutex, pipe,
                   jobs, cancel, mainVars>>

\* write to the non-blocking pipe; EAGAIN when it is full.
ThreadWrite(t) ==
    /\ At(t, "write")
    /\ pipe' = IF pipe < PipeCap THEN pipe + 1 ELSE pipe
    /\ Goto(t, "loop")
    /\ UNCHANGED <<pending_list, finished_list, state, finished_sem, running_work,
                   posting, mutex, jobs, cancel, mainVars>>

\* pthread_cond_signal on the thread's own condition: no effect unless the
\* thread is waiting on it.
Signal(pc, t) == IF pc[t] = "wait" THEN [pc EXCEPT ![t] = "lock"] ELSE pc
-----------------------------------------------------------------------------
(* The main thread *)

\* BThreadWorkDispatcher_Init: pthread_create succeeds for the next thread,
CreateThread ==
    /\ mpc = "create" /\ num_threads < ThreadCount
    /\ num_threads' = num_threads + 1
    /\ Goto(num_threads + 1, "lock")
    /\ UNCHANGED <<pending_list, finished_list, state, finished_sem, running_work,
                   posting, mutex, pipe, jobs, cancel, mpc, mw>>

\* or fails, and the threads already started are stopped (fail3).
CreateFail ==
    /\ mpc = "create" /\ num_threads < ThreadCount
    /\ mpc' = "stop"
    /\ UNCHANGED <<pending_list, finished_list, state, finished_sem, threadVars, mutex,
                   pipe, jobs, cancel, num_threads, mw>>

\* BThreadWorkDispatcher_Init returns 1; with a hint of 0 it starts no thread.
CreateDone ==
    /\ mpc = "create" /\ num_threads \in {0, ThreadCount}
    /\ mpc' = "loop"
    /\ UNCHANGED <<pending_list, finished_list, state, finished_sem, threadVars, mutex,
                   pipe, jobs, cancel, num_threads, mw>>

\* The threads whose running_work is NULL.
Idle == {t \in 1..num_threads : running_work[t] = NULL}

\* Posting a work item without waking anybody.
PostQuiet(w) == mutex = NULL /\ UNCHANGED tpc

\* Signal the first thread that runs no work item, if there is one.
PostSignal(w) ==
    /\ mutex = NULL
    /\ \/ Idle = {} /\ UNCHANGED tpc
       \/ \E t \in Idle : (\A u \in Idle : t <= u) /\ tpc' = Signal(tpc, t)

\* BThreadWork_Init with threads
WorkInit(w) ==
    /\ mpc = "loop" /\ state[w] = "none" /\ num_threads > 0
    /\ state' = [state EXCEPT ![w] = "PENDING"]
    /\ finished_sem' = [finished_sem EXCEPT ![w] = 0]
    /\ pending_list' = Append(pending_list, w)
    /\ PostSignal(w)
    /\ UNCHANGED <<finished_list, running_work, posting, mutex, pipe, jobs, cancel, mainVars>>

\* BThreadWork_Init without threads: the work becomes a job of the event loop.
WorkInitJob(w) ==
    /\ mpc = "loop" /\ state[w] = "none" /\ num_threads = 0
    /\ state' = [state EXCEPT ![w] = "JOB"]
    /\ jobs' = BSmallPending_Set(jobs, w)
    /\ UNCHANGED <<pending_list, finished_list, finished_sem, threadVars, mutex, pipe,
                   cancel, mainVars>>

\* work_job_handler: the job starts, work_func returns, handler_done is called.
JobStart(w) ==
    /\ mpc = "loop" /\ jobs # <<>> /\ Head(jobs) = w
    /\ jobs' = Tail(jobs)
    /\ mpc' = "job_work" /\ mw' = w
    /\ UNCHANGED <<pending_list, finished_list, state, finished_sem, threadVars, mutex,
                   pipe, cancel, num_threads>>
JobWorked ==
    /\ mpc = "job_work"
    /\ mpc' = "job_done"
    /\ UNCHANGED <<pending_list, finished_list, state, finished_sem, threadVars, mutex,
                   pipe, jobs, cancel, num_threads, mw>>
JobReport ==
    /\ mpc = "job_done"
    /\ mpc' = "loop" /\ mw' = NULL
    /\ UNCHANGED <<pending_list, finished_list, state, finished_sem, threadVars, mutex,
                   pipe, jobs, cancel, num_threads>>

\* pipe_fd_handler up to dispatch_job: the reactor polls when no job waits.
PipeHandler ==
    /\ mpc = "loop" /\ jobs = <<>> /\ pipe > 0 /\ num_threads > 0
    /\ pipe' = IF pipe > ReadSize THEN pipe - ReadSize ELSE 0
    /\ mpc' = "dispatch"
    /\ UNCHANGED <<pending_list, finished_list, state, finished_sem, threadVars, mutex,
                   jobs, cancel, num_threads, mw>>

\* more_job_handler up to dispatch_job
MoreJob ==
    /\ mpc = "loop" /\ jobs # <<>> /\ Head(jobs) = MORE
    /\ jobs' = Tail(jobs)
    /\ mpc' = "dispatch"
    /\ UNCHANGED <<pending_list, finished_list, state, finished_sem, threadVars, mutex,
                   pipe, cancel, num_threads, mw>>

\* dispatch_job when the finished list is empty
DispatchNone ==
    /\ mpc = "dispatch" /\ mutex = NULL
    /\ finished_list = <<>>
    /\ mpc' = "loop"
    /\ UNCHANGED <<pending_list, finished_list, state, finished_sem, threadVars, mutex,
                   pipe, jobs, cancel, num_threads, mw>>

\* dispatch_job: report the first finished item, schedule more_job for more.
Dispatch ==
    /\ mpc = "dispatch" /\ mutex = NULL
    /\ finished_list # <<>>
    /\ finished_list' = Tail(finished_list)
    /\ jobs' = IF finished_list' # <<>> THEN BSmallPending_Set(jobs, MORE) ELSE jobs
    /\ state' = [state EXCEPT ![Head(finished_list)] = "FORGOTTEN"]
    /\ mpc' = "loop"
    /\ UNCHANGED <<pending_list, finished_sem, threadVars, mutex, pipe, cancel, num_threads, mw>>

\* BThreadWork_Free is called; without threads it only frees the job.
FreeCall(w) ==
    /\ mpc = "loop" /\ state[w] # "none" /\ num_threads > 0
    /\ mpc' = "free" /\ mw' = w
    /\ UNCHANGED <<pending_list, finished_list, state, finished_sem, threadVars, mutex,
                   pipe, jobs, cancel, num_threads>>
FreeJob(w) ==
    /\ mpc = "loop" /\ state[w] # "none" /\ num_threads = 0
    /\ jobs' = BSmallPending_Unset(jobs, w)
    /\ state' = [state EXCEPT ![w] = "none"]
    /\ UNCHANGED <<pending_list, finished_list, finished_sem, threadVars, mutex, pipe,
                   cancel, mainVars>>

\* BThreadWork_Free returns.
FreeReturn == /\ state' = [state EXCEPT ![mw] = "none"]
              /\ mpc' = "loop" /\ mw' = NULL
              /\ UNCHANGED <<finished_sem, threadVars, mutex, pipe, jobs, cancel, num_threads>>

FreePending ==
    /\ mpc = "free" /\ mutex = NULL /\ state[mw] = "PENDING"
    /\ pending_list' = LinkedList1_Remove(pending_list, mw)
    /\ FreeReturn
    /\ UNCHANGED finished_list
\* Freeing a running item as if it were a forgotten one.
FreeRunningNow ==
    /\ mpc = "free" /\ mutex = NULL /\ state[mw] = "RUNNING"
    /\ FreeReturn
    /\ UNCHANGED <<pending_list, finished_list>>
FreeRunning ==
    /\ mpc = "free" /\ mutex = NULL /\ state[mw] = "RUNNING"
    /\ mpc' = "sem_wait"
    /\ UNCHANGED <<pending_list, finished_list, state, finished_sem, threadVars, mutex,
                   pipe, jobs, cancel, num_threads, mw>>
FreeFinished ==
    /\ mpc = "free" /\ mutex = NULL /\ state[mw] = "FINISHED"
    /\ finished_list' = LinkedList1_Remove(finished_list, mw)
    /\ FreeReturn
    /\ UNCHANGED pending_list
FreeForgotten ==
    /\ mpc = "free" /\ mutex = NULL /\ state[mw] = "FORGOTTEN"
    /\ FreeReturn
    /\ UNCHANGED <<pending_list, finished_list>>
\* sem_wait on the item's semaphore, then lock again and unlink the item.
SemWait ==
    /\ mpc = "sem_wait" /\ finished_sem[mw] > 0
    /\ finished_sem' = [finished_sem EXCEPT ![mw] = @ - 1]
    /\ mpc' = "free_relock"
    /\ UNCHANGED <<pending_list, finished_list, state, threadVars, mutex, pipe, jobs,
                   cancel, num_threads, mw>>
FreeRelock ==
    /\ mpc = "free_relock" /\ mutex = NULL
    /\ finished_list' = LinkedList1_Remove(finished_list, mw)
    /\ FreeReturn
    /\ UNCHANGED pending_list

\* BThreadWorkDispatcher_Free: "There must be no BThreadWork's".
DispatcherFree ==
    /\ mpc = "loop" /\ \A w \in Works : state[w] = "none"
    /\ mpc' = IF num_threads > 0 THEN "stop" ELSE "freed"
    /\ UNCHANGED <<pending_list, finished_list, state, finished_sem, threadVars, mutex,
                   pipe, jobs, cancel, num_threads, mw>>

\* stop_threads: set cancel under the mutex, then signal and join the threads
\* from the last to the first.
StopCancel ==
    /\ mpc = "stop" /\ mutex = NULL
    /\ cancel' = TRUE
    /\ mpc' = "signal"
    /\ UNCHANGED <<pending_list, finished_list, state, finished_sem, threadVars, mutex,
                   pipe, jobs, num_threads, mw>>
\* Going to pthread_join without waking the thread.
StopNoSignal ==
    /\ mpc = "signal" /\ num_threads > 0
    /\ mpc' = "join"
    /\ UNCHANGED <<pending_list, finished_list, state, finished_sem, threadVars, mutex,
                   pipe, jobs, cancel, num_threads, mw>>
StopSignal ==
    /\ mpc = "signal" /\ num_threads > 0
    /\ tpc' = Signal(tpc, num_threads)
    /\ mpc' = "join"
    /\ UNCHANGED <<pending_list, finished_list, state, finished_sem, running_work,
                   posting, mutex, pipe, jobs, cancel, num_threads, mw>>
StopJoin ==
    /\ mpc = "join" /\ tpc[num_threads] = "exited"
    /\ num_threads' = num_threads - 1
    /\ mpc' = "signal"
    /\ UNCHANGED <<pending_list, finished_list, state, finished_sem, threadVars, mutex,
                   pipe, jobs, cancel, mw>>
\* The threads are gone: free more_job and the pipe.
StopDone ==
    /\ mpc = "signal" /\ num_threads = 0
    /\ jobs' = BSmallPending_Unset(jobs, MORE)
    /\ pipe' = 0
    /\ mpc' = "freed"
    /\ UNCHANGED <<pending_list, finished_list, state, finished_sem, threadVars, mutex,
                   cancel, num_threads, mw>>

\* The dispatcher is gone.
Terminated == mpc = "freed" /\ UNCHANGED vars
-----------------------------------------------------------------------------
ThreadStep(t) == \/ ThreadLock(t) \/ ThreadExit(t) \/ ThreadWait(t) \/ ThreadGrab(t)
                 \/ ThreadWorked(t) \/ ThreadRelease(t) \/ ThreadPost(t) \/ ThreadWrite(t)
WorkNext(w) == WorkInit(w) \/ WorkInitJob(w) \/ FreeCall(w) \/ FreeJob(w)
FreeNext == \/ FreePending \/ FreeRunning \/ FreeFinished \/ FreeForgotten
            \/ SemWait \/ FreeRelock
LoopNext == \/ PipeHandler \/ MoreJob \/ DispatchNone \/ Dispatch
            \/ JobWorked \/ JobReport \/ \E w \in Works : JobStart(w)
StopNext == StopCancel \/ StopSignal \/ StopJoin \/ StopDone
CreateNext == CreateThread \/ CreateFail \/ CreateDone

Next == \/ \E t \in Threads : ThreadStep(t) \/ SpuriousWakeup(t)
        \/ \E w \in Works : WorkNext(w)
        \/ FreeNext \/ LoopNext \/ CreateNext
        \/ DispatcherFree \/ StopNext \/ Terminated

Spec == Init /\ [][Next]_vars

\* Every thread runs, work functions return and no thread waits for the mutex
\* for ever; handlers return, so the event loop gets to run its jobs and to
\* poll the pipe again and again; a call that has begun goes on.  Nothing
\* obliges the program to post or to free anything, and no spurious wakeup
\* has to happen.
Fairness == /\ \A t \in Threads : SF_vars(ThreadStep(t))
            /\ SF_vars(LoopNext) /\ SF_vars(FreeNext) /\ SF_vars(StopNext)

FairSpec == Spec /\ Fairness
-----------------------------------------------------------------------------
\* The item a thread has taken and not yet handed over.
InHand(t, w) == running_work[t] = w \/ posting[t] = w

\* The ASSERTs on BThreadWork.state in dispatcher_thread, dispatch_job and
\* BThreadWork_Free: each list holds, once, exactly the items whose state says
\* so, and an item is RUNNING iff exactly one thread runs it.
ListsMatchStates ==
    /\ NoDup(pending_list) /\ NoDup(finished_list)
    /\ \A w \in Works :
         /\ state[w] = "PENDING" <=> BSmallPending_IsSet(pending_list, w)
         /\ state[w] = "FINISHED" <=> BSmallPending_IsSet(finished_list, w)
         /\ state[w] = "RUNNING" <=> \E t \in Threads : running_work[t] = w
    /\ \A t, u \in Threads : running_work[t] = running_work[u] /\ running_work[t] # NULL => t = u

\* A thread never touches an item that was freed: not its work function, not
\* its semaphore, although BThreadWork_Free destroys the semaphore right after
\* it unlocks.
NoTouchAfterFree ==
    \A t \in Threads, w \in Works : InHand(t, w) => state[w] # "none"

\* No lost wakeup: a pending item always has a thread that is awake and will
\* look at the list, whichever thread BThreadWork_Init signalled.
NoLostWakeup ==
    pending_list # <<>> =>
        \E t \in 1..num_threads : tpc[t] \notin {"wait", "exited", "none"}

\* A finished item never sits in the list with nothing on its way to the main
\* thread: a byte in the pipe, more_job, a dispatch in progress, or a thread
\* that has yet to write its byte (or find the pipe full).
NoStrandedResult ==
    finished_list # <<>> =>
        \/ pipe > 0 \/ BSmallPending_IsSet(jobs, MORE) \/ mpc = "dispatch"
        \/ \E t \in Threads : tpc[t] \in {"post", "write"}

\* Where each item stands in the terms of BThreadWork.h.
Posted(w) == \/ state[w] = "PENDING"
             \/ state[w] = "JOB" /\ BSmallPending_IsSet(jobs, w)
Executing(w) == \/ \E t \in Threads : running_work[t] = w /\ tpc[t] = "work"
                \/ mpc = "job_work" /\ mw = w
Executed(w) == \/ state[w] \in {"RUNNING", "FINISHED"}
               \/ mpc = "job_done" /\ mw = w
Phase(w) == IF state[w] = "none" THEN "idle"
            ELSE IF Posted(w) THEN "posted"
            ELSE IF Executing(w) THEN "executing"
            ELSE IF Executed(w) THEN "executed"
            ELSE "reported"

\* The dispatcher keeps the promise of BThreadWork.h, with and without threads.
Promise == INSTANCE WorkPromise WITH phase <- [w \in Works |-> Phase(w)]
KeepsPromise == Promise!PSpec

\* With threads every posted item is eventually reported, unless it is freed.
\* (Without, items are jobs, the newest runs first, and new ones may keep an
\* old one waiting.)
EventuallyReported ==
    \A w \in Works : state[w] = "PENDING" ~> Phase(w) \in {"reported", "idle"}

\* BThreadWork_Free returns, also when it has to wait for a running item.
FreeReturns == mpc = "free" ~> mpc = "loop"

\* Once stop_threads has begun, every thread exits and is joined.
StopCompletes == mpc = "stop" ~> mpc = "freed"
=============================================================================
