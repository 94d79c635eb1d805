------------------------------ MODULE BPending ------------------------------
(***************************************************************************)
(* The job group of the event loop (src/base/BPending.c), the loop's way   *)
(* of running it (src/system/BReactor_badvpn.c) and the nested runs that   *)
(* tun2socks makes with BReactor_Synchronize around calls into a library   *)
(* that knows nothing of jobs (the SYNC_ macros of tun2socks.c).           *)
(*                                                                         *)
(* Handlers are not modelled one by one: between two executions any code   *)
(* may initialise, set, unset and free any job that is its own.            *)
(***************************************************************************)
EXTENDS JobList

CONSTANTS
    JobObjects, \* the job objects of the program
    Marks,      \* the sync_mark jobs, one per SYNC section on the C stack
    MaxSets     \* bound: how many times jobs are set in a behaviour

ASSUME BPendingAssumption == /\ JobObjects \cap Marks = {}
                             /\ MaxSets \in Nat

VARIABLES
    inited,     \* the initialised job objects
    jobs,       \* BPendingGroup.jobs
    pending,    \* BSmallPending.pending, the debug copy of "is linked"
    marks,      \* the open SYNC sections, innermost first
    exiting,    \* BReactor.exiting
    clock,      \* history: the number of sets so far
    stamp       \* history: when each job was last set

groupVars == <<inited, jobs, pending, marks, exiting, clock, stamp>>

AllJobs == JobObjects \cup Marks

GroupTypeOK == /\ inited \subseteq AllJobs
               /\ jobs \in Seq(AllJobs)
               /\ pending \in [AllJobs -> BOOLEAN]
               /\ marks \in Seq(Marks)
               /\ exiting \in BOOLEAN
               /\ clock \in Nat
               /\ stamp \in [AllJobs -> Nat]

GroupInit == /\ inited = {}
             /\ jobs = <<>>
             /\ pending = [j \in AllJobs |-> FALSE]
             /\ marks = <<>>
             /\ exiting = FALSE
             /\ clock = 0
             /\ stamp = [j \in AllJobs |-> 0]
-----------------------------------------------------------------------------
\* BSmallPending_Init
JobInit(j) ==
    /\ j \in JobObjects \ inited
    /\ inited' = inited \cup {j}
    /\ pending' = [pending EXCEPT ![j] = FALSE]
    /\ UNCHANGED <<jobs, marks, exiting, clock, stamp>>

\* BSmallPending_Free, without unlinking the job.
JobFreeLinked(j) ==
    /\ j \in JobObjects \cap inited
    /\ inited' = inited \ {j}
    /\ UNCHANGED <<jobs, pending, marks, exiting, clock, stamp>>

\* BSmallPending_Free
JobFree(j) ==
    /\ j \in JobObjects \cap inited
    /\ inited' = inited \ {j}
    /\ jobs' = BSmallPending_Unset(jobs, j)
    /\ UNCHANGED <<pending, marks, exiting, clock, stamp>>

\* BSmallPending_Set
JobSet(j) ==
    /\ j \in JobObjects \cap inited
    /\ clock < MaxSets
    /\ jobs' = BSmallPending_Set(jobs, j)
    /\ pending' = [pending EXCEPT ![j] = TRUE]
    /\ clock' = clock + 1
    /\ stamp' = [stamp EXCEPT ![j] = clock + 1]
    /\ UNCHANGED <<inited, marks, exiting>>

\* BSmallPending_Unset
JobUnset(j) ==
    /\ j \in JobObjects \cap inited
    /\ jobs' = BSmallPending_Unset(jobs, j)
    /\ pending' = [pending EXCEPT ![j] = FALSE]
    /\ UNCHANGED <<inited, marks, exiting, clock, stamp>>

\* BPendingGroup_ExecuteJob, called by BReactor_Exec when no SYNC section is
\* open and by BReactor_Synchronize until the innermost mark is on top.
ExecuteJob ==
    /\ ~exiting
    /\ jobs # <<>>
    /\ marks # <<>> => Head(jobs) # Head(marks)
    /\ jobs' = Tail(jobs)
    /\ pending' = [pending EXCEPT ![Head(jobs)] = FALSE]
    /\ UNCHANGED <<inited, marks, exiting, clock, stamp>>

\* SYNC_FROMHERE: a fresh mark is pushed on top of the jobs already waiting.
SyncFromHere(m) ==
    /\ m \in Marks \ inited
    /\ clock < MaxSets
    /\ inited' = inited \cup {m}
    /\ jobs' = BSmallPending_Set(jobs, m)
    /\ pending' = [pending EXCEPT ![m] = TRUE]
    /\ marks' = <<m>> \o marks
    /\ clock' = clock + 1
    /\ stamp' = [stamp EXCEPT ![m] = clock + 1]
    /\ UNCHANGED exiting

\* The end of the innermost section: its mark is freed.
FreeMark ==
    /\ inited' = inited \ {Head(marks)}
    /\ jobs' = BSmallPending_Unset(jobs, Head(marks))
    /\ marks' = Tail(marks)
    /\ UNCHANGED <<pending, exiting, clock, stamp>>

\* SYNC_COMMIT without waiting for the mark to come to the top.
SyncCommitEarly == marks # <<>> /\ FreeMark

\* SYNC_COMMIT: BReactor_Synchronize returns when the mark is on top, or at
\* once when the reactor is quitting.
SyncCommit ==
    /\ marks # <<>>
    /\ exiting \/ Head(jobs) = Head(marks)
    /\ FreeMark

\* SYNC_BREAK: the section ends without running the jobs set in it.
SyncBreak == marks # <<>> /\ FreeMark

\* BReactor_Quit
Quit == /\ ~exiting
        /\ exiting' = TRUE
        /\ UNCHANGED <<inited, jobs, pending, marks, clock, stamp>>

GroupNext == \/ \E j \in JobObjects : JobInit(j) \/ JobFree(j) \/ JobSet(j) \/ JobUnset(j)
             \/ \E m \in Marks : SyncFromHere(m)
             \/ ExecuteJob \/ SyncCommit \/ SyncBreak \/ Quit

GroupSpec == GroupInit /\ [][GroupNext]_groupVars
-----------------------------------------------------------------------------
\* Only initialised jobs are linked, each once, and for those the debug flag
\* and the link agree: the ASSERT at the head of BSmallPending_Set, _Unset,
\* _IsSet and _Free.  A freed job is never run ("The execution handler will
\* not be called after the object is freed").
LinkedJobs ==
    /\ NoDup(jobs)
    /\ \A i \in DOMAIN jobs : jobs[i] \in inited
    /\ \A j \in inited : pending[j] <=> BSmallPending_IsSet(jobs, j)

\* BPendingGroup_ExecuteJob always takes the job set most recently: the list
\* is ordered by the time of the last BSmallPending_Set.  The whole code base
\* relies on it: what a handler sets runs before anything set earlier.
MostRecentFirst ==
    \A i, k \in DOMAIN jobs : i < k => stamp[jobs[i]] > stamp[jobs[k]]

\* The ASSERT(BPendingGroup_HasJobs) of BReactor_Synchronize and its "The
\* reference job must be reached before the job list empties": the mark of
\* every open section is still linked, and inner marks are above outer ones.
MarksStayLinked ==
    /\ \A i \in DOMAIN marks : BSmallPending_IsSet(jobs, marks[i])
    /\ \A i, k \in DOMAIN marks : i < k => stamp[marks[i]] > stamp[marks[k]]

\* When a section commits and the reactor is not quitting, every job set since
\* the section was opened has run, been unset or been freed.
NothingNewerLeft ==
    \A i \in DOMAIN jobs' : stamp[jobs'[i]] < stamp[Head(marks)]
SyncCompletes == [][SyncCommit /\ ~exiting => NothingNewerLeft]_groupVars

\* The jobs that were waiting when the innermost section was opened are not
\* run by that section's BReactor_Synchronize: a step of the loop only removes
\* a job set after the mark.
SyncRunsNewer ==
    [][ExecuteJob /\ marks # <<>> => stamp[Head(jobs)] > stamp[Head(marks)]]_groupVars
=============================================================================
