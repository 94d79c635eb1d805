------------------------------ MODULE JobList ------------------------------
(***************************************************************************)
(* Intrusive lists as sequences (src/structure/LinkedList1.h) and the job  *)
(* list of the event loop built from one (src/base/BPending.c).  A node is *)
(* in a list at most once, so a list is a sequence without repetitions.    *)
(***************************************************************************)
EXTENDS Integers, Sequences

\* A list whose nodes are all different: what every caller relies on.
NoDup(list) == \A i, j \in DOMAIN list : list[i] = list[j] => i = j

\* LinkedList1_Remove: unlink the node, the order of the others is kept.
LinkedList1_Remove(list, node) ==
    IF \E i \in DOMAIN list : list[i] = node
    THEN LET i == CHOOSE i \in DOMAIN list : list[i] = node
         IN  SubSeq(list, 1, i - 1) \o SubSeq(list, i + 1, Len(list))
    ELSE list

\* BSmallPending_IsSet: the job is linked in the group's list.
BSmallPending_IsSet(jobs, job) == \E i \in DOMAIN jobs : jobs[i] = job

\* The list after a job was left where it already is instead of being moved.
BSmallPending_Set_KeepPlace(jobs, job) ==
    IF BSmallPending_IsSet(jobs, job) THEN jobs ELSE <<job>> \o jobs

\* BSmallPending_Set: unlink the job if it is linked, then prepend it.
BSmallPending_Set(jobs, job) == <<job>> \o LinkedList1_Remove(jobs, job)

\* BSmallPending_Unset and BSmallPending_Free: unlink the job if it is linked.
BSmallPending_Unset(jobs, job) == LinkedList1_Remove(jobs, job)
=============================================================================
