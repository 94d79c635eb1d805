---------------------------- MODULE MCFramework ----------------------------
(***************************************************************************)
(* Two objects of the framework, of which a behaviour uses one: the job    *)
(* group of the event loop and the fair queue.                             *)
(***************************************************************************)
EXTENDS BPending, PacketPassFairQueue

VARIABLE object

MCInit == GroupInit /\ QueueInit /\ object \in {"group", "queue"}

MCNext ==
    /\ UNCHANGED object
    /\ \/ object = "group" /\ GroupNext /\ UNCHANGED queueVars
       \/ object = "queue" /\ QueueNext /\ UNCHANGED groupVars

MCSpec == MCInit /\ [][MCNext]_<<object, groupVars, queueVars>> /\ QueueFairness
=============================================================================
