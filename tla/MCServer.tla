------------------------------ MODULE MCServer ------------------------------
(***************************************************************************)
(* The settings of the Server run.  With clients that send anything: two   *)
(* that make every request and come back; two of both versions of the      *)
(* protocol; three of which not all may know each other; and three that    *)
(* come and go while ids run out and are handed out again.  With the       *)
(* clients of ServerNet: those of MCServerNet.                             *)
(***************************************************************************)
EXTENDS MCServerNet

VARIABLE real   \* the clients are those of ServerNet

Busy == [max_clients |-> 2, IdSpace |-> 4, ssl |-> TRUE, comm_predicate |-> FALSE,
         Versions |-> {"new"}, FlowCap |-> 2,
         Requests |-> {"OUTMSG", "RESETPEER", "ACCEPTPEER"}, MaxConnects |-> 3]
Mixed == [Busy EXCEPT !.Versions = {"new", "old"}, !.MaxConnects = 2]
Crowded == [max_clients |-> 3, IdSpace |-> 3, ssl |-> FALSE, comm_predicate |-> FALSE,
            Versions |-> {"old"}, FlowCap |-> 1, Requests |-> {}, MaxConnects |-> 4]
Sparse == [Crowded EXCEPT !.comm_predicate = TRUE, !.MaxConnects = 3]
RealSettings == {Pair, Reused}
AllSettings == {Busy, Mixed, Crowded, Sparse} \cup RealSettings

MCInit == NetInit /\ real = (srv.options \in RealSettings)
MCNext ==
    /\ UNCHANGED real
    /\ \/ real /\ NetNext
       \/ ~real /\ Next /\ UNCHANGED ends
MCSpec == MCInit /\ [][MCNext]_<<netVars, real>>

\* A ServerConnection answers every NEWCLIENT, so the accept of one of its clients
\* is on its way, or its cause is, whenever the server waits for it: a pair is never
\* left half accepted.  (Other clients need not answer.)
AcceptsAnswered == real => AcceptComing
=============================================================================
