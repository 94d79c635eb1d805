---------------------------- MODULE MCServerNet ----------------------------
(***************************************************************************)
(* Settings of the server with real clients: two, one of which may leave   *)
(* and come back, with every request, or with ids that are reused; and two *)
(* that stay, for liveness.                                                *)
(***************************************************************************)
EXTENDS ServerNet

Pair == [max_clients |-> 2, IdSpace |-> 4, ssl |-> FALSE, comm_predicate |-> FALSE,
         Versions |-> {"new"}, FlowCap |-> 1,
         Requests |-> {"OUTMSG", "RESETPEER", "ACCEPTPEER"}, MaxConnects |-> 3]
\* The id of the one that left is given to the one that comes.
Reused == [Pair EXCEPT !.IdSpace = 2, !.Requests = {"RESETPEER", "ACCEPTPEER"}]
SteadyPair == {[Pair EXCEPT !.IdSpace = 2, !.Requests = {"OUTMSG", "ACCEPTPEER"},
                            !.MaxConnects = 2]}
=============================================================================
