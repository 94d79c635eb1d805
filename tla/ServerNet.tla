----------------------------- MODULE ServerNet -----------------------------
(***************************************************************************)
(* The chat server with the clients it is meant for: each connection has a *)
(* ServerConnection (src/server_connection/ServerConnection.c) at the      *)
(* other end, which says hello once, answers every NEWCLIENT with one      *)
(* ACCEPTPEER, and whose user sends messages and resets only to peers it   *)
(* has been told of.                                                       *)
(*                                                                         *)
(* A client reacts to a packet when it reads it and TCP delays both ways;  *)
(* here it reads at once and all the delay is on the way back.             *)
(***************************************************************************)
EXTENDS Server

CONSTANTS
    UpCap       \* bound: packets in the socket buffers towards the server

ASSUME ServerNetAssumption == UpCap \in Nat \ {0}

VARIABLES
    up,         \* the bytes under way from each client, as packets
    local,      \* output_local_oflow of its ServerConnection
    user        \* the packet its user's queue has handed to output_user_qflow

netVars == <<vars, up, local, user>>
ends == <<up, local, user>>

NetInit == /\ Init
           /\ up = [c \in Slots |-> <<>>]
           /\ local = [c \in Slots |-> <<>>]
           /\ user = [c \in Slots |-> NULL]

\* Whatever the server does, the packets of a client it removes are lost.
Lost(c) == srv'.dying[c] \/ srv'.status[c] = "free"
Rest(u, l, s) == /\ up' = [c \in Slots |-> IF Lost(c) THEN <<>> ELSE u[c]]
                 /\ local' = [c \in Slots |-> IF Lost(c) THEN <<>> ELSE l[c]]
                 /\ user' = [c \in Slots |-> IF Lost(c) THEN NULL ELSE s[c]]
-----------------------------------------------------------------------------
(* The client *)

\* connector_handler, pending_handler: the hello is the first packet.
NetAccept(c) == /\ Accept(c)
                /\ local' = [local EXCEPT ![c] = <<[t |-> "CLIENTHELLO"]>>]
                /\ UNCHANGED <<up, user>>

\* packet_newclient answers; packet_hello, packet_endclient, packet_inmsg do not.
Reaction(p) ==
    IF p.t = "NEWCLIENT" THEN <<[t |-> "ACCEPTPEER", id |-> p.id]>> ELSE <<>>

\* input_handler_send on what the server has written.
NetWriteDone(d) == /\ WriteDone(d)
                   /\ Rest(up, [local EXCEPT ![d] = @ \o Reaction(OnWire(d))], user)

\* The user's queue hands on a message or a resetpeer for a peer the client
\* has; the packet stays there when the peer ends (server_flow_die).
UserSend(c, i, kind) ==
    /\ kind \in Requests /\ user[c] = NULL
    /\ view[c].peers[i] \in Gens
    /\ user' = [user EXCEPT ![c] = [t |-> kind, id |-> i]]
    /\ UNCHANGED <<vars, up, local>>

\* output_queue: local packets have priority 0, the user's priority 1.
Transmit(c) ==
    /\ Len(up[c]) < UpCap
    /\ \/ /\ local[c] # <<>>
          /\ up' = [up EXCEPT ![c] = Append(@, Head(local[c]))]
          /\ local' = [local EXCEPT ![c] = Tail(@)]
          /\ UNCHANGED user
       \/ /\ local[c] = <<>> /\ user[c] # NULL
          /\ up' = [up EXCEPT ![c] = Append(@, user[c])]
          /\ user' = [user EXCEPT ![c] = NULL]
          /\ UNCHANGED local
    /\ UNCHANGED vars
-----------------------------------------------------------------------------
(* The server: client_input_handler_send takes the next packet of client c. *)

Arrived(c, kind) == up[c] # <<>> /\ Head(up[c]).t = kind
Taken(c) == Rest([up EXCEPT ![c] = Tail(@)], local, user)

\* find_flow
Addressed(c, d) == HasFlow(c, d) /\ srv.id[d] = Head(up[c]).id

ServeHello(c) == Arrived(c, "CLIENTHELLO") /\ Introduce(c) /\ Taken(c)
ServeAccept(c) == /\ Arrived(c, "ACCEPTPEER")
                  /\ \E d \in Slots : Addressed(c, d) /\ process_packet_acceptpeer(c, d)
                  /\ Taken(c)
ServeMsg(c) == /\ Arrived(c, "OUTMSG")
               /\ \E d \in Slots : Addressed(c, d) /\ process_packet_outmsg(c, d)
               /\ Taken(c)
ServeReset(c) == /\ Arrived(c, "RESETPEER")
                 /\ \E d \in Slots : Addressed(c, d) /\ process_packet_resetpeer(c, d)
                 /\ Taken(c)

\* A packet about a client that has gone, or a refused one, changes nothing.
ServeNothing(c) ==
    /\ AtEvent /\ srv.status[c] = "COMPLETE" /\ up[c] # <<>>
    /\ \A d \in Slots : Addressed(c, d) =>
          Head(up[c]).t # "ACCEPTPEER" /\ Refused(<<c, d>>)
    /\ newest' = NULL
    /\ UNCHANGED <<srv, connects, view>>
    /\ Taken(c)

Serve(c) == ServeHello(c) \/ ServeAccept(c) \/ ServeMsg(c) \/ ServeReset(c) \/ ServeNothing(c)
NetJobs == Jobs /\ Rest(up, local, user)
NetWritable(d) == Writable(d) /\ UNCHANGED ends
NetWriteAgain(d) == WriteAgain(d) /\ UNCHANGED ends
NetGone(d) == (ClientGone(d) \/ WriteError(d)) /\ Rest(up, local, user)
Timer(f) == peer_flow_reset_timer_handler(f) /\ Rest(up, local, user)

NetNext ==
    \/ NetJobs
    \/ \E d \in Slots : NetWriteDone(d) \/ NetWriteAgain(d) \/ NetWritable(d)
    \/ \E c \in Slots : NetAccept(c) \/ NetGone(c) \/ Serve(c) \/ Transmit(c)
    \/ \E c \in Slots, i \in Ids, kind \in {"OUTMSG", "RESETPEER"} : UserSend(c, i, kind)
    \/ \E c, d \in Slots : Timer(<<c, d>>)

NetSpec == NetInit /\ [][NetNext]_netVars

\* The slots there are under some setting.
AllSlots == UNION {1..o.max_clients : o \in Settings}

\* The reactor runs its jobs, polls, and reads what has arrived; clients read
\* what the server writes, so a connection takes data again and again; timers
\* expire.  Nothing obliges a client to connect, to send or to leave.
NetFairness ==
    /\ WF_netVars(NetJobs)
    /\ \A c \in AllSlots :
          /\ SF_netVars(c \in Slots /\ NetWriteDone(c)) /\ SF_netVars(c \in Slots /\ NetWritable(c))
          /\ WF_netVars(c \in Slots /\ Transmit(c)) /\ SF_netVars(c \in Slots /\ Serve(c))
    /\ \A c \in AllSlots : \A d \in AllSlots \ {c} :
          SF_netVars({c, d} \subseteq Slots /\ Timer(<<c, d>>))

NetFairSpec == NetSpec /\ NetFairness
-----------------------------------------------------------------------------
\* A client that answers every NEWCLIENT once is never removed for accepting
\* twice, as long as no id has been handed out twice: an accept that was under
\* way when the pair was reset is always taken before the pair is launched
\* again.  With ids that come round, process_packet_acceptpeer's "the previous
\* accept is probably from an old client with the same ID as this one" is real:
\* the accept of a client that left counts for the next one, whose own accept
\* is then the second.
NoDoubleAccept ==
    \A c, d \in Slots :
        connects <= IdSpace /\ Arrived(c, "ACCEPTPEER") /\ Addressed(c, d)
            => ~srv.flow[<<c, d>>].accepted

\* The accept of a client is on its way, or its cause is, whenever the server
\* waits for it: a pair is never left half accepted.
AcceptComing ==
    \A f \in DOMAIN srv.flow :
        ~srv.flow[f].accepted =>
            LET c == f[1]  i == srv.id[f[2]] IN
            \/ Contains(up[c] \o local[c], [t |-> "ACCEPTPEER", id |-> i])
            \/ Contains(srv.ctrl[c], NewClient(i, srv.flow[f].gen))
            \/ BSmallPending_IsSet(srv.jobs, Inform(Know(c, f[2], srv.flow[f].gen)))
            \/ srv.dying[f[1]] \/ srv.dying[f[2]]

\* Every reset ends: the pair is launched again or one of the two leaves, so
\* no flow is resetting from some moment on.
ResetEnds ==
    \A c \in AllSlots : \A d \in AllSlots \ {c} :
        []<>~(HasFlow(c, d) /\ srv.flow[<<c, d>>].resetting)
=============================================================================
