----------------------------- MODULE ClientPair -----------------------------
(***************************************************************************)
(* Two clients set up a link between them with messages that the server    *)
(* forwards.  What the server does to a pair is taken from Server: it      *)
(* forwards messages in order, gives up the pair's session when asked to   *)
(* or when a buffer is full, drops what is sent meanwhile, and then ends   *)
(* the session at both clients and starts another.                         *)
(***************************************************************************)
EXTENDS Client

CONSTANTS
    Configs,    \* the possible options of the two clients
    FlowCap,    \* capacity of the server's buffer towards a client
    MaxSeeds,   \* bound: seeds sent over one link; one after the last trouble
    MaxTroubles \* bound: failures of chats and of good links

Ends == {1, 2}
Other(e) == 3 - e

VARIABLES
    cl,         \* the clients' states
    in,         \* what the server has sent to a client
    resetting,  \* the server has given up the session
    accepted,   \* the client has accepted the session
    troubles    \* how many chats and good links have failed

vars == <<cl, in, resetting, accepted, troubles>>

ENDCLIENT == Simple("ENDCLIENT")
NEWCLIENT == Simple("NEWCLIENT")

Init == /\ \E c \in Configs : cl = [e \in Ends |-> NewClient(e, {Other(e)}, c[e])]
        /\ in = [e \in Ends |-> <<NEWCLIENT>>]
        /\ resetting = FALSE
        /\ accepted = [e \in Ends |-> FALSE]
        /\ troubles = 0

Data(e) == cl[e].peer[Other(e)]
Out(e) == cl[e].out[Other(e)]

\* A socket that no link, message or seed refers to.
NoncesOf(m) == IF m.type = "YOUCONNECT" THEN {m.nonce}
               ELSE IF m.type = "SEED" THEN {m.key.nonce} ELSE {}
NoncesOfLink(link) ==
    IF link = NULL THEN {}
    ELSE {link.nonce} \cup {k.nonce : k \in ToSet(link.tables) \cup ({link.tw, link.send_seed} \ {NULL})}
Used == UNION {NoncesOfLink(Data(e).link) : e \in Ends}
        \cup UNION {UNION {NoncesOf(m) : m \in ToSet(Out(e)) \cup ToSet(in[e])} : e \in Ends}
nonce == CHOOSE i \in 1 .. Cardinality(Used) + 1 : i \notin Used

Control == {ENDCLIENT, NEWCLIENT}
Buffered(e) == Len(SelectSeq(in[e], LAMBDA m : m \notin Control))

Handle(e, S) == \E D \in S : cl' = [cl EXCEPT ![e] = D]
-----------------------------------------------------------------------------
\* peer_flow_start_reset: of the messages to the client, those that the server
\* has not sent yet are dropped with the session's buffers.
Sent(e) ==
    {SubSeq(in[e], 1, k) : k \in {i \in 0 .. Len(in[e]) :
        \A j \in i + 1 .. Len(in[e]) : in[e][j] \notin Control}}
StartReset == /\ resetting' = TRUE
              /\ \E q1 \in Sent(1), q2 \in Sent(2) : in' = <<q1, q2>>

\* The server takes the next packet of a client that has accepted: it drops it,
\* forwards it or resets the pair (process_packet_outmsg, process_packet_resetpeer).
ServerTakes(e) ==
    LET m == Head(Out(e))
        reset == m = RESETPEER \/ Buffered(Other(e)) >= FlowCap
    IN  /\ Out(e) # <<>>
        /\ accepted[e]
        /\ cl' = [cl EXCEPT ![e].out[Other(e)] = Tail(@)]
        /\ UNCHANGED <<accepted, troubles>>
        /\ \/ resetting /\ UNCHANGED <<in, resetting>>
           \/ ~resetting /\ reset /\ StartReset
           \/ /\ ~resetting /\ ~reset
              /\ in' = [in EXCEPT ![Other(e)] = Append(@, m)]
              /\ UNCHANGED resetting

\* peer_flow_reset_timer_handler: once both ends have accepted the session
ServerRelaunches ==
    /\ resetting
    /\ \A e \in Ends : accepted[e]
    /\ resetting' = FALSE
    /\ accepted' = [e \in Ends |-> FALSE]
    /\ in' = [e \in Ends |-> in[e] \o <<ENDCLIENT, NEWCLIENT>>]
    /\ UNCHANGED <<cl, troubles>>

\* The client reads a packet of the server; it answers NEWCLIENT with ACCEPTPEER.
ClientReads(e) ==
    LET m == Head(in[e])
    IN  /\ in[e] # <<>>
        /\ in' = [in EXCEPT ![e] = Tail(@)]
        /\ Handle(e, IF m = NEWCLIENT THEN server_handler_newclient(cl[e], Other(e), FALSE, nonce)
                     ELSE IF m = ENDCLIENT THEN server_handler_endclient(cl[e], Other(e))
                     ELSE server_handler_message(cl[e], Other(e), m, nonce))
        /\ accepted' = [accepted EXCEPT ![e] = @ \/ m = NEWCLIENT]
        /\ UNCHANGED <<resetting, troubles>>

\* Part of peer_resetpeer: messages that the chat had not given to the server flow
\* are freed with it.  Which ones is decided later, when nobody can tell yet.
ChatForgets(e) ==
    /\ Len(Out(e)) > 1 /\ Last(Out(e)) = RESETPEER
    /\ cl' = [cl EXCEPT ![e].out[Other(e)] = Append(Front(Front(@)), RESETPEER)]
    /\ UNCHANGED <<in, resetting, accepted, troubles>>

\* The client's socket is connected to one that is gone: TCP reports an error.
Dangling(e) ==
    LET a == Data(e).link
        b == Data(Other(e)).link
    IN  /\ ~cl[e].options.udp
        /\ a # NULL /\ a.mode = "connect"
        /\ ~(b # NULL /\ b.mode = "bind" /\ a.nonce = b.nonce)

\* An event of one client.
Event(e, S) == Handle(e, S) /\ UNCHANGED <<in, resetting, accepted>>

Trouble == troubles < MaxTroubles /\ troubles' = troubles + 1

ChatFails(e) == Event(e, peer_chat_handler_error(cl[e], Other(e))) /\ Trouble
LinkFails(e) == /\ Event(e, LinkError(cl[e], Other(e)))
                /\ IF Dangling(e) THEN UNCHANGED troubles ELSE Trouble
Timer(e) == Event(e, peer_reset_timer_handler(cl[e], Other(e), nonce)) /\ UNCHANGED troubles
SeedReady(e) == Event(e, peer_udp_pio_handler_seed_ready(cl[e], Other(e))) /\ UNCHANGED troubles
SeedWarning(e) ==
    /\ Data(e).link # NULL
    /\ Data(e).link.sendseed_nextid < IF troubles < MaxTroubles THEN MaxSeeds ELSE 1
    /\ Event(e, peer_udp_pio_handler_seed_warning(cl[e], Other(e)))
    /\ UNCHANGED troubles

Next == \/ \E e \in Ends : \/ ServerTakes(e) \/ ClientReads(e)
                           \/ ChatForgets(e) \/ ChatFails(e) \/ LinkFails(e)
                           \/ Timer(e) \/ SeedReady(e) \/ SeedWarning(e)
        \/ ServerRelaunches

Spec == Init /\ [][Next]_vars
-----------------------------------------------------------------------------
\* Nothing is under way.
Quiet == /\ ~resetting
         /\ \A e \in Ends : ~Dangling(e)
         /\ \A e \in Ends : /\ in[e] = <<>> /\ Out(e) = <<>>
                            /\ Data(e).known /\ Data(e).have_chat
                            /\ ~Data(e).reset_timer
                            /\ Data(e).link # NULL => Data(e).link.tw = NULL

\* One end is connected to the socket that the other has bound.
Linked == \E e \in Ends :
            LET a == Data(e).link
                b == Data(Other(e)).link
            IN  /\ a # NULL /\ b # NULL
                /\ a.mode = "bind" /\ b.mode = "connect" /\ a.nonce = b.nonce

\* Both ends have registered to be relayed.
Relayed == \A e \in Ends : Data(e).waiting_relay

\* When nothing is under way and no error or timer is to come, the two ends
\* agree: one is connected to the very socket the other has bound, or both wait
\* for a relay.  Otherwise the pair would be cut off for good, since nothing
\* would start the procedure again.
QuietLinked == Quiet => Linked \/ Relayed

\* With one-time passwords, both ends of a quiet link have a confirmed send seed
\* and the other end has computed the passwords of just that seed: no seed and no
\* confirmation of an earlier link or session is mistaken for one of this link.
SeedsAgree ==
    Quiet /\ Linked /\ cl[1].options.otp =>
        \A e \in Ends : /\ Data(e).link.send_seed # NULL
                        /\ Data(e).link.send_seed \in ToSet(Data(Other(e)).link.tables)
=============================================================================
