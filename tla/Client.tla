------------------------------- MODULE Client -------------------------------
(***************************************************************************)
(* How a VPN client sets up its links (src/client/client.c): binding,      *)
(* connecting, retrying, relaying through another peer and exchanging the  *)
(* seeds of one-time passwords.  Handlers call each other, so each is an   *)
(* operator from the client's state C to the state it leaves, or to the    *)
(* set of states it may leave when system calls can fail.                  *)
(*                                                                         *)
(* C.peer[p] is the struct peer_data of peer p, C.out[p] the messages of   *)
(* its chat on their way to the server.  A socket that was bound or        *)
(* listens is known by the nonce n that its YOUCONNECT carries: its        *)
(* address, port, key and password.                                        *)
(***************************************************************************)
EXTENDS Integers, Sequences, FiniteSets, SequencesExt

CONSTANTS
    NULL,
    ChatCap     \* how many messages to a peer are buffered at most

\* Messages of protocol/msgproto.h, and the packet that asks for a reset.
Simple(type) == [type |-> type]
CANNOTCONNECT == Simple("CANNOTCONNECT")
CANNOTBIND == Simple("CANNOTBIND")
YOURETRY == Simple("YOURETRY")
RESETPEER == Simple("RESETPEER")
UNDECODABLE == Simple("UNDECODABLE")
YOUCONNECT(addr, n) == [type |-> "YOUCONNECT", addr |-> addr, nonce |-> n]
SEED(key) == [type |-> "SEED", key |-> key]
CONFIRMSEED(id) == [type |-> "CONFIRMSEED", id |-> id]

\* A send seed: the socket it was made for and its id.
Key(link, id) == [mode |-> link.mode, nonce |-> link.nonce, id |-> id]

\* No struct peer_data
NoPeer == [known |-> FALSE, have_chat |-> FALSE, have_resetpeer |-> FALSE,
           link |-> NULL, relaying_peer |-> NULL, waiting_relay |-> FALSE,
           is_relay |-> FALSE, relay_users |-> <<>>, binding |-> FALSE,
           binding_addrpos |-> 0, reset_timer |-> FALSE, relay_server |-> FALSE]

\* A client that has just been told its id.
NewClient(id, peers, opts) ==
    [my_id |-> id, options |-> opts, peer |-> [p \in peers |-> NoPeer],
     relays |-> <<>>, waiting_relay_peers |-> <<>>,
     out |-> [p \in peers |-> <<>>]]

\* The outcomes S are possible only under the condition.
When(cond, S) == IF cond THEN S ELSE {}

peer_am_master(C, p) == C.my_id > p
have_link(C, p) == C.peer[p].link # NULL
-----------------------------------------------------------------------------
\* Sending.  PeerChat_StartMessage fails when the buffer is full.

peer_resetpeer(C, p) ==
    [C EXCEPT !.peer[p].have_chat = FALSE, !.peer[p].have_resetpeer = TRUE,
              !.out[p] = Append(@, RESETPEER)]

peer_send(C, p, m) ==
    IF ~C.peer[p].have_chat THEN C
    ELSE IF Len(C.out[p]) >= ChatCap THEN peer_resetpeer(C, p)
    ELSE [C EXCEPT !.out[p] = Append(@, m)]

peer_send_simple(C, p, m) == peer_send(C, p, m)

peer_send_conectinfo(C, p, addr, n) == peer_send(C, p, YOUCONNECT(addr, n))

peer_send_confirmseed(C, p, id) == peer_send(C, p, CONFIRMSEED(id))

\* The link remembers the seed it waits for; a failure to send it is not noticed.
peer_job_send_seed(C, p) ==
    LET link == C.peer[p].link
        id == link.sendseed_nextid
    IN  peer_send([C EXCEPT !.peer[p].link.sendseed_sent_id = id,
                            !.peer[p].link.sendseed_sent = TRUE,
                            !.peer[p].link.sendseed_nextid = (id + 1) % 2^16],
                  p, SEED(Key(link, id)))
-----------------------------------------------------------------------------
\* Relays.

peer_free_relaying(C, p) ==
    [C EXCEPT !.peer[C.peer[p].relaying_peer].relay_users = Remove(@, p),
              !.peer[p].relaying_peer = NULL]

peer_register_need_relay(C, p) ==
    [C EXCEPT !.waiting_relay_peers = Append(@, p), !.peer[p].waiting_relay = TRUE]

peer_unregister_need_relay(C, p) ==
    [C EXCEPT !.waiting_relay_peers = Remove(@, p), !.peer[p].waiting_relay = FALSE]

peer_install_relaying(C, p, relay) ==
    [C EXCEPT !.peer[relay].relay_users = Append(@, p), !.peer[p].relaying_peer = relay]

\* All waiting peers get the first relay, in the order of their waiting.
assign_relays(C) ==
    LET assign(S, p) ==
            peer_install_relaying(peer_unregister_need_relay(S, p), p, Head(C.relays))
    IN  IF C.relays = <<>> THEN C ELSE FoldLeft(assign, C, C.waiting_relay_peers)

\* peer_enable_relay_provider, without giving the relay to those who wait.
peer_enable_relay_providerUnassigned(C, p) ==
    [C EXCEPT !.relays = Append(@, p), !.peer[p].is_relay = TRUE,
              !.peer[p].relay_users = <<>>]

peer_enable_relay_provider(C, p) ==
    assign_relays([C EXCEPT !.relays = Append(@, p), !.peer[p].is_relay = TRUE,
                            !.peer[p].relay_users = <<>>])

\* The users of the relay wait again, behind those that already do.
peer_disable_relay_provider(C, p) ==
    LET release(S, u) == peer_register_need_relay(peer_free_relaying(S, u), u)
        D == FoldLeft(release, C, C.peer[p].relay_users)
    IN  assign_relays([D EXCEPT !.relays = Remove(@, p), !.peer[p].is_relay = FALSE])

peer_free_link(C, p) == [C EXCEPT !.peer[p].link = NULL]

peer_need_relay(C, p) ==
    IF C.peer[p].waiting_relay THEN C
    ELSE LET D == IF have_link(C, p) THEN peer_free_link(C, p)
                  ELSE IF C.peer[p].relaying_peer # NULL THEN peer_free_relaying(C, p)
                  ELSE C
         IN  assign_relays(peer_register_need_relay(D, p))
-----------------------------------------------------------------------------
\* Links.

\* peer_cleanup_connections, forgetting that others relay through the link.
peer_cleanup_connectionsRelay(C, p) ==
    IF have_link(C, p) THEN peer_free_link(C, p)
    ELSE IF C.peer[p].relaying_peer # NULL THEN peer_free_relaying(C, p)
    ELSE IF C.peer[p].waiting_relay THEN peer_unregister_need_relay(C, p)
    ELSE C

peer_cleanup_connections(C, p) ==
    IF have_link(C, p)
    THEN peer_free_link(IF C.peer[p].is_relay THEN peer_disable_relay_provider(C, p) ELSE C, p)
    ELSE IF C.peer[p].relaying_peer # NULL THEN peer_free_relaying(C, p)
    ELSE IF C.peer[p].waiting_relay THEN peer_unregister_need_relay(C, p)
    ELSE C

\* The link objects exist, but are not bound or connected yet.
peer_init_link(C, p) ==
    [C EXCEPT !.peer[p].link =
        [mode |-> "none", nonce |-> NULL, sendseed_nextid |-> 0, sendseed_sent |-> FALSE,
         sendseed_sent_id |-> 0, send_seed |-> NULL, tw |-> NULL, tables |-> <<>>]]

\* The link has a socket; the job that sends a seed runs once the handler is done.
OpenLink(C, p, mode, n) ==
    [C EXCEPT !.peer[p].link.mode = mode, !.peer[p].link.nonce = n]
SeedJob(C, p) == IF C.options.otp THEN peer_job_send_seed(C, p) ELSE C

\* peer_reset, where the slave does not report to the master.
peer_resetSilent(C, p) ==
    LET D == peer_cleanup_connections(C, p)
    IN  IF peer_am_master(C, p) THEN [D EXCEPT !.peer[p].reset_timer = TRUE] ELSE D

peer_reset(C, p) ==
    LET D == peer_cleanup_connections(C, p)
    IN  IF peer_am_master(C, p) THEN [D EXCEPT !.peer[p].reset_timer = TRUE]
        ELSE peer_send_simple(D, p, YOURETRY)

\* The end of peer_bind: no more addresses to bind to.
BindExhausted(C, p) ==
    LET D == peer_send_simple([C EXCEPT !.peer[p].binding = FALSE], p, CANNOTBIND)
    IN  IF ~peer_am_master(C, p) /\ ~C.peer[p].is_relay THEN peer_need_relay(D, p) ELSE D

\* Binding to one address with external ones ends the search: the socket is bound
\* and offered to the peer, or there is no link and the peer is reset.
peer_bind_one_address(C, p, addr, n) ==
    LET D == peer_cleanup_connections(C, p)
        B == OpenLink(peer_init_link(D, p), p, "bind", n)
    IN  {SeedJob(peer_send_conectinfo(B, p, addr, n), p)}
        \cup When(C.options.may_fail, {peer_reset(D, p)})

\* The address is taken (UDP only): the search goes on, with a link that is not bound.
AddressTaken(C, p) == peer_init_link(peer_cleanup_connections(C, p), p)

\* The search goes on from binding_addrpos.
RECURSIVE peer_bind(_, _, _)
peer_bind(C, p, n) ==
    LET pos == C.peer[p].binding_addrpos
        addr == C.options.bind_addrs[pos + 1]
        D == [C EXCEPT !.peer[p].binding_addrpos = @ + 1]
    IN  IF pos = Len(C.options.bind_addrs) THEN {BindExhausted(C, p)}
        ELSE IF addr = 0 THEN peer_bind(D, p, n)
        ELSE peer_bind_one_address(D, p, addr, n)
             \cup When(C.options.may_fail /\ C.options.udp, peer_bind(AddressTaken(D, p), p, n))

peer_start_binding(C, p, n) ==
    peer_bind([C EXCEPT !.peer[p].binding = TRUE, !.peer[p].binding_addrpos = 0], p, n)

\* Without a link, or when the socket cannot be connected, retry later.
peer_connect(C, p, n) ==
    LET D == peer_cleanup_connections(C, p)
    IN  {SeedJob(OpenLink(peer_init_link(D, p), p, "connect", n), p)}
        \cup When(C.options.may_fail, {peer_reset(D, p)})
-----------------------------------------------------------------------------
\* Messages from the peer.

peer_msg_youconnect(C, p, m) ==
    IF m.addr \in C.options.scopes THEN peer_connect(C, p, m.nonce)
    ELSE {peer_send_simple(C, p, CANNOTCONNECT)}

peer_msg_cannotconnect(C, p, n) ==
    IF C.peer[p].binding THEN peer_bind(C, p, n) ELSE {C}

peer_msg_cannotbind(C, p, n) ==
    IF ~peer_am_master(C, p) THEN peer_start_binding(C, p, n)
    ELSE {IF C.peer[p].is_relay THEN C ELSE peer_need_relay(C, p)}

\* peer_msg_seed, where a seed does not replace the one being worked on.
peer_msg_seedBusy(C, p, m) ==
    {IF C.options.otp /\ have_link(C, p) /\ C.peer[p].link.tw = NULL
     THEN [C EXCEPT !.peer[p].link.tw = m.key] ELSE C}

\* DatagramPeerIO_AddOTPRecvSeed: work on an earlier seed is given up, and the
\* oldest of two tables is overwritten.
peer_msg_seed(C, p, m) ==
    {IF C.options.otp /\ have_link(C, p)
     THEN [C EXCEPT !.peer[p].link.tw = m.key,
                    !.peer[p].link.tables = IF Len(@) = 2 THEN Tail(@) ELSE @]
     ELSE C}

peer_msg_confirmseed(C, p, m) ==
    LET link == C.peer[p].link
    IN  {IF /\ C.options.otp
            /\ have_link(C, p)
            /\ link.sendseed_sent
            /\ m.id = link.sendseed_sent_id
         THEN [C EXCEPT !.peer[p].link.sendseed_sent = FALSE,
                        !.peer[p].link.send_seed = Key(link, m.id)]
         ELSE C}

peer_msg_youretry(C, p) ==
    {IF peer_am_master(C, p) THEN peer_reset(C, p) ELSE C}

\* What the chat cannot decode is an error of the chat.
peer_chat_handler_message(C, p, m, n) ==
    CASE m.type = "YOUCONNECT" -> peer_msg_youconnect(C, p, m)
      [] m.type = "CANNOTCONNECT" -> peer_msg_cannotconnect(C, p, n)
      [] m.type = "CANNOTBIND" -> peer_msg_cannotbind(C, p, n)
      [] m.type = "YOURETRY" -> peer_msg_youretry(C, p)
      [] m.type = "SEED" -> peer_msg_seed(C, p, m)
      [] m.type = "CONFIRMSEED" -> peer_msg_confirmseed(C, p, m)
      [] m.type = "UNDECODABLE" -> {peer_resetpeer(C, p)}

server_handler_message(C, p, m, n) ==
    IF C.peer[p].known /\ C.peer[p].have_chat THEN peer_chat_handler_message(C, p, m, n)
    ELSE {C}
-----------------------------------------------------------------------------
\* Other events: each is the set of states it may leave, empty when the event
\* cannot happen.

\* The job that peer_add sets; it runs before any other event.
peer_job_init(C, p, n) ==
    IF peer_am_master(C, p) THEN peer_start_binding(C, p, n) ELSE {C}

\* When some part of the peer cannot be initialised, the peer is not added.
peer_add(C, p, relay, n) ==
    peer_job_init([C EXCEPT !.peer[p] = [NoPeer EXCEPT !.known = TRUE, !.have_chat = TRUE,
                                                       !.relay_server = relay]], p, n)
    \cup When(C.options.may_fail, {C})

server_handler_newclient(C, p, relay, n) ==
    IF C.peer[p].known THEN {C} ELSE peer_add(C, p, relay, n)

\* What was sent before is refused by the server, which has ended the session;
\* but a packet that the server flow is busy with stays there (server_flow_die)
\* and follows the next ACCEPTPEER.  A TLS chat cannot decode a record of
\* another connection.
peer_remove(C, p) ==
    LET late(m) == IF C.options.ssl /\ m # RESETPEER THEN UNDECODABLE ELSE m
        dying == {<<>>} \cup {<<late(m)>> : m \in ToSet(C.out[p])}
    IN  {[peer_cleanup_connections(C, p) EXCEPT !.peer[p] = NoPeer, !.out[p] = q] :
            q \in dying}

server_handler_endclient(C, p) ==
    IF C.peer[p].known THEN peer_remove(C, p) ELSE {C}

peer_chat_handler_error(C, p) == When(C.peer[p].have_chat, {peer_resetpeer(C, p)})

\* peer_udp_pio_handler_error, peer_tcp_pio_handler_error: only a socket fails
LinkError(C, p) ==
    When(have_link(C, p) /\ C.peer[p].link.mode # "none", {peer_reset(C, p)})

peer_reset_timer_handler(C, p, n) ==
    When(C.peer[p].reset_timer,
         peer_start_binding([C EXCEPT !.peer[p].reset_timer = FALSE], p, n))

\* The peer answers keep-alives, or has stopped to.
peer_dataproto_handler(C, p, up) ==
    When(have_link(C, p) /\ C.peer[p].link.mode # "none",
         {IF up /\ C.peer[p].relay_server /\ ~C.peer[p].is_relay
          THEN peer_enable_relay_provider(C, p)
          ELSE IF ~up /\ C.peer[p].is_relay THEN peer_disable_relay_provider(C, p)
          ELSE C})

\* Few passwords of the send seed are left.
peer_udp_pio_handler_seed_warning(C, p) ==
    When(have_link(C, p) /\ C.peer[p].link.send_seed # NULL,
         {IF C.peer[p].link.sendseed_sent THEN C ELSE peer_job_send_seed(C, p)})

\* The passwords of a receive seed have been computed by a thread.
peer_udp_pio_handler_seed_ready(C, p) ==
    LET link == C.peer[p].link
    IN  When(have_link(C, p) /\ link.tw # NULL,
             {peer_send_confirmseed([C EXCEPT !.peer[p].link.tables = Append(@, link.tw),
                                              !.peer[p].link.tw = NULL],
                                    p, link.tw.id)})
=============================================================================
