---------------------------- MODULE ClientRelays ----------------------------
(***************************************************************************)
(* One client and its peers, of which nothing is assumed: they send any    *)
(* message at any time.  The questions are about the lists of relays, of   *)
(* their users and of the peers waiting for one.                           *)
(***************************************************************************)
EXTENDS Client

CONSTANTS
    my_id, Peers,   \* ids; the client is the master of peers with smaller ids
    Options         \* the possible configurations of the client

VARIABLE client

ASSUME ClientRelaysAssumption == my_id \notin Peers

Init == \E opts \in Options : client = NewClient(my_id, Peers, opts)

\* A socket's nonce does not matter to one end alone.
nonce == 0

Messages == {YOUCONNECT(a, nonce) : a \in {1, 2}} \cup {CANNOTCONNECT, CANNOTBIND, YOURETRY}

\* The handler of the event leaves one of these states; the server takes what
\* was sent.
Handle(S) == \E D \in S : client' = [D EXCEPT !.out = [p \in Peers |-> <<>>]]

NewPeer(p) == \E relay \in BOOLEAN : Handle(server_handler_newclient(client, p, relay, nonce))
EndPeer(p) == Handle(server_handler_endclient(client, p))
Receive(p) == \E m \in Messages : Handle(server_handler_message(client, p, m, nonce))
ChatFails(p) == Handle(peer_chat_handler_error(client, p))
LinkFails(p) == Handle(LinkError(client, p))
Timer(p) == Handle(peer_reset_timer_handler(client, p, nonce))
UpOrDown(p) == \E up \in BOOLEAN : Handle(peer_dataproto_handler(client, p, up))

Next == \E p \in Peers : \/ NewPeer(p) \/ EndPeer(p) \/ Receive(p) \/ ChatFails(p)
                         \/ LinkFails(p) \/ Timer(p) \/ UpOrDown(p)

Spec == Init /\ [][Next]_client
-----------------------------------------------------------------------------
Known == {p \in Peers : client.peer[p].known}

\* A peer is reached by its link, through a relay, waits for one, or none of
\* these: the ASSERTs of peer_init_link, peer_free_link, peer_install_relaying
\* and peer_register_need_relay.
OneWay(p) ==
    LET ways == <<have_link(client, p), client.peer[p].relaying_peer # NULL, client.peer[p].waiting_relay>>
    IN  Cardinality({i \in 1 .. 3 : ways[i]}) <= 1

\* Every peer is reached in one way, and the three lists say what the peers say:
\* the relays are the peers with is_relay, each with a link, the users of a relay
\* are the peers that relay through it, and the waiting list holds the peers that
\* wait.  No list holds a peer that was removed (its struct is freed).
RelayListsAgree ==
    /\ \A p \in Known : OneWay(p)
    /\ ToSet(client.relays) = {p \in Known : client.peer[p].is_relay}
    /\ \A r \in ToSet(client.relays) : have_link(client, r)
    /\ \A r \in Peers : ToSet(client.peer[r].relay_users) = {p \in Known : client.peer[p].relaying_peer = r}
    /\ ToSet(client.waiting_relay_peers) = {p \in Known : client.peer[p].waiting_relay}
    /\ \A p \in Known : client.peer[p].relaying_peer # NULL => client.peer[p].relaying_peer \in ToSet(client.relays)
    /\ IsInjective(client.relays)
    /\ IsInjective(client.waiting_relay_peers)
    /\ \A r \in Peers : IsInjective(client.peer[r].relay_users)

\* A peer waits for a relay only while there is none: every path that makes a
\* peer wait or provides a relay ends in assign_relays.
NobodyWaitsInVain == client.waiting_relay_peers # <<>> => client.relays = <<>>
=============================================================================
