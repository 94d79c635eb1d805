------------------------------- MODULE Server -------------------------------
(***************************************************************************)
(* The chat server of src/server/server.c: clients connect, say hello, are *)
(* introduced to each other, exchange messages through the server, reset a *)
(* pair whose buffer ran out, and go away at any moment.                   *)
(*                                                                         *)
(* Handlers call each other and fail half way (client_remove is called     *)
(* from nearly everywhere), so they are operators from a server state S to *)
(* the state they leave, composed as the calls are nested.  The reactor    *)
(* runs one handler to its end, then the jobs it has set, newest first,    *)
(* and only then takes the next event.                                     *)
(***************************************************************************)
EXTENDS JobList, SequencesExt

CONSTANTS
    Settings,       \* how the server may be started and used: a set of records of
                    \*   max_clients      options.max_clients
                    \*   ssl              options.ssl
                    \*   comm_predicate   whether options.comm_predicate is given
                    \*   IdSpace          number of peerid_t values, 2^16 in the code
                    \*   FlowCap          CLIENT_PEER_FLOW_BUFFER_MIN_PACKETS
                    \*   Versions         the clients' hello versions: "new", "old"
                    \*                    (<= SC_OLDVERSION_NOSSL)
                    \*   Requests         what clients send: "OUTMSG", "RESETPEER", "ACCEPTPEER"
                    \*   MaxConnects      bound: how many ids are handed out
    GONE,           \* a flow whose source client is gone (src_client == NULL)
    NULL

ASSUME ServerAssumption ==
    \A o \in Settings :
        /\ o.max_clients \in Nat \ {0} /\ o.IdSpace \in Nat /\ o.max_clients <= o.IdSpace
        /\ o.FlowCap \in Nat \ {0} /\ o.MaxConnects \in Nat
        /\ o.ssl \in BOOLEAN /\ o.comm_predicate \in BOOLEAN
        /\ o.Requests \subseteq {"OUTMSG", "RESETPEER", "ACCEPTPEER"}
        /\ o.Versions \subseteq {"new", "old"}

VARIABLES
    srv,        \* the state of the server
    connects,   \* bound: the ids handed out so far
    newest,     \* the client whose hello began the current round of jobs
    view        \* what each client has been sent about each id

vars == <<srv, connects, newest, view>>

max_clients == srv.options.max_clients
IdSpace == srv.options.IdSpace
FlowCap == srv.options.FlowCap
Requests == srv.options.Requests
MaxConnects == srv.options.MaxConnects

Slots == 1..max_clients         \* struct client_data objects
Ids == 0..(IdSpace - 1)
Gens == {"a", "b"}              \* tells an old know of a pair from its successor

Hello == [t |-> "SERVERHELLO"]
NewClient(i, g) == [t |-> "NEWCLIENT", id |-> i, gen |-> g]
EndClient(i) == [t |-> "ENDCLIENT", id |-> i]
InMsg(i, g) == [t |-> "INMSG", id |-> i, gen |-> g]

Know(c, d, g) == [from |-> c, to |-> d, gen |-> g]
Knows == [from : Slots, to : Slots, gen : Gens]
Inform(k) == <<"inform", k>>
Uninform(k) == <<"uninform", k>>
Dying(c) == <<"dying", c>>

\* A flow that peer_flow_create has allocated.
NewFlow == [have_io |-> FALSE, buf |-> <<>>, busyh |-> FALSE, timer |-> FALSE,
            gen |-> "a", accepted |-> FALSE, resetting |-> FALSE]

TypeOK ==
    /\ srv.clients \in Seq(Slots)
    /\ srv.status \in [Slots -> {"free", "HANDSHAKE", "WAITHELLO", "COMPLETE"}]
    /\ srv.dying \in [Slots -> BOOLEAN]
    /\ srv.id \in [Slots -> Ids \cup {NULL}]
    /\ srv.version \in [Slots -> {"new", "old"}]
    /\ srv.nextid \in Ids
    /\ \A f \in DOMAIN srv.flow :
         /\ f \in Slots \X Slots
         /\ srv.flow[f].buf \in Seq({InMsg(i, g) : i \in Ids, g \in Gens})
         /\ Len(srv.flow[f].buf) <= FlowCap
    /\ srv.knows \in Seq(Knows)
    /\ \A c \in Slots : Len(srv.ctrl[c]) <= 1 + 2 * (max_clients - 1)
    /\ srv.sending \in [Slots -> {"none", "control", "peers"}]
    /\ srv.fq \in [Slots -> Slots \cup {GONE, NULL}]
    /\ srv.writing \in Slots \cup {NULL}

\* No client, as the record the server keeps of each.
NoView(o) == [greeted |-> FALSE, peers |-> [i \in 0..(o.IdSpace - 1) |-> "never"]]

Init ==
    \E o \in Settings :
        LET Each(x) == [c \in 1..o.max_clients |-> x] IN
        /\ srv = [options |-> o,
                  clients |-> <<>>,             \* clients list
                  status |-> Each("free"),      \* initstatus
                  dying |-> Each(FALSE),
                  id |-> Each(NULL),
                  version |-> Each("new"),
                  nextid |-> 0,                 \* clients_nextid
                  flow |-> <<>>,                \* from <<src, dest>> to a flow
                  knows |-> <<>>,               \* all knows, in list order
                  jobs |-> <<>>,                \* the reactor's pending jobs
                  ctrl |-> Each(<<>>),          \* output_control_oflow
                  sending |-> Each("none"),     \* priority queue's sending_flow
                  fq |-> Each(NULL),            \* fair queue's sending_flow
                  gone |-> Each(NULL),          \* packet of a disconnected flow
                  writing |-> NULL]             \* connection about to be written
        /\ connects = 0
        /\ newest = NULL
        /\ view = Each(NoView(o))
-----------------------------------------------------------------------------
(* Knows: "from" has been, or is about to be, told of "to". *)

\* A know created without its inform job.
create_know_silent(S, c, d, g) == [S EXCEPT !.knows = Append(S.knows, Know(c, d, g))]

create_know(S, c, d, g) ==
    [S EXCEPT !.knows = Append(S.knows, Know(c, d, g)),
              !.jobs = BSmallPending_Set(S.jobs, Inform(Know(c, d, g)))]

remove_know(S, k) ==
    [S EXCEPT !.jobs = BSmallPending_Unset(BSmallPending_Unset(S.jobs, Uninform(k)), Inform(k)),
              !.knows = LinkedList1_Remove(S.knows, k)]

uninform_know(S, k) ==
    IF BSmallPending_IsSet(S.jobs, Inform(k))
    THEN remove_know(S, k)
    ELSE [S EXCEPT !.jobs = BSmallPending_Set(S.jobs, Uninform(k))]
-----------------------------------------------------------------------------
(* Removing a client *)

FlowsTo(S, c) == {f \in DOMAIN S.flow : f[2] = c}
FlowsFrom(S, c) == {f \in DOMAIN S.flow : f[1] = c}
DropFlows(S, F) == [S EXCEPT !.flow = Restrict(S.flow, DOMAIN S.flow \ F)]

\* PacketPassFairQueueFlow_IsBusy
IsBusy(S, f) == S.fq[f[2]] = f[1]

client_dealloc_io(S, c) ==
    [DropFlows(S, FlowsTo(S, c)) EXCEPT
        !.ctrl[c] = <<>>, !.sending[c] = "none", !.fq[c] = NULL, !.gone[c] = NULL,
        !.writing = IF @ = c THEN NULL ELSE @]

\* The outgoing flows: peer_flow_disconnect for a busy one, which keeps the
\* packet in the destination's fair queue, peer_flow_dealloc for the others.
remove_out_flows(S, c) ==
    [DropFlows(S, FlowsFrom(S, c)) EXCEPT
        !.gone = [d \in Slots |-> IF S.fq[d] = c THEN Head(S.flow[<<c, d>>].buf) ELSE @[d]],
        !.fq = [d \in Slots |-> IF @[d] = c THEN GONE ELSE @[d]]]

\* client_remove that schedules the end of the client last, so that it runs
\* before the other clients are told.
client_remove_job_last(S, c) ==
    LET io == IF S.status[c] = "HANDSHAKE" THEN S ELSE client_dealloc_io(S, c)
        quiet == FoldLeft(remove_know, [io EXCEPT !.dying[c] = TRUE],
                          SelectSeq(io.knows, LAMBDA k : k.from = c))
        alone == remove_out_flows(quiet, c)
        told == FoldLeft(uninform_know, alone, SelectSeq(alone.knows, LAMBDA k : k.to = c))
    IN  [told EXCEPT !.jobs = BSmallPending_Set(@, Dying(c))]

client_remove(S, c) ==
    LET io == IF S.status[c] = "HANDSHAKE" THEN S ELSE client_dealloc_io(S, c)
        quiet == FoldLeft(remove_know, [io EXCEPT !.dying[c] = TRUE],
                          SelectSeq(io.knows, LAMBDA k : k.from = c))
        alone == remove_out_flows(quiet, c)
        last == [alone EXCEPT !.jobs = BSmallPending_Set(@, Dying(c))]
    IN  FoldLeft(uninform_know, last, SelectSeq(last.knows, LAMBDA k : k.to = c))
-----------------------------------------------------------------------------
(* Output to a client: a priority queue over the control packets and a fair *)
(* queue of the flows of the other clients.                                 *)

\* The fair queue of d takes a packet if it has none; which flow it takes is
\* left open here (PacketPassFairQueue models the choice).
FairQueueTakes(S, d) ==
    LET ready == {f \in FlowsTo(S, d) : S.flow[f].buf # <<>>}
    IN  IF S.fq[d] # NULL \/ ready = {} THEN {S}
        ELSE {[S EXCEPT !.fq[d] = f[1]] : f \in ready}

\* The priority queue that lets the peers' packets go first.
PriorityQueueTakesPeers(S, d) ==
    IF S.sending[d] # "none" THEN S
    ELSE IF S.fq[d] # NULL THEN [S EXCEPT !.sending[d] = "peers", !.writing = d]
    ELSE IF S.ctrl[d] # <<>> THEN [S EXCEPT !.sending[d] = "control", !.writing = d]
    ELSE S

\* The priority queue of d hands the next packet to the connection, which is
\* then written to at once: control packets go first.
PriorityQueueTakes(S, d) ==
    IF S.sending[d] # "none" THEN S
    ELSE IF S.ctrl[d] # <<>> THEN [S EXCEPT !.sending[d] = "control", !.writing = d]
    ELSE IF S.fq[d] # NULL THEN [S EXCEPT !.sending[d] = "peers", !.writing = d]
    ELSE S

Pump(S, d) == {PriorityQueueTakes(T, d) : T \in FairQueueTakes(S, d)}

\* Room for one packet per other client, none for the hello.
client_compute_buffer_size_small == max_clients - 1

client_compute_buffer_size == 1 + 2 * (max_clients - 1)

\* client_start_control_packet and client_end_control_packet: a client whose
\* buffer is full is removed.
SendControl(S, c, packet) ==
    IF Len(S.ctrl[c]) >= client_compute_buffer_size
    THEN {client_remove(S, c)}
    ELSE Pump([S EXCEPT !.ctrl[c] = Append(@, packet)], c)
-----------------------------------------------------------------------------
(* Flows and pairs *)

Opposite(f) == <<f[2], f[1]>>

peer_flow_create(S, c, d) == [S EXCEPT !.flow = (<<c, d>> :> NewFlow) @@ @]
peer_flow_init_io(S, f) == [S EXCEPT !.flow[f].have_io = TRUE]
peer_flow_free_io(S, f) == [S EXCEPT !.flow[f].have_io = FALSE, !.flow[f].buf = <<>>]

\* launch_pair; "done" of its four allocations (two I/O chains, two knows)
\* succeed.
launch_pair(S, f, done) ==
    LET o == Opposite(f)
        g == CHOOSE x \in Gens : \A i \in DOMAIN S.knows :
                 S.knows[i] \notin {Know(f[1], f[2], x), Know(f[2], f[1], x)}
        io1 == IF done >= 1 THEN peer_flow_init_io(S, f) ELSE S
        io2 == IF done >= 2 THEN peer_flow_init_io(io1, o) ELSE io1
        know1 == IF done >= 3 THEN create_know(io2, f[1], f[2], g) ELSE io2
        know2 == create_know(know1, f[2], f[1], g)
        started(T, x) == [T EXCEPT !.flow[x].gen = g,
                                   !.flow[x].accepted = (T.version[x[1]] = "old"),
                                   !.flow[x].resetting = FALSE]
    IN  IF done < 4 THEN client_remove(know1, f[1]) ELSE started(started(know2, f), o)

\* A flow of a resetting pair gives up its I/O when it is not busy, and
\* forgets to ask for a call when it is.
try_free_io_deaf(S, f) ==
    IF S.flow[f].have_io /\ ~IsBusy(S, f) THEN peer_flow_free_io(S, f) ELSE S

\* A flow of a resetting pair gives up its I/O now or when it is not busy.
try_free_io(S, f) ==
    IF ~S.flow[f].have_io THEN S
    ELSE IF IsBusy(S, f) THEN [S EXCEPT !.flow[f].busyh = TRUE]
    ELSE peer_flow_free_io(S, f)

\* peer_flow_drive_reset that does not wait for the opposite client to accept.
peer_flow_drive_reset_hasty(S, f) ==
    LET o == Opposite(f)
        T == try_free_io(try_free_io(S, f), o)
    IN  [T EXCEPT !.flow[f].timer = ~T.flow[f].have_io /\ ~T.flow[o].have_io /\ T.flow[f].accepted]

peer_flow_drive_reset(S, f) ==
    LET o == Opposite(f)
        T == try_free_io(try_free_io(S, f), o)
        wait == \/ T.flow[f].have_io \/ T.flow[o].have_io
                \/ ~T.flow[f].accepted \/ ~T.flow[o].accepted
    IN  IF wait THEN T ELSE [T EXCEPT !.flow[f].timer = TRUE]

peer_flow_start_reset(S, f) ==
    peer_flow_drive_reset([S EXCEPT !.flow[f].resetting = TRUE], f)

Resetting(S, f) == S.flow[f].resetting \/ S.flow[Opposite(f)].resetting

\* The flow of the pair that is the resetting one is driven on.
ContinueReset(S, f) ==
    IF S.flow[f].resetting THEN peer_flow_drive_reset(S, f)
    ELSE IF S.flow[Opposite(f)].resetting THEN peer_flow_drive_reset(S, Opposite(f))
    ELSE S
-----------------------------------------------------------------------------
(* Events *)

\* The reactor is between two events.
AtEvent == srv.jobs = <<>> /\ srv.writing = NULL

\* The live clients a packet can come from.
Linked(c) == srv.status[c] \in {"WAITHELLO", "COMPLETE"}

\* new_client_id that does not look for the id among the clients.
new_client_id_blind == srv.nextid

\* The first of the next ids that no client has.
new_client_id ==
    LET free == {n \in 0..(max_clients - 1) :
                    \A c \in Slots : srv.id[c] # (srv.nextid + n) % IdSpace}
        n == CHOOSE x \in free : \A y \in free : x <= y
    IN  (srv.nextid + n) % IdSpace

\* listener_handler
Accept(c) ==
    /\ AtEvent /\ srv.status[c] = "free" /\ connects < MaxConnects
    /\ \A d \in Slots : d < c => srv.status[d] # "free"  \* objects are alike
    /\ srv' = [srv EXCEPT !.status[c] = IF srv.options.ssl THEN "HANDSHAKE" ELSE "WAITHELLO",
                          !.clients = Append(@, c),
                          !.id[c] = new_client_id,
                          !.nextid = (new_client_id + 1) % IdSpace]
    /\ connects' = connects + 1
    /\ newest' = NULL
    /\ view' = [view EXCEPT ![c] = NoView(srv.options)]

\* listener_handler that fails after it has taken an id.
AcceptFail ==
    /\ AtEvent /\ \E c \in Slots : srv.status[c] = "free"
    /\ connects < MaxConnects
    /\ srv' = [srv EXCEPT !.nextid = (new_client_id + 1) % IdSpace]
    /\ connects' = connects + 1
    /\ newest' = NULL
    /\ UNCHANGED view

\* client_sslcon_handler, BSSLCONNECTION_EVENT_UP, all goes well.
HandshakeUp(c) ==
    /\ AtEvent /\ srv.status[c] = "HANDSHAKE"
    /\ srv' = [srv EXCEPT !.status[c] = "WAITHELLO"]
    /\ newest' = NULL
    /\ UNCHANGED <<connects, view>>

\* The no-data timer, a closed or broken connection, an SSL error or a failed
\* handshake, a decoder error, a malformed or unexpected packet.
ClientGone(c) ==
    /\ AtEvent /\ srv.status[c] # "free"
    /\ srv' = client_remove(srv, c)
    /\ newest' = NULL
    /\ UNCHANGED <<connects, view>>

\* The clients c is introduced to, in list order, when it may talk to those in
\* "allowed".
Peers(S, c, allowed) ==
    SelectSeq(S.clients, LAMBDA d : /\ d \in allowed \ {c}
                                    /\ S.status[d] = "COMPLETE" /\ ~S.dying[d])

\* One round of the publish loop: both flows are created and launched.
Publish(S, c, d, done) ==
    launch_pair(peer_flow_create(peer_flow_create(S, c, d), d, c), <<c, d>>, done)

\* process_packet_hello for a version the server knows: all allocations
\* succeed, or the pair with "bad" fails after "done" of them.
ClientHello(c, v, allowed) ==
    /\ AtEvent /\ srv.status[c] = "WAITHELLO"
    /\ LET S == [srv EXCEPT !.status[c] = "COMPLETE", !.version[c] = v]
           peers == Peers(S, c, allowed)
           full(T, d) == Publish(T, c, d, 4)
       IN  srv' \in SendControl(FoldLeft(full, S, peers), c, Hello)
    /\ newest' = c
    /\ UNCHANGED <<connects, view>>

ClientHelloFail(c, v, allowed) ==
    /\ AtEvent /\ srv.status[c] = "WAITHELLO"
    /\ LET S == [srv EXCEPT !.status[c] = "COMPLETE", !.version[c] = v]
           peers == Peers(S, c, allowed)
           full(T, d) == Publish(T, c, d, 4)
       IN  \E i \in DOMAIN peers, done \in 0..3 :
             LET before == FoldLeft(full, S, SubSeq(peers, 1, i - 1))
             IN  srv' \in {Publish(before, c, peers[i], done),
                           client_remove(before, c),
                           client_remove(peer_flow_create(before, c, peers[i]), c)}
    /\ newest' = c
    /\ UNCHANGED <<connects, view>>

\* find_flow
HasFlow(c, d) == <<c, d>> \in DOMAIN srv.flow

\* A message is refused while the pair resets or before the sender accepted.
Refused(f) == Resetting(srv, f) \/ ~srv.flow[f].accepted

\* process_packet_outmsg: forward the message, or reset the pair if the flow's
\* buffer is full.
process_packet_outmsg(c, d) ==
    /\ AtEvent /\ "OUTMSG" \in Requests /\ HasFlow(c, d)
    /\ LET f == <<c, d>> IN
         /\ ~Refused(f)
         /\ IF Len(srv.flow[f].buf) >= FlowCap
            THEN srv' = peer_flow_start_reset(srv, f)
            ELSE srv' \in Pump([srv EXCEPT !.flow[f].buf =
                                    Append(@, InMsg(srv.id[c], srv.flow[f].gen))], d)
    /\ newest' = NULL
    /\ UNCHANGED <<connects, view>>

process_packet_resetpeer(c, d) ==
    /\ AtEvent /\ "RESETPEER" \in Requests /\ HasFlow(c, d) /\ ~Refused(<<c, d>>)
    /\ srv' = peer_flow_start_reset(srv, <<c, d>>)
    /\ newest' = NULL
    /\ UNCHANGED <<connects, view>>

\* process_packet_acceptpeer: a second accept removes the client.
process_packet_acceptpeer(c, d) ==
    /\ AtEvent /\ "ACCEPTPEER" \in Requests /\ HasFlow(c, d)
    /\ srv' = IF srv.flow[<<c, d>>].accepted THEN client_remove(srv, c)
              ELSE ContinueReset([srv EXCEPT !.flow[<<c, d>>].accepted = TRUE], <<c, d>>)
    /\ newest' = NULL
    /\ UNCHANGED <<connects, view>>

\* The pair is launched again, but the old knows are left to be.
reset_timer_keeps_knows(f) ==
    /\ AtEvent /\ f \in DOMAIN srv.flow /\ srv.flow[f].timer
    /\ srv' = launch_pair([srv EXCEPT !.flow[f].timer = FALSE], f, 4)
    /\ newest' = NULL
    /\ UNCHANGED <<connects, view>>

\* peer_flow_reset_timer_handler: launch the pair again; the jobs that end the
\* old knows are set last, so they run before those that announce the new ones.
peer_flow_reset_timer_handler(f) ==
    /\ AtEvent /\ f \in DOMAIN srv.flow /\ srv.flow[f].timer
    /\ \E done \in 0..4 :
         LET S == [srv EXCEPT !.flow[f].timer = FALSE]
             T == launch_pair(S, f, done)
             o == Opposite(f)
         IN  srv' = IF done < 4 THEN T
                    ELSE uninform_know(uninform_know(T, Know(f[1], f[2], S.flow[f].gen)),
                                       Know(o[1], o[2], S.flow[o].gen))
    /\ newest' = NULL
    /\ UNCHANGED <<connects, view>>
-----------------------------------------------------------------------------
(* Jobs *)

\* The job list without its first job.
Popped == [srv EXCEPT !.jobs = Tail(@)]
AtJob(kind) == srv.writing = NULL /\ srv.jobs # <<>> /\ Head(srv.jobs)[1] = kind
HeadJob == Head(srv.jobs)[2]

know_inform_job_handler ==
    /\ AtJob("inform")
    /\ srv' \in SendControl(Popped, HeadJob.from, NewClient(srv.id[HeadJob.to], HeadJob.gen))
    /\ UNCHANGED <<connects, newest, view>>

know_uninform_job_handler ==
    /\ AtJob("uninform")
    /\ srv' \in SendControl(remove_know(Popped, HeadJob), HeadJob.from, EndClient(srv.id[HeadJob.to]))
    /\ UNCHANGED <<connects, newest, view>>

\* Its connection has gone with client_dealloc_io, when it began to die.
client_dealloc(S, c) ==
    [S EXCEPT !.status[c] = "free", !.dying[c] = FALSE, !.id[c] = NULL, !.version[c] = "new",
              !.clients = LinkedList1_Remove(@, c)]

client_dying_job ==
    /\ AtJob("dying")
    /\ srv' = client_dealloc(Popped, HeadJob)
    /\ UNCHANGED <<connects, newest, view>>
-----------------------------------------------------------------------------
(* The connection of a client being written to *)

\* The packet the priority queue of d is sending.
OnWire(d) == IF srv.sending[d] = "control" THEN Head(srv.ctrl[d])
             ELSE IF srv.fq[d] = GONE THEN srv.gone[d]
             ELSE Head(srv.flow[<<srv.fq[d], d>>].buf)

\* PacketPassFairQueue's output_handler_done for a flow, which calls the
\* flow's busy handler: peer_flow_handler_canremove for a disconnected flow,
\* peer_flow_reset_qflow_handler_busy for one of a resetting pair.
FairQueueDone(S, d) ==
    LET f == <<S.fq[d], d>>
        T == [S EXCEPT !.fq[d] = NULL]
        sent == [T EXCEPT !.flow[f].buf = Tail(@), !.flow[f].busyh = FALSE]
    IN  IF S.fq[d] = GONE THEN [T EXCEPT !.gone[d] = NULL]
        ELSE IF S.flow[f].busyh THEN ContinueReset(sent, f)
        ELSE sent

\* What the client knows after it has read packet p.
Seen(v, p) == CASE p.t = "SERVERHELLO" -> [v EXCEPT !.greeted = TRUE]
                [] p.t = "NEWCLIENT" -> [v EXCEPT !.peers[p.id] = p.gen]
                [] p.t = "ENDCLIENT" -> [v EXCEPT !.peers[p.id] = "ended"]
                [] p.t = "INMSG" -> v

\* The connection took the packet: the queues are told, and go on.
WriteDone(d) ==
    /\ srv.writing = d
    /\ LET idle == [srv EXCEPT !.sending[d] = "none", !.writing = NULL]
       IN  srv' \in Pump(IF srv.sending[d] = "control"
                         THEN [idle EXCEPT !.ctrl[d] = Tail(@)]
                         ELSE FairQueueDone(idle, d), d)
    /\ view' = [view EXCEPT ![d] = Seen(@, OnWire(d))]
    /\ UNCHANGED <<connects, newest>>

\* The socket takes no more: wait until it is writable.
WriteAgain(d) ==
    /\ srv.writing = d
    /\ srv' = [srv EXCEPT !.writing = NULL]
    /\ UNCHANGED <<connects, newest, view>>

\* client_connection_handler, called from within the write.
WriteError(d) ==
    /\ srv.writing = d
    /\ srv' = client_remove(srv, d)
    /\ UNCHANGED <<connects, newest, view>>

\* The socket is writable again.
Writable(d) ==
    /\ AtEvent /\ srv.sending[d] # "none"
    /\ srv' = [srv EXCEPT !.writing = d]
    /\ newest' = NULL
    /\ UNCHANGED <<connects, view>>
-----------------------------------------------------------------------------
Jobs == know_inform_job_handler \/ know_uninform_job_handler \/ client_dying_job
Write(d) == WriteDone(d) \/ WriteAgain(d) \/ WriteError(d)
Packet(c, d) == \/ process_packet_outmsg(c, d) \/ process_packet_resetpeer(c, d)
                \/ process_packet_acceptpeer(c, d)
Introduce(c) ==
    \E v \in srv.options.Versions,
       allowed \in IF srv.options.comm_predicate THEN SUBSET Slots ELSE {Slots} :
        ClientHello(c, v, allowed) \/ ClientHelloFail(c, v, allowed)
Connection(c) == Accept(c) \/ HandshakeUp(c) \/ ClientGone(c) \/ Introduce(c)

Next == \/ Jobs
        \/ \E d \in Slots : Write(d) \/ Writable(d)
        \/ \E c \in Slots : Connection(c)
        \/ \E c, d \in Slots : Packet(c, d) \/ peer_flow_reset_timer_handler(<<c, d>>)
        \/ AcceptFail

Spec == Init /\ [][Next]_vars
-----------------------------------------------------------------------------
\* Between two events the two flows of a pair exist together, between clients
\* that are complete and not dying, at most one of them is resetting, and each
\* client has exactly one know of the other, the one its flow points to, with
\* no job outstanding.  Flows and knows are created and destroyed one by one
\* and every step between can fail.
PairsConsistent ==
    AtEvent =>
        /\ \A f \in DOMAIN srv.flow :
             /\ Opposite(f) \in DOMAIN srv.flow
             /\ srv.status[f[1]] = "COMPLETE" /\ ~srv.dying[f[1]]
             /\ ~(srv.flow[f].resetting /\ srv.flow[Opposite(f)].resetting)
             /\ srv.flow[f].gen = srv.flow[Opposite(f)].gen
        /\ ToSet(srv.knows) = {Know(f[1], f[2], srv.flow[f].gen) : f \in DOMAIN srv.flow}
        /\ \A c \in Slots : ~srv.dying[c]

\* A reset never gets stuck on the server's side: a pair that resets waits for
\* its timer, for an accept, or for a packet that is really being sent and
\* whose flow will call back; and the timer only runs once both flows have
\* given up their I/O and both clients have accepted (the ASSERTs of
\* peer_flow_reset_timer_handler).
ResetArmed ==
    \A f \in DOMAIN srv.flow :
        LET o == Opposite(f) IN
        /\ srv.flow[f].busyh => IsBusy(srv, f) /\ Resetting(srv, f)
        /\ srv.flow[f].timer =>
             /\ srv.flow[f].resetting /\ ~srv.flow[f].have_io /\ ~srv.flow[o].have_io
             /\ srv.flow[f].accepted /\ srv.flow[o].accepted
        /\ AtEvent /\ srv.flow[f].have_io /\ Resetting(srv, f) => srv.flow[f].busyh
        /\ AtEvent /\ srv.flow[f].resetting =>
             \/ srv.flow[f].timer \/ srv.flow[f].busyh \/ srv.flow[o].busyh
             \/ ~srv.flow[f].accepted \/ ~srv.flow[o].accepted

\* No job runs for a client that is gone: an inform job has two live clients,
\* an uninform job a live "from" and a "to" that still has its id, and a dying
\* job runs when nobody knows its client any more (the ASSERTs of
\* know_inform_job_handler, know_uninform_job_handler, client_dying_job).
JobsFindClients ==
    /\ TypeOK
    /\ \A i \in DOMAIN srv.jobs :
         LET kind == srv.jobs[i][1]  k == srv.jobs[i][2] IN
         /\ kind = "inform" => ~srv.dying[k.from] /\ ~srv.dying[k.to]
         /\ kind \in {"inform", "uninform"} =>
              /\ ~srv.dying[k.from] /\ srv.id[k.to] # NULL
              /\ BSmallPending_IsSet(srv.knows, k)
    /\ srv.jobs # <<>> /\ Head(srv.jobs)[1] = "dying" =>
         \A i \in DOMAIN srv.knows : HeadJob \notin {srv.knows[i].from, srv.knows[i].to}

\* The control buffer holds "the initial packet burst" of server.h: while the
\* jobs set by a client's own hello run, it is never removed for lack of room,
\* even if every other client dies as it is told of the new one.
BurstFits ==
    srv.jobs # <<>> /\ newest # NULL /\ Head(srv.jobs)[1] \in {"inform", "uninform"} =>
        (HeadJob.from = newest => Len(srv.ctrl[newest]) < client_compute_buffer_size)

\* Two clients never have the same id, and new_client_id always finds one in
\* max_clients attempts (its ASSERT(0)), also when the ids wrap around.
IdsUnique ==
    /\ \A c, d \in Slots : srv.id[c] = srv.id[d] /\ srv.id[c] # NULL => c = d
    /\ \A c \in Slots : srv.status[c] # "free" <=> srv.id[c] # NULL
    /\ (\E c \in Slots : srv.status[c] = "free") => new_client_id \in Ids

\* What a client reads is a well-formed history of every peer: it is greeted
\* first, is told of a peer only when it does not have it, and is told of its
\* end only when it has it, although the jobs that send these packets are set
\* and cancelled in any order.
HistoryStep(v, p) ==
    /\ p.t # "SERVERHELLO" => v.greeted
    /\ p.t = "NEWCLIENT" => v.peers[p.id] \in {"never", "ended"}
    /\ p.t = "ENDCLIENT" => v.peers[p.id] \in Gens

\* A forwarded message is never read in another session of the pair than the
\* one it was sent in: not before the peer was introduced, and not after a
\* reset introduced it again, as long as ids are not used twice.  It may be read
\* after the peer has ended.
InSession(v, p) ==
    MaxConnects <= IdSpace /\ p.t = "INMSG" => v.peers[p.id] \in {"ended", p.gen}

\* Every packet a client reads, introductions and ends written by the jobs and
\* messages that control packets overtake, continues such a history.
HistoryWellFormed ==
    [][\A d \in Slots : WriteDone(d) => /\ HistoryStep(view[d], OnWire(d))
                                       /\ InSession(view[d], OnWire(d))]_vars
=============================================================================
