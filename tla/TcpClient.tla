----------------------------- MODULE TcpClient -----------------------------
(***************************************************************************)
(* One TCP connection through tun2socks (src/tun2socks/tun2socks.c): an    *)
(* lwIP connection (the pcb) on the side of the application, a SOCKS       *)
(* connection (src/socksclient/BSocksClient.c over                         *)
(* src/system/BConnection_unix.c) on the other, and a buffer for each      *)
(* direction.  Either side may close or fail at any moment, also in the    *)
(* middle of an lwIP callback: callbacks run the jobs they have set before *)
(* they return (SYNC_COMMIT), and lwIP must then be told whether its pcb   *)
(* still exists.                                                           *)
(*                                                                         *)
(* Handlers are operators from a state to the states they may leave.  Data *)
(* are counted, not told apart: both buffers are read in order.            *)
(***************************************************************************)
EXTENDS JobList

CONSTANTS
    TCP_WND,        \* size of client->buf, and the window lwIP advertises
    TCP_SND_BUF,    \* what lwIP queues for the application
    RECV_BUF,       \* CLIENT_SOCKS_RECV_BUF_SIZE
    MaxUp, MaxDown, \* bounds: bytes the application and the SOCKS server send
    NULL

ASSUME SizesAssumption ==
    /\ {TCP_WND, TCP_SND_BUF, RECV_BUF} \subseteq Nat \ {0}
    /\ {MaxUp, MaxDown} \subseteq Nat
    /\ NULL \notin Int /\ NULL \notin {"frame", "stale"}

VARIABLE tcp    \* the state: a record of
                \*   client  struct tcp_client
                \*   pcb     lwIP's side
                \*   socks   the BSocksClient and its BConnection
                \*   jobs    the reactor's jobs, all of this connection
                \*   frame   dead value of the lwIP callback that runs, or NULL
                \*   past    what has happened so far; not part of the program

vars == <<tcp>>

\* BSocksClient.state during the handshake, and what comes next.
Continues == [CONNECTED_HANDLER |-> {"SENDING_HELLO"}, SENDING_HELLO |-> {"SENT_HELLO"},
              SENT_HELLO |-> {"SENDING_PASSWORD", "SENDING_REQUEST"},
              SENDING_PASSWORD |-> {"SENT_PASSWORD"}, SENT_PASSWORD |-> {"SENDING_REQUEST"},
              SENDING_REQUEST |-> {"SENT_REQUEST"}, SENT_REQUEST |-> {"RECEIVED_REPLY_HEADER"},
              RECEIVED_REPLY_HEADER |-> {"UP"}]
Control == DOMAIN Continues

Clients ==
    [life : {"none", "alive", "freed"}, aborted : BOOLEAN, dead_aborted : {NULL, "frame", "stale"},
     client_closed : BOOLEAN, buf_used : 0..TCP_WND, socks_up : BOOLEAN, socks_closed : BOOLEAN,
     socks_recv_buf_used : -1..RECV_BUF, socks_recv_buf_sent : 0..RECV_BUF,
     socks_recv_waiting : BOOLEAN, socks_recv_tcp_pending : 0..TCP_SND_BUF]
Pcbs ==
    [state : {"OPEN", "CLOSED", "ABORTED", "GONE"}, err : BOOLEAN, recv : BOOLEAN, sent : BOOLEAN,
     wnd : 0..TCP_WND, unacked : 0..TCP_SND_BUF]
Sockss ==
    [state : {"NONE", "CONNECTING", "UP"} \cup Control, send : {"READY", "BUSY"},
     recv : {"READY", "BUSY", "CLOSED"}, len : 0..TCP_WND, sent_len : 0..TCP_WND,
     recv_len : 0..RECV_BUF, wait : SUBSET {"READ", "WRITE"}, hupd : BOOLEAN]
Jobs == {"connector", "control", "send", "send_done", "recv", "recv_done", "recv_job"}
Pasts ==
    [taken : 0..MaxUp, wrote : 0..MaxUp, got : 0..MaxDown, acked : 0..MaxDown,
     broken : BOOLEAN, closed : BOOLEAN, failed : BOOLEAN]

TypeOK ==
    tcp \in [client : Clients, pcb : Pcbs, socks : Sockss, jobs : Seq(Jobs),
             frame : {NULL, -1, 0, 1}, past : Pasts]

NoClient == [life |-> "none", aborted |-> FALSE, dead_aborted |-> NULL, client_closed |-> FALSE,
             buf_used |-> 0, socks_up |-> FALSE, socks_closed |-> FALSE,
             socks_recv_buf_used |-> -1, socks_recv_buf_sent |-> 0,
             socks_recv_waiting |-> FALSE, socks_recv_tcp_pending |-> 0]
NoSocks == [state |-> "NONE", send |-> "READY", recv |-> "READY", len |-> 0, sent_len |-> 0,
            recv_len |-> 0, wait |-> {}, hupd |-> FALSE]

\* lwIP has a connection that listener_accept_func has not seen yet.
Init ==
    tcp = [client |-> NoClient, socks |-> NoSocks, jobs |-> <<>>, frame |-> NULL,
           pcb |-> [state |-> "OPEN", err |-> FALSE, recv |-> FALSE, sent |-> FALSE,
                    wnd |-> TCP_WND, unacked |-> 0],
           past |-> [taken |-> 0, wrote |-> 0, got |-> 0, acked |-> 0,
                     broken |-> FALSE, closed |-> FALSE, failed |-> FALSE]]

Smaller(a, b) == IF a < b THEN a ELSE b
SetJob(s, j) == [s EXCEPT !.jobs = BSmallPending_Set(@, j)]

-----------------------------------------------------------------------------
(* The stream interfaces of the connection (flow/StreamPassInterface.h,     *)
(* flow/StreamRecvInterface.h), and the end of the SOCKS client.            *)

StreamPassInterface_Sender_Send(s, len) ==
    SetJob([s EXCEPT !.socks.send = "BUSY", !.socks.len = len], "send")
StreamRecvInterface_Receiver_Recv(s) ==
    SetJob([s EXCEPT !.socks.recv = "BUSY"], "recv")

\* All jobs are the SOCKS client's, and go with it.
BSocksClient_Free(s) == [s EXCEPT !.socks = NoSocks, !.jobs = <<>>]

-----------------------------------------------------------------------------
(* tun2socks.c.  DEAD_KILL_WITH stores in the running callback's frame.     *)

DEAD_KILL_WITH(s, val) ==
    IF s.client.dead_aborted = "frame" THEN [s EXCEPT !.frame = val] ELSE s

NoCallbacks(s) == [s EXCEPT !.pcb.err = FALSE, !.pcb.recv = FALSE, !.pcb.sent = FALSE]

client_abort_pcb(s) ==
    DEAD_KILL_WITH([s EXCEPT !.pcb.state = "ABORTED", !.client.aborted = TRUE], 1)

\* A callback that has aborted its pcb is told that it has not.
client_dealloc_Overwrite(s) ==
    [DEAD_KILL_WITH(s, -1) EXCEPT !.client = [NoClient EXCEPT !.life = "freed"]]

client_dealloc(s) ==
    [(IF s.client.aborted THEN s ELSE DEAD_KILL_WITH(s, -1))
        EXCEPT !.client = [NoClient EXCEPT !.life = "freed"]]

\* The part of client_free_socks that frees the SOCKS client.
SocksFreed(s) ==
    [BSocksClient_Free(IF s.client.socks_up /\ ~s.client.client_closed
                       THEN [s EXCEPT !.pcb.recv = FALSE] ELSE s)
        EXCEPT !.client.socks_closed = TRUE]

\* The SOCKS client is freed without regard to what is buffered for it.
client_handle_freed_client_Drop(s) ==
    LET t == [s EXCEPT !.client.client_closed = TRUE]
    IN  client_dealloc(IF t.client.socks_closed THEN t ELSE SocksFreed(t))

client_handle_freed_client(s) ==
    LET t == [s EXCEPT !.client.client_closed = TRUE]
    IN  IF t.client.buf_used > 0 /\ ~t.client.socks_closed THEN t
        ELSE client_dealloc(IF t.client.socks_closed THEN t ELSE SocksFreed(t))

\* tcp_close may fail.
client_free_client(s) ==
    LET t == NoCallbacks(s)
    IN  {client_handle_freed_client([t EXCEPT !.pcb.state = "CLOSED"]),
         client_handle_freed_client(client_abort_pcb([t EXCEPT !.past.failed = TRUE]))}

client_abort_client(s) == client_handle_freed_client(client_abort_pcb(NoCallbacks(s)))

client_free_socks(s) ==
    LET t == SocksFreed(s)
    IN  IF t.client.client_closed THEN {client_dealloc(t)}
        ELSE IF /\ t.client.socks_up
                /\ t.client.socks_recv_buf_used >= 0 \/ t.client.socks_recv_tcp_pending > 0
             THEN {t}
        ELSE client_free_client(t)

client_murder(s) ==
    LET t == IF s.client.client_closed THEN s
             ELSE [client_abort_pcb(NoCallbacks(s)) EXCEPT !.client.client_closed = TRUE]
    IN  client_dealloc([(IF t.client.socks_closed THEN t ELSE BSocksClient_Free(t))
                            EXCEPT !.client.socks_closed = TRUE])

client_send_to_socks(s) == StreamPassInterface_Sender_Send(s, s.client.buf_used)
client_socks_recv_initiate(s) == StreamRecvInterface_Receiver_Recv(s)

\* What was sent is not confirmed to lwIP.
client_socks_send_handler_done_NoRecved(s, data_len) ==
    LET c == s.client
        t == [s EXCEPT !.client.buf_used = @ - data_len]
    IN  IF t.client.buf_used > 0 THEN {client_send_to_socks(t)}
        ELSE IF c.client_closed THEN client_free_socks(t) ELSE {t}

\* The last data of a closed client is sent, and that is all.
client_socks_send_handler_done_Keep(s, data_len) ==
    LET c == s.client
        t == [s EXCEPT !.client.buf_used = @ - data_len,
                       !.pcb.wnd = IF c.client_closed THEN @ ELSE @ + data_len]
    IN  IF t.client.buf_used > 0 THEN {client_send_to_socks(t)} ELSE {t}

client_socks_send_handler_done(s, data_len) ==
    LET c == s.client
        t == [s EXCEPT !.client.buf_used = @ - data_len,
                       !.pcb.wnd = IF c.client_closed THEN @ ELSE @ + data_len]
    IN  IF t.client.buf_used > 0 THEN {client_send_to_socks(t)}
        ELSE IF c.client_closed THEN client_free_socks(t) ELSE {t}

\* tcp_write takes what fits, or nothing when memory is short, or fails; then
\* tcp_output, which may fail.  Leaves a closed client if the pcb was aborted.
client_socks_recv_send_out(s) ==
    LET c == s.client
        fits == Smaller(c.socks_recv_buf_used - c.socks_recv_buf_sent, TCP_SND_BUF - s.pcb.unacked)
        failed == [s EXCEPT !.past.failed = TRUE]
        Queued(t, n) ==
            LET sent == c.socks_recv_buf_sent + n
                pending == c.socks_recv_tcp_pending + n
                u == [t EXCEPT !.client.socks_recv_buf_sent = sent,
                               !.client.socks_recv_tcp_pending = pending, !.pcb.unacked = @ + n]
            IN  IF sent = c.socks_recv_buf_used THEN [u EXCEPT !.client.socks_recv_buf_used = -1]
                ELSE IF pending = 0 THEN client_abort_client(u)
                ELSE [u EXCEPT !.client.socks_recv_waiting = TRUE]
    IN  {Queued(s, fits), client_abort_client(failed)} \cup
        (IF fits > 0 THEN {Queued(failed, 0)} ELSE {})

ClientUp(s) == s.client.life = "alive" /\ ~s.client.client_closed

\* Receiving does not go on when everything could be queued.
client_socks_recv_handler_done_Once(s, data_len) ==
    IF s.client.client_closed THEN {s}
    ELSE client_socks_recv_send_out([s EXCEPT !.client.socks_recv_buf_used = data_len,
                                              !.client.socks_recv_buf_sent = 0,
                                              !.client.socks_recv_waiting = FALSE])

client_socks_recv_handler_done(s, data_len) ==
    IF s.client.client_closed THEN {s}
    ELSE {IF ClientUp(t) /\ t.client.socks_recv_buf_used = -1
          THEN client_socks_recv_initiate(t) ELSE t :
             t \in client_socks_recv_send_out(
                       [s EXCEPT !.client.socks_recv_buf_used = data_len,
                                 !.client.socks_recv_buf_sent = 0,
                                 !.client.socks_recv_waiting = FALSE])}

\* BSOCKSCLIENT_EVENT_ERROR and _ERROR_CLOSED.
client_socks_handler_error(s) == client_free_socks([s EXCEPT !.past.broken = TRUE])

\* BSOCKSCLIENT_EVENT_UP.
client_socks_handler_up(s) ==
    LET t == [s EXCEPT !.client.socks_up = TRUE, !.pcb.sent = ~s.client.client_closed]
        u == IF t.client.buf_used > 0 THEN client_send_to_socks(t) ELSE t
    IN  IF u.client.client_closed THEN u ELSE client_socks_recv_initiate(u)

-----------------------------------------------------------------------------
(* The callbacks of lwIP.  DEAD_ENTER opens the frame.                       *)

DEAD_ENTER(s) == [s EXCEPT !.frame = 0, !.client.dead_aborted = "frame"]

client_recv_func(s, tot_len) ==
    LET t == [s EXCEPT !.client.buf_used = @ + tot_len, !.pcb.wnd = @ - tot_len,
                       !.past.taken = @ + tot_len]
    IN  IF tot_len > TCP_WND - s.client.buf_used THEN s
        ELSE IF s.client.buf_used = 0 /\ s.client.socks_up THEN client_send_to_socks(t) ELSE t

\* Going on to receive although SOCKS may have closed.
client_sent_func_Closed(s, len) ==
    LET t == [s EXCEPT !.client.socks_recv_tcp_pending = @ - len, !.pcb.unacked = @ - len,
                       !.past.acked = @ + len]
    IN  IF t.client.socks_recv_buf_used > 0
        THEN {IF ClientUp(u) /\ u.client.socks_recv_buf_used = -1
              THEN client_socks_recv_initiate(u) ELSE u :
                 u \in client_socks_recv_send_out([t EXCEPT !.client.socks_recv_waiting = FALSE])}
        ELSE IF t.client.socks_closed /\ t.client.socks_recv_tcp_pending = 0
        THEN client_free_client(t) ELSE {t}

client_sent_func(s, len) ==
    LET t == [s EXCEPT !.client.socks_recv_tcp_pending = @ - len, !.pcb.unacked = @ - len,
                       !.past.acked = @ + len]
    IN  IF t.client.socks_recv_buf_used > 0
        THEN {IF ClientUp(u) /\ u.client.socks_recv_buf_used = -1 /\ ~u.client.socks_closed
              THEN client_socks_recv_initiate(u) ELSE u :
                 u \in client_socks_recv_send_out([t EXCEPT !.client.socks_recv_waiting = FALSE])}
        ELSE IF t.client.socks_closed /\ t.client.socks_recv_tcp_pending = 0
        THEN client_free_client(t) ELSE {t}

-----------------------------------------------------------------------------
(* BConnection_unix.c and BSocksClient.c.                                    *)

\* The descriptor is waited for, unless it has been hung up.
Blocked(s, event) == IF s.socks.hupd THEN {} ELSE {[s EXCEPT !.socks.wait = @ \cup {event}]}

connection_send(s) ==
    Blocked(s, "WRITE") \cup client_socks_handler_error(s) \cup
    {SetJob([s EXCEPT !.socks.send = "READY", !.socks.sent_len = bytes, !.past.wrote = @ + bytes],
            "send_done") : bytes \in 1..s.socks.len}

\* An error, the end of the stream (RECVCLOSED), or data.
connection_recv(s) ==
    Blocked(s, "READ") \cup client_socks_handler_error(s) \cup
    client_socks_handler_error([s EXCEPT !.socks.recv = "CLOSED"]) \cup
    {SetJob([s EXCEPT !.socks.recv = "READY", !.socks.recv_len = bytes,
                      !.past.got = IF s.client.client_closed THEN @ ELSE @ + bytes], "recv_done") :
        bytes \in 1..Smaller(RECV_BUF, MaxDown - s.past.got)}

connector_handler(s) ==
    client_socks_handler_error(s) \cup
    {SetJob([s EXCEPT !.socks.state = "CONNECTED_HANDLER"], "control")}

\* continue_job_handler, send_handler_done, recv_handler_done and auth_finished:
\* what the state waits for is blocked, fails or is done.
handshake(s) ==
    LET st == s.socks.state
        event == IF st \in {"SENDING_HELLO", "SENDING_PASSWORD", "SENDING_REQUEST"} THEN "WRITE" ELSE "READ"
        Next(x) == [s EXCEPT !.socks.state = x]
    IN  (IF st = "CONNECTED_HANDLER" THEN {} ELSE Blocked(s, event))
        \cup client_socks_handler_error(s)
        \cup {IF x = "UP" THEN client_socks_handler_up(Next(x)) ELSE SetJob(Next(x), "control") :
                 x \in Continues[st]}

\* connection_fd_handler.  An ERROR event is a pending error of the socket, which the
\* write or read tried here returns (one that succeeds is that of the same events
\* without ERROR); after HUP the descriptor is not polled.
connection_fd_handler(s, events) ==
    LET hup == "HUP" \in events
        u == [s EXCEPT !.socks.wait = IF hup THEN {} ELSE @ \ events, !.socks.hupd = hup]
        bad == hup \/ "ERROR" \in events
        have_send == "WRITE" \in events \/ (bad /\ s.socks.send = "BUSY")
        have_recv == "READ" \in events \/ (bad /\ s.socks.recv = "BUSY")
    IN  IF "ERROR" \in events /\ (have_send \/ have_recv \/ ~hup \/ s.socks.state # "UP")
        THEN client_socks_handler_error(u)
        ELSE IF s.socks.state # "UP" THEN handshake(u)
        ELSE IF have_send THEN connection_send(IF have_recv THEN SetJob(u, "recv_job") ELSE u)
        ELSE IF have_recv THEN connection_recv(u) ELSE {u}

job_handler(s, j) ==
    CASE j = "connector" -> connector_handler(s)
      [] j = "control" -> handshake(s)
      [] j = "send" -> connection_send(s)
      [] j = "send_done" -> client_socks_send_handler_done(s, s.socks.sent_len)
      [] j \in {"recv", "recv_job"} -> connection_recv(s)
      [] j = "recv_done" -> client_socks_recv_handler_done(s, s.socks.recv_len)

-----------------------------------------------------------------------------
\* The reactor, or the SYNC_COMMIT of the callback that runs, takes a job.
RunJob ==
    /\ tcp.jobs # <<>>
    /\ tcp' \in job_handler([tcp EXCEPT !.jobs = Tail(@)], Head(tcp.jobs))

\* Descriptors and the device are polled when there are no jobs.
Idle == tcp.jobs = <<>> /\ tcp.frame = NULL

ConnectorFd ==
    /\ Idle /\ tcp.socks.state = "CONNECTING"
    /\ tcp' \in connector_handler(tcp)
ConnectionFd ==
    /\ Idle /\ tcp.socks.state \in Control \cup {"UP"} /\ ~tcp.socks.hupd
    /\ \E events \in (SUBSET (tcp.socks.wait \cup {"ERROR", "HUP"})) \ {{}} :
         tcp' \in connection_fd_handler(tcp, events)

\* listener_accept_func: the connect may succeed at once.  When it fails it frees
\* what it has made and lwIP drops the pcb, so no connection comes to be.
Accept ==
    /\ Idle /\ tcp.client.life = "none"
    /\ \E jobs \in {<<>>, <<"connector">>} :
         tcp' = DEAD_ENTER([tcp EXCEPT !.client.life = "alive", !.socks.state = "CONNECTING",
                                       !.jobs = jobs, !.pcb.err = TRUE, !.pcb.recv = TRUE])

\* The application sends, within the window, closes, acknowledges, or fails.
\* Without a callback lwIP drops the data and ignores the end of the stream.
AppData ==
    /\ Idle /\ tcp.pcb.recv
    /\ \E n \in 1..Smaller(tcp.pcb.wnd, MaxUp - tcp.past.taken) :
         tcp' = client_recv_func(DEAD_ENTER(tcp), n)
AppFin ==
    /\ Idle /\ tcp.pcb.recv
    /\ tcp' \in client_free_client(DEAD_ENTER([tcp EXCEPT !.past.closed = TRUE]))
AppAck ==
    /\ Idle /\ tcp.pcb.sent
    /\ \E n \in 1..tcp.pcb.unacked : tcp' \in client_sent_func(DEAD_ENTER(tcp), n)
AppErr ==
    /\ Idle /\ tcp.pcb.err
    /\ tcp' = client_handle_freed_client(
                  NoCallbacks([tcp EXCEPT !.pcb.state = "GONE", !.past.closed = TRUE]))

\* The callback returns to lwIP: DEAD_LEAVE2.
Return ==
    /\ tcp.frame # NULL /\ tcp.jobs = <<>>
    /\ tcp' = [tcp EXCEPT !.frame = NULL,
                          !.client.dead_aborted = IF tcp.client.life # "alive" THEN @
                                                  ELSE IF tcp.frame = 0 THEN NULL ELSE "stale"]

\* The end of main: the clients that are left.
Murder ==
    /\ tcp.frame = NULL /\ tcp.client.life = "alive"
    /\ tcp' = client_murder([tcp EXCEPT !.past.broken = TRUE, !.past.failed = TRUE])

App == AppData \/ AppFin \/ AppAck \/ AppErr
Next == RunJob \/ ConnectorFd \/ ConnectionFd \/ Accept \/ App \/ Return \/ Murder

Spec == Init /\ [][Next]_vars

\* A read or write succeeds or fails, after however many events in vain.
Progress == ConnectionFd /\ (tcp'.past # tcp.past \/ tcp'.socks.state # tcp.socks.state)

\* Jobs are run and callbacks return.  What lwIP has sent is acknowledged or
\* times out; the connection to the SOCKS server is made or fails, and what it
\* is asked to do is done or fails in the end.
FairSpec == /\ Spec /\ WF_vars(RunJob \/ Return)
            /\ WF_vars(AppAck \/ AppErr) /\ WF_vars(ConnectorFd) /\ SF_vars(Progress)

-----------------------------------------------------------------------------
\* Whatever can still call into a client has a client to call: lwIP's callbacks
\* are registered as long as the client has its pcb, the SOCKS client and its
\* jobs exist until they are closed, and the memory goes exactly when both
\* sides are closed.
Ownership ==
    LET c == tcp.client
    IN  /\ c.life # "alive" => /\ tcp.jobs = <<>> /\ tcp.socks = NoSocks
                               /\ ~tcp.pcb.err /\ ~tcp.pcb.recv /\ ~tcp.pcb.sent
        /\ c.life = "alive" =>
             /\ ~(c.client_closed /\ c.socks_closed)
             /\ c.socks_closed <=> tcp.socks.state = "NONE"
             /\ c.socks_closed => tcp.socks = NoSocks /\ tcp.jobs = <<>>
             /\ ~c.client_closed <=> tcp.pcb.err
             /\ ~c.client_closed <=> tcp.pcb.state = "OPEN"
             /\ c.client_closed => ~tcp.pcb.recv /\ ~tcp.pcb.sent
             /\ ~c.client_closed /\ ~c.socks_closed => tcp.pcb.recv

\* "Return ERR_ABRT if and only if tcp_abort was called from this callback": a
\* callback knows what became of its pcb, whatever its jobs have done, and the
\* pointer into the frame is not used after the callback has returned.
AbortReported ==
    /\ tcp.frame # NULL => (tcp.frame = 1 <=> tcp.pcb.state = "ABORTED")
    /\ tcp.client.dead_aborted = "frame" => tcp.frame # NULL
    /\ tcp.client.dead_aborted = "stale" => tcp.client.aborted /\ tcp.client.client_closed

\* What lwIP may still deliver always fits in client->buf ("no buffer for data
\* !?!"), and lwIP holds the data that has been queued and not confirmed.
WindowFits ==
    /\ tcp.pcb.recv => tcp.client.buf_used + tcp.pcb.wnd = TCP_WND
    /\ tcp.pcb.err => tcp.client.socks_recv_tcp_pending = tcp.pcb.unacked

\* Neither direction is forgotten: when all is quiet, buffered data is being
\* written, the SOCKS server is being read, or what was read waits for the
\* application to acknowledge what is before it.
BothWaysMove ==
    LET c == tcp.client
    IN  TypeOK /\ (Idle /\ c.life = "alive" /\ c.socks_up =>
          /\ ~c.socks_closed /\ c.buf_used > 0 => tcp.socks.send = "BUSY"
          /\ ~c.socks_closed /\ c.buf_used = 0 => tcp.socks.send = "READY"
          /\ ~c.client_closed =>
               \/ /\ c.socks_recv_buf_used > 0 /\ c.socks_recv_waiting
                  /\ c.socks_recv_buf_sent < c.socks_recv_buf_used
                  /\ c.socks_recv_tcp_pending > 0
               \/ /\ c.socks_recv_buf_used = -1
                  /\ IF c.socks_closed THEN c.socks_recv_tcp_pending > 0
                     ELSE tcp.socks.recv = "BUSY")

\* Nothing is lost in an orderly end: unless the SOCKS side broke, all data taken
\* from the application has been written; the application's side is closed, by
\* itself or with all data read from SOCKS confirmed, and is only aborted when
\* lwIP has failed.
EndsInOrder ==
    LET p == tcp.past
    IN  tcp.client.life = "freed" =>
          /\ ~p.broken => p.wrote = p.taken
          /\ tcp.pcb.state = "CLOSED" /\ ~p.closed => p.acked = p.got
          /\ tcp.pcb.state = "ABORTED" => p.failed

\* A connection that one side has left is given up in the end.
EventuallyFreed ==
    tcp.client.client_closed \/ tcp.client.socks_closed ~> tcp.client.life = "freed"
=============================================================================
