-------------------------- MODULE TcpClientProofs --------------------------
(*****************************************************************************)
(* Ownership, AbortReported and WindowFits are invariants of TcpClient, for  *)
(* buffers of any size and any amount of data.                               *)
(*                                                                           *)
(* A connection goes through four phases: before it is accepted; Open, while *)
(* the client has its pcb; Closed, when the pcb is gone and the buffer drains *)
(* to SOCKS; Freed.  Each predicate says what the handlers rely on in its    *)
(* phase, and there is a lemma per handler of tun2socks.c: first those on    *)
(* the SOCKS side, then the callbacks of lwIP and the SOCKS connection.      *)
(* IInv is inductive: each action combines these handlers.  The last part    *)
(* prepares TcpClientBooks.                                                  *)
(*****************************************************************************)
EXTENDS TcpClient, JobListProofs, TLAPS

\* The state's shape; no number needs to be bounded for these proofs.
States == {"NONE", "CONNECTING", "UP"} \cup Control

ClientShape ==
    [life : {"none", "alive", "freed"}, aborted : BOOLEAN, dead_aborted : {NULL, "frame", "stale"},
     client_closed : BOOLEAN, buf_used : Int, socks_up : BOOLEAN, socks_closed : BOOLEAN,
     socks_recv_buf_used : Int, socks_recv_buf_sent : Int,
     socks_recv_waiting : BOOLEAN, socks_recv_tcp_pending : Int]
PcbShape ==
    [state : {"OPEN", "CLOSED", "ABORTED", "GONE"}, err : BOOLEAN, recv : BOOLEAN, sent : BOOLEAN,
     wnd : Int, unacked : Int]
SocksShape ==
    [state : States, send : {"READY", "BUSY"}, recv : {"READY", "BUSY", "CLOSED"},
     len : Int, sent_len : Int, recv_len : Int, wait : SUBSET {"READ", "WRITE"}, hupd : BOOLEAN]
PastShape ==
    [taken : Int, wrote : Int, got : Int, acked : Int,
     broken : BOOLEAN, closed : BOOLEAN, failed : BOOLEAN]
Shape ==
    [client : ClientShape, pcb : PcbShape, socks : SocksShape, jobs : Seq(Jobs),
     frame : {NULL, -1, 0, 1}, past : PastShape]

\* The control job is set only during the handshake.
JobsOK(jobs, state) ==
    NoDup(jobs) /\ (BSmallPending_IsSet(jobs, "control") => state \in Control)

\* What holds of the SOCKS side of a client that is alive, and of the frame.
SocksSide(s) ==
    /\ s.client.life = "alive"
    /\ s.client.socks_closed <=> s.socks.state = "NONE"
    /\ s.client.socks_closed => s.socks = NoSocks /\ s.jobs = <<>>
    /\ JobsOK(s.jobs, s.socks.state)
    /\ s.client.aborted <=> s.pcb.state = "ABORTED"
    /\ s.client.dead_aborted = "frame" <=> s.frame # NULL
    /\ s.client.dead_aborted = "stale" => s.client.aborted /\ s.client.client_closed
    /\ s.frame # NULL => s.frame # -1 /\ (s.frame = 1 <=> s.client.aborted)

\* The client has its pcb: the callbacks are registered, and the window is what
\* is left of the buffer.
Open(s) ==
    /\ SocksSide(s)
    /\ ~s.client.client_closed
    /\ s.pcb.state = "OPEN" /\ s.pcb.err
    /\ ~s.client.socks_closed <=> s.pcb.recv
    /\ s.pcb.recv => s.client.buf_used + s.pcb.wnd = TCP_WND
    /\ s.client.socks_recv_tcp_pending = s.pcb.unacked

\* The pcb is gone; client_closed is not set yet.
Leaving(s) ==
    /\ SocksSide(s)
    /\ s.pcb.state # "OPEN"
    /\ ~s.pcb.err /\ ~s.pcb.recv /\ ~s.pcb.sent

\* What is left to do is to send the buffer to SOCKS.
Closed(s) == Leaving(s) /\ s.client.client_closed /\ ~s.client.socks_closed

\* The memory is gone; a callback may still have to return.
Freed(s) ==
    /\ s.client = [NoClient EXCEPT !.life = "freed"]
    /\ s.jobs = <<>> /\ s.socks = NoSocks
    /\ s.pcb.state # "OPEN"
    /\ ~s.pcb.err /\ ~s.pcb.recv /\ ~s.pcb.sent
    /\ s.frame # NULL => (s.frame = 1 <=> s.pcb.state = "ABORTED")

\* What a handler leaves.
Good(s) == s \in Shape /\ (Open(s) \/ Closed(s) \/ Freed(s))

\* No jobs, no control job: whatever state the SOCKS client is in.
LEMMA NoJobs == \A state : JobsOK(<<>>, state) /\ <<>> \in Seq(Jobs)
BY DEF JobsOK, NoDup, BSmallPending_IsSet

\* What BSocksClient_Free leaves has the shape of a SOCKS client.
LEMMA NoSocksShape == NoSocks \in SocksShape
BY DEF NoSocks, SocksShape, States

\* DEAD_KILL_WITH writes at most the frame of the running callback.
LEMMA KillShape ==
  ASSUME NEW s \in Shape, NEW val \in {-1, 1}
  PROVE  LET t == DEAD_KILL_WITH(s, val)
         IN  /\ t \in Shape
             /\ t.client = s.client /\ t.pcb = s.pcb /\ t.socks = s.socks
             /\ t.jobs = s.jobs /\ t.past = s.past
             /\ t.frame = IF s.client.dead_aborted = "frame" THEN val ELSE s.frame
BY DEF DEAD_KILL_WITH, Shape

\* client_dealloc frees a client both of whose sides are closed; the callback
\* that runs, if any, learns of it.
LEMMA Dealloc ==
  ASSUME NEW s \in Shape, Leaving(s), s.client.socks_closed
  PROVE  client_dealloc(s) \in Shape /\ Freed(client_dealloc(s))
<1>1. NoClient \in ClientShape BY DEF NoClient, ClientShape
<1>0. [NoClient EXCEPT !.life = "freed"] \in ClientShape BY <1>1 DEF ClientShape
<1> DEFINE t == IF s.client.aborted THEN s ELSE DEAD_KILL_WITH(s, -1)
<1>2. t \in Shape /\ t.pcb = s.pcb /\ t.socks = s.socks /\ t.jobs = s.jobs
      /\ t.frame = IF s.client.dead_aborted = "frame" /\ ~s.client.aborted THEN -1 ELSE s.frame
  BY KillShape
<1> HIDE DEF t
<1>3. client_dealloc(s) = [t EXCEPT !.client = [NoClient EXCEPT !.life = "freed"]]
  BY DEF client_dealloc, t
<1>4. client_dealloc(s) \in Shape BY <1>0, <1>2, <1>3, SMTT(30) DEF Shape
<1>5. QED BY <1>2, <1>3, <1>4, SizesAssumption DEF Freed, Leaving, SocksSide, Shape

\* The first half of client_free_socks: the SOCKS side is gone, with its jobs, and
\* lwIP delivers no more data to a client whose SOCKS side was up.
LEMMA SocksFreedLemma ==
  ASSUME NEW s \in Shape, SocksSide(s)
  PROVE  LET t == SocksFreed(s)
         IN  /\ t \in Shape /\ SocksSide(t) /\ t.client.socks_closed
             /\ t.client = [s.client EXCEPT !.socks_closed = TRUE]
             /\ t.pcb = s.pcb \/ t.pcb = [s.pcb EXCEPT !.recv = FALSE]
             /\ s.client.socks_up /\ ~s.client.client_closed => ~t.pcb.recv
             /\ t.frame = s.frame
<1> DEFINE r == IF s.client.socks_up /\ ~s.client.client_closed
                THEN [s EXCEPT !.pcb.recv = FALSE] ELSE s
<1>1. r \in Shape /\ r.client = s.client /\ r.frame = s.frame
      /\ (r.pcb = s.pcb \/ r.pcb = [s.pcb EXCEPT !.recv = FALSE])
      /\ (s.client.socks_up /\ ~s.client.client_closed => ~r.pcb.recv)
  BY Zenon DEF Shape, PcbShape
<1> HIDE DEF r
<1>2. SocksFreed(s) = [r EXCEPT !.socks = NoSocks, !.jobs = <<>>, !.client.socks_closed = TRUE]
  BY <1>1 DEF SocksFreed, BSocksClient_Free, r, Shape
<1>0. [s.client EXCEPT !.socks_closed = TRUE] \in ClientShape BY Zenon DEF Shape, ClientShape
<1>3. SocksFreed(s) \in Shape
  <2> DEFINE c == [s.client EXCEPT !.socks_closed = TRUE]
  <2>1. SocksFreed(s) = [r EXCEPT !.socks = NoSocks, !.jobs = <<>>, !.client = c]
    BY <1>1, <1>2, Zenon DEF Shape
  <2>2. c \in ClientShape BY <1>0
  <2> HIDE DEF c
  <2>3. QED BY <2>1, <2>2, <1>1, NoSocksShape, NoJobs, Zenon DEF Shape
<1>4. /\ SocksFreed(s).socks = NoSocks /\ SocksFreed(s).jobs = <<>>
      /\ SocksFreed(s).client = [s.client EXCEPT !.socks_closed = TRUE]
      /\ SocksFreed(s).pcb = r.pcb /\ SocksFreed(s).frame = s.frame
  BY <1>1, <1>2, Zenon DEF Shape
<1>5. SocksSide(SocksFreed(s))
  BY <1>1, <1>3, <1>4, NoJobs, SMTT(30) DEF SocksSide, NoSocks, Shape, ClientShape, PcbShape
<1>6. QED BY <1>1, <1>3, <1>4, <1>5 DEF Shape, ClientShape

\* client_handle_freed_client, called when the pcb is gone, leaves a client that
\* only drains its buffer, or none.
LEMMA HandleFreed ==
  ASSUME NEW s \in Shape, Leaving(s)
  PROVE  Good(client_handle_freed_client(s)) /\ ~ClientUp(client_handle_freed_client(s))
<1> DEFINE t == [s EXCEPT !.client.client_closed = TRUE]
<1>1. t \in Shape /\ Leaving(t) /\ t.client.client_closed
  BY Zenon DEF Shape, ClientShape, Leaving, SocksSide
<1> HIDE DEF t
<1>2. CASE t.client.buf_used > 0 /\ ~t.client.socks_closed
  BY <1>1, <1>2, Zenon DEF client_handle_freed_client, Good, Closed, ClientUp, t
<1>3. CASE ~(t.client.buf_used > 0 /\ ~t.client.socks_closed)
  <2> DEFINE u == IF t.client.socks_closed THEN t ELSE SocksFreed(t)
  <2>1. u \in Shape /\ Leaving(u) /\ u.client.socks_closed
    <3>1. CASE t.client.socks_closed BY <3>1, <1>1
    <3>2. CASE ~t.client.socks_closed
      <4>1. SocksSide(t) BY <1>1 DEF Leaving
      <4>2. /\ u \in Shape /\ SocksSide(u) /\ u.client.socks_closed
            /\ u.pcb = t.pcb \/ u.pcb = [t.pcb EXCEPT !.recv = FALSE]
        BY <3>2, <1>1, <4>1, SocksFreedLemma, Zenon
      <4> HIDE DEF u
      <4>3. QED BY <1>1, <4>2 DEF Leaving, Shape, PcbShape
    <3>3. QED BY <3>1, <3>2
  <2>2. client_handle_freed_client(s) = client_dealloc(u)
    BY <1>3 DEF client_handle_freed_client, t
  <2> HIDE DEF u
  <2>3. client_dealloc(u) \in Shape /\ Freed(client_dealloc(u)) BY <2>1, Dealloc
  <2>4. [NoClient EXCEPT !.life = "freed"].life = "freed" BY DEF NoClient
  <2>5. QED BY <2>2, <2>3, <2>4 DEF Good, Freed, ClientUp
<1>4. QED BY <1>2, <1>3

\* client_abort_pcb: the pcb is gone, and a running callback knows it was aborted.
LEMMA AbortPcb ==
  ASSUME NEW s \in Shape, SocksSide(s), ~s.client.client_closed, s.pcb.state = "OPEN",
         ~s.pcb.err, ~s.pcb.recv, ~s.pcb.sent
  PROVE  client_abort_pcb(s) \in Shape /\ Leaving(client_abort_pcb(s))
         /\ client_abort_pcb(s).client = [s.client EXCEPT !.aborted = TRUE]
<1> DEFINE r == [s EXCEPT !.pcb.state = "ABORTED", !.client.aborted = TRUE]
<1>0. /\ [s.client EXCEPT !.aborted = TRUE] \in ClientShape
      /\ [s.pcb EXCEPT !.state = "ABORTED"] \in PcbShape
  BY Zenon DEF Shape, ClientShape, PcbShape
<1>1. /\ r \in Shape
      /\ r.client = [s.client EXCEPT !.aborted = TRUE]
      /\ r.pcb = [s.pcb EXCEPT !.state = "ABORTED"]
      /\ r.socks = s.socks /\ r.jobs = s.jobs /\ r.frame = s.frame
  BY <1>0, Zenon DEF Shape
<1> HIDE DEF r
<1>2. client_abort_pcb(s) = DEAD_KILL_WITH(r, 1) BY DEF client_abort_pcb, r
<1> DEFINE t == client_abort_pcb(s)
<1>3. t \in Shape /\ t.client = r.client /\ t.pcb = r.pcb /\ t.socks = s.socks /\ t.jobs = s.jobs
      /\ t.frame = IF r.client.dead_aborted = "frame" THEN 1 ELSE s.frame
  BY <1>1, <1>2, KillShape, Zenon
<1>4. /\ r.client.life = s.client.life /\ r.client.socks_closed = s.client.socks_closed
      /\ r.client.aborted /\ r.client.dead_aborted = s.client.dead_aborted
      /\ r.client.client_closed = s.client.client_closed
      /\ r.pcb.state = "ABORTED" /\ ~r.pcb.err /\ ~r.pcb.recv /\ ~r.pcb.sent
  BY <1>1 DEF Shape, ClientShape, PcbShape
<1>5. ~s.client.aborted /\ s.client.dead_aborted # "stale" BY DEF SocksSide
<1> HIDE DEF t
<1>6. SocksSide(t) BY <1>3, <1>4, <1>5, SizesAssumption DEF SocksSide
<1>7. QED BY <1>1, <1>3, <1>4, <1>6 DEF Leaving, t

\* Unregistering the callbacks (tcp_err, tcp_recv, tcp_sent) changes nothing else.
LEMMA NoCallbacksLemma ==
  ASSUME NEW s \in Shape
  PROVE  LET t == NoCallbacks(s)
         IN  /\ t \in Shape /\ t.client = s.client /\ t.socks = s.socks /\ t.jobs = s.jobs
             /\ t.frame = s.frame /\ t.past = s.past
             /\ t.pcb.state = s.pcb.state
             /\ ~t.pcb.err /\ ~t.pcb.recv /\ ~t.pcb.sent
BY Zenon DEF NoCallbacks, Shape, PcbShape

\* client_abort_client leaves no client with a pcb.
LEMMA AbortClient ==
  ASSUME NEW s \in Shape, Open(s)
  PROVE  Good(client_abort_client(s)) /\ ~ClientUp(client_abort_client(s))
<1> DEFINE t == NoCallbacks(s)
<1>1. t \in Shape /\ SocksSide(t) /\ ~t.client.client_closed /\ t.pcb.state = "OPEN"
      /\ ~t.pcb.err /\ ~t.pcb.recv /\ ~t.pcb.sent
  BY NoCallbacksLemma DEF Open, SocksSide
<1> HIDE DEF t
<1>2. QED BY <1>1, AbortPcb, HandleFreed, Zenon DEF client_abort_client, t

\* Only the past differs.
\* What is recorded of the past does not matter to the program.
LEMMA PastLemma ==
  ASSUME NEW s \in Shape, NEW p \in PastShape
  PROVE  LET t == [s EXCEPT !.past = p]
         IN  /\ t \in Shape /\ t.client = s.client /\ t.pcb = s.pcb /\ t.socks = s.socks
             /\ t.jobs = s.jobs /\ t.frame = s.frame
             /\ SocksSide(s) => SocksSide(t)
             /\ Open(s) => Open(t)
             /\ Closed(s) => Closed(t)
<1> DEFINE t == [s EXCEPT !.past = p]
<1>1. t \in Shape /\ t.client = s.client /\ t.pcb = s.pcb /\ t.socks = s.socks
      /\ t.jobs = s.jobs /\ t.frame = s.frame
  BY DEF Shape
<1> HIDE DEF t
<1>2. QED BY <1>1 DEF SocksSide, Open, Closed, Leaving, t

\* client_free_client, whether tcp_close succeeds or the pcb has to be aborted.
LEMMA FreeClient ==
  ASSUME NEW s \in Shape, SocksSide(s), ~s.client.client_closed, s.pcb.state = "OPEN",
         NEW u \in client_free_client(s)
  PROVE  Good(u)
<1> DEFINE t == NoCallbacks(s)
<1>1. t \in Shape /\ SocksSide(t) /\ ~t.client.client_closed /\ t.pcb.state = "OPEN"
      /\ ~t.pcb.err /\ ~t.pcb.recv /\ ~t.pcb.sent
  BY NoCallbacksLemma DEF SocksSide
<1>2. \/ u = client_handle_freed_client([t EXCEPT !.pcb.state = "CLOSED"])
      \/ u = client_handle_freed_client(client_abort_pcb([t EXCEPT !.past.failed = TRUE]))
  BY DEF client_free_client
<1> HIDE DEF t
<1>3. CASE u = client_handle_freed_client([t EXCEPT !.pcb.state = "CLOSED"])
  <2> DEFINE v == [t EXCEPT !.pcb.state = "CLOSED"]
  <2>1. v \in Shape /\ v.client = t.client /\ v.socks = t.socks /\ v.jobs = t.jobs
        /\ v.frame = t.frame /\ v.pcb = [t.pcb EXCEPT !.state = "CLOSED"]
    BY <1>1, SMTT(30) DEF Shape, PcbShape
  <2>2. v.pcb.state = "CLOSED" /\ ~v.pcb.err /\ ~v.pcb.recv /\ ~v.pcb.sent
    BY <1>1, <2>1 DEF Shape, PcbShape
  <2> HIDE DEF v
  <2>3. Leaving(v) BY <1>1, <2>1, <2>2 DEF Leaving, SocksSide
  <2>4. QED BY <1>3, <2>1, <2>3, HandleFreed DEF v
<1>4. CASE u = client_handle_freed_client(client_abort_pcb([t EXCEPT !.past.failed = TRUE]))
  <2> DEFINE v == [t EXCEPT !.past = [t.past EXCEPT !.failed = TRUE]]
  <2>1. [t.past EXCEPT !.failed = TRUE] \in PastShape BY <1>1, Zenon DEF Shape, PastShape
  <2>2. /\ v \in Shape /\ SocksSide(v) /\ ~v.client.client_closed /\ v.pcb.state = "OPEN"
        /\ ~v.pcb.err /\ ~v.pcb.recv /\ ~v.pcb.sent
    BY <1>1, <2>1, PastLemma, Zenon
  <2>3. v = [t EXCEPT !.past.failed = TRUE] OBVIOUS
  <2> HIDE DEF v
  <2>4. QED BY <1>4, <2>2, <2>3, AbortPcb, HandleFreed, Zenon
<1>5. QED BY <1>2, <1>3, <1>4

\* There is a client.
Alive(s) == s \in Shape /\ (Open(s) \/ Closed(s))

\* client_free_socks: the client waits for the application to confirm what it was
\* sent, or is closed too, or is freed.
LEMMA FreeSocks ==
  ASSUME NEW s, Alive(s), NEW u \in client_free_socks(s)
  PROVE  Good(u)
<1> DEFINE t == SocksFreed(s)
<1>1. s \in Shape /\ SocksSide(s) BY DEF Alive, Open, Closed, Leaving
<1>2. /\ t \in Shape /\ SocksSide(t) /\ t.client.socks_closed
      /\ t.client = [s.client EXCEPT !.socks_closed = TRUE]
      /\ t.pcb = s.pcb \/ t.pcb = [s.pcb EXCEPT !.recv = FALSE]
      /\ s.client.socks_up /\ ~s.client.client_closed => ~t.pcb.recv
  BY <1>1, SocksFreedLemma
<1>3. \/ t.client.client_closed /\ u = client_dealloc(t)
      \/ ~t.client.client_closed /\ u = t /\ t.client.socks_up
      \/ ~t.client.client_closed /\ u \in client_free_client(t)
  BY DEF client_free_socks
<1> HIDE DEF t
<1>4. CASE t.client.client_closed
  <2>1. Closed(s) BY <1>1, <1>2, <1>4 DEF Alive, Open, Shape, ClientShape
  <2>2. Leaving(t) BY <1>1, <1>2, <2>1 DEF Leaving, Closed, Shape, PcbShape
  <2>3. QED BY <1>2, <1>3, <1>4, <2>2, Dealloc, Zenon DEF Good
<1>5. CASE ~t.client.client_closed
  <2>1. Open(s) BY <1>1, <1>2, <1>5 DEF Alive, Closed, Shape, ClientShape
  <2>2. t.pcb.state = "OPEN" BY <1>1, <1>2, <2>1 DEF Open, Shape, PcbShape
  <2>3. ASSUME t.client.socks_up PROVE Open(t)
    <3>1. ~t.pcb.recv BY <1>1, <1>2, <1>5, <2>3 DEF Shape, ClientShape
    <3>2. QED BY <1>1, <1>2, <1>5, <2>1, <3>1, SMTT(30) DEF Open, Shape, ClientShape, PcbShape
  <2>4. QED BY <1>2, <1>3, <1>5, <2>2, <2>3, FreeClient, Zenon DEF Good
<1>6. QED BY <1>4, <1>5

\* Another job than the handshake's is set while there is a SOCKS client.
\* Setting a job keeps the invariant while there is a SOCKS client to own it.
LEMMA SetJobLemma ==
  ASSUME NEW s \in Shape, SocksSide(s), ~s.client.socks_closed,
         NEW j \in Jobs, j = "control" => s.socks.state \in Control
  PROVE  LET t == SetJob(s, j)
         IN  /\ t \in Shape /\ SocksSide(t) /\ t.client = s.client /\ t.pcb = s.pcb
             /\ t.socks = s.socks /\ t.frame = s.frame /\ t.past = s.past
             /\ Open(s) => Open(t)
             /\ Closed(s) => Closed(t)
<1> DEFINE jobs == BSmallPending_Set(s.jobs, j)
           t == SetJob(s, j)
<1>1. s.jobs \in Seq(Jobs) /\ NoDup(s.jobs) BY DEF Shape, SocksSide, JobsOK
<1>2. /\ jobs \in Seq(Jobs) /\ NoDup(jobs)
      /\ \A y : BSmallPending_IsSet(jobs, y) <=> BSmallPending_IsSet(s.jobs, y) \/ y = j
  BY <1>1, SetFacts
<1>3. JobsOK(jobs, s.socks.state) BY <1>2 DEF JobsOK, SocksSide
<1> HIDE DEF jobs
<1>4. /\ t \in Shape /\ t.client = s.client /\ t.pcb = s.pcb /\ t.jobs = jobs
      /\ t.socks = s.socks /\ t.frame = s.frame /\ t.past = s.past
  BY <1>2 DEF SetJob, Shape, jobs
<1> HIDE DEF t
<1>5. SocksSide(t) BY <1>3, <1>4 DEF SocksSide
<1>6. QED BY <1>4, <1>5 DEF t, Open, Closed, Leaving

\* What a handler leaves alone when it only moves data.
Kept(s, t) ==
    /\ t.jobs = s.jobs /\ t.frame = s.frame
    /\ t.client.life = s.client.life /\ t.client.aborted = s.client.aborted
    /\ t.client.dead_aborted = s.client.dead_aborted
    /\ t.client.client_closed = s.client.client_closed
    /\ t.client.socks_closed = s.client.socks_closed
    /\ t.pcb.state = s.pcb.state /\ t.pcb.err = s.pcb.err /\ t.pcb.recv = s.pcb.recv
    /\ s.client.client_closed => t.pcb.sent = s.pcb.sent
    /\ t.socks.state = s.socks.state
    /\ s.client.socks_closed => t.socks = s.socks
    /\ ~s.client.client_closed =>
         /\ t.client.buf_used + t.pcb.wnd = s.client.buf_used + s.pcb.wnd
         /\ t.client.socks_recv_tcp_pending - t.pcb.unacked
            = s.client.socks_recv_tcp_pending - s.pcb.unacked

\* A step that only moves data keeps the invariant, if what the buffer gives the
\* window gains, and what is queued is pending.
LEMMA Update ==
  ASSUME NEW s, Alive(s), NEW t \in Shape, Kept(s, t)
  PROVE  Alive(t) /\ (Open(s) => Open(t)) /\ (Closed(s) => Closed(t))
<1>1. s \in Shape /\ SocksSide(s) BY DEF Alive, Open, Closed, Leaving
<1>2. SocksSide(t) BY <1>1 DEF SocksSide, Kept
<1>3. ASSUME Open(s) PROVE Open(t)
  <2>1. /\ s.client.buf_used \in Int /\ s.client.socks_recv_tcp_pending \in Int
        /\ s.pcb.wnd \in Int /\ s.pcb.unacked \in Int
        /\ t.client.buf_used \in Int /\ t.client.socks_recv_tcp_pending \in Int
        /\ t.pcb.wnd \in Int /\ t.pcb.unacked \in Int
    BY <1>1, SMTT(30) DEF Shape, ClientShape, PcbShape
  <2>2. /\ t.client.buf_used + t.pcb.wnd = s.client.buf_used + s.pcb.wnd
        /\ t.client.socks_recv_tcp_pending - t.pcb.unacked
           = s.client.socks_recv_tcp_pending - s.pcb.unacked
    BY <1>3 DEF Open, Kept
  <2>3. t.client.socks_recv_tcp_pending = t.pcb.unacked BY <1>3, <2>1, <2>2 DEF Open
  <2>4. QED BY <1>2, <1>3, <2>2, <2>3 DEF Open, Kept
<1>4. ASSUME Closed(s) PROVE Closed(t)
  BY <1>2, <1>4 DEF Closed, Leaving, Kept
<1>5. QED BY <1>3, <1>4 DEF Alive

\* There is a client and its SOCKS side.
Live(s) == Alive(s) /\ ~s.client.socks_closed

\* What follows of a client whose SOCKS side exists.
LEMMA LiveFacts ==
  ASSUME NEW s, Live(s)
  PROVE  s \in Shape /\ SocksSide(s) /\ ~s.client.socks_closed /\ Alive(s) /\ Good(s)
         /\ s.socks \in SocksShape /\ s.client \in ClientShape /\ s.pcb \in PcbShape
         /\ s.past \in PastShape
BY DEF Live, Alive, Open, Closed, Leaving, Good, Shape

\* Setting a job, for a client whose SOCKS side exists.
LEMMA SetLive ==
  ASSUME NEW s, Live(s), NEW j \in Jobs, j = "control" => s.socks.state \in Control
  PROVE  Live(SetJob(s, j)) /\ SetJob(s, j).client = s.client
BY LiveFacts, SetJobLemma DEF Live, Alive

\* Only the connection's own fields differ: the invariant does not look at them.
LEMMA SocksUpdate ==
  ASSUME NEW s, Live(s), NEW k \in SocksShape, k.state = s.socks.state
  PROVE  LET t == [s EXCEPT !.socks = k]
         IN  Live(t) /\ t.client = s.client /\ t.socks = k
<1> DEFINE t == [s EXCEPT !.socks = k]
<1>1. s \in Shape BY LiveFacts
<1>2. t \in Shape /\ t.client = s.client /\ t.pcb = s.pcb /\ t.socks = k /\ t.jobs = s.jobs
      /\ t.frame = s.frame
  BY <1>1 DEF Shape
<1> HIDE DEF t
<1>3. Kept(s, t)
  <2>1. s.client \in ClientShape /\ s.pcb \in PcbShape BY <1>1 DEF Shape
  <2>2. QED BY <1>2, <2>1, LiveFacts DEF Kept
<1>4. QED BY <1>2, <1>3, Update DEF Live, t

\* Only the past differs, for a client whose SOCKS side exists.
LEMMA PastUpdate ==
  ASSUME NEW s, Live(s), NEW p \in PastShape
  PROVE  LET t == [s EXCEPT !.past = p]
         IN  Live(t) /\ t.client = s.client /\ t.socks = s.socks
BY LiveFacts, PastLemma DEF Live, Alive

\* client_send_to_socks keeps the invariant.
LEMMA SendToSocks ==
  ASSUME NEW s, Live(s)
  PROVE  Live(client_send_to_socks(s)) /\ client_send_to_socks(s).client = s.client
<1> DEFINE k == [s.socks EXCEPT !.send = "BUSY", !.len = s.client.buf_used]
           t == [s EXCEPT !.socks = k]
<1>1. k \in SocksShape /\ k.state = s.socks.state
  BY LiveFacts, Zenon DEF SocksShape, ClientShape
<1>2. t = [s EXCEPT !.socks.send = "BUSY", !.socks.len = s.client.buf_used]
  BY LiveFacts, Zenon DEF Shape
<1> HIDE DEF k
<1>3. Live(t) /\ t.client = s.client BY <1>1, SocksUpdate
<1> HIDE DEF t
<1>4. client_send_to_socks(s) = SetJob(t, "send")
  BY <1>2 DEF client_send_to_socks, StreamPassInterface_Sender_Send
<1>5. QED BY <1>3, <1>4, SetLive, Zenon DEF Jobs

\* client_socks_recv_initiate keeps the invariant.
LEMMA RecvInitiate ==
  ASSUME NEW s, Live(s)
  PROVE  Live(client_socks_recv_initiate(s))
<1> DEFINE k == [s.socks EXCEPT !.recv = "BUSY"]
           t == [s EXCEPT !.socks = k]
<1>1. k \in SocksShape /\ k.state = s.socks.state
  BY LiveFacts DEF SocksShape
<1>2. t = [s EXCEPT !.socks.recv = "BUSY"] BY LiveFacts DEF Shape
<1> HIDE DEF k
<1>3. Live(t) BY <1>1, SocksUpdate
<1> HIDE DEF t
<1>4. client_socks_recv_initiate(s) = SetJob(t, "recv")
  BY <1>2 DEF client_socks_recv_initiate, StreamRecvInterface_Receiver_Recv
<1>5. QED BY <1>3, <1>4, SetLive DEF Jobs

\* client_socks_handler on an error or the end of the SOCKS connection.
LEMMA SocksError ==
  ASSUME NEW s, Live(s), NEW u \in client_socks_handler_error(s)
  PROVE  Good(u)
<1> DEFINE p == [s.past EXCEPT !.broken = TRUE]
           t == [s EXCEPT !.past = p]
<1>1. p \in PastShape BY LiveFacts, Zenon DEF PastShape
<1>2. t = [s EXCEPT !.past.broken = TRUE] BY LiveFacts DEF Shape
<1> HIDE DEF p
<1>3. Alive(t) BY <1>1, PastUpdate DEF Live
<1> HIDE DEF t
<1>4. QED BY <1>2, <1>3, FreeSocks DEF client_socks_handler_error

With(s, c, b) == [s EXCEPT !.client = c, !.pcb = b]

\* Replacing the client and the pcb leaves the rest.
LEMMA Replace ==
  ASSUME NEW s \in Shape, NEW c \in ClientShape, NEW b \in PcbShape
  PROVE  /\ With(s, c, b) \in Shape
         /\ With(s, c, b).client = c /\ With(s, c, b).pcb = b
         /\ With(s, c, b).socks = s.socks /\ With(s, c, b).jobs = s.jobs
         /\ With(s, c, b).frame = s.frame /\ With(s, c, b).past = s.past
BY Zenon DEF Shape, With

\* client_socks_send_handler_done: tcp_recved returns to the window what the
\* buffer has given, and a closed client that has sent all is freed.
LEMMA SendDone ==
  ASSUME NEW s, Live(s), NEW u \in client_socks_send_handler_done(s, s.socks.sent_len)
  PROVE  Good(u)
<1> DEFINE d == s.socks.sent_len
           t == [s EXCEPT !.client.buf_used = @ - d,
                          !.pcb.wnd = IF s.client.client_closed THEN @ ELSE @ + d]
           c == [s.client EXCEPT !.buf_used = @ - d]
           b == [s.pcb EXCEPT !.wnd = IF s.client.client_closed THEN @ ELSE @ + d]
<1>1. d \in Int /\ s.client.buf_used \in Int /\ s.pcb.wnd \in Int
  BY LiveFacts DEF SocksShape, ClientShape, PcbShape
<1>2. c \in ClientShape /\ b \in PcbShape BY <1>1, LiveFacts DEF ClientShape, PcbShape
<1>3. t = With(s, c, b) BY LiveFacts DEF Shape, With
<1>4. t \in Shape /\ t.client = c /\ t.pcb = b /\ t.socks = s.socks /\ t.jobs = s.jobs
      /\ t.frame = s.frame
  <2> HIDE DEF t, c, b
  <2>1. s \in Shape BY LiveFacts
  <2>2. QED BY <1>2, <1>3, <2>1, Replace
<1>5. /\ c.buf_used = s.client.buf_used - d
      /\ c.life = s.client.life /\ c.aborted = s.client.aborted
      /\ c.dead_aborted = s.client.dead_aborted /\ c.client_closed = s.client.client_closed
      /\ c.socks_closed = s.client.socks_closed
      /\ c.socks_recv_tcp_pending = s.client.socks_recv_tcp_pending
  BY LiveFacts DEF ClientShape
<1>6. /\ ~s.client.client_closed => b.wnd = s.pcb.wnd + d
      /\ b.state = s.pcb.state /\ b.err = s.pcb.err /\ b.recv = s.pcb.recv
      /\ b.sent = s.pcb.sent /\ b.unacked = s.pcb.unacked
  BY LiveFacts DEF PcbShape
<1>7. u \in IF t.client.buf_used > 0 THEN {client_send_to_socks(t)}
            ELSE IF s.client.client_closed THEN client_free_socks(t) ELSE {t}
  BY DEF client_socks_send_handler_done
<1> HIDE DEF d, t, c, b
<1>8. Kept(s, t) BY <1>1, <1>4, <1>5, <1>6 DEF Kept
<1>9. Live(t) BY <1>4, <1>5, <1>8, Update DEF Live
<1>10. Good(t) /\ Alive(t) BY <1>9, LiveFacts
<1>11. QED BY <1>7, <1>9, <1>10, SendToSocks, LiveFacts, FreeSocks

\* tcp_write and tcp_output move n bytes from the buffer to lwIP.
LEMMA Queueing ==
  ASSUME NEW s, Alive(s), Open(s), NEW c \in ClientShape, NEW b \in PcbShape, NEW n \in Int,
         c.life = s.client.life, c.aborted = s.client.aborted,
         c.dead_aborted = s.client.dead_aborted, c.client_closed = s.client.client_closed,
         c.socks_closed = s.client.socks_closed, c.buf_used = s.client.buf_used,
         c.socks_recv_tcp_pending = s.client.socks_recv_tcp_pending + n,
         b.state = s.pcb.state, b.err = s.pcb.err, b.recv = s.pcb.recv, b.sent = s.pcb.sent,
         b.wnd = s.pcb.wnd, b.unacked = s.pcb.unacked + n
  PROVE  Alive(With(s, c, b)) /\ Open(With(s, c, b)) /\ With(s, c, b).client = c
<1> DEFINE t == With(s, c, b)
<1>1. s \in Shape BY DEF Alive
<1>2. t \in Shape /\ t.client = c /\ t.pcb = b /\ t.socks = s.socks /\ t.jobs = s.jobs
      /\ t.frame = s.frame /\ t.past = s.past
  BY <1>1, Replace
<1>3. /\ s.client.socks_recv_tcp_pending \in Int /\ s.pcb.unacked \in Int
  BY <1>1, SMTT(30) DEF Shape, ClientShape, PcbShape
<1> HIDE DEF t
<1>4. Kept(s, t) BY <1>2, <1>3 DEF Kept
<1>5. QED BY <1>2, <1>4, Update DEF t

\* client_socks_recv_send_out: what tcp_write takes is pending, and a failure of
\* lwIP aborts the client; otherwise its SOCKS side is as it was.
LEMMA SendOut ==
  ASSUME NEW s, Alive(s), Open(s), NEW u \in client_socks_recv_send_out(s)
  PROVE  Good(u) /\ (ClientUp(u) => Alive(u) /\ u.client.socks_closed = s.client.socks_closed)
<1> DEFINE c == s.client
           fits == Smaller(c.socks_recv_buf_used - c.socks_recv_buf_sent,
                           TCP_SND_BUF - s.pcb.unacked)
           failed == [s EXCEPT !.past.failed = TRUE]
           More(t, n) ==
               [t EXCEPT !.client.socks_recv_buf_sent = c.socks_recv_buf_sent + n,
                         !.client.socks_recv_tcp_pending = c.socks_recv_tcp_pending + n,
                         !.pcb.unacked = @ + n]
           Queued(t, n) ==
               IF c.socks_recv_buf_sent + n = c.socks_recv_buf_used
               THEN [More(t, n) EXCEPT !.client.socks_recv_buf_used = -1]
               ELSE IF c.socks_recv_tcp_pending + n = 0 THEN client_abort_client(More(t, n))
               ELSE [More(t, n) EXCEPT !.client.socks_recv_waiting = TRUE]
<1>1. s \in Shape /\ c \in ClientShape /\ s.pcb \in PcbShape /\ s.past \in PastShape
  BY DEF Alive, Shape
<1>2. /\ c.socks_recv_buf_used \in Int /\ c.socks_recv_buf_sent \in Int
      /\ c.socks_recv_tcp_pending \in Int /\ s.pcb.unacked \in Int /\ TCP_SND_BUF \in Int
  BY <1>1, SizesAssumption DEF ClientShape, PcbShape
<1>3. fits \in Int BY <1>2 DEF Smaller
<1>4. u = Queued(s, fits) \/ u = client_abort_client(failed) \/ u = Queued(failed, 0)
  BY SMTT(30) DEF client_socks_recv_send_out
<1>5. Alive(failed) /\ Open(failed) /\ failed.client = c /\ failed.pcb = s.pcb
  <2> DEFINE p == [s.past EXCEPT !.failed = TRUE]
  <2>1. p \in PastShape BY <1>1, Zenon DEF PastShape
  <2>2. failed = [s EXCEPT !.past = p] BY <1>1 DEF Shape
  <2> HIDE DEF p
  <2>3. QED BY <1>1, <2>1, <2>2, PastLemma DEF Alive
<1>6. ASSUME NEW t, Alive(t), Open(t), t.client = c, t.pcb = s.pcb, NEW n \in Int
      PROVE  LET q == Queued(t, n)
             IN  Good(q) /\ (ClientUp(q) => Alive(q) /\ q.client.socks_closed = c.socks_closed)
  <2> DEFINE d == [c EXCEPT !.socks_recv_buf_sent = c.socks_recv_buf_sent + n,
                            !.socks_recv_tcp_pending = c.socks_recv_tcp_pending + n]
             b == [s.pcb EXCEPT !.unacked = @ + n]
             d1 == [d EXCEPT !.socks_recv_buf_used = -1]
             d2 == [d EXCEPT !.socks_recv_waiting = TRUE]
  <2>1. t \in Shape BY <1>6 DEF Alive
  <2>2. d \in ClientShape /\ d1 \in ClientShape /\ d2 \in ClientShape /\ b \in PcbShape
    <3>1. c.socks_recv_buf_sent + n \in Int /\ c.socks_recv_tcp_pending + n \in Int
          /\ s.pcb.unacked + n \in Int
      BY <1>2, <1>6
    <3>2. d \in ClientShape BY <1>1, <3>1, Zenon DEF ClientShape
    <3>3. b \in PcbShape BY <1>1, <3>1 DEF PcbShape
    <3> HIDE DEF d, b
    <3>4. d1 \in ClientShape BY <3>2 DEF ClientShape
    <3>5. d2 \in ClientShape BY <3>2, Zenon DEF ClientShape
    <3>6. QED BY <3>2, <3>3, <3>4, <3>5
  <2>3. /\ More(t, n) = With(t, d, b)
        /\ [More(t, n) EXCEPT !.client.socks_recv_buf_used = -1] = With(t, d1, b)
        /\ [More(t, n) EXCEPT !.client.socks_recv_waiting = TRUE] = With(t, d2, b)
    BY <1>6, <2>1, Zenon DEF Shape, With
  <2>4. \A e \in {d, d1, d2} :
          /\ e.life = c.life /\ e.aborted = c.aborted /\ e.dead_aborted = c.dead_aborted
          /\ e.client_closed = c.client_closed /\ e.socks_closed = c.socks_closed
          /\ e.buf_used = c.buf_used
          /\ e.socks_recv_tcp_pending = c.socks_recv_tcp_pending + n
    BY <1>1, Zenon DEF ClientShape
  <2>5. /\ b.state = s.pcb.state /\ b.err = s.pcb.err /\ b.recv = s.pcb.recv
        /\ b.sent = s.pcb.sent /\ b.wnd = s.pcb.wnd /\ b.unacked = s.pcb.unacked + n
    BY <1>1 DEF PcbShape
  <2> HIDE DEF d, d1, d2, b
  <2>6. ASSUME NEW e \in {d, d1, d2}
        PROVE  /\ Alive(With(t, e, b)) /\ Open(With(t, e, b))
               /\ With(t, e, b).client.socks_closed = c.socks_closed
    <3>1. e \in ClientShape /\ b \in PcbShape BY <2>2
    <3>2. /\ e.life = t.client.life /\ e.aborted = t.client.aborted
          /\ e.dead_aborted = t.client.dead_aborted
          /\ e.client_closed = t.client.client_closed
          /\ e.socks_closed = t.client.socks_closed /\ e.buf_used = t.client.buf_used
          /\ e.socks_recv_tcp_pending = t.client.socks_recv_tcp_pending + n
      BY <1>6, <2>4
    <3>3. /\ b.state = t.pcb.state /\ b.err = t.pcb.err /\ b.recv = t.pcb.recv
          /\ b.sent = t.pcb.sent /\ b.wnd = t.pcb.wnd /\ b.unacked = t.pcb.unacked + n
      BY <1>6, <2>5
    <3>4. Alive(With(t, e, b)) /\ Open(With(t, e, b)) /\ With(t, e, b).client = e
      BY <1>6, <3>1, <3>2, <3>3, Queueing
    <3>5. QED BY <2>4, <3>4
  <2>7. Good(client_abort_client(More(t, n))) /\ ~ClientUp(client_abort_client(More(t, n)))
    BY <2>3, <2>6, AbortClient, SMTT(30) DEF Alive
  <2> HIDE DEF More
  <2>8. QED BY <2>3, <2>6, <2>7, Zenon DEF Good, Alive
<1> HIDE DEF fits, failed, Queued
<1>7. CASE u = Queued(s, fits) BY <1>3, <1>6, <1>7
<1>8. CASE u = client_abort_client(failed) BY <1>5, <1>8, AbortClient DEF Alive
<1>9. CASE u = Queued(failed, 0) BY <1>5, <1>6, <1>9
<1>10. QED BY <1>4, <1>7, <1>8, <1>9

\* Before more is queued: changes to the record of what was read.
LEMMA ClientUpdate ==
  ASSUME NEW s, Alive(s), Open(s), NEW c \in ClientShape,
         c.life = s.client.life, c.aborted = s.client.aborted,
         c.dead_aborted = s.client.dead_aborted, c.client_closed = s.client.client_closed,
         c.socks_closed = s.client.socks_closed, c.buf_used = s.client.buf_used,
         c.socks_recv_tcp_pending = s.client.socks_recv_tcp_pending
  PROVE  LET t == [s EXCEPT !.client = c] IN Alive(t) /\ Open(t) /\ t.client = c
<1> DEFINE t == [s EXCEPT !.client = c]
<1>1. s \in Shape BY DEF Alive
<1>2. t \in Shape /\ t.client = c /\ t.pcb = s.pcb /\ t.socks = s.socks /\ t.jobs = s.jobs
      /\ t.frame = s.frame
  BY <1>1 DEF Shape
<1> HIDE DEF t
<1>3. Kept(s, t) BY <1>2 DEF Kept
<1>4. QED BY <1>2, <1>3, Update DEF t

\* client_socks_recv_handler_done: reading goes on only with a client still up.
LEMMA RecvDone ==
  ASSUME NEW s, Live(s), NEW u \in client_socks_recv_handler_done(s, s.socks.recv_len)
  PROVE  Good(u)
<1>1. CASE s.client.client_closed
  BY <1>1, LiveFacts DEF client_socks_recv_handler_done
<1>2. CASE ~s.client.client_closed
  <2> DEFINE c == [s.client EXCEPT !.socks_recv_buf_used = s.socks.recv_len,
                                   !.socks_recv_buf_sent = 0, !.socks_recv_waiting = FALSE]
             t == [s EXCEPT !.client = c]
  <2>1. Open(s) /\ Alive(s) BY <1>2 DEF Live, Alive, Closed
  <2>0. s.socks.recv_len \in Int /\ s.client \in ClientShape BY LiveFacts DEF SocksShape
  <2>9. 0 \in Int /\ FALSE \in BOOLEAN OBVIOUS
  <2>2. c \in ClientShape BY <2>0, <2>9, Zenon DEF ClientShape
  <2>3. /\ c.life = s.client.life /\ c.aborted = s.client.aborted
        /\ c.dead_aborted = s.client.dead_aborted /\ c.client_closed = s.client.client_closed
        /\ c.socks_closed = s.client.socks_closed /\ c.buf_used = s.client.buf_used
        /\ c.socks_recv_tcp_pending = s.client.socks_recv_tcp_pending
    BY LiveFacts DEF ClientShape
  <2>4. t = [s EXCEPT !.client.socks_recv_buf_used = s.socks.recv_len,
                      !.client.socks_recv_buf_sent = 0, !.client.socks_recv_waiting = FALSE]
    BY LiveFacts, Zenon DEF Shape
  <2> HIDE DEF c
  <2>5. Alive(t) /\ Open(t) /\ ~t.client.socks_closed
    BY <2>1, <2>2, <2>3, ClientUpdate, LiveFacts
  <2> HIDE DEF t
  <2>6. PICK v \in client_socks_recv_send_out(t) :
          u = IF ClientUp(v) /\ v.client.socks_recv_buf_used = -1
              THEN client_socks_recv_initiate(v) ELSE v
    BY <1>2, <2>4 DEF client_socks_recv_handler_done
  <2>7. Good(v) /\ (ClientUp(v) => Live(v)) BY <2>5, SendOut DEF Live
  <2>8. QED BY <2>6, <2>7, RecvInitiate, LiveFacts
<1>3. QED BY <1>1, <1>2

-----------------------------------------------------------------------------
\* The callbacks of lwIP and of the SOCKS connection.

\* The SOCKS client comes up.
LEMMA HandlerUp ==
  ASSUME NEW s, Live(s)
  PROVE  Good(client_socks_handler_up(s))
<1> DEFINE c == [s.client EXCEPT !.socks_up = TRUE]
           b == [s.pcb EXCEPT !.sent = ~s.client.client_closed]
           t == With(s, c, b)
           v == IF t.client.buf_used > 0 THEN client_send_to_socks(t) ELSE t
<1>1. s \in Shape /\ s.client \in ClientShape /\ s.pcb \in PcbShape /\ ~s.client.socks_closed
  BY LiveFacts
<1>2. c \in ClientShape BY <1>1, Zenon DEF ClientShape
<1>3. b \in PcbShape BY <1>1, Zenon DEF PcbShape, ClientShape
<1>4. /\ c.life = s.client.life /\ c.aborted = s.client.aborted
      /\ c.dead_aborted = s.client.dead_aborted /\ c.client_closed = s.client.client_closed
      /\ c.socks_closed = s.client.socks_closed /\ c.buf_used = s.client.buf_used
      /\ c.socks_recv_tcp_pending = s.client.socks_recv_tcp_pending
  BY <1>1 DEF ClientShape
<1>5. /\ b.state = s.pcb.state /\ b.err = s.pcb.err /\ b.recv = s.pcb.recv
      /\ b.wnd = s.pcb.wnd /\ b.unacked = s.pcb.unacked
      /\ b.sent = ~s.client.client_closed
  BY <1>1 DEF PcbShape
<1>6. t = [s EXCEPT !.client.socks_up = TRUE, !.pcb.sent = ~s.client.client_closed]
  BY <1>1 DEF Shape, With
<1> HIDE DEF c, b
<1>7. t \in Shape /\ t.client = c /\ t.pcb = b /\ t.socks = s.socks /\ t.jobs = s.jobs
      /\ t.frame = s.frame
  BY <1>1, <1>2, <1>3, Replace
<1>8. client_socks_handler_up(s)
      = IF v.client.client_closed THEN v ELSE client_socks_recv_initiate(v)
  BY <1>6 DEF client_socks_handler_up
<1> HIDE DEF t
<1>9. s.client.client_closed => ~s.pcb.sent BY LiveFacts DEF Alive, Open, Closed, Leaving
<1>10. Kept(s, t) 
  <2>1. s.client.client_closed => t.pcb.sent = s.pcb.sent
    BY <1>1, <1>5, <1>7, <1>9 DEF PcbShape, ClientShape
  <2>2. QED BY <1>1, <1>4, <1>5, <1>7, <2>1 DEF Kept
<1>11. Live(t) BY <1>1, <1>4, <1>7, <1>10, LiveFacts, Update DEF Live
<1>12. Live(v) BY <1>11, SendToSocks
<1> HIDE DEF v
<1>13. QED BY <1>8, <1>12, RecvInitiate, LiveFacts

\* The application's data arrives in a callback.
LEMMA RecvFunc ==
  ASSUME NEW s, Alive(s), Open(s), s.pcb.recv, NEW n \in Int
  PROVE  Good(client_recv_func(s, n))
<1> DEFINE c == [s.client EXCEPT !.buf_used = @ + n]
           b == [s.pcb EXCEPT !.wnd = @ - n]
           p == [s.past EXCEPT !.taken = @ + n]
           w == With(s, c, b)
           t == [w EXCEPT !.past = p]
<1>1. s \in Shape /\ s.client \in ClientShape /\ s.pcb \in PcbShape /\ s.past \in PastShape
  BY DEF Alive, Shape
<1>2. s.client.buf_used \in Int /\ s.pcb.wnd \in Int /\ s.past.taken \in Int
  BY <1>1 DEF ClientShape, PcbShape, PastShape
<1>3. c \in ClientShape /\ b \in PcbShape /\ p \in PastShape
  <2>1. c \in ClientShape BY <1>1, <1>2 DEF ClientShape
  <2>2. b \in PcbShape BY <1>1, <1>2 DEF PcbShape
  <2>3. p \in PastShape BY <1>1, <1>2 DEF PastShape
  <2>4. QED BY <2>1, <2>2, <2>3
<1>4. /\ c.life = s.client.life /\ c.aborted = s.client.aborted
      /\ c.dead_aborted = s.client.dead_aborted /\ c.client_closed = s.client.client_closed
      /\ c.socks_closed = s.client.socks_closed /\ c.buf_used = s.client.buf_used + n
      /\ c.socks_recv_tcp_pending = s.client.socks_recv_tcp_pending
  BY <1>1 DEF ClientShape
<1>5. /\ b.state = s.pcb.state /\ b.err = s.pcb.err /\ b.recv = s.pcb.recv
      /\ b.wnd = s.pcb.wnd - n /\ b.unacked = s.pcb.unacked /\ b.sent = s.pcb.sent
  BY <1>1, Zenon DEF PcbShape
<1>6. t = [s EXCEPT !.client.buf_used = @ + n, !.pcb.wnd = @ - n, !.past.taken = @ + n]
  BY <1>1 DEF Shape, With
<1> HIDE DEF c, b, p
<1>7. w \in Shape /\ w.client = c /\ w.pcb = b /\ w.socks = s.socks /\ w.jobs = s.jobs
      /\ w.frame = s.frame
  BY <1>1, <1>3, Replace
<1> HIDE DEF w
<1>8. Kept(s, w)
  <2>1. c.buf_used + b.wnd = s.client.buf_used + s.pcb.wnd BY <1>2, <1>4, <1>5
  <2>2. QED BY <1>4, <1>5, <1>7, <2>1, Zenon DEF Kept
<1>9. Alive(w) /\ Open(w) BY <1>7, <1>8, Update
<1>10. Alive(t) /\ Open(t) /\ t.client = c BY <1>3, <1>7, <1>9, PastLemma DEF Alive
<1> HIDE DEF t
<1>11. client_recv_func(s, n)
       = IF n > TCP_WND - s.client.buf_used THEN s
         ELSE IF s.client.buf_used = 0 /\ s.client.socks_up THEN client_send_to_socks(t) ELSE t
  BY <1>6 DEF client_recv_func
<1>12. Live(t) BY <1>4, <1>10 DEF Live, Open
<1>13. Good(s) BY DEF Alive, Good
<1>14. QED BY <1>11, <1>12, <1>13, SendToSocks, LiveFacts

\* The application acknowledges data in a callback.
LEMMA SentFunc ==
  ASSUME NEW s, Alive(s), Open(s), NEW n \in Int, NEW u \in client_sent_func(s, n)
  PROVE  Good(u)
<1> DEFINE c == [s.client EXCEPT !.socks_recv_tcp_pending = @ - n]
           b == [s.pcb EXCEPT !.unacked = @ - n]
           p == [s.past EXCEPT !.acked = @ + n]
           w == With(s, c, b)
           t == [w EXCEPT !.past = p]
           d == [c EXCEPT !.socks_recv_waiting = FALSE]
           v == [t EXCEPT !.client = d]
<1>1. s \in Shape /\ s.client \in ClientShape /\ s.pcb \in PcbShape /\ s.past \in PastShape
  BY DEF Alive, Shape
<1>2. s.client.socks_recv_tcp_pending \in Int /\ s.pcb.unacked \in Int /\ s.past.acked \in Int
  BY <1>1 DEF ClientShape, PcbShape, PastShape
<1>3. c \in ClientShape /\ b \in PcbShape /\ p \in PastShape
  <2>1. c \in ClientShape BY <1>1, <1>2 DEF ClientShape
  <2>2. b \in PcbShape BY <1>1, <1>2 DEF PcbShape
  <2>3. p \in PastShape BY <1>1, <1>2 DEF PastShape
  <2>4. QED BY <2>1, <2>2, <2>3
<1>4. /\ c.life = s.client.life /\ c.aborted = s.client.aborted
      /\ c.dead_aborted = s.client.dead_aborted /\ c.client_closed = s.client.client_closed
      /\ c.socks_closed = s.client.socks_closed /\ c.buf_used = s.client.buf_used
      /\ c.socks_recv_tcp_pending = s.client.socks_recv_tcp_pending - n
  BY <1>1 DEF ClientShape
<1>5. /\ b.state = s.pcb.state /\ b.err = s.pcb.err /\ b.recv = s.pcb.recv
      /\ b.wnd = s.pcb.wnd /\ b.unacked = s.pcb.unacked - n /\ b.sent = s.pcb.sent
  BY <1>1 DEF PcbShape
<1>6. t = [s EXCEPT !.client.socks_recv_tcp_pending = @ - n, !.pcb.unacked = @ - n,
                    !.past.acked = @ + n]
  BY <1>1 DEF Shape, With
<1> HIDE DEF c, b, p
<1>7. w \in Shape /\ w.client = c /\ w.pcb = b /\ w.socks = s.socks /\ w.jobs = s.jobs
      /\ w.frame = s.frame
  BY <1>1, <1>3, Replace
<1> HIDE DEF w
<1>8. Kept(s, w)
  <2>1. c.socks_recv_tcp_pending - b.unacked = s.client.socks_recv_tcp_pending - s.pcb.unacked
    BY <1>2, <1>4, <1>5
  <2>2. QED BY <1>4, <1>5, <1>7, <2>1 DEF Kept
<1>9. Alive(w) /\ Open(w) BY <1>7, <1>8, Update
<1>10. Alive(t) /\ Open(t) /\ t.client = c BY <1>3, <1>7, <1>9, PastLemma DEF Alive
<1> HIDE DEF t
<1>11. /\ d \in ClientShape
       /\ d.life = c.life /\ d.aborted = c.aborted /\ d.dead_aborted = c.dead_aborted
       /\ d.client_closed = c.client_closed /\ d.socks_closed = c.socks_closed
       /\ d.buf_used = c.buf_used /\ d.socks_recv_tcp_pending = c.socks_recv_tcp_pending
  BY <1>3, Zenon DEF ClientShape
<1>12. v = [t EXCEPT !.client.socks_recv_waiting = FALSE] BY <1>10
<1> HIDE DEF d
<1>13. Alive(v) /\ Open(v) BY <1>10, <1>11, ClientUpdate
<1> HIDE DEF v
<1>14. \/ \E x \in client_socks_recv_send_out(v) :
              u = IF ClientUp(x) /\ x.client.socks_recv_buf_used = -1 /\ ~x.client.socks_closed
                  THEN client_socks_recv_initiate(x) ELSE x
       \/ u \in client_free_client(t)
       \/ u = t
  BY <1>6, <1>12 DEF client_sent_func
<1>15. ASSUME NEW x \in client_socks_recv_send_out(v),
              u = IF ClientUp(x) /\ x.client.socks_recv_buf_used = -1 /\ ~x.client.socks_closed
                  THEN client_socks_recv_initiate(x) ELSE x
       PROVE  Good(u)
  BY <1>13, <1>15, SendOut, RecvInitiate, LiveFacts DEF Live
<1>16. CASE u \in client_free_client(t) BY <1>10, <1>16, FreeClient DEF Alive, Open
<1>17. CASE u = t BY <1>10, <1>17 DEF Good, Alive
<1>18. QED BY <1>14, <1>15, <1>16, <1>17

\* The connection's own fields and the past, then a job.
LEMMA Wrote ==
  ASSUME NEW s, Live(s), NEW k \in SocksShape, k.state = s.socks.state, NEW p \in PastShape,
         NEW j \in Jobs \ {"control"}
  PROVE  Good(SetJob([s EXCEPT !.socks = k, !.past = p], j))
<1> DEFINE t == [s EXCEPT !.socks = k]
           v == [t EXCEPT !.past = p]
<1>1. Live(t) BY SocksUpdate
<1>2. v = [s EXCEPT !.socks = k, !.past = p] BY LiveFacts DEF Shape
<1> HIDE DEF t
<1>3. Live(v) BY <1>1, PastUpdate
<1> HIDE DEF v
<1>4. QED BY <1>2, <1>3, SetLive, LiveFacts

\* Waiting for the descriptor.
LEMMA BlockedLemma ==
  ASSUME NEW s, Live(s), NEW event \in {"READ", "WRITE"}, NEW u \in Blocked(s, event)
  PROVE  Good(u)
<1> DEFINE k == [s.socks EXCEPT !.wait = @ \cup {event}]
           t == [s EXCEPT !.socks = k]
<1>1. s.socks.wait \cup {event} \in SUBSET {"READ", "WRITE"}
  BY LiveFacts DEF SocksShape
<1>2. k \in SocksShape /\ k.state = s.socks.state BY <1>1, LiveFacts DEF SocksShape
<1>3. t = [s EXCEPT !.socks.wait = @ \cup {event}] BY LiveFacts DEF Shape
<1> HIDE DEF k
<1>4. Live(t) BY <1>2, SocksUpdate
<1>5. u = t BY <1>3 DEF Blocked
<1> HIDE DEF t
<1>6. QED BY <1>4, <1>5, LiveFacts

\* connection_send: blocked, broken or some bytes written.
LEMMA ConnectionSend ==
  ASSUME NEW s, Live(s), NEW u \in connection_send(s)
  PROVE  Good(u)
<1>1. CASE u \in Blocked(s, "WRITE") BY <1>1, BlockedLemma
<1>2. CASE u \in client_socks_handler_error(s) BY <1>2, SocksError
<1>3. ASSUME NEW bytes \in 1..s.socks.len,
             u = SetJob([s EXCEPT !.socks.send = "READY", !.socks.sent_len = bytes,
                                  !.past.wrote = @ + bytes], "send_done")
      PROVE  Good(u)
  <2> DEFINE k == [s.socks EXCEPT !.send = "READY", !.sent_len = bytes]
             p == [s.past EXCEPT !.wrote = @ + bytes]
  <2>1. bytes \in Int /\ s.past.wrote \in Int BY LiveFacts DEF PastShape
  <2>2. s.past.wrote + bytes \in Int BY <2>1
  <2>3. k \in SocksShape /\ k.state = s.socks.state BY <2>1, LiveFacts, Zenon DEF SocksShape
  <2>4. p \in PastShape BY <2>2, LiveFacts DEF PastShape
  <2>5. [s EXCEPT !.socks = k, !.past = p]
        = [s EXCEPT !.socks.send = "READY", !.socks.sent_len = bytes, !.past.wrote = @ + bytes]
    BY LiveFacts, Zenon DEF Shape
  <2> HIDE DEF k, p
  <2>6. "send_done" \in Jobs \ {"control"} BY DEF Jobs
  <2>7. QED BY <1>3, <2>3, <2>4, <2>5, <2>6, Wrote, Zenon
<1>4. QED BY <1>1, <1>2, <1>3, Zenon DEF connection_send

\* connection_recv: blocked, broken, at its end or some bytes read.
LEMMA ConnectionRecv ==
  ASSUME NEW s, Live(s), NEW u \in connection_recv(s)
  PROVE  Good(u)
<1>1. CASE u \in Blocked(s, "READ") BY <1>1, BlockedLemma
<1>2. CASE u \in client_socks_handler_error(s) BY <1>2, SocksError
<1>3. CASE u \in client_socks_handler_error([s EXCEPT !.socks.recv = "CLOSED"])
  <2> DEFINE k == [s.socks EXCEPT !.recv = "CLOSED"]
             t == [s EXCEPT !.socks = k]
  <2>1. k \in SocksShape /\ k.state = s.socks.state BY LiveFacts DEF SocksShape
  <2>2. t = [s EXCEPT !.socks.recv = "CLOSED"] BY LiveFacts DEF Shape
  <2> HIDE DEF k
  <2>3. Live(t) BY <2>1, SocksUpdate
  <2> HIDE DEF t
  <2>4. QED BY <1>3, <2>2, <2>3, SocksError
<1>4. ASSUME NEW bytes \in 1..Smaller(RECV_BUF, MaxDown - s.past.got),
             u = SetJob([s EXCEPT !.socks.recv = "READY", !.socks.recv_len = bytes,
                                  !.past.got = IF s.client.client_closed THEN @ ELSE @ + bytes],
                        "recv_done")
      PROVE  Good(u)
  <2> DEFINE k == [s.socks EXCEPT !.recv = "READY", !.recv_len = bytes]
             got == IF s.client.client_closed THEN s.past.got ELSE s.past.got + bytes
             p == [s.past EXCEPT !.got = got]
  <2>1. bytes \in Int /\ s.past.got \in Int BY LiveFacts DEF PastShape
  <2>2. got \in Int BY <2>1
  <2>3. k \in SocksShape /\ k.state = s.socks.state BY <2>1, LiveFacts, Zenon DEF SocksShape
  <2>5. [s EXCEPT !.socks = k, !.past = p]
        = [s EXCEPT !.socks.recv = "READY", !.socks.recv_len = bytes,
                    !.past.got = IF s.client.client_closed THEN @ ELSE @ + bytes]
    BY LiveFacts, Zenon DEF Shape
  <2> HIDE DEF k, got
  <2>4. p \in PastShape BY <2>2, LiveFacts DEF PastShape
  <2> HIDE DEF p
  <2>6. "recv_done" \in Jobs \ {"control"} BY DEF Jobs
  <2>7. QED BY <1>4, <2>3, <2>4, <2>5, <2>6, Wrote, Zenon
<1>5. QED BY <1>1, <1>2, <1>3, <1>4, Zenon DEF connection_recv

\* The SOCKS client's state changes; the job of the handshake is set only in it.
LEMMA StateUpdate ==
  ASSUME NEW s, Live(s), NEW x \in States \ {"NONE"},
         BSmallPending_IsSet(s.jobs, "control") => x \in Control
  PROVE  LET t == [s EXCEPT !.socks.state = x] IN Live(t) /\ t.socks.state = x
<1> DEFINE k == [s.socks EXCEPT !.state = x]
           t == [s EXCEPT !.socks.state = x]
<1>1. s \in Shape /\ SocksSide(s) /\ ~s.client.socks_closed /\ s.socks \in SocksShape
      /\ (Open(s) \/ Closed(s))
  BY LiveFacts DEF Alive
<1>2. k \in SocksShape /\ k.state = x BY <1>1 DEF SocksShape
<1>3. t = [s EXCEPT !.socks = k] BY <1>1 DEF Shape
<1> HIDE DEF k
<1>4. t \in Shape /\ t.client = s.client /\ t.pcb = s.pcb /\ t.socks = k /\ t.jobs = s.jobs
      /\ t.frame = s.frame
  BY <1>1, <1>2, <1>3 DEF Shape
<1> HIDE DEF t
<1>5. SocksSide(t) BY <1>1, <1>2, <1>4 DEF SocksSide, JobsOK
<1>6. QED BY <1>1, <1>2, <1>4, <1>5 DEF Live, Alive, Open, Closed, Leaving, t

\* connector_handler: the connection failed, or the handshake begins.
LEMMA ConnectorHandler ==
  ASSUME NEW s, Live(s), NEW u \in connector_handler(s)
  PROVE  Good(u)
<1> DEFINE t == [s EXCEPT !.socks.state = "CONNECTED_HANDLER"]
<1>1. "CONNECTED_HANDLER" \in Control /\ "CONNECTED_HANDLER" \in States \ {"NONE"}
  BY DEF Control, Continues, States
<1>2. Live(t) /\ t.socks.state = "CONNECTED_HANDLER" BY <1>1, StateUpdate
<1>3. u \in client_socks_handler_error(s) \/ u = SetJob(t, "control") BY DEF connector_handler
<1>4. "control" \in Jobs BY DEF Jobs
<1> HIDE DEF t
<1>5. QED BY <1>1, <1>2, <1>3, <1>4, SetLive, SocksError, LiveFacts

\* A step of the handshake, when its job is not set any more.
LEMMA Handshake ==
  ASSUME NEW s, Live(s), s.socks.state \in Control, ~BSmallPending_IsSet(s.jobs, "control"),
         NEW u \in handshake(s)
  PROVE  Good(u)
<1>1. \/ \E event \in {"READ", "WRITE"} : u \in Blocked(s, event)
      \/ u \in client_socks_handler_error(s)
      \/ \E x \in Continues[s.socks.state] :
            LET t == [s EXCEPT !.socks.state = x]
            IN  u = IF x = "UP" THEN client_socks_handler_up(t) ELSE SetJob(t, "control")
  BY DEF handshake
<1>2. ASSUME NEW x \in Continues[s.socks.state],
             u = IF x = "UP" THEN client_socks_handler_up([s EXCEPT !.socks.state = x])
                 ELSE SetJob([s EXCEPT !.socks.state = x], "control")
      PROVE  Good(u)
  <2> DEFINE t == [s EXCEPT !.socks.state = x]
  <2>1. x \in Control \cup {"UP"} BY DEF Control, Continues
  <2>2. x \in States \ {"NONE"} BY <2>1 DEF States, Control, Continues
  <2>3. Live(t) /\ t.socks.state = x BY <2>2, StateUpdate
  <2>4. u = IF x = "UP" THEN client_socks_handler_up(t) ELSE SetJob(t, "control") BY <1>2
  <2>5. "control" \in Jobs BY DEF Jobs
  <2> HIDE DEF t
  <2>6. QED BY <2>1, <2>3, <2>4, <2>5, HandlerUp, SetLive, LiveFacts
<1>3. QED BY <1>1, <1>2, BlockedLemma, SocksError, Zenon

\* connection_fd_handler: whatever the poll has reported.
LEMMA FdHandler ==
  ASSUME NEW s, Live(s), s.jobs = <<>>, s.socks.state \in Control \cup {"UP"},
         NEW events, NEW u \in connection_fd_handler(s, events)
  PROVE  Good(u)
<1> DEFINE hup == "HUP" \in events
           wait == IF hup THEN {} ELSE s.socks.wait \ events
           k == [s.socks EXCEPT !.wait = wait, !.hupd = hup]
           t == [s EXCEPT !.socks = k]
<1>1. hup \in BOOLEAN /\ wait \in SUBSET {"READ", "WRITE"} BY LiveFacts DEF SocksShape
<1>2. t = [s EXCEPT !.socks.wait = IF "HUP" \in events THEN {} ELSE @ \ events,
                    !.socks.hupd = "HUP" \in events]
  BY LiveFacts, Zenon DEF Shape
<1> HIDE DEF hup, wait
<1>3. k \in SocksShape /\ k.state = s.socks.state
  <2>1. s.socks \in SocksShape BY LiveFacts
  <2>2. QED BY <1>1, <2>1, ZenonT(60) DEF SocksShape
<1> HIDE DEF k
<1>4. Live(t) /\ t.socks = k BY <1>3, SocksUpdate
<1>5. t.jobs = <<>> BY LiveFacts DEF Shape
<1>6. ~BSmallPending_IsSet(t.jobs, "control") BY <1>5 DEF BSmallPending_IsSet
<1> HIDE DEF t
<1>7. \/ u \in client_socks_handler_error(t)
      \/ s.socks.state # "UP" /\ u \in handshake(t)
      \/ u \in connection_send(SetJob(t, "recv_job"))
      \/ u \in connection_send(t)
      \/ u \in connection_recv(t)
      \/ u = t
  BY <1>2 DEF connection_fd_handler
<1>8. Live(SetJob(t, "recv_job")) BY <1>4, SetLive DEF Jobs
<1>9. CASE s.socks.state # "UP" /\ u \in handshake(t)
  <2>1. t.socks.state \in Control BY <1>3, <1>4, <1>9
  <2>2. QED BY <1>4, <1>6, <1>9, <2>1, Handshake
<1>10. QED BY <1>4, <1>7, <1>8, <1>9, SocksError, ConnectionSend, ConnectionRecv, LiveFacts

\* The handler of every job.
LEMMA JobHandler ==
  ASSUME NEW s, Live(s), NEW j \in Jobs,
         j = "control" => s.socks.state \in Control /\ ~BSmallPending_IsSet(s.jobs, "control"),
         NEW u \in job_handler(s, j)
  PROVE  Good(u)
<1>1. CASE j = "connector" BY <1>1, ConnectorHandler DEF job_handler
<1>2. CASE j = "control" BY <1>2, Handshake DEF job_handler
<1>3. CASE j = "send" BY <1>3, ConnectionSend DEF job_handler
<1>4. CASE j = "send_done" BY <1>4, SendDone DEF job_handler
<1>5. CASE j \in {"recv", "recv_job"} BY <1>5, ConnectionRecv DEF job_handler
<1>6. CASE j = "recv_done" BY <1>6, RecvDone DEF job_handler
<1>7. QED BY <1>1, <1>2, <1>3, <1>4, <1>5, <1>6 DEF Jobs

\* A callback of lwIP begins.
LEMMA Enter ==
  ASSUME NEW s \in Shape, Open(s), s.frame = NULL
  PROVE  LET t == DEAD_ENTER(s)
         IN  Alive(t) /\ Open(t) /\ t.pcb = s.pcb
<1> DEFINE c == [s.client EXCEPT !.dead_aborted = "frame"]
           t == DEAD_ENTER(s)
<1>1. /\ c \in ClientShape
      /\ c.life = s.client.life /\ c.aborted = s.client.aborted
      /\ c.dead_aborted = "frame" /\ c.client_closed = s.client.client_closed
      /\ c.socks_closed = s.client.socks_closed /\ c.buf_used = s.client.buf_used
      /\ c.socks_recv_tcp_pending = s.client.socks_recv_tcp_pending
  BY DEF Shape, ClientShape
<1>2. t = [s EXCEPT !.frame = 0, !.client = c] BY DEF DEAD_ENTER, Shape
<1> HIDE DEF c
<1>3. t \in Shape /\ t.client = c /\ t.pcb = s.pcb /\ t.socks = s.socks /\ t.jobs = s.jobs
      /\ t.frame = 0
  BY <1>1, <1>2, Zenon DEF Shape
<1> HIDE DEF t
<1>4. ~s.client.aborted BY DEF Open, SocksSide
<1>5. 0 # NULL BY SizesAssumption
<1>6. SocksSide(t) BY <1>1, <1>3, <1>4, <1>5 DEF SocksSide, Open
<1>7. QED BY <1>1, <1>3, <1>6, SMTT(30) DEF Open, Alive, t

-----------------------------------------------------------------------------
\* The actions.

\* Before listener_accept_func.
Fresh(s) ==
    /\ s.client = NoClient /\ s.jobs = <<>> /\ s.socks = NoSocks /\ s.frame = NULL
    /\ s.pcb.state = "OPEN" /\ ~s.pcb.err /\ ~s.pcb.recv /\ ~s.pcb.sent
    /\ s.pcb.wnd = TCP_WND /\ s.pcb.unacked = 0

IInv == tcp \in Shape /\ (Fresh(tcp) \/ Good(tcp))

\* The constant records, read off.
LEMMA Lives ==
  /\ NoClient.life = "none" /\ [NoClient EXCEPT !.life = "freed"].life = "freed"
  /\ NoSocks.state = "NONE"
BY DEF NoClient, NoSocks

\* A client that is not there has no jobs, no SOCKS client and no callbacks.
LEMMA Present ==
  ASSUME IInv
  PROVE  /\ tcp.client.life = "alive" => Alive(tcp)
         /\ tcp.jobs # <<>> \/ tcp.socks.state # "NONE" => Live(tcp)
         /\ tcp.pcb.err \/ tcp.pcb.recv \/ tcp.pcb.sent => Alive(tcp) /\ Open(tcp)
         /\ tcp.client.life = "none" => Fresh(tcp)
<1>1. Fresh(tcp) \/ Freed(tcp) \/ Alive(tcp) BY DEF IInv, Good, Alive
<1>2. CASE Fresh(tcp) BY <1>2, Lives DEF Fresh
<1>3. CASE Freed(tcp) BY <1>3, Lives DEF Freed
<1>4. CASE Alive(tcp)
  <2>1. SocksSide(tcp) BY <1>4, SMTT(30) DEF Alive, Open, Closed, Leaving
  <2>2. QED BY <1>4, <2>1, SMTT(30) DEF Alive, Live, SocksSide, Closed, Leaving
<1>5. QED BY <1>1, <1>2, <1>3, <1>4

\* The invariant holds before the connection is accepted.
LEMMA InitInv == Init => IInv
<1> SUFFICES ASSUME Init PROVE IInv OBVIOUS
<1>1. NoClient \in ClientShape BY DEF NoClient, ClientShape
<1>2. TCP_WND \in Int BY SizesAssumption
<1>3. tcp.pcb \in PcbShape BY <1>2 DEF Init, PcbShape
<1>4. tcp.past \in PastShape BY DEF Init, PastShape
<1>5. tcp \in Shape BY <1>1, <1>3, <1>4, NoSocksShape, NoJobs DEF Init, Shape
<1>6. Fresh(tcp) BY DEF Init, Fresh
<1>7. QED BY <1>5, <1>6 DEF IInv

\* A step that leaves a client in order leaves the invariant.
LEMMA GoodInv == ASSUME Good(tcp') PROVE IInv'
BY DEF IInv, Good

\* Running a job keeps the invariant: jobs belong to a SOCKS client that exists.
LEMMA RunJobInv == IInv /\ RunJob => IInv'
<1> SUFFICES ASSUME IInv, RunJob PROVE Good(tcp') BY GoodInv
<1> DEFINE s == [tcp EXCEPT !.jobs = Tail(@)]
           j == Head(tcp.jobs)
<1>1. Live(tcp) BY Present DEF RunJob
<1>2. tcp \in Shape /\ SocksSide(tcp) /\ ~tcp.client.socks_closed BY <1>1, LiveFacts
<1>3. tcp.jobs \in Seq(Jobs) /\ NoDup(tcp.jobs) /\ tcp.jobs # <<>>
      /\ (BSmallPending_IsSet(tcp.jobs, "control") => tcp.socks.state \in Control)
  BY <1>2 DEF Shape, SocksSide, JobsOK, RunJob
<1>4. /\ j \in Jobs /\ Tail(tcp.jobs) \in Seq(Jobs) /\ NoDup(Tail(tcp.jobs))
      /\ \A y : BSmallPending_IsSet(Tail(tcp.jobs), y)
                <=> BSmallPending_IsSet(tcp.jobs, y) /\ y # j
      /\ BSmallPending_IsSet(tcp.jobs, j)
  BY <1>3, TailFacts
<1>5. tcp' \in job_handler(s, j) BY DEF RunJob
<1> HIDE DEF j
<1>6. s \in Shape /\ s.client = tcp.client /\ s.pcb = tcp.pcb /\ s.socks = tcp.socks
      /\ s.frame = tcp.frame /\ s.jobs = Tail(tcp.jobs)
  BY <1>2, <1>4, SMTT(30) DEF Shape
<1> HIDE DEF s
<1>7. JobsOK(s.jobs, s.socks.state) BY <1>3, <1>4, <1>6 DEF JobsOK
<1>8. SocksSide(s) BY <1>2, <1>6, <1>7 DEF SocksSide
<1>9. Live(s) BY <1>1, <1>2, <1>6, <1>8 DEF Live, Alive, Open, Closed, Leaving
<1>10. j = "control" => s.socks.state \in Control /\ ~BSmallPending_IsSet(s.jobs, "control")
  BY <1>3, <1>4, <1>6
<1>11. QED BY <1>4, <1>5, <1>9, <1>10, JobHandler

\* Events of the descriptors keep the invariant.
LEMMA FdInv == IInv /\ (ConnectorFd \/ ConnectionFd) => IInv'
<1> SUFFICES ASSUME IInv, ConnectorFd \/ ConnectionFd PROVE Good(tcp') BY GoodInv
<1>0. "NONE" \notin Control BY DEF Control, Continues
<1>1. CASE ConnectorFd BY <1>1, Present, ConnectorHandler DEF ConnectorFd
<1>2. CASE ConnectionFd
  <2>1. Live(tcp) /\ tcp.jobs = <<>> /\ tcp.socks.state \in Control \cup {"UP"}
    BY <1>0, <1>2, Present DEF ConnectionFd, Idle
  <2>2. PICK events : tcp' \in connection_fd_handler(tcp, events) BY <1>2 DEF ConnectionFd
  <2>3. QED BY <2>1, <2>2, FdHandler
<1>3. QED BY <1>1, <1>2

\* listener_accept_func establishes the invariant of a client.
LEMMA AcceptInv == IInv /\ Accept => IInv'
<1> SUFFICES ASSUME IInv, Accept PROVE Good(tcp') BY GoodInv
<1>1. Fresh(tcp) /\ tcp \in Shape BY Present DEF Accept, IInv
<1>2. PICK jobs \in {<<>>, <<"connector">>} :
        tcp' = DEAD_ENTER([tcp EXCEPT !.client.life = "alive", !.socks.state = "CONNECTING",
                                      !.jobs = jobs, !.pcb.err = TRUE, !.pcb.recv = TRUE])
  BY Zenon DEF Accept
<1> DEFINE c == [NoClient EXCEPT !.life = "alive", !.dead_aborted = "frame"]
           b == [tcp.pcb EXCEPT !.err = TRUE, !.recv = TRUE]
           k == [NoSocks EXCEPT !.state = "CONNECTING"]
<1>3. tcp' = [tcp EXCEPT !.client = c, !.socks = k, !.jobs = jobs, !.pcb = b, !.frame = 0]
  BY <1>1, <1>2, Zenon DEF DEAD_ENTER, Fresh, Shape
<1>4. c \in ClientShape
  <2>1. NoClient \in ClientShape BY DEF NoClient, ClientShape
  <2> HIDE DEF NoClient
  <2>2. QED BY <2>1, Zenon DEF ClientShape
<1>5. /\ c.life = "alive" /\ c.dead_aborted = "frame" /\ c.aborted = FALSE
      /\ c.client_closed = FALSE /\ c.socks_closed = FALSE /\ c.buf_used = 0
      /\ c.socks_recv_tcp_pending = 0
  BY DEF NoClient
<1>6. b \in PcbShape BY <1>1, Zenon DEF Shape, PcbShape
<1>7. /\ b.state = "OPEN" /\ b.err /\ b.recv /\ b.wnd = TCP_WND /\ b.unacked = 0
  BY <1>1 DEF Shape, PcbShape, Fresh
<1>8. k \in SocksShape /\ k.state = "CONNECTING"
  <2>1. "CONNECTING" \in States BY DEF States
  <2>2. QED BY <2>1, NoSocksShape DEF SocksShape
<1>9. jobs \in Seq(Jobs) /\ JobsOK(jobs, "CONNECTING")
  <2>1. CASE jobs = <<>> BY <2>1, NoJobs
  <2>2. CASE jobs = <<"connector">>
    BY <2>2 DEF JobsOK, NoDup, BSmallPending_IsSet, Jobs
  <2>3. QED BY <2>1, <2>2
<1> HIDE DEF c, b, k
<1> DEFINE t == tcp'
<1>10. t \in Shape /\ t.client = c /\ t.socks = k /\ t.jobs = jobs /\ t.pcb = b /\ t.frame = 0
  BY <1>1, <1>3, <1>4, <1>6, <1>8, <1>9, Zenon DEF Shape
<1> HIDE DEF t
<1>11. 0 # NULL BY SizesAssumption
<1>12. SocksSide(t) BY <1>5, <1>7, <1>8, <1>9, <1>10, <1>11 DEF SocksSide
<1>13. TCP_WND \in Int BY SizesAssumption
<1>14. Open(t) BY <1>5, <1>7, <1>10, <1>12, <1>13 DEF Open
<1>15. QED BY <1>10, <1>14 DEF Good, t

\* Replacing the pcb leaves the rest.
LEMMA PcbUpdate ==
  ASSUME NEW s \in Shape, NEW b \in PcbShape
  PROVE  LET t == [s EXCEPT !.pcb = b]
         IN  t \in Shape /\ t.client = s.client /\ t.socks = s.socks /\ t.jobs = s.jobs
             /\ t.frame = s.frame /\ t.pcb = b
BY DEF Shape

\* lwIP's callbacks keep the invariant: they are registered only while the client
\* has its pcb.
LEMMA AppInv == IInv /\ App => IInv'
<1> SUFFICES ASSUME IInv, App PROVE Good(tcp') BY GoodInv
<1>1. Alive(tcp) /\ Open(tcp) /\ tcp \in Shape /\ tcp.frame = NULL
  BY Present DEF App, AppData, AppFin, AppAck, AppErr, Idle, IInv
<1> DEFINE e == DEAD_ENTER(tcp)
<1>2. Alive(e) /\ Open(e) /\ e.pcb = tcp.pcb BY <1>1, Enter
<1>3. CASE AppData
  <2>1. PICK n \in Int : tcp' = client_recv_func(e, n) /\ e.pcb.recv
    BY <1>2, <1>3 DEF AppData
  <2> HIDE DEF e
  <2>2. QED BY <1>2, <2>1, RecvFunc
<1>4. CASE AppAck
  <2>1. PICK n \in Int : tcp' \in client_sent_func(e, n) BY <1>4 DEF AppAck
  <2> HIDE DEF e
  <2>2. QED BY <1>2, <2>1, SentFunc
<1>5. tcp.past \in PastShape /\ [tcp.past EXCEPT !.closed = TRUE] \in PastShape
  BY <1>1, Zenon DEF Shape, PastShape
<1> DEFINE p == [tcp.past EXCEPT !.closed = TRUE]
           v == [tcp EXCEPT !.past = p]
<1>6. v \in Shape /\ Open(v) /\ v.frame = NULL /\ v.pcb = tcp.pcb /\ v.client = tcp.client
      /\ v.socks = tcp.socks /\ v.jobs = tcp.jobs
  BY <1>1, <1>5, PastLemma, Zenon
<1>7. v = [tcp EXCEPT !.past.closed = TRUE] BY <1>1 DEF Shape
<1>8. CASE AppFin
  <2> HIDE DEF v
  <2> DEFINE w == DEAD_ENTER(v)
  <2>1. Alive(w) /\ Open(w) BY <1>6, Enter
  <2>2. tcp' \in client_free_client(w) BY <1>7, <1>8 DEF AppFin
  <2> HIDE DEF w
  <2>3. QED BY <2>1, <2>2, FreeClient DEF Alive, Open
<1>9. CASE AppErr
  <2> DEFINE b == [tcp.pcb EXCEPT !.state = "GONE"]
             w == [v EXCEPT !.pcb = b]
             r == NoCallbacks(w)
  <2>1. b \in PcbShape /\ b.state = "GONE" BY <1>1 DEF Shape, PcbShape
  <2>2. w = [tcp EXCEPT !.pcb.state = "GONE", !.past.closed = TRUE] BY <1>1, Zenon DEF Shape
  <2> HIDE DEF v, b
  <2>3. w \in Shape /\ w.client = v.client /\ w.socks = v.socks /\ w.jobs = v.jobs
        /\ w.frame = v.frame /\ w.pcb = b
    <3>1. v \in Shape /\ b \in PcbShape BY <1>6, <2>1
    <3>2. QED BY <3>1, PcbUpdate
  <2>4. tcp' = client_handle_freed_client(r) BY <1>9, <2>2 DEF AppErr
  <2> HIDE DEF w
  <2>5. r \in Shape /\ r.client = tcp.client /\ r.socks = tcp.socks /\ r.jobs = tcp.jobs
        /\ r.frame = tcp.frame /\ r.pcb.state = "GONE"
        /\ ~r.pcb.err /\ ~r.pcb.recv /\ ~r.pcb.sent
    <3>1. w \in Shape /\ w.client = tcp.client /\ w.socks = tcp.socks /\ w.jobs = tcp.jobs
          /\ w.frame = tcp.frame /\ w.pcb.state = "GONE"
      BY <1>1, <1>6, <2>1, <2>3
    <3>2. QED BY <3>1, NoCallbacksLemma
  <2> HIDE DEF r
  <2>6. SocksSide(r) BY <1>1, <2>5, SMTT(30) DEF SocksSide, Open
  <2>7. Leaving(r) BY <2>5, <2>6 DEF Leaving
  <2>8. QED BY <2>4, <2>5, <2>7, HandleFreed
<1>10. QED BY <1>3, <1>4, <1>8, <1>9 DEF App

\* DEAD_LEAVE2 keeps the invariant: only a client whose pcb was aborted is left
\* with a pointer into the frame of the callback.
LEMMA ReturnInv == IInv /\ Return => IInv'
<1> SUFFICES ASSUME IInv, Return PROVE Good(tcp') BY GoodInv
<1>1. tcp \in Shape /\ tcp.frame # NULL BY DEF IInv, Return
<1>2. Freed(tcp) \/ Alive(tcp) BY <1>1 DEF IInv, Fresh, Good, Alive
<1> DEFINE d == IF tcp.client.life # "alive" THEN tcp.client.dead_aborted
                ELSE IF tcp.frame = 0 THEN NULL ELSE "stale"
           c == [tcp.client EXCEPT !.dead_aborted = d]
           t == tcp'
<1>3. t = [tcp EXCEPT !.frame = NULL, !.client = c] BY <1>1 DEF Return, Shape
<1>4. tcp.client \in ClientShape BY <1>1 DEF Shape
<1>5. d \in {NULL, "frame", "stale"} BY <1>4 DEF ClientShape
<1>6. tcp.client.life # "alive" => c = tcp.client BY <1>4 DEF ClientShape
<1>7. tcp.client.life = "alive" => d = IF tcp.frame = 0 THEN NULL ELSE "stale" OBVIOUS
<1> HIDE DEF d
<1>8. /\ c \in ClientShape
      /\ c.life = tcp.client.life /\ c.aborted = tcp.client.aborted
      /\ c.dead_aborted = d /\ c.client_closed = tcp.client.client_closed
      /\ c.socks_closed = tcp.client.socks_closed /\ c.buf_used = tcp.client.buf_used
      /\ c.socks_recv_tcp_pending = tcp.client.socks_recv_tcp_pending
  BY <1>4, <1>5 DEF ClientShape
<1> HIDE DEF c
<1>9. t \in Shape /\ t.client = c /\ t.pcb = tcp.pcb /\ t.socks = tcp.socks /\ t.jobs = tcp.jobs
      /\ t.frame = NULL
  BY <1>1, <1>3, <1>8, Zenon DEF Shape
<1> HIDE DEF t
<1>10. CASE Freed(tcp)
  <2>1. tcp.client.life = "freed" BY <1>10, Lives DEF Freed
  <2>2. Freed(t) BY <1>6, <1>9, <1>10, <2>1 DEF Freed
  <2>3. QED BY <1>9, <2>2 DEF Good, t
<1>11. CASE Alive(tcp)
  <2>1. SocksSide(tcp) BY <1>11 DEF Alive, Open, Closed, Leaving
  <2>2. tcp.frame # 0 => tcp.client.aborted /\ tcp.client.client_closed
    <3>1. tcp.frame # 0 => tcp.frame = 1 BY <1>1, <2>1 DEF Shape, SocksSide
    <3>2. QED BY <1>1, <1>11, <2>1, <3>1, SMTT(30) DEF SocksSide, Alive, Open, Closed
  <2>3. d # "frame"
    BY <1>7, <2>1, SizesAssumption DEF SocksSide
  <2>4. d = "stale" => tcp.client.aborted /\ tcp.client.client_closed
    BY <1>7, <2>1, <2>2, SizesAssumption DEF SocksSide
  <2>5. SocksSide(t) BY <1>8, <1>9, <2>1, <2>3, <2>4 DEF SocksSide
  <2>6. QED BY <1>8, <1>9, <1>11, <2>5, SMTT(30) DEF Good, Alive, Open, Closed, Leaving, t
<1>12. QED BY <1>2, <1>10, <1>11

\* client_murder frees the client from any state.
LEMMA MurderInv == IInv /\ Murder => IInv'
<1> SUFFICES ASSUME IInv, Murder PROVE Good(tcp') BY GoodInv
<1>1. Alive(tcp) /\ tcp \in Shape BY Present DEF Murder, IInv
<1> DEFINE p == [tcp.past EXCEPT !.broken = TRUE, !.failed = TRUE]
           s == [tcp EXCEPT !.past = p]
<1>2. p \in PastShape
  <2>1. tcp.past \in PastShape BY <1>1 DEF Shape
  <2>2. QED BY <2>1, Zenon DEF PastShape
<1>3. s = [tcp EXCEPT !.past.broken = TRUE, !.past.failed = TRUE] BY <1>1, Zenon DEF Shape
<1> HIDE DEF p
<1>4. s \in Shape /\ (Open(s) \/ Closed(s)) BY <1>1, <1>2, PastLemma DEF Alive
<1>5. tcp' = client_murder(s) BY <1>3 DEF Murder
<1> HIDE DEF s
<1> DEFINE a == client_abort_pcb(NoCallbacks(s))
           t == IF s.client.client_closed THEN s ELSE [a EXCEPT !.client.client_closed = TRUE]
           f == IF t.client.socks_closed THEN t ELSE BSocksClient_Free(t)
           v == [f EXCEPT !.client.socks_closed = TRUE]
<1>6. t \in Shape /\ Leaving(t)
  <2>1. CASE s.client.client_closed BY <1>4, <2>1 DEF Open, Closed
  <2>2. CASE ~s.client.client_closed
    <3> DEFINE n == NoCallbacks(s)
    <3>1. Open(s) BY <1>4, <2>2 DEF Closed
    <3>2. n \in Shape /\ SocksSide(n) /\ ~n.client.client_closed /\ n.pcb.state = "OPEN"
          /\ ~n.pcb.err /\ ~n.pcb.recv /\ ~n.pcb.sent
      BY <1>4, <3>1, NoCallbacksLemma, SMTT(30) DEF Open, SocksSide
    <3> HIDE DEF n
    <3>3. a \in Shape /\ Leaving(a) BY <3>2, AbortPcb, Zenon DEF n
    <3> HIDE DEF a
    <3> DEFINE x == [a EXCEPT !.client.client_closed = TRUE]
    <3>4. x \in Shape /\ Leaving(x) BY <3>3, Zenon DEF Shape, ClientShape, Leaving, SocksSide
    <3>5. QED BY <2>2, <3>4
  <2>3. QED BY <2>1, <2>2
<1>7. client_murder(s) = client_dealloc(v) BY DEF client_murder
<1> HIDE DEF t
<1> DEFINE c == [t.client EXCEPT !.socks_closed = TRUE]
<1>8. /\ c \in ClientShape
      /\ c.life = t.client.life /\ c.aborted = t.client.aborted
      /\ c.dead_aborted = t.client.dead_aborted /\ c.client_closed = t.client.client_closed
      /\ c.socks_closed
  BY <1>6, Zenon DEF Shape, ClientShape
<1>9. f \in Shape /\ f.client = t.client /\ f.pcb = t.pcb /\ f.frame = t.frame
      /\ f.socks = NoSocks /\ f.jobs = <<>>
  <2>1. CASE t.client.socks_closed BY <1>6, <2>1, SMTT(30) DEF Leaving, SocksSide
  <2>2. CASE ~t.client.socks_closed
    BY <1>6, <2>2, NoSocksShape, NoJobs, Zenon DEF BSocksClient_Free, Shape
  <2>3. QED BY <2>1, <2>2, SMTT(30)
<1> HIDE DEF f
<1>10. v = [f EXCEPT !.client = c] BY <1>9 DEF Shape
<1> HIDE DEF c
<1>11. v \in Shape /\ v.client = c /\ v.pcb = t.pcb /\ v.frame = t.frame
       /\ v.socks = NoSocks /\ v.jobs = <<>>
  BY <1>8, <1>9, <1>10 DEF Shape
<1> HIDE DEF v
<1>12. SocksSide(v) BY <1>6, <1>8, <1>11, NoJobs, Lives DEF Leaving, SocksSide
<1>13. Leaving(v) BY <1>6, <1>11, <1>12 DEF Leaving
<1>14. QED BY <1>5, <1>7, <1>8, <1>11, <1>13, Dealloc DEF Good

\* The inductive invariant of a connection: in every reachable state of tun2socks'
\* client handlers the client is not there yet, has its pcb, drains its buffer to
\* SOCKS, or is freed, with everything the handlers rely on in each case.
THEOREM Inductive == Spec => []IInv
<1>1. Init => IInv BY InitInv
<1>2. IInv /\ [Next]_vars => IInv'
  <2> SUFFICES ASSUME IInv, [Next]_vars PROVE IInv' OBVIOUS
  <2>1. CASE Next
    BY <2>1, RunJobInv, FdInv, AcceptInv, AppInv, ReturnInv, MurderInv DEF Next
  <2>2. CASE UNCHANGED vars BY <2>2 DEF vars, IInv, Fresh, Good, Open, Closed, Freed, Leaving, SocksSide
  <2>3. QED BY <2>1, <2>2
<1>3. QED BY <1>1, <1>2, PTL DEF Spec

\* The inductive invariant implies Ownership.
LEMMA InvOwnership == IInv => Ownership
<1> SUFFICES ASSUME IInv PROVE Ownership OBVIOUS
<1>1. Fresh(tcp) \/ Freed(tcp) \/ Alive(tcp) BY DEF IInv, Good, Alive
<1>2. CASE Fresh(tcp) BY <1>2, Lives DEF Fresh, Ownership
<1>3. CASE Freed(tcp) BY <1>3, Lives DEF Freed, Ownership
<1>4. CASE Alive(tcp)
  <2>1. CASE Open(tcp) BY <2>1 DEF Open, SocksSide, Ownership
  <2>2. CASE Closed(tcp) BY <2>2, SMTT(30) DEF Closed, Leaving, SocksSide, Ownership
  <2>3. QED BY <1>4, <2>1, <2>2 DEF Alive
<1>5. QED BY <1>1, <1>2, <1>3, <1>4

\* The inductive invariant implies AbortReported.
LEMMA InvAbortReported == IInv => AbortReported
<1> SUFFICES ASSUME IInv PROVE AbortReported OBVIOUS
<1>1. Fresh(tcp) \/ Freed(tcp) \/ Alive(tcp) BY DEF IInv, Good, Alive
<1>2. NoClient.dead_aborted = NULL /\ [NoClient EXCEPT !.life = "freed"].dead_aborted = NULL
  BY DEF NoClient
<1>3. CASE Fresh(tcp) BY <1>2, <1>3, SizesAssumption DEF Fresh, AbortReported
<1>4. CASE Freed(tcp) BY <1>2, <1>4, SizesAssumption DEF Freed, AbortReported
<1>5. CASE Alive(tcp) BY <1>5, SMTT(30) DEF Alive, Open, Closed, Leaving, SocksSide, AbortReported
<1>6. QED BY <1>1, <1>3, <1>4, <1>5

\* The inductive invariant implies WindowFits.
LEMMA InvWindowFits == IInv => WindowFits
<1> SUFFICES ASSUME IInv PROVE WindowFits OBVIOUS
<1>1. CASE Fresh(tcp) BY <1>1 DEF Fresh, WindowFits
<1>2. CASE Good(tcp) BY <1>2 DEF Good, Open, Closed, Leaving, Freed, WindowFits
<1>3. QED BY <1>1, <1>2 DEF IInv

\* Whatever the sizes of the buffers and however much data flows: no callback, job
\* or SOCKS client outlives the tcp_client it points to (Ownership).
THEOREM OwnershipKept == Spec => []Ownership
BY Inductive, InvOwnership, PTL

\* A callback of lwIP returns ERR_ABRT exactly when its pcb was aborted, whatever
\* the jobs it has run did (AbortReported).
THEOREM AbortsKnown == Spec => []AbortReported
BY Inductive, InvAbortReported, PTL

\* client_recv_func never meets more data than client->buf holds, and pending data
\* is what lwIP has not confirmed (WindowFits).
THEOREM WindowKept == Spec => []WindowFits
BY Inductive, InvWindowFits, PTL
-----------------------------------------------------------------------------
\* The books of a connection: where every byte of its two ways is, and whether it is
\* moving.  TcpClientBooks shows that they always balance; here is what the handlers
\* on the SOCKS side do to them.

\* Whether job j is set.
IsSet(s, j) == BSmallPending_IsSet(s.jobs, j)

\* Bytes written to SOCKS, or read from it, that the client is yet to be told of.
JustSent(s) == IF IsSet(s, "send_done") THEN s.socks.sent_len ELSE 0
JustRead(s) == IF IsSet(s, "recv_done") THEN s.socks.recv_len ELSE 0

\* What was read from SOCKS and lwIP has not taken yet.
Unsent(c) ==
    IF c.socks_recv_buf_used > 0 THEN c.socks_recv_buf_used - c.socks_recv_buf_sent ELSE 0

\* The counters stay within their buffers.
Numbers(s) ==
    /\ s.client.buf_used \in 0..TCP_WND
    /\ s.client.socks_recv_buf_used \in -1..RECV_BUF
    /\ s.client.socks_recv_buf_sent \in 0..RECV_BUF
    /\ s.client.socks_recv_tcp_pending \in 0..TCP_SND_BUF
    /\ s.pcb.wnd \in 0..TCP_WND /\ s.pcb.unacked \in 0..TCP_SND_BUF
    /\ s.socks.len \in 0..TCP_WND /\ s.socks.sent_len \in 0..TCP_WND
    /\ s.socks.recv_len \in 0..RECV_BUF
    /\ s.past.taken \in 0..MaxUp /\ s.past.wrote \in 0..MaxUp
    /\ s.past.got \in 0..MaxDown /\ s.past.acked \in 0..MaxDown

\* What the jobs and the descriptor of a SOCKS client are for.
Plumbing(s) ==
    /\ NoDup(s.jobs)
    /\ s.client.socks_up <=> s.socks.state = "UP"
    /\ IsSet(s, "connector") => s.socks.state = "CONNECTING"
    /\ IsSet(s, "send_done") => s.socks.sent_len > 0
    /\ IsSet(s, "recv_done") => s.socks.recv_len > 0 /\ Head(s.jobs) = "recv_done"
    /\ s.socks.state = "CONNECTING" => s.socks.wait = {}
    /\ s.socks.state # "UP" =>
         /\ ~IsSet(s, "recv") /\ ~IsSet(s, "recv_job") /\ ~IsSet(s, "recv_done")
         /\ \A a, b \in s.socks.wait : a = b
         /\ s.jobs # <<>> => s.socks.wait = {}

\* The way to SOCKS, when n bytes were just written: the buffer holds what was
\* taken and not written, and is being written exactly when there is something in it.
SendSide(s, n) ==
    /\ ~s.past.broken
    /\ s.past.taken + n = s.past.wrote + s.client.buf_used
    /\ 0 <= n /\ n <= s.client.buf_used
    /\ s.socks.send = "BUSY" => n = 0 /\ 1 <= s.socks.len /\ s.socks.len <= s.client.buf_used
    /\ IF s.client.socks_up THEN s.client.buf_used > 0 <=> s.socks.send = "BUSY" \/ n > 0
       ELSE s.socks.send = "READY" /\ n = 0
    /\ IsSet(s, "send") => s.socks.send = "BUSY"
    /\ s.client.socks_up =>
         /\ "WRITE" \in s.socks.wait => s.socks.send = "BUSY"
         /\ IsSet(s, "send") => "WRITE" \notin s.socks.wait

\* The way from SOCKS, when n bytes were just read: what was read is confirmed,
\* queued in lwIP, left to be queued, or just read; what is left waits for a
\* confirmation, and otherwise SOCKS is read.
ReceiveSide(s, n) ==
    LET c == s.client
    IN  /\ s.past.got = s.past.acked + c.socks_recv_tcp_pending + Unsent(c) + n
        /\ c.socks_recv_tcp_pending = s.pcb.unacked
        /\ c.socks_recv_buf_used # -1 =>
             /\ c.socks_recv_waiting /\ c.socks_recv_buf_sent < c.socks_recv_buf_used
             /\ c.socks_recv_tcp_pending > 0
        /\ ~c.socks_up => /\ c.socks_recv_buf_used = -1 /\ c.socks_recv_tcp_pending = 0
                          /\ s.socks.recv = "READY" /\ n = 0
        /\ c.socks_up /\ ~c.socks_closed =>
             /\ s.socks.recv = "BUSY" => n = 0
             /\ c.socks_recv_buf_used = -1 <=> s.socks.recv = "BUSY" \/ n > 0
             /\ "READ" \in s.socks.wait => s.socks.recv = "BUSY"
             /\ IsSet(s, "recv") \/ IsSet(s, "recv_job") => "READ" \notin s.socks.wait
        /\ c.socks_closed => /\ c.socks_up /\ s.past.broken /\ n = 0
                             /\ c.socks_recv_buf_used > 0 \/ c.socks_recv_tcp_pending > 0
        /\ IsSet(s, "recv") \/ IsSet(s, "recv_job") => s.socks.recv = "BUSY"
        /\ ~(IsSet(s, "recv") /\ IsSet(s, "recv_job"))

\* How the pcb went.
Ends(s) ==
    /\ s.pcb.state = "CLOSED" /\ ~s.past.closed => s.past.acked = s.past.got
    /\ s.pcb.state = "ABORTED" => s.past.failed

\* Each way, as far as it still matters, and what a freed connection has delivered.
ToSocks(s) == ~s.client.socks_closed => Plumbing(s) /\ SendSide(s, JustSent(s))
FromSocks(s) == IF s.client.client_closed THEN Ends(s) ELSE ReceiveSide(s, JustRead(s))
Delivered(s) == Ends(s) /\ (~s.past.broken => s.past.wrote = s.past.taken)

\* The books of a connection, in each of its phases.
Books(s) ==
    /\ Numbers(s)
    /\ s.client.life = "none" =>
         s.past.taken = 0 /\ s.past.wrote = 0 /\ s.past.got = 0 /\ s.past.acked = 0 /\ ~s.past.broken
    /\ s.client.life = "alive" => ToSocks(s) /\ FromSocks(s)
    /\ s.client.life = "freed" => Delivered(s)

-----------------------------------------------------------------------------
\* Everything the books look at, but how the two sides stand, is the same.
SameData(s, t) ==
    /\ t.socks = s.socks /\ t.jobs = s.jobs
    /\ t.client.buf_used = s.client.buf_used
    /\ t.client.socks_up = s.client.socks_up /\ t.client.socks_closed = s.client.socks_closed
    /\ t.client.socks_recv_buf_used = s.client.socks_recv_buf_used
    /\ t.client.socks_recv_buf_sent = s.client.socks_recv_buf_sent
    /\ t.client.socks_recv_waiting = s.client.socks_recv_waiting
    /\ t.client.socks_recv_tcp_pending = s.client.socks_recv_tcp_pending
    /\ t.pcb.wnd = s.pcb.wnd /\ t.pcb.unacked = s.pcb.unacked
    /\ t.past.taken = s.past.taken /\ t.past.wrote = s.past.wrote
    /\ t.past.got = s.past.got /\ t.past.acked = s.past.acked
    /\ t.past.broken = s.past.broken

\* The books only look at the data.
LEMMA Same ==
  ASSUME NEW s, NEW t, SameData(s, t)
  PROVE  /\ Numbers(s) => Numbers(t)
         /\ ToSocks(s) => ToSocks(t)
         /\ ReceiveSide(s, JustRead(s)) => ReceiveSide(t, JustRead(t))
<1>1. Numbers(s) => Numbers(t) BY SMTT(30) DEF SameData, Numbers
<1>2. \A j : IsSet(t, j) <=> IsSet(s, j) BY SMTT(30) DEF SameData, IsSet
<1>3. JustSent(t) = JustSent(s) /\ JustRead(t) = JustRead(s)
  BY <1>2, SMTT(30) DEF SameData, JustSent, JustRead
<1>4. ToSocks(s) => ToSocks(t)
  <2>1. Plumbing(s) => Plumbing(t) BY <1>2, SMTT(30) DEF SameData, Plumbing
  <2>2. \A n : SendSide(s, n) => SendSide(t, n) BY <1>2, Zenon DEF SameData, SendSide
  <2>3. QED BY <1>3, <2>1, <2>2, Zenon DEF ToSocks, SameData
<1>5. ReceiveSide(s, JustRead(s)) => ReceiveSide(t, JustRead(t))
  BY <1>2, <1>3, Zenon DEF SameData, ReceiveSide, Unsent
<1>6. QED BY <1>1, <1>4, <1>5

\* Two steps that leave the data alone.
LEMMA SameTwice ==
  ASSUME NEW s, NEW t, NEW u, SameData(s, t), SameData(t, u)
  PROVE  SameData(s, u)
BY SMTT(30) DEF SameData

\* Unregistering the callbacks leaves the data alone.
LEMMA NoCallbacksSame ==
  ASSUME NEW s \in Shape
  PROVE  LET t == NoCallbacks(s)
         IN  /\ t \in Shape /\ t.client = s.client /\ t.past = s.past
             /\ t.pcb.state = s.pcb.state /\ SameData(s, t)
<1> DEFINE t == NoCallbacks(s)
<1>1. t.pcb = [s.pcb EXCEPT !.err = FALSE, !.recv = FALSE, !.sent = FALSE]
  BY Zenon DEF NoCallbacks, Shape
<1>2. t.pcb.wnd = s.pcb.wnd /\ t.pcb.unacked = s.pcb.unacked BY <1>1 DEF Shape, PcbShape
<1>3. t \in Shape /\ t.client = s.client /\ t.socks = s.socks /\ t.jobs = s.jobs
      /\ t.past = s.past /\ t.pcb.state = s.pcb.state
  BY NoCallbacksLemma
<1> HIDE DEF t
<1>4. SameData(s, t) BY <1>2, <1>3 DEF SameData
<1>5. QED BY <1>3, <1>4 DEF t

\* So does client_abort_pcb.
LEMMA AbortPcbSame ==
  ASSUME NEW s \in Shape
  PROVE  LET t == client_abort_pcb(s)
         IN  /\ t \in Shape /\ t.client.life = s.client.life
             /\ t.client.client_closed = s.client.client_closed
             /\ t.past = s.past /\ t.pcb.state = "ABORTED" /\ SameData(s, t)
<1> DEFINE c == [s.client EXCEPT !.aborted = TRUE]
           b == [s.pcb EXCEPT !.state = "ABORTED"]
           r == [s EXCEPT !.pcb.state = "ABORTED", !.client.aborted = TRUE]
           t == client_abort_pcb(s)
<1>1. c \in ClientShape /\ b \in PcbShape BY Zenon DEF Shape, ClientShape, PcbShape
<1>2. r = With(s, c, b) BY Zenon DEF Shape, With
<1>3. /\ c.life = s.client.life /\ c.client_closed = s.client.client_closed
      /\ c.buf_used = s.client.buf_used /\ c.socks_up = s.client.socks_up
      /\ c.socks_closed = s.client.socks_closed
      /\ c.socks_recv_buf_used = s.client.socks_recv_buf_used
      /\ c.socks_recv_buf_sent = s.client.socks_recv_buf_sent
      /\ c.socks_recv_waiting = s.client.socks_recv_waiting
      /\ c.socks_recv_tcp_pending = s.client.socks_recv_tcp_pending
  BY Zenon DEF Shape, ClientShape
<1>4. b.state = "ABORTED" /\ b.wnd = s.pcb.wnd /\ b.unacked = s.pcb.unacked
  BY Zenon DEF Shape, PcbShape
<1> HIDE DEF c, b
<1>6. t = DEAD_KILL_WITH(r, 1) BY DEF client_abort_pcb
<1> HIDE DEF r, t
<1>5. r \in Shape /\ r.client = c /\ r.pcb = b /\ r.socks = s.socks /\ r.jobs = s.jobs
      /\ r.past = s.past
  BY <1>1, <1>2, Replace
<1>7. t \in Shape /\ t.client = c /\ t.pcb = b /\ t.socks = s.socks /\ t.jobs = s.jobs
      /\ t.past = s.past
  BY <1>5, <1>6, KillShape, Zenon
<1>8. SameData(s, t) BY <1>3, <1>4, <1>7 DEF SameData
<1>9. QED BY <1>3, <1>4, <1>7, <1>8, SMTT(30) DEF t

\* And recording that lwIP has failed.
LEMMA FailedSame ==
  ASSUME NEW s \in Shape
  PROVE  LET t == [s EXCEPT !.past.failed = TRUE]
         IN  /\ t \in Shape /\ t.client = s.client /\ t.pcb = s.pcb
             /\ t.past.failed /\ t.past.closed = s.past.closed /\ SameData(s, t)
<1> DEFINE p == [s.past EXCEPT !.failed = TRUE]
           t == [s EXCEPT !.past.failed = TRUE]
<1>1. p \in PastShape BY Zenon DEF Shape, PastShape
<1>2. /\ p.failed /\ p.closed = s.past.closed /\ p.taken = s.past.taken
      /\ p.wrote = s.past.wrote /\ p.got = s.past.got /\ p.acked = s.past.acked
      /\ p.broken = s.past.broken
  BY Zenon DEF Shape, PastShape
<1>3. t = [s EXCEPT !.past = p] BY Zenon DEF Shape
<1> HIDE DEF p
<1>4. t \in Shape /\ t.client = s.client /\ t.pcb = s.pcb /\ t.socks = s.socks
      /\ t.jobs = s.jobs /\ t.past = p
  BY <1>1, <1>3, Zenon DEF Shape
<1> HIDE DEF t
<1>5. SameData(s, t) BY <1>2, <1>4 DEF SameData
<1>6. QED BY <1>2, <1>4, <1>5, Zenon DEF t

-----------------------------------------------------------------------------
\* The end of a client.

\* The numbers of a client that is not there, and of no SOCKS client.
LEMMA Zeros ==
  LET c == [NoClient EXCEPT !.life = "freed"]
  IN  /\ c.life = "freed" /\ c.buf_used = 0 /\ c.socks_recv_buf_used = -1
      /\ c.socks_recv_buf_sent = 0 /\ c.socks_recv_tcp_pending = 0
      /\ NoSocks.len = 0 /\ NoSocks.sent_len = 0 /\ NoSocks.recv_len = 0
BY DEF NoClient, NoSocks

\* The counters as numbers between bounds.
LEMMA Counts ==
  ASSUME NEW s, Numbers(s)
  PROVE  /\ TCP_WND \in Nat /\ TCP_SND_BUF \in Nat /\ RECV_BUF \in Nat
         /\ MaxUp \in Nat /\ MaxDown \in Nat
         /\ s.client.buf_used \in Nat /\ s.client.buf_used <= TCP_WND
         /\ s.client.socks_recv_buf_used \in Int
         /\ -1 <= s.client.socks_recv_buf_used /\ s.client.socks_recv_buf_used <= RECV_BUF
         /\ s.client.socks_recv_buf_sent \in Nat /\ s.client.socks_recv_buf_sent <= RECV_BUF
         /\ s.client.socks_recv_tcp_pending \in Nat
         /\ s.client.socks_recv_tcp_pending <= TCP_SND_BUF
         /\ s.pcb.wnd \in Nat /\ s.pcb.wnd <= TCP_WND
         /\ s.pcb.unacked \in Nat /\ s.pcb.unacked <= TCP_SND_BUF
         /\ s.past.taken \in Nat /\ s.past.taken <= MaxUp
         /\ s.past.wrote \in Nat /\ s.past.wrote <= MaxUp
         /\ s.past.got \in Nat /\ s.past.got <= MaxDown
         /\ s.past.acked \in Nat /\ s.past.acked <= MaxDown
BY SizesAssumption, SMTT(30) DEF Numbers

\* client_dealloc loses nothing that was not lost before.
LEMMA DeallocBooks ==
  ASSUME NEW s \in Shape, Numbers(s), Delivered(s)
  PROVE  Books(client_dealloc(s)) /\ ~ClientUp(client_dealloc(s))
<1> DEFINE r == IF s.client.aborted THEN s ELSE DEAD_KILL_WITH(s, -1)
           c == [NoClient EXCEPT !.life = "freed"]
           t == client_dealloc(s)
<1>1. r \in Shape /\ r.pcb = s.pcb /\ r.socks = s.socks /\ r.past = s.past
  BY KillShape
<1> HIDE DEF r
<1>2. t = [r EXCEPT !.client = c] BY DEF client_dealloc, r
<1>3. c.life = "freed" /\ c.buf_used = 0 /\ c.socks_recv_buf_used = -1
      /\ c.socks_recv_buf_sent = 0 /\ c.socks_recv_tcp_pending = 0
  BY Zeros
<1> HIDE DEF c, t
<1>4. t.client = c /\ t.pcb = s.pcb /\ t.socks = s.socks /\ t.past = s.past
  BY <1>1, <1>2, Zenon DEF Shape
<1>5. Numbers(t) BY <1>3, <1>4, SizesAssumption, SMTT(30) DEF Numbers
<1>6. Delivered(t) BY <1>4 DEF Delivered, Ends
<1>7. QED BY <1>3, <1>4, <1>5, <1>6, SMTT(30) DEF Books, ClientUp, t

\* What the first half of client_free_socks leaves.
LEMMA SocksFreedParts ==
  ASSUME NEW s \in Shape
  PROVE  LET t == SocksFreed(s)
         IN  /\ t \in Shape /\ t.socks = NoSocks /\ t.jobs = <<>> /\ t.past = s.past
             /\ t.client = [s.client EXCEPT !.socks_closed = TRUE]
             /\ t.pcb.state = s.pcb.state /\ t.pcb.wnd = s.pcb.wnd
             /\ t.pcb.unacked = s.pcb.unacked
<1> DEFINE r == IF s.client.socks_up /\ ~s.client.client_closed
                THEN [s EXCEPT !.pcb.recv = FALSE] ELSE s
           c == [s.client EXCEPT !.socks_closed = TRUE]
           b == [s.pcb EXCEPT !.recv = FALSE]
           t == SocksFreed(s)
<1>1. b \in PcbShape /\ c \in ClientShape BY Zenon DEF Shape, PcbShape, ClientShape
<1>2. b.state = s.pcb.state /\ b.wnd = s.pcb.wnd /\ b.unacked = s.pcb.unacked
  BY Zenon DEF Shape, PcbShape
<1>3. r = s \/ r = [s EXCEPT !.pcb = b] BY Zenon DEF Shape
<1> HIDE DEF b
<1>4. r \in Shape /\ r.client = s.client /\ r.past = s.past /\ (r.pcb = s.pcb \/ r.pcb = b)
  BY <1>1, <1>3, Zenon DEF Shape
<1>5. t = [[r EXCEPT !.socks = NoSocks, !.jobs = <<>>] EXCEPT !.client.socks_closed = TRUE]
  BY DEF SocksFreed, BSocksClient_Free
<1> HIDE DEF r, t
<1>6. t = [r EXCEPT !.socks = NoSocks, !.jobs = <<>>, !.client = c]
  BY <1>4, <1>5, Zenon DEF Shape
<1> HIDE DEF c
<1>7. t \in Shape /\ t.socks = NoSocks /\ t.jobs = <<>> /\ t.past = s.past /\ t.client = c
      /\ t.pcb = r.pcb
  BY <1>1, <1>4, <1>6, NoSocksShape, NoJobs, Zenon DEF Shape
<1>8. QED BY <1>2, <1>4, <1>7 DEF c, t

\* Without a SOCKS client the numbers are in range too.
LEMMA SocksFreedNumbers ==
  ASSUME NEW s \in Shape, Numbers(s)
  PROVE  LET t == SocksFreed(s)
             c == s.client
         IN  /\ Numbers(t) /\ t.client.life = c.life /\ t.client.client_closed = c.client_closed
             /\ t.client.buf_used = c.buf_used /\ t.client.socks_up = c.socks_up
             /\ t.client.socks_closed
             /\ t.client.socks_recv_buf_used = c.socks_recv_buf_used
             /\ t.client.socks_recv_buf_sent = c.socks_recv_buf_sent
             /\ t.client.socks_recv_waiting = c.socks_recv_waiting
             /\ t.client.socks_recv_tcp_pending = c.socks_recv_tcp_pending
<1> DEFINE t == SocksFreed(s)
           c == [s.client EXCEPT !.socks_closed = TRUE]
<1>1. t.socks = NoSocks /\ t.past = s.past /\ t.client = c
      /\ t.pcb.wnd = s.pcb.wnd /\ t.pcb.unacked = s.pcb.unacked
  BY SocksFreedParts
<1>2. /\ c.life = s.client.life /\ c.client_closed = s.client.client_closed
      /\ c.buf_used = s.client.buf_used /\ c.socks_up = s.client.socks_up
      /\ c.socks_closed
      /\ c.socks_recv_buf_used = s.client.socks_recv_buf_used
      /\ c.socks_recv_buf_sent = s.client.socks_recv_buf_sent
      /\ c.socks_recv_waiting = s.client.socks_recv_waiting
      /\ c.socks_recv_tcp_pending = s.client.socks_recv_tcp_pending
  BY Zenon DEF Shape, ClientShape
<1> HIDE DEF t, c
<1>3. Numbers(t) BY <1>1, <1>2, Zeros, SizesAssumption DEF Numbers
<1>4. QED BY <1>1, <1>2, <1>3 DEF t

\* client_handle_freed_client: what is buffered is still to be written, or there is
\* nothing, or SOCKS has broken.
LEMMA HandleFreedBooks ==
  ASSUME NEW s \in Shape, s.client.life = "alive", Numbers(s), Ends(s), ToSocks(s),
         s.client.socks_closed => s.past.broken
  PROVE  Books(client_handle_freed_client(s)) /\ ~ClientUp(client_handle_freed_client(s))
<1> DEFINE c == [s.client EXCEPT !.client_closed = TRUE]
           t == [s EXCEPT !.client.client_closed = TRUE]
<1>1. c \in ClientShape BY Zenon DEF Shape, ClientShape
<1>2. /\ c.life = s.client.life /\ c.client_closed
      /\ c.buf_used = s.client.buf_used /\ c.socks_up = s.client.socks_up
      /\ c.socks_closed = s.client.socks_closed
      /\ c.socks_recv_buf_used = s.client.socks_recv_buf_used
      /\ c.socks_recv_buf_sent = s.client.socks_recv_buf_sent
      /\ c.socks_recv_waiting = s.client.socks_recv_waiting
      /\ c.socks_recv_tcp_pending = s.client.socks_recv_tcp_pending
  BY Zenon DEF Shape, ClientShape
<1>3. t = [s EXCEPT !.client = c] BY Zenon DEF Shape
<1> HIDE DEF c
<1>4. t \in Shape /\ t.client = c /\ t.pcb = s.pcb /\ t.socks = s.socks /\ t.jobs = s.jobs
      /\ t.past = s.past
  BY <1>1, <1>3, Zenon DEF Shape
<1> HIDE DEF t
<1>5. SameData(s, t) BY <1>2, <1>4, SMTT(30) DEF SameData
<1>6. Numbers(t) /\ ToSocks(t) /\ Ends(t) BY <1>4, <1>5, Same, SMTT(30) DEF Ends
<1>7. CASE t.client.buf_used > 0 /\ ~t.client.socks_closed
  <2>1. client_handle_freed_client(s) = t BY <1>7 DEF client_handle_freed_client, t
  <2>2. QED BY <1>2, <1>4, <1>6, <2>1, SMTT(30) DEF Books, FromSocks, ClientUp
<1>8. CASE ~(t.client.buf_used > 0 /\ ~t.client.socks_closed)
  <2> DEFINE u == IF t.client.socks_closed THEN t ELSE SocksFreed(t)
  <2>1. client_handle_freed_client(s) = client_dealloc(u)
    BY <1>8 DEF client_handle_freed_client, t
  <2>2. u \in Shape /\ Numbers(u) /\ u.past = t.past /\ u.pcb.state = t.pcb.state
    BY <1>4, <1>6, SocksFreedParts, SocksFreedNumbers, Zenon
  <2> HIDE DEF u
  <2>3. ~t.past.broken => t.past.wrote = t.past.taken
    <3>1. CASE s.client.socks_closed BY <1>4, <3>1
    <3>2. CASE ~s.client.socks_closed
      <4>1. SendSide(t, JustSent(t)) BY <1>2, <1>4, <1>6, <3>2, SMTT(30) DEF ToSocks
      <4>2. JustSent(t) \in Int BY <1>6, SMTT(30) DEF JustSent, Numbers
      <4>3. t.client.buf_used = 0 BY <1>2, <1>4, <1>6, <1>8, <3>2, SMTT(30) DEF Numbers
      <4>4. QED BY <1>6, <4>1, <4>2, <4>3, SMTT(30) DEF SendSide, Numbers
    <3>3. QED BY <3>1, <3>2
  <2>4. Delivered(u) BY <1>6, <2>2, <2>3, SMTT(30) DEF Delivered, Ends
  <2>5. QED BY <2>1, <2>2, <2>4, DeallocBooks, SMTT(30)
<1>9. QED BY <1>7, <1>8

\* client_abort_client, after lwIP has failed.
LEMMA AbortClientBooks ==
  ASSUME NEW s \in Shape, s.client.life = "alive", Numbers(s), ToSocks(s), s.past.failed,
         s.client.socks_closed => s.past.broken
  PROVE  Books(client_abort_client(s)) /\ ~ClientUp(client_abort_client(s))
<1> DEFINE n == NoCallbacks(s)
           t == client_abort_pcb(n)
<1>1. n \in Shape /\ n.client = s.client /\ n.past = s.past /\ SameData(s, n)
  BY NoCallbacksSame
<1> HIDE DEF n
<1>2. t \in Shape /\ t.client.life = n.client.life /\ t.past = n.past
      /\ t.pcb.state = "ABORTED" /\ SameData(n, t)
  BY <1>1, AbortPcbSame
<1>3. client_abort_client(s) = client_handle_freed_client(t) BY DEF client_abort_client, n
<1> HIDE DEF t
<1>4. SameData(s, t) BY <1>1, <1>2, SameTwice, SMTT(30)
<1>5. Numbers(t) /\ ToSocks(t) /\ t.client.socks_closed = s.client.socks_closed
  BY <1>4, Same, SMTT(30) DEF SameData
<1>6. Ends(t) BY <1>1, <1>2 DEF Ends
<1>7. QED BY <1>1, <1>2, <1>3, <1>5, <1>6, HandleFreedBooks, SMTT(30)

\* client_free_client, when the application has closed or has all that was read.
LEMMA FreeClientBooks ==
  ASSUME NEW s \in Shape, s.client.life = "alive", Numbers(s), ToSocks(s),
         s.client.socks_closed => s.past.broken,
         s.past.closed \/ s.past.acked = s.past.got,
         NEW u \in client_free_client(s)
  PROVE  Books(u)
<1> DEFINE t == NoCallbacks(s)
<1>1. t \in Shape /\ t.client = s.client /\ t.past = s.past /\ SameData(s, t)
  BY NoCallbacksSame
<1>2. \/ u = client_handle_freed_client([t EXCEPT !.pcb.state = "CLOSED"])
      \/ u = client_handle_freed_client(client_abort_pcb([t EXCEPT !.past.failed = TRUE]))
  BY DEF client_free_client
<1> HIDE DEF t
<1>3. CASE u = client_handle_freed_client([t EXCEPT !.pcb.state = "CLOSED"])
  <2> DEFINE b == [t.pcb EXCEPT !.state = "CLOSED"]
             v == [t EXCEPT !.pcb.state = "CLOSED"]
  <2>1. b \in PcbShape /\ b.state = "CLOSED" /\ b.wnd = t.pcb.wnd /\ b.unacked = t.pcb.unacked
    BY <1>1, Zenon DEF Shape, PcbShape
  <2>2. v = [t EXCEPT !.pcb = b] BY <1>1, Zenon DEF Shape
  <2> HIDE DEF b
  <2>3. v \in Shape /\ v.client = t.client /\ v.pcb = b /\ v.socks = t.socks
        /\ v.jobs = t.jobs /\ v.past = t.past
    BY <1>1, <2>1, <2>2, Zenon DEF Shape
  <2> HIDE DEF v
  <2>4. SameData(t, v) BY <2>1, <2>3, SMTT(30) DEF SameData
  <2>5. SameData(s, v) BY <1>1, <2>4, SameTwice
  <2>6. Numbers(v) /\ ToSocks(v) BY <2>5, Same
  <2>7. Ends(v) BY <1>1, <2>1, <2>3, SMTT(30) DEF Ends
  <2>8. QED BY <1>1, <1>3, <2>3, <2>6, <2>7, HandleFreedBooks, Zenon DEF v
<1>4. CASE u = client_handle_freed_client(client_abort_pcb([t EXCEPT !.past.failed = TRUE]))
  <2> DEFINE f == [t EXCEPT !.past.failed = TRUE]
             v == client_abort_pcb(f)
  <2>1. f \in Shape /\ f.client = t.client /\ f.past.failed /\ SameData(t, f)
    BY <1>1, FailedSame
  <2> HIDE DEF f
  <2>2. v \in Shape /\ v.client.life = f.client.life /\ v.past = f.past
        /\ v.pcb.state = "ABORTED" /\ SameData(f, v)
    BY <2>1, AbortPcbSame, SMTT(30)
  <2> HIDE DEF v
  <2>3. SameData(s, v) BY <1>1, <2>1, <2>2, SameTwice, Zenon
  <2>4. Numbers(v) /\ ToSocks(v) /\ v.client.socks_closed = s.client.socks_closed
        /\ v.past.broken = s.past.broken
    BY <2>3, Same, SMTT(30) DEF SameData
  <2>5. Ends(v) BY <2>1, <2>2, SMTT(30) DEF Ends
  <2>6. QED BY <1>1, <1>4, <2>1, <2>2, <2>4, <2>5, HandleFreedBooks DEF v, f
<1>5. QED BY <1>2, <1>3, <1>4

\* What was read from SOCKS is accounted for, whether or not reading goes on.
Account(s) ==
    LET c == s.client
    IN  /\ s.past.got = s.past.acked + c.socks_recv_tcp_pending + Unsent(c)
        /\ c.socks_recv_tcp_pending = s.pcb.unacked
        /\ c.socks_recv_buf_used # -1 =>
             /\ c.socks_recv_waiting /\ c.socks_recv_buf_sent < c.socks_recv_buf_used
             /\ c.socks_recv_tcp_pending > 0
        /\ ~c.socks_up => c.socks_recv_buf_used = -1 /\ c.socks_recv_tcp_pending = 0

\* client_free_socks, when SOCKS has broken or all has been written.
LEMMA FreeSocksBooks ==
  ASSUME NEW s \in Shape, s.client.life = "alive", Numbers(s),
         s.client.client_closed => Delivered(s),
         ~s.client.client_closed => s.past.broken /\ Account(s),
         NEW u \in client_free_socks(s)
  PROVE  Books(u)
<1> DEFINE t == SocksFreed(s)
<1>1. t \in Shape /\ t.socks = NoSocks /\ t.jobs = <<>> /\ t.past = s.past
      /\ t.pcb.state = s.pcb.state /\ t.pcb.unacked = s.pcb.unacked
  BY SocksFreedParts, Zenon
<1>2. /\ Numbers(t) /\ t.client.life = s.client.life
      /\ t.client.client_closed = s.client.client_closed
      /\ t.client.buf_used = s.client.buf_used /\ t.client.socks_up = s.client.socks_up
      /\ t.client.socks_closed
      /\ t.client.socks_recv_buf_used = s.client.socks_recv_buf_used
      /\ t.client.socks_recv_buf_sent = s.client.socks_recv_buf_sent
      /\ t.client.socks_recv_waiting = s.client.socks_recv_waiting
      /\ t.client.socks_recv_tcp_pending = s.client.socks_recv_tcp_pending
  BY SocksFreedNumbers, SMTT(30)
<1>3. \/ t.client.client_closed /\ u = client_dealloc(t)
      \/ /\ ~t.client.client_closed /\ t.client.socks_up /\ u = t
         /\ t.client.socks_recv_buf_used >= 0 \/ t.client.socks_recv_tcp_pending > 0
      \/ /\ ~t.client.client_closed /\ u \in client_free_client(t)
         /\ t.client.socks_up =>
              ~(t.client.socks_recv_buf_used >= 0 \/ t.client.socks_recv_tcp_pending > 0)
  BY SMTT(30) DEF client_free_socks
<1> HIDE DEF t
<1>4. ToSocks(t) BY <1>2, SMTT(30) DEF ToSocks
<1>5. CASE t.client.client_closed /\ u = client_dealloc(t)
  <2>1. Delivered(t) BY <1>1, <1>2, <1>5, SMTT(30) DEF Delivered, Ends
  <2>2. QED BY <1>1, <1>2, <1>5, <2>1, DeallocBooks, SMTT(30)
<1>6. CASE /\ ~t.client.client_closed /\ t.client.socks_up /\ u = t
           /\ t.client.socks_recv_buf_used >= 0 \/ t.client.socks_recv_tcp_pending > 0
  <2>1. \A j : ~IsSet(t, j) BY <1>1 DEF IsSet, BSmallPending_IsSet
  <2>2. JustRead(t) = 0 BY <2>1 DEF JustRead
  <2>3. ReceiveSide(t, 0)
    <3>1. s.past.broken /\ Account(s) BY <1>2, <1>6, SMTT(30)
    <3>2. Unsent(t.client) = Unsent(s.client) /\ Unsent(s.client) \in Int
      BY <1>2, SMTT(30) DEF Unsent, Numbers
    <3>3. /\ t.past.got = t.past.acked + t.client.socks_recv_tcp_pending + Unsent(t.client) + 0
          /\ t.client.socks_recv_tcp_pending = t.pcb.unacked
      BY <1>1, <1>2, <3>1, <3>2, SMTT(30) DEF Account, Numbers
    <3>4. t.client.socks_recv_buf_used > 0 \/ t.client.socks_recv_tcp_pending > 0
      BY <1>2, <1>6, <3>1, SMTT(30) DEF Account, Numbers
    <3>5. QED BY <1>1, <1>2, <1>6, <2>1, <3>1, <3>3, <3>4, SMTT(30) DEF ReceiveSide, Account
  <2>4. QED BY <1>2, <1>4, <1>6, <2>2, <2>3, SMTT(30) DEF Books, FromSocks
<1>7. CASE /\ ~t.client.client_closed /\ u \in client_free_client(t)
           /\ t.client.socks_up =>
                ~(t.client.socks_recv_buf_used >= 0 \/ t.client.socks_recv_tcp_pending > 0)
  <2>1. t.past.acked = t.past.got
    BY <1>1, <1>2, <1>7, SMTT(30) DEF Account, Unsent, Numbers
  <2>2. QED BY <1>1, <1>2, <1>4, <1>7, <2>1, FreeClientBooks, SMTT(30)
<1>8. QED BY <1>3, <1>5, <1>6, <1>7, SMTT(30)

-----------------------------------------------------------------------------
\* Moving data.

\* SetJob puts a job in front and leaves the rest.
LEMMA SetJobParts ==
  ASSUME NEW s \in Shape, NoDup(s.jobs), NEW j \in Jobs
  PROVE  LET t == SetJob(s, j)
         IN  /\ t \in Shape /\ t.client = s.client /\ t.pcb = s.pcb /\ t.socks = s.socks
             /\ t.past = s.past /\ NoDup(t.jobs) /\ t.jobs # <<>> /\ Head(t.jobs) = j
             /\ \A y : IsSet(t, y) <=> IsSet(s, y) \/ y = j
<1> DEFINE u == LinkedList1_Remove(s.jobs, j)
           r == <<j>> \o u
           t == SetJob(s, j)
<1>1. s.jobs \in Seq(Jobs) BY DEF Shape
<1>2. /\ u \in Seq(Jobs) /\ NoDup(u)
      /\ \A y : BSmallPending_IsSet(u, y) <=> BSmallPending_IsSet(s.jobs, y) /\ y # j
  BY <1>1, RemoveFacts
<1> HIDE DEF u
<1>3. /\ r \in Seq(Jobs) /\ NoDup(r) /\ Len(r) = Len(u) + 1 /\ r[1] = j
      /\ \A y : BSmallPending_IsSet(r, y) <=> BSmallPending_IsSet(u, y) \/ y = j
  BY <1>2, PrependFacts
<1> HIDE DEF r
<1>4. r # <<>> /\ Head(r) = j BY <1>2, <1>3
<1>5. t = [s EXCEPT !.jobs = r] BY DEF SetJob, BSmallPending_Set, r, u
<1>6. t \in Shape /\ t.client = s.client /\ t.pcb = s.pcb /\ t.socks = s.socks
      /\ t.past = s.past /\ t.jobs = r
  BY <1>3, <1>5, Zenon DEF Shape
<1> HIDE DEF t
<1>7. \A y : IsSet(t, y) <=> IsSet(s, y) \/ y = j BY <1>2, <1>3, <1>6 DEF IsSet
<1>8. QED BY <1>3, <1>4, <1>6, <1>7 DEF t

\* What SendSide and ReceiveSide look at is the same.
SameSend(s, t) ==
    /\ t.client.buf_used = s.client.buf_used /\ t.client.socks_up = s.client.socks_up
    /\ t.past.taken = s.past.taken /\ t.past.wrote = s.past.wrote
    /\ t.past.broken = s.past.broken
    /\ t.socks.send = s.socks.send /\ t.socks.len = s.socks.len
    /\ t.socks.sent_len = s.socks.sent_len
    /\ "WRITE" \in t.socks.wait <=> "WRITE" \in s.socks.wait
    /\ IsSet(t, "send") <=> IsSet(s, "send")
    /\ IsSet(t, "send_done") <=> IsSet(s, "send_done")
SameReceive(s, t) ==
    /\ t.client.socks_up = s.client.socks_up /\ t.client.socks_closed = s.client.socks_closed
    /\ t.client.socks_recv_buf_used = s.client.socks_recv_buf_used
    /\ t.client.socks_recv_buf_sent = s.client.socks_recv_buf_sent
    /\ t.client.socks_recv_waiting = s.client.socks_recv_waiting
    /\ t.client.socks_recv_tcp_pending = s.client.socks_recv_tcp_pending
    /\ t.pcb.unacked = s.pcb.unacked
    /\ t.past.got = s.past.got /\ t.past.acked = s.past.acked /\ t.past.broken = s.past.broken
    /\ t.socks.recv = s.socks.recv /\ t.socks.recv_len = s.socks.recv_len
    /\ "READ" \in t.socks.wait <=> "READ" \in s.socks.wait
    /\ IsSet(t, "recv") <=> IsSet(s, "recv")
    /\ IsSet(t, "recv_job") <=> IsSet(s, "recv_job")
    /\ IsSet(t, "recv_done") <=> IsSet(s, "recv_done")

\* The way to SOCKS does not depend on the way from it, and conversely.
LEMMA SameSides ==
  ASSUME NEW s, NEW t
  PROVE  /\ SameSend(s, t) /\ SendSide(s, JustSent(s)) => SendSide(t, JustSent(t))
         /\ SameReceive(s, t) /\ ReceiveSide(s, JustRead(s)) => ReceiveSide(t, JustRead(t))
<1>1. SameSend(s, t) => JustSent(t) = JustSent(s) BY DEF SameSend, JustSent
<1>2. SameReceive(s, t) => JustRead(t) = JustRead(s) BY DEF SameReceive, JustRead
<1>3. SameSend(s, t) /\ SendSide(s, JustSent(s)) => SendSide(t, JustSent(t))
  BY <1>1, SMTT(30) DEF SameSend, SendSide
<1>4. SameReceive(s, t) /\ ReceiveSide(s, JustRead(s)) => ReceiveSide(t, JustRead(t))
  BY <1>2, SMTT(30) DEF SameReceive, ReceiveSide, Unsent
<1>5. QED BY <1>3, <1>4

\* Nothing is being written.
Unsaid(s) ==
    /\ ~s.past.broken /\ s.past.taken = s.past.wrote + s.client.buf_used
    /\ s.socks.send = "READY" /\ "WRITE" \notin s.socks.wait
    /\ ~IsSet(s, "send") /\ ~IsSet(s, "send_done")

\* Nothing is being read, and nothing that was read is left.
Unread(s) ==
    /\ s.client.socks_up /\ ~s.client.socks_closed /\ s.client.socks_recv_buf_used = -1
    /\ s.past.got = s.past.acked + s.client.socks_recv_tcp_pending
    /\ s.client.socks_recv_tcp_pending = s.pcb.unacked
    /\ s.socks.recv # "BUSY" /\ "READ" \notin s.socks.wait
    /\ ~IsSet(s, "recv") /\ ~IsSet(s, "recv_job") /\ ~IsSet(s, "recv_done")

\* Nothing is being written and there is nothing to write.
LEMMA NothingToSend ==
  ASSUME NEW s, Numbers(s), Unsaid(s), ~s.client.socks_up \/ s.client.buf_used = 0
  PROVE  SendSide(s, JustSent(s))
<1>1. JustSent(s) = 0 BY DEF JustSent, Unsaid
<1>2. SendSide(s, 0) BY SMTT(30) DEF Numbers, Unsaid, SendSide
<1>3. QED BY <1>1, <1>2, SMTT(30)

\* client_send_to_socks: the buffer is being written.
LEMMA SendToSocksBooks ==
  ASSUME NEW s \in Shape, Numbers(s), Plumbing(s), Unsaid(s), s.client.socks_up,
         s.client.buf_used > 0, ~IsSet(s, "recv_done")
  PROVE  LET t == client_send_to_socks(s)
         IN  /\ t \in Shape /\ t.client = s.client /\ t.pcb = s.pcb /\ t.past = s.past
             /\ Numbers(t) /\ Plumbing(t) /\ SendSide(t, JustSent(t)) /\ SameReceive(s, t)
<1> DEFINE k == [s.socks EXCEPT !.send = "BUSY", !.len = s.client.buf_used]
           r == [s EXCEPT !.socks.send = "BUSY", !.socks.len = s.client.buf_used]
           t == client_send_to_socks(s)
<1>1. k \in SocksShape BY Zenon DEF Shape, SocksShape, ClientShape
<1>2. /\ k.state = s.socks.state /\ k.send = "BUSY" /\ k.recv = s.socks.recv
      /\ k.len = s.client.buf_used /\ k.sent_len = s.socks.sent_len
      /\ k.recv_len = s.socks.recv_len /\ k.wait = s.socks.wait
  BY Zenon DEF Shape, SocksShape
<1>3. r = [s EXCEPT !.socks = k] BY Zenon DEF Shape
<1> HIDE DEF k
<1>4. r \in Shape /\ r.client = s.client /\ r.pcb = s.pcb /\ r.socks = k /\ r.jobs = s.jobs
      /\ r.past = s.past
  BY <1>1, <1>3, Zenon DEF Shape
<1>5. t = SetJob(r, "send") BY DEF client_send_to_socks, StreamPassInterface_Sender_Send
<1> HIDE DEF r, t
<1>6. NoDup(r.jobs) /\ "send" \in Jobs BY <1>4, SMTT(30) DEF Plumbing, Jobs
<1>7. /\ t \in Shape /\ t.client = r.client /\ t.pcb = r.pcb /\ t.socks = r.socks
      /\ t.past = r.past /\ NoDup(t.jobs)
      /\ \A y : IsSet(t, y) <=> IsSet(r, y) \/ y = "send"
  BY <1>4, <1>5, <1>6, SetJobParts, Zenon
<1>8. \A y : IsSet(t, y) <=> IsSet(s, y) \/ y = "send" BY <1>4, <1>7, SMTT(30) DEF IsSet
<1>9. t.client = s.client /\ t.pcb = s.pcb /\ t.past = s.past /\ t.socks = k
  BY <1>4, <1>7
<1>10. Numbers(t) BY <1>2, <1>9, SMTT(30) DEF Numbers
<1>11. Plumbing(t) BY <1>2, <1>7, <1>8, <1>9, SMTT(30) DEF Plumbing
<1>12. JustSent(t) = 0 BY <1>8, SMTT(30) DEF JustSent, Unsaid
<1>13. SendSide(t, 0) BY <1>2, <1>8, <1>9, SMTT(30) DEF SendSide, Unsaid, Numbers
<1>14. SameReceive(s, t) BY <1>2, <1>8, <1>9, Zenon DEF SameReceive
<1>15. QED BY <1>7, <1>9, <1>10, <1>11, <1>12, <1>13, <1>14, SMTT(30) DEF t

\* client_socks_recv_initiate: SOCKS is being read.
LEMMA RecvInitiateBooks ==
  ASSUME NEW s \in Shape, s.client.life = "alive", ~s.client.client_closed, Numbers(s),
         ToSocks(s), Unread(s)
  PROVE  Books(client_socks_recv_initiate(s))
<1> DEFINE k == [s.socks EXCEPT !.recv = "BUSY"]
           r == [s EXCEPT !.socks.recv = "BUSY"]
           t == client_socks_recv_initiate(s)
<1>1. k \in SocksShape BY Zenon DEF Shape, SocksShape
<1>2. /\ k.state = s.socks.state /\ k.send = s.socks.send /\ k.recv = "BUSY"
      /\ k.len = s.socks.len /\ k.sent_len = s.socks.sent_len
      /\ k.recv_len = s.socks.recv_len /\ k.wait = s.socks.wait
  BY Zenon DEF Shape, SocksShape
<1>3. r = [s EXCEPT !.socks = k] BY Zenon DEF Shape
<1> HIDE DEF k
<1>4. r \in Shape /\ r.client = s.client /\ r.pcb = s.pcb /\ r.socks = k /\ r.jobs = s.jobs
      /\ r.past = s.past
  BY <1>1, <1>3, Zenon DEF Shape
<1>5. t = SetJob(r, "recv") BY DEF client_socks_recv_initiate, StreamRecvInterface_Receiver_Recv
<1> HIDE DEF r, t
<1>0. Plumbing(s) /\ SendSide(s, JustSent(s)) BY SMTT(30) DEF ToSocks, Unread
<1>6. NoDup(r.jobs) /\ "recv" \in Jobs BY <1>0, <1>4, SMTT(30) DEF Plumbing, Jobs
<1>7. /\ t \in Shape /\ t.client = r.client /\ t.pcb = r.pcb /\ t.socks = r.socks
      /\ t.past = r.past /\ NoDup(t.jobs)
      /\ \A y : IsSet(t, y) <=> IsSet(r, y) \/ y = "recv"
  BY <1>4, <1>5, <1>6, SetJobParts, Zenon
<1>8. \A y : IsSet(t, y) <=> IsSet(s, y) \/ y = "recv" BY <1>4, <1>7 DEF IsSet
<1>9. t.client = s.client /\ t.pcb = s.pcb /\ t.past = s.past /\ t.socks = k
  BY <1>4, <1>7
<1>10. Numbers(t) BY <1>2, <1>9, SMTT(30) DEF Numbers
<1>11. Plumbing(t) BY <1>0, <1>2, <1>7, <1>8, <1>9, Zenon DEF Plumbing, Unread
<1>12. JustRead(t) = 0 BY <1>8 DEF JustRead, Unread
<1>13. ReceiveSide(t, 0) BY <1>2, <1>8, <1>9, SMTT(30) DEF ReceiveSide, Unsent, Unread, Numbers
<1>14. SameSend(s, t) BY <1>2, <1>8, <1>9, SMTT(30) DEF SameSend
<1>15. ToSocks(t) BY <1>0, <1>11, <1>14, SameSides, SMTT(30) DEF ToSocks
<1>16. QED BY <1>9, <1>10, <1>12, <1>13, <1>15, SMTT(30) DEF Books, FromSocks, t

\* client_socks_send_handler_done: what was written leaves the buffer, and the rest is
\* written in turn.
LEMMA SendDoneBooks ==
  ASSUME NEW s \in Shape, s.client.life = "alive", ~s.client.socks_closed, Numbers(s),
         Plumbing(s), SendSide(s, s.socks.sent_len), s.socks.sent_len > 0, FromSocks(s),
         ~IsSet(s, "send_done"), ~IsSet(s, "recv_done"),
         ~s.client.client_closed => s.client.buf_used + s.pcb.wnd = TCP_WND,
         NEW u \in client_socks_send_handler_done(s, s.socks.sent_len)
  PROVE  Books(u)
<1> DEFINE d == s.socks.sent_len
           t == [s EXCEPT !.client.buf_used = @ - d,
                          !.pcb.wnd = IF s.client.client_closed THEN @ ELSE @ + d]
           c == [s.client EXCEPT !.buf_used = @ - d]
           b == [s.pcb EXCEPT !.wnd = IF s.client.client_closed THEN @ ELSE @ + d]
<1>1. d \in Int /\ s.client.buf_used \in Int /\ s.pcb.wnd \in Int BY SMTT(30) DEF Numbers
<1>2. s.client \in ClientShape /\ s.pcb \in PcbShape BY DEF Shape
<1>3. c \in ClientShape /\ b \in PcbShape BY <1>1, <1>2 DEF ClientShape, PcbShape
<1>4. t = With(s, c, b) BY Zenon DEF Shape, With
<1>5. /\ c.buf_used = s.client.buf_used - d /\ c.life = s.client.life
      /\ c.client_closed = s.client.client_closed /\ c.socks_up = s.client.socks_up
      /\ c.socks_closed = s.client.socks_closed
      /\ c.socks_recv_buf_used = s.client.socks_recv_buf_used
      /\ c.socks_recv_buf_sent = s.client.socks_recv_buf_sent
      /\ c.socks_recv_waiting = s.client.socks_recv_waiting
      /\ c.socks_recv_tcp_pending = s.client.socks_recv_tcp_pending
  BY <1>2 DEF ClientShape
<1>6. /\ b.wnd = IF s.client.client_closed THEN s.pcb.wnd ELSE s.pcb.wnd + d
      /\ b.state = s.pcb.state /\ b.unacked = s.pcb.unacked
  BY <1>2 DEF PcbShape
<1>7. u \in IF t.client.buf_used > 0 THEN {client_send_to_socks(t)}
            ELSE IF s.client.client_closed THEN client_free_socks(t) ELSE {t}
  BY DEF client_socks_send_handler_done
<1> HIDE DEF c, b, t
<1>8. t \in Shape /\ t.client = c /\ t.pcb = b /\ t.socks = s.socks /\ t.jobs = s.jobs
      /\ t.past = s.past
  BY <1>3, <1>4, Replace, Zenon
<1>9. /\ s.client.socks_up /\ s.socks.send = "READY" /\ "WRITE" \notin s.socks.wait
      /\ ~IsSet(s, "send") /\ ~s.past.broken
      /\ s.past.taken + d = s.past.wrote + s.client.buf_used
      /\ 0 < d /\ d <= s.client.buf_used
  BY SMTT(30) DEF SendSide, Shape, SocksShape
<1> HIDE DEF d
<1>10. Numbers(t)
  <2>1. TCP_WND \in Nat BY SizesAssumption, SMTT(30)
  <2>2. c.buf_used \in 0..TCP_WND BY <1>1, <1>5, <1>9, <2>1, SMTT(30) DEF Numbers
  <2>3. b.wnd \in 0..TCP_WND BY <1>1, <1>6, <1>9, <2>1, SMTT(30) DEF Numbers
  <2>4. QED BY <1>5, <1>6, <1>8, <2>2, <2>3, Zenon DEF Numbers
<1>11. \A y : IsSet(t, y) <=> IsSet(s, y) BY <1>8, SMTT(30) DEF IsSet
<1>12. Plumbing(t) BY <1>5, <1>8, <1>11, Zenon DEF Plumbing
<1>13. s.past.taken \in Int /\ s.past.wrote \in Int BY SMTT(30) DEF Numbers
<1>14. Unsaid(t)
  <2>1. s.past.taken = s.past.wrote + (s.client.buf_used - d) BY <1>1, <1>9, <1>13, SMTT(30)
  <2>2. QED BY <1>5, <1>8, <1>9, <1>11, <2>1, SMTT(30) DEF Unsaid
<1>15. SameReceive(s, t) BY <1>5, <1>6, <1>8, <1>11, Zenon DEF SameReceive
<1>16. FromSocks(t)
  <2>1. CASE s.client.client_closed BY <1>5, <1>6, <1>8, <2>1, Zenon DEF FromSocks, Ends
  <2>2. CASE ~s.client.client_closed
    BY <1>5, <1>8, <1>15, <2>2, SameSides, Zenon DEF FromSocks
  <2>3. QED BY <2>1, <2>2, SMTT(30)
<1>17. CASE t.client.buf_used > 0
  <2>1. u = client_send_to_socks(t) BY <1>7, <1>17, SMTT(30)
  <2>2. /\ u \in Shape /\ u.client = t.client /\ u.pcb = t.pcb /\ u.past = t.past
        /\ Numbers(u) /\ Plumbing(u) /\ SendSide(u, JustSent(u)) /\ SameReceive(t, u)
    BY <1>5, <1>8, <1>9, <1>10, <1>11, <1>12, <1>14, <1>17, <2>1, SendToSocksBooks, Zenon
  <2>3. FromSocks(u) BY <1>16, <2>2, SameSides, Zenon DEF FromSocks, Ends
  <2>4. QED BY <1>5, <1>8, <2>2, <2>3, SMTT(30) DEF Books, ToSocks
<1>18. CASE ~(t.client.buf_used > 0)
  <2>1. t.client.buf_used = 0 BY <1>10, <1>18, SMTT(30) DEF Numbers
  <2>2. CASE s.client.client_closed
    <3>1. Ends(t) BY <1>5, <1>8, <1>16, <2>2, Zenon DEF FromSocks
    <3>2. Delivered(t) BY <1>8, <1>13, <1>14, <2>1, <3>1, SMTT(30) DEF Delivered, Unsaid
    <3>3. u \in client_free_socks(t) BY <1>7, <1>18, <2>2, SMTT(30)
    <3>4. QED BY <1>5, <1>8, <1>10, <2>2, <3>2, <3>3, FreeSocksBooks, Zenon
  <2>3. CASE ~s.client.client_closed
    <3>1. u = t BY <1>7, <1>18, <2>3, SMTT(30)
    <3>2. SendSide(t, JustSent(t)) BY <1>10, <1>14, <2>1, NothingToSend, SMTT(30)
    <3>3. QED BY <1>5, <1>8, <1>10, <1>12, <1>16, <3>1, <3>2, Zenon DEF Books, ToSocks
  <2>4. QED BY <2>2, <2>3, SMTT(30)
<1>19. QED BY <1>17, <1>18, SMTT(30)

\* Data that was read is left, with room for it in lwIP or something to wait for.
Left(s) ==
    LET c == s.client
    IN  /\ c.socks_up /\ c.socks_recv_buf_sent < c.socks_recv_buf_used
        /\ s.past.got = s.past.acked + c.socks_recv_tcp_pending
                        + (c.socks_recv_buf_used - c.socks_recv_buf_sent)
        /\ c.socks_recv_tcp_pending = s.pcb.unacked
        /\ IF c.socks_closed THEN s.past.broken
           ELSE s.socks.recv # "BUSY" /\ "READ" \notin s.socks.wait
        /\ ~IsSet(s, "recv") /\ ~IsSet(s, "recv_job") /\ ~IsSet(s, "recv_done")

\* What client_socks_recv_send_out leaves: the caller has to read on, or all is well.
SentOut(s, u) ==
    /\ ClientUp(u) => u.client.socks_closed = s.client.socks_closed
    /\ IF ClientUp(u) /\ u.client.socks_recv_buf_used = -1 /\ ~u.client.socks_closed
       THEN u \in Shape /\ Numbers(u) /\ ToSocks(u) /\ Unread(u)
       ELSE Books(u)

\* tcp_write has taken n bytes.
LEMMA QueuedBooks ==
  ASSUME NEW s \in Shape, s.client.life = "alive", ~s.client.client_closed, Numbers(s),
         ToSocks(s), Left(s), NEW n \in Nat,
         n <= s.client.socks_recv_buf_used - s.client.socks_recv_buf_sent,
         n <= TCP_SND_BUF - s.pcb.unacked,
         s.past.failed \/ n > 0 \/ s.client.socks_recv_tcp_pending > 0
  PROVE  LET sent == s.client.socks_recv_buf_sent + n
             pending == s.client.socks_recv_tcp_pending + n
             u == [s EXCEPT !.client.socks_recv_buf_sent = sent,
                            !.client.socks_recv_tcp_pending = pending, !.pcb.unacked = @ + n]
         IN  /\ sent = s.client.socks_recv_buf_used =>
                  SentOut(s, [u EXCEPT !.client.socks_recv_buf_used = -1])
             /\ sent # s.client.socks_recv_buf_used /\ pending = 0 =>
                  SentOut(s, client_abort_client(u))
             /\ sent # s.client.socks_recv_buf_used /\ pending # 0 =>
                  SentOut(s, [u EXCEPT !.client.socks_recv_waiting = TRUE])
<1> DEFINE c == s.client
           sent == c.socks_recv_buf_sent + n
           pending == c.socks_recv_tcp_pending + n
           d == [c EXCEPT !.socks_recv_buf_sent = sent, !.socks_recv_tcp_pending = pending]
           d1 == [d EXCEPT !.socks_recv_buf_used = -1]
           d2 == [d EXCEPT !.socks_recv_waiting = TRUE]
           b == [s.pcb EXCEPT !.unacked = @ + n]
           u == [s EXCEPT !.client.socks_recv_buf_sent = sent,
                          !.client.socks_recv_tcp_pending = pending, !.pcb.unacked = @ + n]
           u1 == [u EXCEPT !.client.socks_recv_buf_used = -1]
           u2 == [u EXCEPT !.client.socks_recv_waiting = TRUE]
<1>1. c \in ClientShape /\ s.pcb \in PcbShape BY DEF Shape
<1>2. sent \in Int /\ pending \in Int /\ s.pcb.unacked + n \in Int BY SMTT(30) DEF Numbers
<1>3. u = With(s, d, b) /\ u1 = With(s, d1, b) /\ u2 = With(s, d2, b)
  BY Zenon DEF Shape, With
<1> HIDE DEF c, sent, pending, u, u1, u2
<1>4. d \in ClientShape /\ b \in PcbShape
  <2>1. d \in ClientShape BY <1>1, <1>2, Zenon DEF ClientShape
  <2>2. b \in PcbShape BY <1>1, <1>2, Zenon DEF PcbShape
  <2>3. QED BY <2>1, <2>2
<1>5. /\ d.socks_recv_buf_sent = sent /\ d.socks_recv_tcp_pending = pending
      /\ d.life = c.life /\ d.client_closed = c.client_closed /\ d.buf_used = c.buf_used
      /\ d.socks_up = c.socks_up /\ d.socks_closed = c.socks_closed
      /\ d.socks_recv_buf_used = c.socks_recv_buf_used
  BY <1>1, Zenon DEF ClientShape
<1>6. b.unacked = s.pcb.unacked + n /\ b.wnd = s.pcb.wnd /\ b.state = s.pcb.state
  BY <1>1, Zenon DEF PcbShape
<1> HIDE DEF d, b
<1>7. d1 \in ClientShape /\ d2 \in ClientShape
  <2>1. -1 \in Int OBVIOUS
  <2>2. QED BY <1>4, <2>1, Zenon DEF ClientShape
<1>8. /\ d1.socks_recv_buf_used = -1 /\ d2.socks_recv_waiting
      /\ d2.socks_recv_buf_used = d.socks_recv_buf_used
      /\ \A e \in {d, d1, d2} :
           /\ e.socks_recv_buf_sent = sent /\ e.socks_recv_tcp_pending = pending
           /\ e.life = c.life /\ e.client_closed = c.client_closed /\ e.buf_used = c.buf_used
           /\ e.socks_up = c.socks_up /\ e.socks_closed = c.socks_closed
  BY <1>4, <1>5, Zenon DEF ClientShape
<1> HIDE DEF d1, d2
<1>9. /\ 0 <= sent /\ sent <= c.socks_recv_buf_used /\ c.socks_recv_buf_used <= RECV_BUF
      /\ pending = s.pcb.unacked + n /\ 0 <= pending /\ pending <= TCP_SND_BUF
      /\ s.past.got = s.past.acked + pending + (c.socks_recv_buf_used - sent)
      /\ (sent = c.socks_recv_buf_used => pending > 0)
  <2>1. /\ c.socks_recv_buf_sent \in Nat /\ c.socks_recv_buf_used \in Int
        /\ c.socks_recv_tcp_pending \in Nat /\ s.pcb.unacked \in Nat
        /\ s.past.got \in Int /\ s.past.acked \in Int
        /\ RECV_BUF \in Int /\ TCP_SND_BUF \in Int /\ c.socks_recv_buf_used <= RECV_BUF
    BY SizesAssumption, SMTT(30) DEF Numbers, c
  <2>2. /\ c.socks_recv_buf_sent < c.socks_recv_buf_used
        /\ s.past.got = s.past.acked + c.socks_recv_tcp_pending
                        + (c.socks_recv_buf_used - c.socks_recv_buf_sent)
        /\ c.socks_recv_tcp_pending = s.pcb.unacked
    BY SMTT(30) DEF Left, c
  <2>3. n <= c.socks_recv_buf_used - c.socks_recv_buf_sent BY DEF c
  <2>4. QED BY <2>1, <2>2, <2>3, SMTT(30) DEF sent, pending
<1>10. ASSUME NEW e \in {d, d1, d2}, NEW w, w = With(s, e, b)
       PROVE  /\ w \in Shape /\ w.client = e /\ w.pcb = b /\ w.socks = s.socks
              /\ w.jobs = s.jobs /\ w.past = s.past
              /\ Numbers(w) /\ ToSocks(w) /\ \A y : IsSet(w, y) <=> IsSet(s, y)
  <2>1. w \in Shape /\ w.client = e /\ w.pcb = b /\ w.socks = s.socks
        /\ w.jobs = s.jobs /\ w.past = s.past
    BY <1>4, <1>7, <1>10, Replace, SMTT(30)
  <2>2. e.socks_recv_buf_used \in -1..RECV_BUF
    BY <1>5, <1>8, SizesAssumption, SMTT(30) DEF Numbers, c
  <2>3. /\ e.socks_recv_buf_sent = sent /\ e.socks_recv_tcp_pending = pending
        /\ e.buf_used = c.buf_used
        /\ e.socks_up = c.socks_up /\ e.socks_closed = c.socks_closed
    BY <1>8, SMTT(30)
  <2>4. Numbers(w)
    <3>1. sent \in 0..RECV_BUF /\ pending \in 0..TCP_SND_BUF /\ b.unacked \in 0..TCP_SND_BUF
      <4>1. RECV_BUF \in Int /\ TCP_SND_BUF \in Int /\ c.socks_recv_buf_used \in Int
        BY SizesAssumption, SMTT(30) DEF Numbers, c
      <4>2. QED BY <1>2, <1>6, <1>9, <4>1, SMTT(30)
    <3>2. QED BY <1>6, <2>1, <2>2, <2>3, <3>1, Zenon DEF Numbers, c
  <2>5. \A y : IsSet(w, y) <=> IsSet(s, y) BY <2>1, SMTT(30) DEF IsSet
  <2>6. SameSend(s, w) BY <2>1, <2>3, <2>5, SMTT(30) DEF SameSend, c
  <2>7. Plumbing(s) => Plumbing(w) BY <2>1, <2>3, <2>5, Zenon DEF Plumbing, c
  <2>8. ToSocks(w) BY <2>1, <2>3, <2>6, <2>7, SameSides, Zenon DEF ToSocks, c
  <2>9. QED BY <2>1, <2>4, <2>5, <2>8, SMTT(30)
<1>11. ASSUME sent = c.socks_recv_buf_used PROVE SentOut(s, u1)
  <2>1. /\ u1 \in Shape /\ u1.client = d1 /\ u1.pcb = b /\ u1.socks = s.socks
        /\ u1.jobs = s.jobs /\ u1.past = s.past
        /\ Numbers(u1) /\ ToSocks(u1) /\ \A y : IsSet(u1, y) <=> IsSet(s, y)
    BY <1>3, <1>10, SMTT(30)
  <2>2. /\ d1.socks_recv_buf_used = -1
        /\ d1.socks_recv_buf_sent = sent /\ d1.socks_recv_tcp_pending = pending
        /\ d1.life = c.life /\ d1.client_closed = c.client_closed
        /\ d1.socks_up = c.socks_up /\ d1.socks_closed = c.socks_closed
    BY <1>8, SMTT(30)
  <2>3. s.past.got = s.past.acked + pending /\ pending > 0
    BY <1>2, <1>9, <1>11, SMTT(30) DEF Numbers, c
  <2>4. ~c.socks_closed => Unread(u1)
    BY <1>6, <1>9, <2>1, <2>2, <2>3, Zenon DEF Unread, Left, c
  <2>5. ASSUME c.socks_closed PROVE Books(u1)
    <3>1. JustRead(u1) = 0 BY <2>1, SMTT(30) DEF JustRead, Left
    <3>2. ReceiveSide(u1, 0)
      <4>1. Unsent(d1) = 0 BY <2>2 DEF Unsent
      <4>2. s.past.got = s.past.acked + pending + 0 + 0
        <5>1. s.past.acked \in Int BY DEF Numbers
        <5>2. QED BY ONLY <5>1, <1>2, <2>3
      <4>3. c.socks_recv_tcp_pending = s.pcb.unacked /\ c.socks_up /\ s.past.broken
            /\ ~IsSet(s, "recv") /\ ~IsSet(s, "recv_job")
        BY <2>5, Zenon DEF Left, c
      <4>4. b.unacked = pending BY <1>6, <4>3 DEF pending
      <4>5. QED BY <2>1, <2>2, <2>3, <2>5, <4>1, <4>2, <4>3, <4>4, Zenon DEF ReceiveSide
    <3>3. QED BY <2>1, <2>2, <3>1, <3>2, Zenon DEF Books, FromSocks, c
  <2>6. QED BY <2>1, <2>2, <2>4, <2>5, SMTT(30) DEF SentOut, ClientUp, c
<1>12. ASSUME sent # c.socks_recv_buf_used, pending = 0
       PROVE  SentOut(s, client_abort_client(u))
  <2>1. u \in Shape /\ u.client = d /\ u.past = s.past /\ Numbers(u) /\ ToSocks(u)
    BY <1>3, <1>10, SMTT(30)
  <2>2. s.past.failed BY <1>9, <1>12, SMTT(30) DEF Numbers, c, pending
  <2>3. d.life = "alive" /\ (d.socks_closed => s.past.broken) BY <1>5, SMTT(30) DEF Left, c
  <2>4. Books(client_abort_client(u)) /\ ~ClientUp(client_abort_client(u))
    BY <2>1, <2>2, <2>3, AbortClientBooks, SMTT(30)
  <2>5. QED BY <2>4, SMTT(30) DEF SentOut
<1>13. ASSUME sent # c.socks_recv_buf_used, pending # 0 PROVE SentOut(s, u2)
  <2>1. /\ u2 \in Shape /\ u2.client = d2 /\ u2.pcb = b /\ u2.socks = s.socks
        /\ u2.jobs = s.jobs /\ u2.past = s.past
        /\ Numbers(u2) /\ ToSocks(u2) /\ \A y : IsSet(u2, y) <=> IsSet(s, y)
    BY <1>3, <1>10, SMTT(30)
  <2>2. /\ d2.socks_recv_buf_used = c.socks_recv_buf_used /\ d2.socks_recv_waiting
        /\ d2.socks_recv_buf_sent = sent /\ d2.socks_recv_tcp_pending = pending
        /\ d2.life = c.life /\ d2.client_closed = c.client_closed
        /\ d2.socks_up = c.socks_up /\ d2.socks_closed = c.socks_closed
    BY <1>5, <1>8, SMTT(30)
  <2>3. JustRead(u2) = 0 BY <2>1 DEF JustRead, Left
  <2>4. c.socks_recv_buf_used > 0 /\ sent < c.socks_recv_buf_used /\ pending > 0
    BY <1>2, <1>9, <1>13, SMTT(30) DEF Numbers, c
  <2>5. ReceiveSide(u2, 0)
    <3>1. Unsent(d2) = c.socks_recv_buf_used - sent BY <2>2, <2>4 DEF Unsent
    <3>2. s.past.got = s.past.acked + pending + (c.socks_recv_buf_used - sent) + 0
      <4>1. s.past.acked \in Int /\ c.socks_recv_buf_used \in Int BY DEF Numbers, c
      <4>2. QED BY ONLY <4>1, <1>2, <1>9
    <3>3. /\ c.socks_recv_tcp_pending = s.pcb.unacked /\ c.socks_up
          /\ ~IsSet(s, "recv") /\ ~IsSet(s, "recv_job")
          /\ IF c.socks_closed THEN s.past.broken
             ELSE s.socks.recv # "BUSY" /\ "READ" \notin s.socks.wait
      BY Zenon DEF Left, c
    <3>4. b.unacked = pending BY <1>6, <3>3 DEF pending
    <3>5. c.socks_recv_buf_used # -1 /\ ~(0 > 0) BY <2>4 DEF Numbers, c
    <3>6. QED BY <2>1, <2>2, <2>4, <3>1, <3>2, <3>3, <3>4, <3>5, Zenon DEF ReceiveSide
  <2>6. Books(u2) BY <2>1, <2>2, <2>3, <2>5, Zenon DEF Books, FromSocks, c
  <2>7. QED BY <2>1, <2>2, <2>4, <2>6, SMTT(30) DEF SentOut, ClientUp, c
<1>14. QED BY <1>11, <1>12, <1>13 DEF c, sent, pending, u, u1, u2

\* client_socks_recv_send_out.
LEMMA SendOutBooks ==
  ASSUME NEW s \in Shape, s.client.life = "alive", ~s.client.client_closed, Numbers(s),
         ToSocks(s), Left(s), NEW u \in client_socks_recv_send_out(s)
  PROVE  SentOut(s, u)
<1> DEFINE c == s.client
           fits == Smaller(c.socks_recv_buf_used - c.socks_recv_buf_sent,
                           TCP_SND_BUF - s.pcb.unacked)
           failed == [s EXCEPT !.past.failed = TRUE]
           More(t, n) ==
               [t EXCEPT !.client.socks_recv_buf_sent = c.socks_recv_buf_sent + n,
                         !.client.socks_recv_tcp_pending = c.socks_recv_tcp_pending + n,
                         !.pcb.unacked = @ + n]
           Queued(t, n) ==
               IF c.socks_recv_buf_sent + n = c.socks_recv_buf_used
               THEN [More(t, n) EXCEPT !.client.socks_recv_buf_used = -1]
               ELSE IF c.socks_recv_tcp_pending + n = 0 THEN client_abort_client(More(t, n))
               ELSE [More(t, n) EXCEPT !.client.socks_recv_waiting = TRUE]
<1>1. u = Queued(s, fits) \/ u = client_abort_client(failed) \/ (fits > 0 /\ u = Queued(failed, 0))
  BY SMTT(30) DEF client_socks_recv_send_out
<1>2. /\ fits \in Nat /\ fits <= c.socks_recv_buf_used - c.socks_recv_buf_sent
      /\ fits <= TCP_SND_BUF - s.pcb.unacked
      /\ fits > 0 \/ c.socks_recv_tcp_pending > 0
  <2>1. /\ c.socks_recv_buf_used \in Int /\ c.socks_recv_buf_sent \in Nat
        /\ c.socks_recv_tcp_pending \in Nat /\ TCP_SND_BUF \in Nat \ {0}
        /\ s.pcb.unacked \in Nat /\ s.pcb.unacked <= TCP_SND_BUF
    BY SizesAssumption DEF Numbers
  <2>2. c.socks_recv_buf_sent < c.socks_recv_buf_used /\ c.socks_recv_tcp_pending = s.pcb.unacked
    BY Zenon DEF Left
  <2> HIDE DEF c
  <2>3. QED BY ONLY <2>1, <2>2 DEF fits, Smaller
<1>3. /\ failed \in Shape /\ failed.client = c /\ failed.pcb = s.pcb
      /\ failed.past.failed /\ SameData(s, failed)
  BY FailedSame
<1> HIDE DEF fits, failed
<1>4. Numbers(failed) /\ ToSocks(failed) BY <1>3, Same, SMTT(30)
<1>5. Left(failed) /\ failed.client.socks_closed = c.socks_closed
  <2>1. \A y : IsSet(failed, y) <=> IsSet(s, y) BY <1>3, SMTT(30) DEF SameData, IsSet
  <2>2. QED BY <1>3, <2>1, Zenon DEF Left, SameData
<1>6. CASE u = Queued(s, fits)
  <2>1. s.past.failed \/ fits > 0 \/ s.client.socks_recv_tcp_pending > 0 BY <1>2
  <2>2. QED BY <1>2, <1>6, <2>1, QueuedBooks, Zenon
<1>7. CASE u = client_abort_client(failed)
  <2>1. Books(u) /\ ~ClientUp(u)
    BY <1>3, <1>4, <1>5, <1>7, AbortClientBooks, Zenon DEF Left
  <2>2. QED BY <2>1, SMTT(30) DEF SentOut
<1>8. CASE fits > 0 /\ u = Queued(failed, 0)
  <2>1. 0 \in Nat /\ 0 <= c.socks_recv_buf_used - c.socks_recv_buf_sent
        /\ 0 <= TCP_SND_BUF - s.pcb.unacked
    <3>1. /\ c.socks_recv_buf_used - c.socks_recv_buf_sent \in Int
          /\ TCP_SND_BUF - s.pcb.unacked \in Int
      BY SizesAssumption, SMTT(30) DEF Numbers
    <3>2. QED BY <1>2, <3>1, SMTT(30)
  <2>2. SentOut(failed, u) BY <1>3, <1>4, <1>5, <1>8, <2>1, QueuedBooks, Zenon
  <2>3. QED BY <1>5, <2>2, SMTT(30) DEF SentOut
<1>9. QED BY <1>1, <1>6, <1>7, <1>8

\* client_socks_recv_handler_done: what was read is queued, is left to wait for the
\* application, or comes to nothing with the connection.
LEMMA RecvDoneBooks ==
  ASSUME NEW s \in Shape, s.client.life = "alive", ~s.client.socks_closed, Numbers(s),
         ToSocks(s), s.socks.recv_len > 0, ~IsSet(s, "recv_done"),
         IF s.client.client_closed THEN Ends(s) ELSE ReceiveSide(s, s.socks.recv_len),
         NEW u \in client_socks_recv_handler_done(s, s.socks.recv_len)
  PROVE  Books(u)
<1>1. CASE s.client.client_closed
  BY <1>1 DEF client_socks_recv_handler_done, Books, FromSocks
<1>2. CASE ~s.client.client_closed
  <2> DEFINE c == [s.client EXCEPT !.socks_recv_buf_used = s.socks.recv_len,
                                   !.socks_recv_buf_sent = 0, !.socks_recv_waiting = FALSE]
             t == [s EXCEPT !.client.socks_recv_buf_used = s.socks.recv_len,
                            !.client.socks_recv_buf_sent = 0,
                            !.client.socks_recv_waiting = FALSE]
  <2>1. s.socks.recv_len \in Int /\ s.client \in ClientShape /\ 0 \in Int
    BY DEF Shape, SocksShape
  <2>2. c \in ClientShape BY <2>1, Zenon DEF ClientShape
  <2>3. /\ c.life = s.client.life /\ c.client_closed = s.client.client_closed
        /\ c.socks_closed = s.client.socks_closed /\ c.socks_up = s.client.socks_up
        /\ c.buf_used = s.client.buf_used
        /\ c.socks_recv_buf_used = s.socks.recv_len /\ c.socks_recv_buf_sent = 0
        /\ c.socks_recv_tcp_pending = s.client.socks_recv_tcp_pending
    BY <2>1, Zenon DEF ClientShape
  <2>4. t = [s EXCEPT !.client = c] BY Zenon DEF Shape
  <2> HIDE DEF c
  <2>5. t \in Shape /\ t.client = c /\ t.pcb = s.pcb /\ t.socks = s.socks /\ t.jobs = s.jobs
        /\ t.past = s.past
    BY <2>2, <2>4, Zenon DEF Shape
  <2>6. PICK v \in client_socks_recv_send_out(t) :
          u = IF ClientUp(v) /\ v.client.socks_recv_buf_used = -1
              THEN client_socks_recv_initiate(v) ELSE v
    BY <1>2 DEF client_socks_recv_handler_done
  <2> HIDE DEF t
  <2>7. \A y : IsSet(t, y) <=> IsSet(s, y) BY <2>5, SMTT(30) DEF IsSet
  <2>8. Numbers(t)
    <3>1. 0 \in 0..RECV_BUF /\ s.socks.recv_len \in -1..RECV_BUF
      BY SizesAssumption, SMTT(30) DEF Numbers
    <3>2. QED BY <2>3, <2>5, <3>1, Zenon DEF Numbers
  <2>9. SameSend(s, t) BY <2>3, <2>5, <2>7, Zenon DEF SameSend
  <2>10. Plumbing(s) => Plumbing(t) BY <2>3, <2>5, <2>7, Zenon DEF Plumbing
  <2>11. ToSocks(t) BY <2>3, <2>5, <2>9, <2>10, SameSides, Zenon DEF ToSocks
  <2>12. Left(t)
    <3>1. ReceiveSide(s, s.socks.recv_len) BY <1>2
    <3>2. s.client.socks_up /\ s.client.socks_recv_buf_used = -1 /\ s.socks.recv # "BUSY"
          /\ "READ" \notin s.socks.wait /\ ~IsSet(s, "recv") /\ ~IsSet(s, "recv_job")
      <4>1. s.socks.recv_len # 0 BY SMTT(30) DEF Numbers
      <4>2. QED BY <3>1, <4>1, Zenon DEF ReceiveSide
    <3>3. s.past.got = s.past.acked + s.client.socks_recv_tcp_pending + s.socks.recv_len
      <4>1. Unsent(s.client) = 0 BY <3>2 DEF Unsent
      <4>2. s.past.got = s.past.acked + s.client.socks_recv_tcp_pending + Unsent(s.client)
                         + s.socks.recv_len
        BY <3>1, Zenon DEF ReceiveSide
      <4>3. /\ s.past.acked \in Int /\ s.client.socks_recv_tcp_pending \in Int
            /\ s.socks.recv_len \in Int
        BY SMTT(30) DEF Numbers
      <4>4. QED BY ONLY <4>1, <4>2, <4>3
    <3>4. s.client.socks_recv_tcp_pending = s.pcb.unacked BY <3>1, Zenon DEF ReceiveSide
    <3>5. 0 < s.socks.recv_len /\ s.socks.recv_len - 0 = s.socks.recv_len BY <2>1, SMTT(30)
    <3>6. QED BY <2>3, <2>5, <2>7, <3>2, <3>3, <3>4, <3>5, Zenon DEF Left
  <2>13. SentOut(t, v) BY <1>2, <2>3, <2>5, <2>6, <2>8, <2>11, <2>12, SendOutBooks, Zenon
  <2>14. CASE ClientUp(v) /\ v.client.socks_recv_buf_used = -1
    <3>1. v \in Shape /\ Numbers(v) /\ ToSocks(v) /\ Unread(v)
      BY <2>3, <2>5, <2>13, <2>14, Zenon DEF SentOut
    <3>2. QED BY <2>6, <2>14, <3>1, RecvInitiateBooks, SMTT(30) DEF ClientUp
  <2>15. CASE ~(ClientUp(v) /\ v.client.socks_recv_buf_used = -1)
    BY <2>6, <2>13, <2>15, SMTT(30) DEF SentOut
  <2>16. QED BY <2>14, <2>15, SMTT(30)
<1>3. QED BY <1>1, <1>2, SMTT(30)
=============================================================================
