# A TLA+ development for BadVPN

BadVPN is a family of event-driven network programs in C: a peer-to-peer VPN
(`server`, `client`), `tun2socks` with its `udpgw`, and the NCD configuration
language, all built on one framework (`base`, `system`, `flow`, `structure`,
`threadwork`). This directory models parts of it in TLA+, checks the models with
TLC on small instances, and proves theorems about them with TLAPS for every
value of their constants.

## The system and how its parts interact

Every program is one thread around a reactor. A handler may set *jobs*; the
reactor runs all pending jobs, newest first, then expired timers, then file
descriptor events. Packets move through chains of small objects that call each
other through jobs (`flow/`). Work that blocks is given to a pool of threads
(`threadwork/`), whose results come back as reactor events.

In the VPN, clients hold a TCP connection to the chat server. The server
introduces clients to each other (NEWCLIENT, ENDCLIENT), forwards their messages
(OUTMSG, INMSG) and resets a pair when a buffer runs out. Clients use these
messages to set up direct links, over which Ethernet frames travel; over UDP the
frames are cut into chunks and put together again. `tun2socks` ends the TCP
connections of a device in its own TCP stack (lwIP) and carries each on through a
SOCKS server. NCD runs processes made of statements, each an instance of a module
that goes up and down as the system it watches changes.

| part | source | lines | state here |
|---|---|---|---|
| job group, nested runs | `base/BPending.c`, SYNC macros | 0.2k | modelled, proved |
| reactor, sockets, processes | `system/` | 11k | job loop, stream sockets |
| thread pool | `threadwork/` | 0.6k | modelled, proved |
| fair queue | `flow/PacketPassFairQueue.c` | 0.4k | modelled, proved |
| other packet pipelines | `flow/`, `flowextra/` | 6.5k | priority queue inside `Server` |
| chat server | `server/` | 2.6k | modelled |
| server connection | `server_connection/` | 0.7k | what the server can observe |
| VPN client | `client/` | 11k | link setup of `client.c`: binding, relays, seeds; fragmentation: modelled, partly proved |
| cryptography helpers | `security/`, `nspr_support/` | 2.8k | not modelled |
| tun2socks, SOCKS, udpgw | `tun2socks/`, `socksclient/`, `socks_udp_client/`, `udpgw/`, `udpgw_client/` | 7k | TCP connections through SOCKS: modelled, proved |
| DHCP client, ARP probe | `dhcpclient/`, `arpprobe/` | 2.2k | not modelled |
| NCD | `ncd/`, `udevmonitor/` | 47k | interpreter and `call()`: modelled, proved |
| containers, utilities | `structure/`, `misc/` | 12k | used as sets, sequences, functions |
| vendored, generated | `lwip/`, `lemon/`, `lime/`, `generated/` | (`TcpClient`) | not this project's code; of lwIP, what tun2socks registers with a connection and when it is called back |

`PROJECT.json` lists every part with its sources, and the hazards of the code at
the lines where they bite.

## Modules

| module | models |
|---|---|
| `JobList` | the linked list of jobs as operators on sequences: `LinkedList1_Remove`, `BSmallPending_Set`, `_Unset`, `_IsSet` |
| `BPending` | the job group, the loop that runs it, SYNC sections |
| `WorkPromise` | the abstract life of a work item, from the comments of `BThreadWork.h` |
| `BThreadWork` | the dispatcher and its threads; `Promise` maps it to `WorkPromise` |
| `PacketPassFairQueue` | the fair queue with fixed-width times |
| `Server` | the chat server |
| `ServerNet` | the server composed with the client ends and the packets under way |
| `Client` | how a client sets up its links, as operators on its state |
| `ClientRelays`, `MCClientRelays` | one client among peers that do anything |
| `ClientPair`, `MCClientPair` | two clients with the server between them |
| `FragmentProto` | sender's disassembler, network, receiver's assembler |
| `NCDProcess` | one NCD process: its statements and its pointers AP and FP |
| `NCDInterpreter` | the processes together, the module interface, `call()` |
| `TcpClient` | one connection of tun2socks between lwIP and its SOCKS client |
| `MCFramework` | `BPending` and `PacketPassFairQueue` in one run, an object per behaviour |
| `MCServer` | `Server` with clients that send anything, and `ServerNet`, in one run |
| other `MC...` | values of constants for TLC |
| `JobListProofs`, `BThreadWorkProofs`, `FragmentProtoProofs` | theorems about the module of that name |
| `FrameworkProofs` | theorems about `BPending` and `PacketPassFairQueue` |
| `NCDInterpreterHandlers`, `NCDInterpreterProofs` | what each NCD handler keeps; the theorems about `NCDInterpreter` |
| `TcpClientProofs`, `TcpClientBooks` | theorems about `TcpClient`: who owns what; where each byte is |

**BPending.** `jobs` is the list, head first; `inited` and `pending` are the
objects' existence and their debug flag; `marks` are the open SYNC sections.
Handlers are not modelled one by one: between two executions any job may be
initialised, set, unset or freed. `clock` and `stamp` are history.

**BThreadWork.** A worker's step is the code between two points where another
thread could notice: taking the mutex, waiting, unlocking for the work function,
posting the semaphore, writing to the pipe. The main thread's critical sections
are single steps that need the mutex free. Threads can be woken spuriously,
thread creation can fail, the pipe can be full, and a read takes `ReadSize`
bytes. A dispatcher that was given a hint of 0 starts no thread, and works are jobs
in the list of `JobList`; both modes are behaviours of one specification.
`BThreadWorkDispatcher_Init` sets `num_threads` only when threads are to be started
(`BThreadWork.c:260`, inside the `if` of line 214), and every other function reads it:
that a hint of 0 leaves it zero is so because the dispatchers of `client.c` and
`server.c` are objects of file scope. For a dispatcher in uninitialised memory it
would be any value.

**PacketPassFairQueue.** A flow is idle, queued or being sent. Times are numbers
modulo `MAX_TIME + 1` and `increment_sent_flow` keeps its overflow branch. A flow
is handed a packet only when idle, which is the contract of `PacketPassInterface`.
Ties are broken by address, so flows are numbers. A busy handler's own calls are
later steps.

**Server.** Handlers call each other and fail half way, so each is an operator
from a server state to the state it leaves, composed as the calls are nested:
`client_remove` is called inside `launch_pair`, inside `ClientHello`, and so on.
`srv.jobs` is the job list of `JobList`, so inform, uninform and dying jobs run in
the order of the code. Pipelines are pumped eagerly: the jobs of a packet chain
are set last and therefore run first. A write to a client may complete, have to
wait, or fail with a call of `client_connection_handler` in the middle of the job
that caused it (`srv.writing`). Allocation failures are alternatives of the
actions. Buffers are queues of whole packets, with the capacities
`client_compute_buffer_size` and `FlowCap`. The command line, certificates,
addresses and logging are left out; the communication predicate is an arbitrary
set of allowed peers. `view` records what each client has read; `gen`
distinguishes successive sessions of a pair. How the server is started and what
clients may send is part of the state (`srv.options`), so that one run covers
several settings.

**ServerNet.** A client's `ServerConnection` says hello once and answers each
NEWCLIENT with an ACCEPTPEER through its local output flow, which has priority
over the user's. A packet handed over by the user stays queued when its peer
ends. The client reads at once and all delay is put on the way back; since each
direction is first-in first-out and the client only reacts to what it reads,
every real run can be re-timed into such a run.

**Client.** As in `Server`, handlers are operators from a client's state to the
states they may leave; there are several where a socket, a link or a peer may fail
to be set up (`options.may_fail`). `C.peer[p]` is the `struct peer_data`, with the
link's socket known by the *nonce* that its YOUCONNECT carries (address, port, key
and password at once) and by whether it was bound or connected. The jobs
`job_init` and `job_send_seed` run right after the handler that sets them, before
any other event, and are part of it. `C.out[p]` is the chat and the server flow;
`peer_remove` leaves in it the one packet that a dying flow was busy with. Of a
one-time password only the seed is kept: the one waiting for confirmation, the one
used for sending, the one a thread works on, and the two tables for receiving. A
TLS chat turns a record of an earlier session into an error. Certificates, the
contents of YOUCONNECT beyond scope and nonce, the device and frames are left out.

**ClientRelays.** Peers come, go, send any message of the binding procedure, and
their links go up and down, in any order. **ClientPair.** The server is what
`Server` does to one pair: forward in order, reset when asked or when the buffer
is full, drop messages while resetting, and relaunch once both have accepted. A
TCP connection whose other end is gone (`Dangling`) is sure to fail; nothing tells
a UDP client so.

**FragmentProto.** `dis` and `asm` are the two objects with the fields of their
structs; `net` holds the packets that have left, oldest first, until all before
them are there or lost. Sizes are counted in chunk headers. A byte is known by the
frame it was cut from, its position and the frame's length, so a frame put together
from two is told from one that was sent. Frame ids wrap at `IdSpace` (2^16 in the
code) and packet times at `FPA_MAX_TIME` (2^32 - 1). The disassembler's callers
never set a chunk size limit, so the loop of `write_chunks` runs once. Packets that
no disassembler has written are left out. The network loses and duplicates up to
`MaxLost` and `MaxCopies` packets, and a packet overtakes at most `Overtakes`. The
loops over a list (`reduce_times`, `process_input`) are folds of their bodies
(`free_timed_out`, `next_chunk`).

**NCDProcess, NCDInterpreter.** A statement is forgotten, a child, an adult or
dying; `ap` and `fp` are the process's pointers, `unclean` the instances that have
gone down and not been told of the clean state. The handlers of the work job are
operators on the state of the interpreter, since killing a `call()` statement
changes another process. Modules other than `call()` do what the interface allows
at any time, between jobs too. Variables, arguments, objects and the cache of freed
processes are left out; evaluating arguments may fail. A template has one `call()`
that can run it (`ProgramAssumption`).

**TcpClient.** `tcp` is one record: `client` is `struct tcp_client`, `pcb` what
tun2socks has registered with lwIP, `socks` the SOCKS client and its `BConnection`,
`jobs` the job list, `frame` the value that the running lwIP callback will look at
when its jobs are done (`DEAD_ENTER`, `DEAD_KILL_WITH`). A callback is an action
that opens the frame, the jobs of its SYNC section are `RunJob`, and `Return`
closes it. Data are counted. Calls of lwIP that may fail are alternatives; so are
blocked, partial and failing reads and writes, and the events of a descriptor.
`dead_aborted` can be `"stale"`: after an abort `DEAD_LEAVE2` leaves a pointer into
the old frame behind, which is harmless because an aborted client enters no
callback again. A client whose side has closed may still have data to send to
SOCKS. That the application's half-close ends the SOCKS side as well, once the
data is written, is what the code intends. `past` is history.

## Runs

| run | instance | distinct states | checks |
|---|---|---|---|
| `Framework` | 3 jobs, 2 sections, 4 sets; 3 flows, MTU 1, weight 1, `MAX_TIME` 5, fair | 219,312 | list well linked, newest first, nested runs complete; order of sending, also across overflow; no starvation |
| `BThreadWork` | 2 threads or none, 3 works, pipe of 2 bytes, fair | 70,079 | freed works, wake-ups, refinement of `WorkPromise`; works are reported, Free returns, threads are joined |
| `Server` | any clients, 2 slots: 3 clients with all requests, 2 of either version; 3 slots: 4 clients with 3 ids, 3 with a predicate; real clients, 2 slots: 3 clients with 1 packet under way each way back, 4 ids or 2 | 1,257,764 | consistency of pairs, armed resets, jobs, buffer for the introductions, ids that wrap, histories; no double accept, accepts are coming |
| `ServerNetLive` | 2 slots, 2 clients, fair | 13,767 | resets end |
| `ClientRelays` | 3 peers, master of one, failing calls | 325,896 | one way to each peer, lists agree, nobody waits while there is a relay |
| `ClientPair` | 2 clients, 2 troubles, 13 configurations | 1,199,656 | quiet ends are linked or both wait for a relay; both know the other's seed |
| `NCDInterpreter` | a process of 3 statements calling a template of 2, fair | 26,775 | pointers, call and template match, nothing stuck, stack order, pauses and shutdown end |
| `NCDRetries` | the same | few | violation, see below |
| `TcpClient` | windows of 3 and 2, reads of 3, 5 bytes each way, fair | 189,334 | ownership, aborts, windows, both directions move, orderly end, freed in the end |
| `Fragment` | 9 settings of sender, receiver and network | 937,844 | frames not mixed, enough entries for reordering, times, flush timer |
| `FragmentIds` | the setting with cancelled frames | few | violation, see below |
| `FragmentDegree` | D = 2 and four entries | few | violation, see below |

**Bounds.** Three jobs and two marks give every relative order of a job to two
nested marks. Two threads and three works make a thread miss a signal, finish
while another result is pending, and fill a pipe of two bytes. In the server, two
slots with three connections make a client meet a predecessor's leftovers; three
slots are needed for one client to die while another is told of a third, and ids
wrap when there are as many ids as slots. Four sets let every job be set and one be
set again. A read of the pipe takes one byte in the run, the worst case for a pipe
that is full; that a read of many bytes strands no result is proved (`ResultsKept`). Larger instances were also run once:
`ServerNet` with two packets under way (3.78 million states) and the fair queue
with MTU 2 and `MAX_TIME` 6 (870,876 states). `MAX_TIME` 5 overflows after a few
packets, as the comment in the header suggests. `MaxConnects`, `MaxSets` and
`UpCap` are bounds of the model only.

In `Fragment` a frame of one header's size shares a packet and one of five takes
two packets, or three when it begins behind another (in the setting for out-of-order
input of degree 2, frames of three in packets of five, so that every packet may end
one frame and begin the next); ids wrap after 8 frames, so in
the settings with ten frames a lost or late chunk meets the next frame with its id,
and times wrap after 3 to 6 packets. In `TcpClient` a window of 3 with 5 bytes fills and
reopens, and a read of 3 does not fit in a send buffer of 2, so that the rest waits
for an acknowledgement. The program of `NCDInterpreter` has statements before and
after the call, with modules that die at once and that take their time. A late copy
of a packet is bounded by `MaxDelay` frames: one that is delayed for a whole turn of
the ids could complete another frame, which a 16-bit id cannot prevent.

Three peers allow a relay, a user of it and one more that waits or takes over. In
`ClientPair` the buffers hold two messages (`ChatCap`, `FlowCap`), so that a seed
and a YOUCONNECT fill one; two seeds per link (`MaxSeeds`; one after the last trouble) let a seed be replaced
while the first is in use; two failures of chats or good links (`MaxTroubles`) let
a session be reset while the one before it still has messages under way. Without
the bound on troubles, and with `FlowCap` 1 and one address per client, usable or
not, the following were run once: TCP with failing calls (11.7 and 13.0 million
states with TLS and without), UDP without failing calls and without one-time
passwords (4.2 and 5.0 million), and with them, the address usable and one seed per
link (10.4 million). TCP with several addresses was run only with the bound.

**UDP.** `QuietLinked` is checked for UDP only with one usable address and no failing
calls. Messages of the binding procedure do not say to which attempt they belong.
With several addresses or failing calls, a CANNOTCONNECT, CANNOTBIND or YOURETRY
that is under way for longer than the retry time can be taken for an answer to the
next attempt, and one end may stay connected to a socket that the other has closed.
Over TCP the connection fails and the procedure starts again; a UDP link has no
such signal. `msgproto.h` describes the procedure only "roughly" and promises
nothing here, so this is recorded as a hazard and not as a finding.

**Deadlock** is not checked for `Framework`, `Server`, `ServerNetLive` and `Fragment`,
whose bounded behaviours end when their budget of sets, connections or frames is
used up, for `ClientPair`, where two linked clients have nothing left to do, and for
`TcpClient`, which ends with the connection. `BThreadWork`, `ClientRelays` and
`NCDInterpreter` are checked for deadlock.

**Fairness.** Threads run, work functions return and a thread waiting for the
mutex gets it eventually; the reactor runs its jobs and polls again and again, so
loop, free and stop steps are strongly fair (a step may be disabled for a moment
by the mutex). In `ServerNet` jobs are weakly fair; writes, reads and timers
strongly fair, since other events may come between; a client's own output is
weakly fair. Nothing obliges a client to connect, send or leave. In the fair queue
the schedule job and the output are weakly fair; `NoStarvation` is stated for
behaviours in which flows stop being created, because a flow freed and created
again between a send and the schedule job starts afresh.

In `NCDInterpreter` a module with `func_die` that was told to die does so;
`ShutdownFinishes` and `PauseEnds` are stated for behaviours in which the job list
drains again and again (`Drains`): the reactor runs its jobs, but a module may keep
the loop busy for ever. Nothing obliges a module to go up, and retry timers
need not fire. In `TcpClient` jobs and callbacks are weakly fair; what lwIP has sent
is acknowledged or the connection times out (lwIP's retransmission timers); the
connection to the SOCKS server is made or fails; and a read or write that the
descriptor is polled for is done or fails in the end, after any number of events in
vain, which is strong fairness of `Progress`. The last one is an assumption on the
SOCKS server: a server that neither reads nor closes keeps a connection for ever.

**Findings.**

* `AscendingIds` (run `FragmentIds`) is the comment on `frame_id` in `fragmentproto.h`:
  "Frames should be given ascending identifiers as they are encoded into chunks
  (except when the ID wraps to zero)". `input_handler_requestcancel` of the
  disassembler gives up the frame that waits for output, which may have been sent in
  part, and does not increment `frame_id`; the next frame is sent with the same id.
  The receiver then throws the next frame away for overlapping chunks or, when the
  packet with its first part is lost, delivers a frame made of both. (`Unmixed` leaves
  out behaviours in which a frame was given up half sent; without that condition it
  fails in ten steps.) A frame is cancelled when a flow leaves a link that stays in
  use, as with a peer that is no longer reached through a relay.
* `Tolerates` (run `FragmentDegree`) is the rule of `FragmentProtoAssembler.h:109`: "To
  make the assembler tolerate out-of-order input of degree D, set to D+2. Here, D is
  the minimum size of a hypothetical buffer needed to order the input". The client is
  built with four entries, which is D = 2. A packet may end one frame and begin the
  next, so a packet ahead of its time leaves two frames incomplete: when the second and
  the fourth of four packets arrive before the first and the third, all entries are in
  use, and `allocate_new_frame` evicts a frame that is still to be completed. And a
  packet that overtakes many others takes a buffer of one to put in order, but what it
  begins is timed out (`frame_is_timed_out`) before the last of them arrives. What was found to be enough is one entry more than the
  degree and the number of packets that one may overtake together (`RoomToReorder`,
  checked for degrees 0 to 2).
* `RetryAsserts` (run `NCDRetries`) is the comment in `process_wait_timer_handler`: "the
  asserts for this are indeed satisfied, though this it not trivial to prove"
  (`NCDInterpreter.c:972`). The retry timer of an NCD process is not stopped when an
  event makes the process go on before it expires. A template may then go up, go down
  and be paused with the timer still running, and the timer's handler advances it
  although nobody has called `NCDModuleProcess_Continue`: the assert of
  `process_advance` on the process's state does not hold. The comment is true of
  every process that is not a template (`MainRetriesSafe`). `LikeAStack` therefore
  leaves out paused templates where it says that the caller's later statements are
  gone.

**Observations** made while modelling. The first contradicts an assertion of the
code, the others no promise:

* `process_work_job_handler_up` asserts that the process has something to do
  (`NCDInterpreter.c:727`); a statement that goes down and up at once as the last one
  of a process leaves it with nothing, so the assertion fails. Without it a template
  reports down and, once it may continue, up, and another process goes back to
  working and up; nothing else depends on it.
* The fair queue gives a newcomer time 0 when nothing is queued, sent or just sent
  (`get_current_time`, `PacketPassFairQueue.c:76`), so a flow that has sent alone
  keeps its accumulated time and then waits until the newcomer has caught up.
  `NoStarvation` holds all the same.
* Without threads, works are jobs of the newest-first list: a done handler that
  always starts another work runs ahead of an older one for ever.
* With all 65536 ids reused while one packet is under way, a message could be read
  in a later client's session; `HistoryWellFormed` relates messages to sessions only
  while ids are not reused. In the same way the accept of a client that left can count
  for its successor, whose own accept is then the second and gets the accepting client
  disconnected, as a comment in `process_packet_acceptpeer` expects; `NoDoubleAccept`
  is stated while no id was handed out twice.

## Proofs

* **JobListProofs**: what removing, setting and unsetting do to membership,
  duplicates and relative order of a list.
* **FrameworkProofs**, the job group: the inductive invariant is `GroupTypeOK`, `LinkedJobs`,
  `MostRecentFirst`, `MarksStayLinked` (the marks of open sections are linked, inner
  above outer) and `StampsPast` (no stamp is in the future, needed to show that a job
  just set is newer than all others). From it follow `LinkedJobsAlways`,
  `LifoOrder`, `MarksReachable` and the action properties `SyncCompletesAlways`
  and `SyncRunsNewerAlways`.
* **FrameworkProofs**, the fair queue: the flow being sent can be shown to be first only
  together with the agreement of pointers, job and handlers; the lemmas on `%`
  give the unsigned arithmetic. Theorems: `HandlersAlwaysAgree`, `StallFree`,
  `LeastTimeFirst`, `OverflowInvisible`.
* **BThreadWorkProofs**: the inductive invariant adds to `NoLostWakeup` that the
  lists match the states (`ListsMatchStates`), that a result has something that will
  get it dispatched (`NoStrandedResult`), where each thread's program counter allows it to hold the mutex or a work (`PcInv`),
  what the main thread is doing (`MainInv`), that the job list holds only works in
  job mode and `more_job` only with threads (`JobsInv`), and that a semaphore is posted only for a finished work
  (`SemInv`). Without the last one, `BThreadWork_Free` could return while the
  thread still has to post. Theorems: `ListsAgree`, `FreedUntouched`,
  `WakeupsKept`, `ResultsKept`. From the same invariant, every step maps to a step of
  `WorkPromise` or leaves all phases alone (`PromiseKept`).
* **TcpClientProofs**: the inductive invariant
  `IInv` says that the state has its shape and is fresh (lwIP has a connection that
  nobody has accepted) or `Good`: open (the client has its pcb, callbacks are
  registered, the window is what is left of the buffer, lwIP holds what is pending),
  closed (the pcb is gone and the buffer drains to SOCKS) or freed. In the first two
  the SOCKS side, the jobs, `aborted` and the frame of the running callback agree
  (`SocksSide`). The properties alone are not inductive: that lwIP is told of an abort
  rests on the frame holding 1 exactly when the client is aborted, and that no job is
  left for a freed client on jobs existing only with the SOCKS client. There is a lemma
  per handler, saying what it makes of an open or closed state, in the order in which
  handlers call each other; the theorem has a step per action. Theorems:
  `OwnershipKept`, `AbortsKnown`, `WindowKept`.
* **TcpClientBooks**: `BothWaysMove` and `EndsInOrder` follow from `IInv` and an
  account of every byte, `Books`. What was taken from the application is in the buffer
  or written (`SendSide`); what was read from SOCKS waits, is queued in lwIP or is
  confirmed (`ReceiveSide`); a read or write is in hand exactly when there is something
  to move (`Plumbing`), also while the job that reports its end is still to run; and
  once a side is closed what it was owed has been delivered (`Ends`, `Delivered`).
  Handlers break the account half way and restore it, so `ReceiveSide` and `SendSide`
  take as a parameter the bytes a running handler has in hand. The frame lemmas, and
  those about handlers that both modules need, are in `TcpClientProofs`. Theorems:
  `BooksBalance`, `BothWaysAlwaysMove`, `EndsInOrderAlways`.
* **FragmentProtoProofs**: the inductive invariant `IInv` says of the disassembler that
  a packet begun has room and a running timer (`DisInv`), of the network that it holds
  chunks a disassembler has written (`NetInv`), and of the assembler that its entries
  are a pool (`AsmInv`): each is used, free or being passed on, no two are for one frame
  id, each holds exactly the bytes that its chunks cover (`Filled`), and its time lies
  as far back as its age in packets (`Timed`). A chunk that passes the checks of
  `process_chunk` adds only bytes that were not there, so a frame of as many bytes as
  its length, all below it, has no hole; that is a counting argument about finite sets
  (`Complete`). For the folds, `TimedTrace` and `ChunkTrace` name the states between the
  rounds, and what a loop keeps is proved round by round with `UpTo`, induction over
  the numbers up to the length of the list, for membership in a set. Theorems:
  `InvariantHolds`, `FlushAlwaysArmed`, `AgesAlwaysTrue`, `FramesPassedWhole`.
* **NCDInterpreterHandlers**, **NCDInterpreterProofs**: for every program, with any number of processes and statements and calls nested to any depth. The
  inductive invariant `IInv` has three parts. `Sound` says of each process that its
  pointers are in order (`Tidy`), of each template that its `call()` instance, its
  process and the caller's statement are in matching states (`Mirror`), and of the jobs
  that they belong to existing processes; it holds in the middle of a handler too.
  `Awake` says that a process has its work job set or is `Quiet`: its handler would do
  nothing now. `EndSeen` ties the end of the last process to the end of the program.
  One conjunct of `Mirror` no property asks for and the induction needs: a `call()`
  statement without an instance is forgotten. A handler of process `p` starts `Ready` (all but `p`
  are awake) and leaves the program `Done` (all are), with each process changed as a
  stack allows (`StackStep`). Most handlers change one process, `p` (`QuietDone`,
  `EventDone`); those that cross a call change the template and the caller at once,
  which is proved once (`JoinOK`, `Joined`) for the events up, down and terminated and
  for new, die, clean and continue. The first module has
  a lemma per handler, the second composes them into the steps of `Next`. That the search for the last statement left ends
  where `EventDead` and `FreedAfter` say needs that a set of statements has a last
  member, which is shown from the well-foundedness of the numbers. Theorems: `PointersAlways`,
  `CallMirrorsTemplateAlways`, `NothingStuckAlways`, `MainRetriesSafe` and the action
  property `StatementsLikeAStack`.

The assumptions are those named in the modules: disjointness of identifiers, and
for the queue the checks of `PacketPassFairQueue_Init`
(`MTU + packet_weight <= MAX_TIME`, `packet_weight > 0`); for `TcpClient` that sizes
are positive; for NCD that there are finitely many processes, that a statement is a
module's or a call of a template, and that a template has one call that can run it and
does not call itself (`ProgramAssumption`); for `FragmentProto` that a packet has room
for more than a header, that there is an id, and that there are fewer entries than
packet times (`FragmentAssumption`, the asserts of the two `Init` functions).

**Only model-checked**: everything about `Server`, `ServerNet`, `Client` and the modules
built on it (`peer_bind` is recursive); of `FragmentProto` the properties `RoomToReorder`,
which depends on the whole history of the network, and `Unmixed`, of which
`FramesPassedWhole` is the part about positions: that all bytes are of one frame needs
the bound on delays for ids that wrap; and all liveness
(`EventuallyReported`, `FreeReturns`, `StopCompletes`, `ResetEnds`, `NoStarvation`,
`ShutdownFinishes`, `PauseEnds`, `EventuallyFreed`), which the prover does not support.

## Not modelled, and the plan

In this order:

1. *State machines with timers and retries*: `BDHCPClientCore` with late and lost
   answers, `BArpProbe`, the reactor's timer tree.
2. *UDP through the proxies*: `UdpGwClient` with `udpgw` (connection ids, the limit
   and reuse of the oldest), `SocksUdpClient`.
3. *Link setup, continued*: that the pair settles under fairness once troubles end,
   which needs a smaller model of the server; UDP with the retry time and a bound on
   message delays, to say under which delays `QuietLinked` holds; `StreamPeerIO` and
   `PasswordListener`.
4. *Buffers and framing*: `ChunkBuffer2` and `PacketBuffer` against a queue (a
   refinement), `PacketProtoDecoder` against a reference, the priority queue as a
   module with an abstract queue that `Server` then uses.
5. *One-time passwords*: `OTPChecker` with its thread, seed ids.
6. *Client data plane*: `DataProto`, `DPRelay`, `FrameDecider`.
7. *NCD modules with protocols of their own*: `blocker`, `depend`, `foreach`,
   `process_manager`, on top of `NCDInterpreter`.
8. *Proofs*: `PairsConsistent` and `IdsUnique` of `Server` from an inductive invariant,
   with its walks over the clients proved like the loops of `FragmentProto`; the relay
   lists of `Client` for any number of peers, with `peer_bind` as a recursive function.

Left out for good: drivers and system calls, TLS and ciphers, parsers and
formatting, containers (their invariants need induction over trees), vendored and
generated code, which with NCD's modules are most of the lines of the repository.
