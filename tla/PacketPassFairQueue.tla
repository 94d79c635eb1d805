------------------------ MODULE PacketPassFairQueue ------------------------
(***************************************************************************)
(* The fair queue that every shared output goes through: the server's      *)
(* messages to one client, the client's messages to the server and its     *)
(* packets to one peer (src/flow/PacketPassFairQueue.c).                   *)
(*                                                                         *)
(* A flow is idle, waits in the tree with one packet, or is the one being  *)
(* sent.  Its input is handed a packet only when it is idle, which is the  *)
(* contract of PacketPassInterface.  Flows are numbered by their address,  *)
(* which breaks ties of time.                                              *)
(***************************************************************************)
EXTENDS Integers

CONSTANTS
    Flows,          \* the flow objects, by address
    MTU,            \* PacketPassInterface_GetMTU(output)
    packet_weight,
    MAX_TIME,       \* FAIRQUEUE_MAX_TIME; times are kept modulo MAX_TIME + 1
    NoFlow

\* The checks and ASSERTs of PacketPassFairQueue_Init.
ASSUME FairQueueAssumption ==
    /\ Flows \subseteq Nat /\ NoFlow \notin Flows
    /\ MTU \in Nat /\ packet_weight \in Nat \ {0} /\ MAX_TIME \in Nat
    /\ MTU + packet_weight <= MAX_TIME

VARIABLES
    flows,          \* flows_list
    time,           \* flow->time
    queued,         \* the flows in queued_tree, those with is_queued
    data_len,       \* flow->queued.data_len
    sending_flow,
    sending_len,
    previous_flow,
    schedule_job,   \* whether the job is set
    handler_busy,   \* the flows whose busy handler is set
    freeing

queueVars == <<flows, time, queued, data_len, sending_flow, sending_len, previous_flow,
               schedule_job, handler_busy, freeing>>

Times == 0..MAX_TIME
Lens == 0..MTU

QueueTypeOK == /\ flows \subseteq Flows
               /\ time \in [Flows -> Times]
               /\ queued \subseteq flows
               /\ data_len \in [Flows -> Lens]
               /\ sending_flow \in flows \cup {NoFlow}
               /\ sending_len \in Lens
               /\ previous_flow \in flows \cup {NoFlow}
               /\ schedule_job \in BOOLEAN
               /\ handler_busy \subseteq flows
               /\ freeing \in BOOLEAN

\* PacketPassFairQueue_Init
QueueInit == /\ flows = {}
             /\ time = [f \in Flows |-> 0]
             /\ queued = {}
             /\ data_len = [f \in Flows |-> 0]
             /\ sending_flow = NoFlow
             /\ sending_len = 0
             /\ previous_flow = NoFlow
             /\ schedule_job = FALSE
             /\ handler_busy = {}
             /\ freeing = FALSE
-----------------------------------------------------------------------------
\* compare_flows
Before(t, f, g) == t[f] < t[g] \/ (t[f] = t[g] /\ f <= g)

\* The tree with its order turned round.
IsLast(t, Q, f) == f \in Q /\ \A g \in Q : Before(t, g, f)

\* PacketPassFairQueue__Tree_GetFirst
IsFirst(t, Q, f) == f \in Q /\ \A g \in Q : Before(t, f, g)

\* The current time x: that of the flow being sent, or else the least among
\* the first waiting flow and the flow sent last, or else 0.
get_current_time(x) ==
    LET near == queued \cup ({previous_flow} \ {NoFlow}) IN
    IF sending_flow # NoFlow THEN x = time[sending_flow]
    ELSE IF near = {} THEN x = 0
    ELSE (\E f \in near : x = time[f]) /\ \A f \in near : x <= time[f]

\* The loop of increment_sent_flow: no time goes below 0, except that of the
\* flow just sent, which wraps around and back when its amount is added.
lowered(t, flow, subtract) ==
    [f \in Flows |-> IF f \notin flows THEN t[f]
                     ELSE IF subtract > t[f] /\ f # flow THEN 0
                     ELSE (t[f] - subtract) % (MAX_TIME + 1)]

\* When the time is about to overflow, all are moved down by that of the first
\* waiting flow, or of the flow itself when none waits.
Overflows(t, flow, amount) == amount > MAX_TIME - t[flow]
IsSubtract(t, flow, x) ==
    \/ queued = {} /\ x = t[flow]
    \/ \E g \in queued : IsFirst(t, queued, g) /\ x = t[g]

increment_sent_flow(flow, amount) ==
    \E x \in Times :
        LET t == IF Overflows(time, flow, amount) THEN lowered(time, flow, x) ELSE time IN
        /\ IF Overflows(time, flow, amount) THEN IsSubtract(time, flow, x) ELSE x = 0
        /\ time' = [t EXCEPT ![flow] = (@ + amount) % (MAX_TIME + 1)]

\* schedule: the first of the flows Q is taken from the tree and sent.
schedule(Q, t, len) ==
    \E f \in Q : /\ IsFirst(t, Q, f)
                 /\ queued' = Q \ {f}
                 /\ sending_flow' = f
                 /\ sending_len' = len[f]
-----------------------------------------------------------------------------
\* schedule_job_handler
ScheduleJob ==
    /\ schedule_job /\ ~freeing
    /\ schedule_job' = FALSE
    /\ previous_flow' = NoFlow
    /\ \/ queued # {} /\ schedule(queued, time, data_len)
       \/ queued = {} /\ UNCHANGED <<queued, sending_flow, sending_len>>
    /\ UNCHANGED <<flows, time, data_len, handler_busy, freeing>>

\* input_handler_send without raising the time of the flow.
InputSendUnraised(flow, len) ==
    /\ ~freeing /\ flow \in flows \ queued /\ flow # sending_flow
    /\ previous_flow' = IF flow = previous_flow THEN NoFlow ELSE previous_flow
    /\ data_len' = [data_len EXCEPT ![flow] = len]
    /\ \/ /\ sending_flow = NoFlow /\ ~schedule_job
          /\ schedule(queued \cup {flow}, time, data_len')
       \/ /\ sending_flow # NoFlow \/ schedule_job
          /\ queued' = queued \cup {flow}
          /\ UNCHANGED <<sending_flow, sending_len>>
    /\ UNCHANGED <<flows, time, schedule_job, handler_busy, freeing>>

\* input_handler_send: the flow is handed a packet.
InputSend(flow, len) ==
    /\ ~freeing /\ flow \in flows \ queued /\ flow # sending_flow
    /\ \/ /\ flow = previous_flow
          /\ previous_flow' = NoFlow
          /\ UNCHANGED time
       \/ /\ flow # previous_flow
          /\ \E x \in Times :
               /\ get_current_time(x)
               /\ time' = [time EXCEPT ![flow] = IF @ < x THEN x ELSE @]
          /\ UNCHANGED previous_flow
    /\ data_len' = [data_len EXCEPT ![flow] = len]
    /\ \/ /\ sending_flow = NoFlow /\ ~schedule_job
          /\ schedule(queued \cup {flow}, time', data_len')
       \/ /\ sending_flow # NoFlow \/ schedule_job
          /\ queued' = queued \cup {flow}
          /\ UNCHANGED <<sending_flow, sending_len>>
    /\ UNCHANGED <<flows, schedule_job, handler_busy, freeing>>

\* output_handler_done: the output has sent the packet.  The busy handler, if
\* set, is called last; it may free the flow, which is a step of its own here.
OutputDone ==
    /\ sending_flow # NoFlow /\ ~freeing
    /\ sending_flow' = NoFlow
    /\ previous_flow' = sending_flow
    /\ increment_sent_flow(sending_flow, packet_weight + sending_len)
    /\ schedule_job' = TRUE
    /\ handler_busy' = handler_busy \ {sending_flow}
    /\ UNCHANGED <<flows, queued, data_len, sending_len, freeing>>

\* PacketPassFairQueueFlow_SetBusyHandler
SetBusyHandler(flow) ==
    /\ ~freeing /\ flow \in flows /\ flow = sending_flow /\ flow \notin handler_busy
    /\ handler_busy' = handler_busy \cup {flow}
    /\ UNCHANGED <<flows, time, queued, data_len, sending_flow, sending_len,
                   previous_flow, schedule_job, freeing>>

\* PacketPassFairQueueFlow_Init
FlowInit(flow) ==
    /\ ~freeing /\ flow \in Flows \ flows
    /\ flows' = flows \cup {flow}
    /\ time' = [time EXCEPT ![flow] = 0]
    /\ UNCHANGED <<queued, data_len, sending_flow, sending_len, previous_flow,
                   schedule_job, handler_busy, freeing>>

\* PacketPassFairQueueFlow_Free
FlowFree(flow) ==
    /\ flow \in flows
    /\ freeing \/ flow # sending_flow
    /\ flows' = flows \ {flow}
    /\ queued' = queued \ {flow}
    /\ sending_flow' = IF flow = sending_flow THEN NoFlow ELSE sending_flow
    /\ previous_flow' = IF flow = previous_flow THEN NoFlow ELSE previous_flow
    /\ handler_busy' = handler_busy \ {flow}
    /\ time' = [time EXCEPT ![flow] = 0]           \* its memory is gone
    /\ data_len' = [data_len EXCEPT ![flow] = 0]
    /\ UNCHANGED <<sending_len, schedule_job, freeing>>

\* PacketPassFairQueue_PrepareFree
PrepareFree ==
    /\ ~freeing
    /\ freeing' = TRUE
    /\ UNCHANGED <<flows, time, queued, data_len, sending_flow, sending_len,
                   previous_flow, schedule_job, handler_busy>>

\* PacketPassFairQueue_Free, after which the object can be initialised again.
Free == /\ flows = {}
        /\ schedule_job' = FALSE
        /\ freeing' = FALSE
        /\ sending_len' = 0
        /\ UNCHANGED <<flows, time, queued, data_len, sending_flow, previous_flow,
                       handler_busy>>

QueueNext == \/ ScheduleJob \/ OutputDone \/ PrepareFree \/ Free
             \/ \E f \in Flows : FlowInit(f) \/ FlowFree(f) \/ SetBusyHandler(f)
             \/ \E f \in Flows, len \in Lens : InputSend(f, len)

QueueSpec == QueueInit /\ [][QueueNext]_queueVars

\* The reactor runs the schedule job and the output sends what it was given.
QueueFairness == WF_queueVars(ScheduleJob) /\ WF_queueVars(OutputDone)

FairQueueSpec == QueueSpec /\ QueueFairness
-----------------------------------------------------------------------------
\* The ASSERTs of the handlers, whatever the users of the flows do from inside
\* each other's handlers: a flow is not both sent and waiting; while a packet
\* is sent no flow is remembered as previous and no job is set (so that
\* output_handler_done may set both); a remembered flow always has the job that
\* will forget it; and once everything is freed nothing is left behind.
HandlersAgree ==
    /\ sending_flow \notin queued
    /\ sending_flow # NoFlow => previous_flow = NoFlow /\ ~schedule_job
    /\ previous_flow # NoFlow => schedule_job /\ previous_flow \notin queued
    /\ handler_busy \subseteq {sending_flow}

\* The queue never stalls: a waiting packet implies that one is being sent or
\* that the job that chooses the next one is set.
NeverStalls == queued # {} => sending_flow # NoFlow \/ schedule_job \/ freeing

\* The flow being sent has the least time of all that want to send: one that
\* starts to wait meanwhile, however long it was idle, does not get behind it.
SendsFirst ==
    sending_flow # NoFlow => \A f \in queued : time[sending_flow] <= time[f]

\* Moving all times down when one is about to overflow is invisible: the flow
\* just sent moves ahead of each waiting flow by exactly the weight of its
\* packet, and waiting flows keep their distances, although the arithmetic
\* wraps around on the way.
ShiftsOnly ==
    [][OutputDone =>
        LET s == sending_flow  amount == packet_weight + sending_len IN
        \A f, g \in queued :
             /\ time'[s] - time'[f] = time[s] + amount - time[f]
             /\ time'[f] - time'[g] = time[f] - time[g]]_queueVars

\* No flow starves: a packet that waits is eventually sent, or its flow freed,
\* although other flows send for ever, as long as flows are not created for
\* ever too (a flow that is freed and created again before the schedule job
\* runs starts from the time of the first waiting one).
CreationEnds == <>[][\A f \in Flows : ~FlowInit(f)]_queueVars
NoStarvation == CreationEnds => \A f \in Flows : f \in queued ~> f \notin queued \/ freeing
=============================================================================
