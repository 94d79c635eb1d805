--------------------------- MODULE FragmentProto ---------------------------
(***************************************************************************)
(* Frames between two peers over UDP: the sender's FragmentProtoDisassembler*)
(* packs frames into packets as chunks, the network loses, duplicates and  *)
(* reorders packets, and the receiver's FragmentProtoAssembler puts the    *)
(* frames together again, in as many frame entries as it was given.        *)
(*                                                                         *)
(* A byte of a frame is <<which frame, position, length of the frame>>, so *)
(* a chunk only says which frame it was cut from (of, total).  Frames are  *)
(* numbered from 0; the number is what a frame_id stands for until the id  *)
(* wraps, and no code reads it.  Sizes are in units of one chunk header.   *)
(***************************************************************************)
EXTENDS JobList, FiniteSetsExt, Functions

CONSTANTS
  Settings, \* how two peers may be set up, and what the network may do to them
  NULL

Chunks == [frame_id : Nat, start : Nat, len : Nat, is_last : BOOLEAN,
           of : Nat, total : Nat]

ASSUME FragmentAssumption ==
  /\ NULL \notin Seq(Chunks) /\ NULL \notin Nat /\ NULL \notin [of : Nat, total : Nat]
  /\ \A o \in Settings :
       /\ o.carrier_mtu \in Nat \ {0, 1} \* more than a header
       /\ o.output_mtu \in Nat /\ o.Lengths \subseteq Nat /\ o.latency \in Int
       /\ o.IdSpace \in Nat \ {0} /\ o.FPA_MAX_TIME \in Nat
       /\ o.num_frames \in 1 .. o.FPA_MAX_TIME - 1

VARIABLES
  options,   \* the setting of this behaviour, a member of Settings
  dis,       \* the sender's FragmentProtoDisassembler
  net,       \* packets not yet passed by all earlier ones, oldest first
  faults,    \* what the network did: [lost, copies (still to come), copied]
  asm,       \* the receiver's FragmentProtoAssembler
  delivered  \* the frames that were passed on to the receiver's output

vars == <<options, dis, net, faults, asm, delivered>>

(* A walk over a list, from its first element to its last.                 *)
FoldLeft(op(_, _), base, list) ==
  MapThenFoldSet(LAMBDA x, done : op(done, x), base, LAMBDA i : list[i],
                 LAMBDA left : Max(left), DOMAIN list)

header == 1 \* sizeof(struct fragmentproto_chunk_header), the unit of size

(***************************************************************************)
(* The number of chunks an assembler is given room for.                    *)
(***************************************************************************)
fragmentproto_max_chunks_for_frame_bare(carrier_mtu, frame_mtu) ==
  (frame_mtu + carrier_mtu - header - 1) \div (carrier_mtu - header)

fragmentproto_max_chunks_for_frame(carrier_mtu, frame_mtu) ==
  (frame_mtu + carrier_mtu - header - 1) \div (carrier_mtu - header) + 1

num_chunks ==
  fragmentproto_max_chunks_for_frame(options.carrier_mtu, options.output_mtu)

-----------------------------------------------------------------------------
(* The disassembler                                                        *)

in_avail(d) == d.in.total - d.in_used
out_avail(d) == options.carrier_mtu - d.out_used - header

(* write_chunks' loop.  DatagramPeerIO sets no chunk_mtu, so its one round *)
(* uses up the frame or the packet.                                        *)
write_chunk(d) ==
  LET len == Min({in_avail(d), out_avail(d)})
  IN [d EXCEPT !.out = Append(@, [frame_id |-> d.frame_id, start |-> d.in_used,
                                  len |-> len, is_last |-> len = in_avail(d),
                                  of |-> d.in.of, total |-> d.in.total]),
               !.last = [frame_id |-> d.frame_id, of |-> d.in.of],
               !.in_used = @ + len,
               !.out_used = @ + header + len]

(* PacketRecvInterface_Done: the packet goes out. *)
finish_output(d) ==
  [d EXCEPT !.sent = <<d.out>>, !.out = NULL, !.out_used = 0]

finish_input(d) == [d EXCEPT !.in = NULL, !.in_used = 0]

(* The end of write_chunks with the timer left running when the packet is  *)
(* done.                                                                   *)
end_output_timer(d) ==
  IF out_avail(d) <= 0 \/ options.latency < 0
  THEN finish_output(d)
  ELSE [d EXCEPT !.timer = TRUE]

end_output(d) ==
  IF out_avail(d) <= 0 \/ options.latency < 0
  THEN finish_output([d EXCEPT !.timer = FALSE])
  ELSE [d EXCEPT !.timer = TRUE]

write_chunks(d) ==
  LET e == write_chunk(d)
  IN end_output(IF in_avail(e) = 0
                THEN [finish_input(e) EXCEPT
                        !.frame_id = (@ + 1) % options.IdSpace]
                ELSE e)

Disassembler ==
  [frame_id |-> 0, in |-> NULL, in_used |-> 0, out |-> NULL, out_used |-> 0,
   timer |-> FALSE, sent |-> <<>>,
   frames |-> 0,      \* frames that came in so far
   last |-> NULL,     \* the frame the last chunk written is of, and its id
   cancels |-> 0,     \* frames given up while they waited for output
   halved |-> FALSE]  \* whether one of them had been sent in part

-----------------------------------------------------------------------------
(* The assembler                                                           *)

free_frame(a, f) ==
  [a EXCEPT !.used = LinkedList1_Remove(@, f), !.free = Append(@, f),
            !.frames[f] = NULL]

allocate_new_frame(a, id) ==
  LET b == IF a.free = <<>> THEN free_frame(a, Head(a.used)) ELSE a
      f == Head(b.free)
  IN [b EXCEPT !.free = Tail(@), !.used = Append(@, f),
               !.frames[f] = [id |-> id, time |-> a.time, chunks |-> <<>>,
                              sum |-> 0, length |-> -1, length_so_far |-> 0,
                              buffer |-> <<>>, age |-> 0]]

chunks_overlap(c, d) == c.start + c.len > d.start /\ d.start + d.len > c.start

frame_is_timed_out_never(a, f) == FALSE

frame_is_timed_out(a, f) == a.time - a.frames[f].time > options.num_frames

(* reduce_times without the removal of the frames that timed out. *)
reduce_times_keep(a) ==
  IF a.used = <<>> THEN [a EXCEPT !.time = 0]
  ELSE LET min_time == Min({a.frames[f].time : f \in Range(a.used)})
       IN [a EXCEPT !.time = @ - min_time,
                    !.frames = [f \in DOMAIN a.frames |->
                                  IF f \in Range(a.used)
                                  THEN [a.frames[f] EXCEPT !.time = @ - min_time]
                                  ELSE a.frames[f]]]

(* The first loop of reduce_times at frame f. *)
free_timed_out(a, f) == IF frame_is_timed_out(a, f) THEN free_frame(a, f) ELSE a

reduce_times(a) ==
  LET b == FoldLeft(free_timed_out, a, a.used)
  IN IF b.used = <<>> THEN [b EXCEPT !.time = 0]
     ELSE LET min_time == Min({b.frames[f].time : f \in Range(b.used)})
          IN [b EXCEPT !.time = @ - min_time,
                       !.frames = [f \in DOMAIN b.frames |->
                                     IF f \in Range(b.used)
                                     THEN [b.frames[f] EXCEPT !.time = @ - min_time]
                                     ELSE b.frames[f]]]

(* The used entry of a frame id, or NULL. *)
lookup(a, id) ==
  LET found == {f \in Range(a.used) : a.frames[f].id = id}
  IN IF found = {} THEN NULL ELSE CHOOSE f \in found : TRUE

(* Whether a chunk contradicts what its frame's entry holds. *)
contradicts(e, c) ==
  \/ \E i \in DOMAIN e.chunks : chunks_overlap(e.chunks[i], c)
  \/ c.is_last /\ (e.length >= 0 \/ e.length_so_far > c.start + c.len)
  \/ ~c.is_last /\ e.length >= 0 /\ c.start + c.len > e.length

(* The entry with the chunk added and its payload copied. *)
add_chunk(e, c, time) ==
  LET end == c.start + c.len
  IN [e EXCEPT
        !.time = time, !.age = 0,
        !.chunks = Append(@, [start |-> c.start, len |-> c.len]),
        !.sum = @ + c.len,
        !.length = IF c.is_last THEN end ELSE @,
        !.length_so_far = IF ~c.is_last /\ e.length < 0 THEN Max({@, end}) ELSE @,
        !.buffer = [p \in DOMAIN @ \cup (c.start .. end - 1) |->
                      IF p \in c.start .. end - 1 THEN <<c.of, p, c.total>> ELSE @[p]]]

(* process_chunk for a chunk of a size the output takes. *)
process_good_chunk(a, c) ==
  LET old == lookup(a, c.frame_id)
      b == IF old = NULL THEN allocate_new_frame(a, c.frame_id)
           ELSE IF frame_is_timed_out(a, old)
                THEN allocate_new_frame(free_frame(a, old), c.frame_id)
                ELSE a
      f == lookup(b, c.frame_id)
      e == add_chunk(b.frames[f], c, a.time)
  IN IF contradicts(b.frames[f], c) THEN free_frame(b, f)
     ELSE IF e.length < 0 \/ e.sum < e.length
          THEN IF Len(e.chunks) = num_chunks THEN free_frame(b, f)
               ELSE [b EXCEPT !.frames[f] = e]
          ELSE [free_frame(b, f) EXCEPT
                  !.sending = [frame |-> f,
                               data |-> [p \in 0 .. e.length - 1 |->
                                           IF p \in DOMAIN e.buffer
                                           THEN e.buffer[p] ELSE NULL]]]

process_chunk(a, c) ==
  IF \/ c.start > options.output_mtu
     \/ c.len > options.output_mtu - c.start
  THEN a ELSE process_good_chunk(a, c)

(* The packet is done with: the packet time moves on. *)
finish_packet(a) ==
  LET b == IF a.time = options.FPA_MAX_TIME THEN reduce_times(a) ELSE a
      c == [b EXCEPT !.in = NULL,
                     !.frames = [f \in DOMAIN b.frames |->
                                   IF f \in Range(b.used)
                                   THEN [b.frames[f] EXCEPT !.age = @ + 1]
                                   ELSE b.frames[f]]]
  IN IF a.time = options.FPA_MAX_TIME /\ b.used = <<>> THEN c
     ELSE [c EXCEPT !.time = (@ + 1) % (options.FPA_MAX_TIME + 1)]

(* The loop of process_input at chunk c: it stops when a frame is complete. *)
next_chunk(a, c) ==
  IF a.sending # NULL THEN a ELSE [process_chunk(a, c) EXCEPT !.in = Tail(@)]

process_input(a) ==
  LET b == FoldLeft(next_chunk, a, a.in)
  IN IF b.sending # NULL THEN b ELSE finish_packet(b)

(* FragmentProtoAssembler_Init with one entry less than it was asked for. *)
Assembler_short(o) ==
  [time |-> 0, frames |-> [f \in 1 .. o.num_frames - 1 |-> NULL], used |-> <<>>,
   free |-> [f \in 1 .. o.num_frames - 1 |-> f], in |-> NULL, sending |-> NULL]

Assembler(o) ==
  [time |-> 0, frames |-> [f \in 1 .. o.num_frames |-> NULL], used |-> <<>>,
   free |-> [f \in 1 .. o.num_frames |-> f], in |-> NULL, sending |-> NULL]

-----------------------------------------------------------------------------
Init ==
  /\ options \in Settings
  /\ dis = Disassembler
  /\ net = <<>>
  /\ faults = [lost |-> 0, copies |-> <<>>, copied |-> 0]
  /\ asm = Assembler(options)
  /\ delivered = {}

(* A handler of the disassembler left d: a finished packet is on its way.  *)
Leave(d) ==
  /\ dis' = [d EXCEPT !.sent = <<>>]
  /\ net' = net \o [i \in DOMAIN d.sent |-> [chunks |-> d.sent[i], at |-> "way"]]
  /\ UNCHANGED <<options, faults, asm, delivered>>

(* A frame of some length comes in (input_handler_send). *)
dis_input_handler_send(len) ==
  /\ dis.in = NULL
  /\ dis.frames < options.MaxFrames
  /\ LET d == [dis EXCEPT !.in = [of |-> dis.frames, total |-> len],
                          !.in_used = 0, !.frames = @ + 1]
     IN Leave(IF d.out = NULL THEN d ELSE write_chunks(d))

(* The flow whose frame is waiting is detached (input_handler_requestcancel,*)
(* called by flow_buffer_schedule_detach through the fair queue).          *)
input_handler_requestcancel ==
  /\ dis.in # NULL
  /\ dis.cancels < options.MaxCancels
  /\ Leave([finish_input(dis) EXCEPT !.cancels = @ + 1,
                                     !.halved = @ \/ dis.in_used > 0])

(* The encoder below wants a packet (output_handler_recv).  Bounded: not   *)
(* while MaxFlight packets are on their way.                               *)
output_handler_recv ==
  /\ dis.out = NULL
  /\ Len(net) < options.MaxFlight
  /\ LET d == [dis EXCEPT !.out = <<>>, !.out_used = 0]
     IN Leave(IF d.in = NULL THEN d ELSE write_chunks(d))

(* The latency is over (timer_handler). *)
timer_handler ==
  /\ dis.timer
  /\ Leave(finish_output([dis EXCEPT !.timer = FALSE]))

(* Packets all earlier packets of which are there or lost are let go.      *)
Settle(n) ==
  LET ways == {i \in DOMAIN n : n[i].at = "way"}
  IN IF ways = {} THEN <<>> ELSE SubSeq(n, Min(ways), Len(n))

(* The assembler ran and left a: a frame it sends is delivered. *)
Assembled(a) ==
  /\ asm' = a
  /\ delivered' = delivered \cup
       IF a.sending # NULL THEN {b[1] : b \in {a.sending.data[p] :
                                                p \in DOMAIN a.sending.data}}
       ELSE {}

(* A packet arrives (input_handler_send).  It overtakes at most Overtakes  *)
(* packets, and putting all packets in order takes a buffer of Degree.     *)
asm_input_handler_send(i) ==
  /\ asm.in = NULL
  /\ net[i].at = "way"
  /\ Cardinality({j \in 1 .. i - 1 : net[j].at = "way"}) <= options.Overtakes
  /\ net' = Settle([net EXCEPT ![i].at = "there"])
  /\ Cardinality({j \in DOMAIN net' : net'[j].at = "there"}) <= options.Degree
  /\ Assembled(process_input([asm EXCEPT !.in = net[i].chunks]))
  /\ UNCHANGED <<options, dis, faults>>

(* The network loses a packet, or will bring it a second time. *)
Lose(i) ==
  /\ net[i].at = "way"
  /\ faults.lost < options.MaxLost
  /\ net' = Settle([net EXCEPT ![i].at = "lost"])
  /\ faults' = [faults EXCEPT !.lost = @ + 1]
  /\ UNCHANGED <<options, dis, asm, delivered>>

Duplicate(i) ==
  /\ net[i].at = "way"
  /\ faults.copied < options.MaxCopies
  /\ faults' = [faults EXCEPT !.copies = Append(@, net[i].chunks), !.copied = @ + 1]
  /\ UNCHANGED <<options, dis, net, asm, delivered>>

(* The copy arrives, unless more than MaxDelay frames were encoded since.  *)
ArriveCopy ==
  /\ asm.in = NULL
  /\ faults.copies # <<>>
  /\ dis.frames - Head(faults.copies)[1].of <= options.MaxDelay
  /\ faults' = [faults EXCEPT !.copies = Tail(@)]
  /\ Assembled(process_input([asm EXCEPT !.in = Head(faults.copies)]))
  /\ UNCHANGED <<options, dis, net>>

(* The receiver is done with the frame (output_handler_done). *)
output_handler_done ==
  /\ asm.sending # NULL
  /\ Assembled(process_input([asm EXCEPT !.sending = NULL]))
  /\ UNCHANGED <<options, dis, net, faults>>

Next ==
  \/ \E len \in options.Lengths : dis_input_handler_send(len)
  \/ input_handler_requestcancel
  \/ output_handler_recv
  \/ timer_handler
  \/ \E i \in DOMAIN net : asm_input_handler_send(i)
  \/ \E i \in DOMAIN net : Lose(i)
  \/ \E i \in DOMAIN net : Duplicate(i)
  \/ ArriveCopy
  \/ output_handler_done

Spec == Init /\ [][Next]_vars

-----------------------------------------------------------------------------
(* A frame passed on is one frame that was sent, whole and in its order,   *)
(* and its entry is not given to another frame while the receiver still    *)
(* reads its buffer: process_chunk's checks keep chunks of different       *)
(* frames apart through losses, copies, reordering and reuse of a frame id *)
(* (as long as no frame was given up half sent: see AscendingIds).         *)
Unmixed ==
  asm.sending # NULL /\ ~dis.halved =>
    /\ asm.sending.frame \notin Range(asm.used)
    /\ LET data == asm.sending.data
       IN \E n \in 0 .. dis.frames - 1 :
            \A p \in DOMAIN data : data[p] = <<n, p, Cardinality(DOMAIN data)>>

(* The chunks that are still to be processed. *)
Coming ==
  LET of(s) == {s[i].of : i \in DOMAIN s}
  IN (IF dis.out = NULL THEN {} ELSE of(dis.out))
     \cup UNION {of(net[i].chunks) : i \in {j \in DOMAIN net : net[j].at = "way"}}
     \cup (IF asm.in = NULL THEN {} ELSE of(asm.in))

(* Every frame the output takes is passed on once all of its chunks are    *)
(* processed, unless the network or a detached flow is to blame.           *)
NoneMissing ==
  /\ faults.lost = 0 /\ faults.copied = 0 /\ dis.cancels = 0
  /\ \A len \in options.Lengths : len <= options.output_mtu
  =>
    \A n \in 0 .. dis.frames - 1 :
      (dis.in # NULL => dis.in.of # n) /\ n \notin Coming => n \in delivered

(* When no packet overtakes more than Overtakes others, and Degree packets *)
(* at most are there before an earlier one, then Degree + Overtakes + 1    *)
(* entries are enough: no frame is evicted by allocate_new_frame, times    *)
(* out or runs out of chunks while a part of it is still to come, even if  *)
(* every packet ends one frame and begins the next.                        *)
RoomToReorder == options.num_frames > options.Degree + options.Overtakes => NoneMissing

(* "To make the assembler tolerate out-of-order input of degree D, set to  *)
(* D+2.  Here, D is the minimum size of a hypothetical buffer needed to    *)
(* order the input" (the num_frames of FragmentProtoAssembler_Init in      *)
(* FragmentProtoAssembler.h).                                              *)
Tolerates == options.num_frames >= options.Degree + 2 => NoneMissing

(* The difference of the packet time and the time of a frame is the number *)
(* of packets since the frame's last chunk, whatever reduce_times did when *)
(* the packet time was at its limit: frame_is_timed_out is right about it. *)
AgesTrue ==
  \A f \in Range(asm.used) : asm.time - asm.frames[f].time = asm.frames[f].age

(* A packet begun is never left waiting without a timer to flush it, the   *)
(* timer never runs without it, and no frame waits while there is a packet *)
(* to write it to: the asserts of timer_handler and requestcancel.         *)
FlushArmed ==
  /\ dis.timer <=> dis.out # NULL /\ dis.out # <<>>
  /\ dis.in # NULL => dis.out = NULL

(* "Frames should be given ascending identifiers as they are encoded into  *)
(* chunks (except when the ID wraps to zero)" (fragmentproto.h): a chunk   *)
(* of another frame than the last chunk's has a greater id, or id zero.    *)
AscendingIds ==
  [][dis.last # NULL /\ dis'.last.of # dis.last.of =>
       \/ dis'.last.frame_id > dis.last.frame_id
       \/ dis'.last.frame_id = 0]_vars
=============================================================================
