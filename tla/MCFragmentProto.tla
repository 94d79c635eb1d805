-------------------------- MODULE MCFragmentProto --------------------------
(* Instances of FragmentProto for model checking.                          *)
EXTENDS FragmentProto

(* Frames of one header's size share a packet; one of five headers' size   *)
(* takes two packets, or three when it begins behind another frame.        *)
Base ==
  [carrier_mtu |-> 4, latency |-> 0, output_mtu |-> 5,
   num_frames |-> 2, FPA_MAX_TIME |-> 3, IdSpace |-> 8,
   Lengths |-> {1, 5}, MaxFrames |-> 5, MaxFlight |-> 2,
   Degree |-> 0, Overtakes |-> 0,
   MaxLost |-> 0, MaxCopies |-> 0, MaxDelay |-> 4, MaxCancels |-> 0]

(* A packet is lost, and later frame ids wrap around to the lost frame's.  *)
Lossy == [Base EXCEPT !.MaxLost = 1, !.MaxFrames = 10]

(* A packet comes twice, the second time late, and ids wrap around. *)
Copied == [Base EXCEPT !.MaxCopies = 1, !.MaxFrames = 10]

(* A packet is lost and one comes twice. *)
Faulty == [Base EXCEPT !.MaxLost = 1, !.MaxCopies = 1]

(* Packets overtake one another; a frame is spread over many packets. *)
Reordered == [Base EXCEPT !.Degree = 1, !.Overtakes = 1, !.num_frames = 3,
                          !.FPA_MAX_TIME = 4, !.MaxFlight = 3]

(* One packet overtakes two others. *)
Far == [Reordered EXCEPT !.Overtakes = 2, !.num_frames = 4, !.FPA_MAX_TIME = 5,
                         !.MaxFlight = 4]

(* Packets end one frame and begin the next: all entries are needed. *)
Crossed == [Base EXCEPT !.carrier_mtu = 5, !.output_mtu = 3, !.Lengths = {1, 3},
                        !.Degree = 2, !.Overtakes = 2, !.num_frames = 5,
                        !.FPA_MAX_TIME = 6, !.MaxFlight = 4, !.MaxFrames = 6]

(* The same with the entries that client.h asks for, which by the rule of  *)
(* FragmentProtoAssembler.h are enough for degree 2.                       *)
Deployed == [Crossed EXCEPT !.num_frames = 4, !.FPA_MAX_TIME = 5]

(* Every packet leaves at once. *)
Unpacked == [Base EXCEPT !.latency = -1, !.MaxLost = 1]

(* The receiver takes frames of four headers' size only. *)
Narrow == [Base EXCEPT !.output_mtu = 4]

(* Frames are given up while they wait. *)
Cancelled == [Base EXCEPT !.MaxCancels = 2, !.MaxLost = 1]

AllSettings ==
  {Lossy, Copied, Faulty, Reordered, Far, Crossed, Unpacked, Narrow, Cancelled}

CancelledOnly == {Cancelled}
DeployedOnly == {Deployed}
=============================================================================
