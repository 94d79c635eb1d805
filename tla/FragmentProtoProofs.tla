------------------------ MODULE FragmentProtoProofs ------------------------
(***************************************************************************)
(* Proofs about FragmentProto, for all settings: every MTU, length, number *)
(* of entries, limit of the packet time and behaviour of the network.      *)
(*                                                                         *)
(* The invariant says of the disassembler that a packet begun has room,    *)
(* has its timer running and took all there was (DisInv), and of the       *)
(* assembler that its entries are a pool (Pool): each is used or free, no  *)
(* two are for one frame id, each holds exactly the bytes its chunks cover *)
(* (Content), and its time and its age in packets agree (Timed).  That is  *)
(* what the asserts in FragmentProtoAssembler.c say.  A chunk that passes  *)
(* process_chunk's checks adds bytes that were not there, so as many bytes *)
(* as the frame is long, all below its length, leave no hole (Complete).   *)
(*                                                                         *)
(* The two loops are folds over a list: each has a lemma (TimedTrace,      *)
(* ChunkTrace) that names the states between the rounds, and what the loop *)
(* keeps is proved round by round with UpTo, an induction over the numbers *)
(* up to the list's length.                                                *)
(***************************************************************************)
EXTENDS FragmentProto, JobListProofs, FiniteSetTheorems, WellFoundedInduction

-----------------------------------------------------------------------------
(* Induction over the numbers *)

\* Numbers are well ordered.
LEMMA LeastOf ==
  ASSUME NEW S, S \subseteq Nat, S # {}
  PROVE  \E k \in S : \A y \in S : k <= y
<1> DEFINE R == {ss \in Nat \X Nat : ss[1] < ss[2]}
<1>1. IsWellFoundedOn(R, Nat) BY NatLessThanWellFounded DEF OpToRel
<1>2. PICK k \in S : \A y \in S : ~(<<y, k>> \in R)
  <2> HIDE DEF R
  <2>1. QED BY <1>1, WFMin, Zenon
<1>3. ASSUME NEW y \in S PROVE k <= y
  <2>1. k \in Nat /\ y \in Nat OBVIOUS
  <2>2. CASE y < k
    <3>1. <<y, k>> \in R BY <2>1, <2>2
    <3> HIDE DEF R
    <3>2. QED BY <3>1, <1>2
  <2>3. QED BY <2>1, <2>2
<1>4. QED BY <1>3

\* Induction up to n, for membership in a set.
LEMMA UpTo ==
  ASSUME NEW n \in Nat, NEW T, 0 \in T, \A i \in 0..(n - 1) : i \in T => i + 1 \in T
  PROVE  \A i \in 0..n : i \in T
<1> DEFINE B == {i \in 0..n : i \notin T}
<1> SUFFICES ASSUME B # {} PROVE FALSE OBVIOUS
<1>1. B \subseteq Nat OBVIOUS
<1>2. PICK k \in B : \A y \in B : k <= y
  <2> HIDE DEF B
  <2>1. QED BY <1>1, LeastOf, Zenon
<1>3. k \in Nat /\ k # 0 /\ k - 1 \in 0..n /\ ~(k <= k - 1) OBVIOUS
<1>4. k - 1 \notin B BY <1>2, <1>3
<1>5. k - 1 \in T /\ k - 1 \in 0..(n-1) /\ (k - 1) + 1 = k BY <1>3, <1>4
<1>6. QED BY <1>5

\* The greatest element of a set that has one.
LEMMA MaxTop ==
  ASSUME NEW s, NEW k \in s, s \subseteq Int, \A y \in s : y <= k
  PROVE  Max(s) = k
<1> DEFINE m == CHOOSE x \in s : \A y \in s : x >= y
<1>1. \A y \in s : k >= y OBVIOUS
<1>2. m \in s /\ \A y \in s : m >= y BY <1>1, Zenon
<1> HIDE DEF m
<1>3. m >= k /\ m <= k /\ m \in Int /\ k \in Int BY <1>2
<1>4. m = k BY <1>3
<1>5. QED BY <1>4, Zenon DEF Max, m

\* The least element of a set of numbers.
LEMMA MinBottom ==
  ASSUME NEW s, s \subseteq Nat, s # {}
  PROVE  Min(s) \in s /\ \A y \in s : Min(s) <= y
<1>1. \E k \in s : \A y \in s : k <= y BY LeastOf, Zenon
<1>2. QED BY <1>1, Zenon DEF Min

\* The first numbers, without the greatest of them.
LEMMA FirstNumbers ==
  ASSUME NEW n \in Nat, NEW i \in 1..n
  PROVE  /\ 1..i \in SUBSET (1..n) /\ 1..i # {} /\ Max(1..i) = i
         /\ (1..i) \ {i} = 1..(i - 1) /\ i \in 0..n /\ i - 1 \in 0..n
<1>1. i \in Nat /\ 1 <= i /\ i <= n OBVIOUS
<1>2. 1..i # {} /\ i \in 1..i /\ i \in 0..n /\ i - 1 \in 0..n BY <1>1
<1>3. 1..i \in SUBSET (1..n) /\ 1..i \subseteq Int /\ \A y \in 1..i : y <= i BY <1>1
<1>4. (1..i) \ {i} = 1..(i - 1) BY <1>1
<1>5. Max(1..i) = i BY <1>2, <1>3, MaxTop, Zenon
<1>6. QED BY <1>2, <1>3, <1>4, <1>5

-----------------------------------------------------------------------------
(* The loops *)

\* The function behind the first loop of reduce_times.
TimedIter(it, base, seq, D) ==
  it = [s \in SUBSET D |-> IF s = {} THEN base
                           ELSE LET x == Max(s) IN free_timed_out(it[s \ {x}], seq[x])]

\* One more element of the list.
LEMMA TimedStep ==
  ASSUME NEW base, NEW seq, NEW k \in Nat, NEW it, TimedIter(it, base, seq, 1..k)
  PROVE  \E jt : TimedIter(jt, base, seq, 1..(k + 1))
<1> DEFINE body(f, s) == IF s = {} THEN base
                         ELSE LET x == Max(s) IN free_timed_out(f[s \ {x}], seq[x])
           jt == [s \in SUBSET (1..(k + 1)) |->
                    IF k + 1 \in s THEN free_timed_out(it[s \ {k + 1}], seq[k + 1]) ELSE it[s]]
<1>1. ASSUME NEW s \in SUBSET (1..(k + 1)) PROVE jt[s] = body(jt, s)
  <2>1. CASE k + 1 \in s
    <3>1. k + 1 \in s /\ s \subseteq Int /\ \A y \in s : y <= k + 1 BY <2>1
    <3>2. Max(s) = k + 1 BY ONLY <3>1, MaxTop, Zenon
    <3>3. s \ {k + 1} \in SUBSET (1..(k+1)) /\ k + 1 \notin s \ {k + 1} OBVIOUS
    <3>4. jt[s \ {k + 1}] = it[s \ {k + 1}] BY <3>3, Zenon
    <3>5. jt[s] = free_timed_out(it[s \ {k + 1}], seq[k + 1]) BY <2>1, Zenon
    <3> HIDE DEF jt
    <3>6. QED BY <2>1, <3>2, <3>4, <3>5, Zenon
  <2>2. CASE k + 1 \notin s
    <3>1. s \in SUBSET (1..k) BY <2>2
    <3>2. jt[s] = it[s] BY <2>2, Zenon
    <3>3. it[s] = body(it, s) BY <3>1, Zenon DEF TimedIter
    <3>4. s \ {Max(s)} \in SUBSET (1..(k+1)) /\ k + 1 \notin s \ {Max(s)} BY <3>1, <2>2, Zenon
    <3>5. jt[s \ {Max(s)}] = it[s \ {Max(s)}] BY <3>4, Zenon
    <3> HIDE DEF jt
    <3>6. QED BY <3>2, <3>3, <3>5, Zenon
  <2>3. QED BY <2>1, <2>2
<1>2. jt = [s \in SUBSET (1..(k + 1)) |-> jt[s]] BY Zenon
<1> HIDE DEF jt
<1>3. jt = [s \in SUBSET (1..(k + 1)) |-> body(jt, s)] BY <1>1, <1>2, Zenon
<1>4. QED BY <1>3, Zenon DEF TimedIter

\* FoldLeft goes through the list from the first element to the last.
LEMMA TimedTrace ==
  ASSUME NEW base, NEW X, NEW seq \in Seq(X)
  PROVE  \E h : /\ h[0] = base
                /\ \A i \in 1..Len(seq) : h[i] = free_timed_out(h[i - 1], seq[i])
                /\ h[Len(seq)] = FoldLeft(free_timed_out, base, seq)
<1> DEFINE n == Len(seq)
           T == {k \in 0..n : \E it : TimedIter(it, base, seq, 1..k)}
<1>1. n \in Nat /\ DOMAIN seq = 1..n OBVIOUS
<1>2. 0 \in T
  <2> DEFINE it == [s \in SUBSET (1..0) |-> base]
  <2>1. ASSUME NEW s \in SUBSET (1..0) PROVE s = {} OBVIOUS
  <2>2. TimedIter(it, base, seq, 1..0) BY <2>1, Zenon DEF TimedIter
  <2> HIDE DEF it
  <2>3. 0 \in 0..n BY <1>1
  <2>4. QED BY <2>2, <2>3
<1> HIDE DEF n
<1>3. ASSUME NEW i \in 0..(n - 1), i \in T PROVE i + 1 \in T
  <2>1. i \in Nat /\ i + 1 \in 0..n BY <1>1
  <2>2. \E jt : TimedIter(jt, base, seq, 1..(i + 1)) BY <1>3, <2>1, TimedStep
  <2>3. QED BY <2>1, <2>2
<1>4. n \in T
  <2> HIDE DEF T
  <2>1. QED BY <1>1, <1>2, <1>3, UpTo
<1> DEFINE it == CHOOSE g : TimedIter(g, base, seq, 1..n)
<1>5. TimedIter(it, base, seq, 1..n) BY <1>4, Zenon
<1>6. FoldLeft(free_timed_out, base, seq) = it[1..n]
  BY <1>1, Zenon DEF FoldLeft, MapThenFoldSet, TimedIter
<1> HIDE DEF it, T
<1> DEFINE h == [i \in 0..n |-> it[1..i]]
<1>7. h[0] = base
  <2>1. 1..0 = {} /\ 1..0 \in SUBSET (1..n) /\ 0 \in 0..n BY <1>1
  <2>2. QED BY <1>5, <2>1, Zenon DEF TimedIter
<1>8. ASSUME NEW i \in 1..n PROVE h[i] = free_timed_out(h[i - 1], seq[i])
  <2>1. /\ 1..i \in SUBSET (1..n) /\ 1..i # {} /\ Max(1..i) = i
        /\ (1..i) \ {i} = 1..(i - 1) /\ i \in 0..n /\ i - 1 \in 0..n
    BY <1>1, FirstNumbers
  <2>2. it[1..i] = free_timed_out(it[1..(i - 1)], seq[i]) BY <1>5, <2>1, Zenon DEF TimedIter
  <2>3. QED BY <2>1, <2>2, Zenon
<1>9. h[n] = it[1..n] BY <1>1
<1> HIDE DEF h
<1>10. QED BY <1>6, <1>7, <1>8, <1>9, Zenon DEF n


\* The function behind the loop of process_input.
ChunkIter(it, base, seq, D) ==
  it = [s \in SUBSET D |-> IF s = {} THEN base
                           ELSE LET x == Max(s) IN next_chunk(it[s \ {x}], seq[x])]

\* One more element of the list.
LEMMA ChunkStep ==
  ASSUME NEW base, NEW seq, NEW k \in Nat, NEW it, ChunkIter(it, base, seq, 1..k)
  PROVE  \E jt : ChunkIter(jt, base, seq, 1..(k + 1))
<1> DEFINE body(f, s) == IF s = {} THEN base
                         ELSE LET x == Max(s) IN next_chunk(f[s \ {x}], seq[x])
           jt == [s \in SUBSET (1..(k + 1)) |->
                    IF k + 1 \in s THEN next_chunk(it[s \ {k + 1}], seq[k + 1]) ELSE it[s]]
<1>1. ASSUME NEW s \in SUBSET (1..(k + 1)) PROVE jt[s] = body(jt, s)
  <2>1. CASE k + 1 \in s
    <3>1. k + 1 \in s /\ s \subseteq Int /\ \A y \in s : y <= k + 1 BY <2>1
    <3>2. Max(s) = k + 1 BY ONLY <3>1, MaxTop, Zenon
    <3>3. s \ {k + 1} \in SUBSET (1..(k+1)) /\ k + 1 \notin s \ {k + 1} OBVIOUS
    <3>4. jt[s \ {k + 1}] = it[s \ {k + 1}] BY <3>3, Zenon
    <3>5. jt[s] = next_chunk(it[s \ {k + 1}], seq[k + 1]) BY <2>1, Zenon
    <3> HIDE DEF jt
    <3>6. QED BY <2>1, <3>2, <3>4, <3>5, Zenon
  <2>2. CASE k + 1 \notin s
    <3>1. s \in SUBSET (1..k) BY <2>2
    <3>2. jt[s] = it[s] BY <2>2, Zenon
    <3>3. it[s] = body(it, s) BY <3>1, Zenon DEF ChunkIter
    <3>4. s \ {Max(s)} \in SUBSET (1..(k+1)) /\ k + 1 \notin s \ {Max(s)} BY <3>1, <2>2, Zenon
    <3>5. jt[s \ {Max(s)}] = it[s \ {Max(s)}] BY <3>4, Zenon
    <3> HIDE DEF jt
    <3>6. QED BY <3>2, <3>3, <3>5, Zenon
  <2>3. QED BY <2>1, <2>2
<1>2. jt = [s \in SUBSET (1..(k + 1)) |-> jt[s]] BY Zenon
<1> HIDE DEF jt
<1>3. jt = [s \in SUBSET (1..(k + 1)) |-> body(jt, s)] BY <1>1, <1>2, Zenon
<1>4. QED BY <1>3, Zenon DEF ChunkIter

\* FoldLeft goes through the list from the first element to the last.
LEMMA ChunkTrace ==
  ASSUME NEW base, NEW X, NEW seq \in Seq(X)
  PROVE  \E h : /\ h[0] = base
                /\ \A i \in 1..Len(seq) : h[i] = next_chunk(h[i - 1], seq[i])
                /\ h[Len(seq)] = FoldLeft(next_chunk, base, seq)
<1> DEFINE n == Len(seq)
           T == {k \in 0..n : \E it : ChunkIter(it, base, seq, 1..k)}
<1>1. n \in Nat /\ DOMAIN seq = 1..n OBVIOUS
<1>2. 0 \in T
  <2> DEFINE it == [s \in SUBSET (1..0) |-> base]
  <2>1. ASSUME NEW s \in SUBSET (1..0) PROVE s = {} OBVIOUS
  <2>2. ChunkIter(it, base, seq, 1..0) BY <2>1, Zenon DEF ChunkIter
  <2> HIDE DEF it
  <2>3. 0 \in 0..n BY <1>1
  <2>4. QED BY <2>2, <2>3
<1> HIDE DEF n
<1>3. ASSUME NEW i \in 0..(n - 1), i \in T PROVE i + 1 \in T
  <2>1. i \in Nat /\ i + 1 \in 0..n BY <1>1
  <2>2. \E jt : ChunkIter(jt, base, seq, 1..(i + 1)) BY <1>3, <2>1, ChunkStep
  <2>3. QED BY <2>1, <2>2
<1>4. n \in T
  <2> HIDE DEF T
  <2>1. QED BY <1>1, <1>2, <1>3, UpTo
<1> DEFINE it == CHOOSE g : ChunkIter(g, base, seq, 1..n)
<1>5. ChunkIter(it, base, seq, 1..n) BY <1>4, Zenon
<1>6. FoldLeft(next_chunk, base, seq) = it[1..n]
  BY <1>1, Zenon DEF FoldLeft, MapThenFoldSet, ChunkIter
<1> HIDE DEF it, T
<1> DEFINE h == [i \in 0..n |-> it[1..i]]
<1>7. h[0] = base
  <2>1. 1..0 = {} /\ 1..0 \in SUBSET (1..n) /\ 0 \in 0..n BY <1>1
  <2>2. QED BY <1>5, <2>1, Zenon DEF ChunkIter
<1>8. ASSUME NEW i \in 1..n PROVE h[i] = next_chunk(h[i - 1], seq[i])
  <2>1. /\ 1..i \in SUBSET (1..n) /\ 1..i # {} /\ Max(1..i) = i
        /\ (1..i) \ {i} = 1..(i - 1) /\ i \in 0..n /\ i - 1 \in 0..n
    BY <1>1, FirstNumbers
  <2>2. it[1..i] = next_chunk(it[1..(i - 1)], seq[i]) BY <1>5, <2>1, Zenon DEF ChunkIter
  <2>3. QED BY <2>1, <2>2, Zenon
<1>9. h[n] = it[1..n] BY <1>1
<1> HIDE DEF h
<1>10. QED BY <1>6, <1>7, <1>8, <1>9, Zenon DEF n


-----------------------------------------------------------------------------
(* The disassembler *)

DisShape(d) ==
  d = [frame_id |-> d.frame_id, in |-> d.in, in_used |-> d.in_used, out |-> d.out,
       out_used |-> d.out_used, timer |-> d.timer, sent |-> d.sent,
       frames |-> d.frames, last |-> d.last, cancels |-> d.cancels,
       halved |-> d.halved]

DisType(d) ==
  /\ DisShape(d)
  /\ d.frame_id \in Nat /\ d.in_used \in Nat /\ d.out_used \in Nat /\ d.frames \in Nat
  /\ d.timer \in BOOLEAN
  /\ d.in # NULL => d.in.of \in Nat /\ d.in.total \in Nat /\ d.in_used <= d.in.total

\* A packet under construction has room for another chunk, its timer runs, and
\* it has taken all there was to take.
DisInv(d) ==
  /\ DisType(d)
  /\ d.sent = <<>>
  /\ d.out # NULL => d.out \in Seq(Chunks) /\ out_avail(d) > 0
  /\ d.timer <=> d.out # NULL /\ d.out # <<>>
  /\ d.in # NULL => d.out = NULL

\* What a handler that began from such a state leaves to Leave.
DisLeft(d) ==
  /\ DisType(d)
  /\ d.sent \in Seq(Seq(Chunks))
  /\ d.out # NULL => d.out \in Seq(Chunks) /\ out_avail(d) > 0
  /\ d.timer <=> d.out # NULL /\ d.out # <<>>
  /\ d.in # NULL => d.out = NULL

\* What the settings say.
LEMMA SettingFacts ==
  ASSUME options \in Settings
  PROVE  /\ options.carrier_mtu \in Nat /\ options.carrier_mtu > 1
         /\ options.output_mtu \in Nat /\ options.Lengths \subseteq Nat
         /\ options.latency \in Int /\ options.IdSpace \in Nat /\ options.IdSpace > 0
         /\ options.FPA_MAX_TIME \in Nat
         /\ options.num_frames \in Nat /\ options.num_frames > 0
         /\ options.num_frames < options.FPA_MAX_TIME
         /\ NULL \notin Seq(Chunks) /\ NULL \notin Nat /\ NULL \notin [of : Nat, total : Nat]
  BY FragmentAssumption, SMTT(30)

\* The smaller of two numbers.
LEMMA MinOfTwo ==
  ASSUME NEW a \in Int, NEW b \in Int
  PROVE  Min({a, b}) = IF a <= b THEN a ELSE b
<1> DEFINE m == IF a <= b THEN a ELSE b
<1>1. m \in {a, b} /\ \A y \in {a, b} : m <= y OBVIOUS
<1>2. \A x \in {a, b} : (\A y \in {a, b} : x <= y) => x = m OBVIOUS
<1> HIDE DEF m
<1>3. Min({a, b}) \in {a, b} /\ \A y \in {a, b} : Min({a, b}) <= y BY <1>1, Zenon DEF Min
<1>4. Min({a, b}) = m BY <1>2, <1>3, Zenon
<1>5. QED BY <1>4 DEF m

\* One round of the loop of write_chunks: the chunk is one of the frame, and
\* either the frame or the packet is used up.
LEMMA WriteChunk ==
  ASSUME options \in Settings, NEW d, DisType(d), d.in # NULL, d.out \in Seq(Chunks),
         out_avail(d) > 0
  PROVE  LET e == write_chunk(d)
         IN  /\ DisType(e) /\ e.in = d.in /\ e.sent = d.sent /\ e.timer = d.timer
             /\ e.out \in Seq(Chunks) /\ e.out # <<>>
             /\ in_avail(e) # 0 => out_avail(e) <= 0
<1> DEFINE len == Min({in_avail(d), out_avail(d)})
           chunk == [frame_id |-> d.frame_id, start |-> d.in_used,
                     len |-> len, is_last |-> len = in_avail(d),
                     of |-> d.in.of, total |-> d.in.total]
           e == write_chunk(d)
<1>0. /\ d.in_used \in Nat /\ d.out_used \in Nat /\ d.in.total \in Nat /\ d.in.of \in Nat
      /\ d.in_used <= d.in.total /\ options.carrier_mtu \in Nat
  BY SettingFacts DEF DisType
<1>1. /\ in_avail(d) = d.in.total - d.in_used /\ in_avail(d) \in Nat
      /\ out_avail(d) = options.carrier_mtu - d.out_used - 1 /\ out_avail(d) \in Nat
  <2>1. in_avail(d) = d.in.total - d.in_used BY DEF in_avail
  <2>2. out_avail(d) = options.carrier_mtu - d.out_used - 1 BY DEF out_avail, header
  <2>3. QED BY <1>0, <2>1, <2>2, SMTT(30)
<1>2. len = IF in_avail(d) <= out_avail(d) THEN in_avail(d) ELSE out_avail(d)
  BY <1>1, MinOfTwo
<1>3. /\ len \in Nat /\ len <= in_avail(d)
      /\ len # in_avail(d) => len = out_avail(d)
  BY <1>1, <1>2, SMTT(30)
<1>4. e = [d EXCEPT !.out = Append(d.out, chunk),
                    !.last = [frame_id |-> d.frame_id, of |-> d.in.of],
                    !.in_used = d.in_used + len, !.out_used = d.out_used + header + len]
  BY Zenon DEF write_chunk
<1>5. chunk \in Chunks BY <1>0, <1>3, SMTT(30) DEF Chunks, DisType
<1> HIDE DEF len, e, chunk
<1>6. /\ e.frame_id = d.frame_id /\ e.in = d.in /\ e.in_used = d.in_used + len
      /\ e.out = Append(d.out, chunk) /\ e.out_used = d.out_used + header + len
      /\ e.timer = d.timer /\ e.sent = d.sent /\ e.frames = d.frames /\ DisShape(e)
  <2>1. e = [frame_id |-> d.frame_id, in |-> d.in, in_used |-> d.in_used + len,
             out |-> Append(d.out, chunk), out_used |-> d.out_used + header + len,
             timer |-> d.timer, sent |-> d.sent, frames |-> d.frames,
             last |-> [frame_id |-> d.frame_id, of |-> d.in.of], cancels |-> d.cancels,
             halved |-> d.halved]
    BY <1>4, Zenon DEF DisType, DisShape
  <2>2. QED BY <2>1, Zenon DEF DisShape
<1>7. Append(d.out, chunk) \in Seq(Chunks) /\ Append(d.out, chunk) # <<>> BY <1>5
<1>8. DisType(e)
  <2>1. d.in_used + len \in Nat /\ d.in_used + len <= d.in.total /\ d.out_used + header + len \in Nat
    BY ONLY <1>0, <1>1, <1>3 DEF header
  <2>2. QED BY <1>6, <2>1, SMTT(30) DEF DisType
<1>9. in_avail(e) = in_avail(d) - len /\ out_avail(e) = out_avail(d) - 1 - len
  <2>1. in_avail(e) = d.in.total - (d.in_used + len) BY <1>6 DEF in_avail
  <2>2. out_avail(e) = options.carrier_mtu - (d.out_used + 1 + len) - 1 BY <1>6 DEF out_avail, header
  <2>3. QED BY ONLY <1>0, <1>1, <1>3, <2>1, <2>2
<1>10. in_avail(e) # 0 => out_avail(e) <= 0 BY <1>1, <1>3, <1>9, SMTT(30)
<1>11. QED BY <1>6, <1>7, <1>8, <1>10, SMTT(30) DEF e

\* write_chunks ends with the frame taken whole or the packet sent.
LEMMA WriteChunks ==
  ASSUME options \in Settings, NEW d, DisType(d), d.in # NULL, d.out \in Seq(Chunks),
         out_avail(d) > 0, d.sent = <<>>
  PROVE  DisLeft(write_chunks(d))
<1> DEFINE e == write_chunk(d)
           g == IF in_avail(e) = 0
                THEN [finish_input(e) EXCEPT !.frame_id = (@ + 1) % options.IdSpace]
                ELSE e
           w == end_output(g)
<1>1. /\ DisType(e) /\ e.in = d.in /\ e.sent = <<>>
      /\ e.out \in Seq(Chunks) /\ e.out # <<>> /\ (in_avail(e) # 0 => out_avail(e) <= 0)
  BY WriteChunk
<1>2. write_chunks(d) = w BY DEF write_chunks
<1> HIDE DEF e
<1>3. /\ DisType(g) /\ g.sent = <<>> /\ g.out = e.out /\ out_avail(g) = out_avail(e)
      /\ g.in # NULL => out_avail(g) <= 0
  <2>1. CASE in_avail(e) = 0
    <3>1. g = [frame_id |-> (e.frame_id + 1) % options.IdSpace, in |-> NULL, in_used |-> 0,
               out |-> e.out, out_used |-> e.out_used, timer |-> e.timer, sent |-> e.sent,
               frames |-> e.frames, last |-> e.last, cancels |-> e.cancels,
               halved |-> e.halved]
      BY <1>1, <2>1, Zenon DEF finish_input, DisType, DisShape
    <3> HIDE DEF g
    <3>2. /\ DisShape(g) /\ g.frame_id = (e.frame_id + 1) % options.IdSpace /\ g.in = NULL
          /\ g.in_used = 0 /\ g.out = e.out /\ g.out_used = e.out_used /\ g.timer = e.timer
          /\ g.sent = e.sent /\ g.frames = e.frames
      BY <3>1, Zenon DEF DisShape
    <3>0. e.frame_id \in Nat /\ options.IdSpace \in Nat /\ options.IdSpace > 0
      BY <1>1, SettingFacts, Zenon DEF DisType
    <3>3. (e.frame_id + 1) % options.IdSpace \in Nat BY ONLY <3>0
    <3>4. DisType(g) BY <1>1, <3>2, <3>3, SMTT(30) DEF DisType
    <3>5. QED BY <1>1, <3>2, <3>4 DEF out_avail
  <2>2. CASE in_avail(e) # 0 BY <1>1, <2>2
  <2>3. QED BY <2>1, <2>2
<1> HIDE DEF g
<1>4. CASE out_avail(g) <= 0 \/ options.latency < 0
  <2>1. w = [frame_id |-> g.frame_id, in |-> g.in, in_used |-> g.in_used,
             out |-> NULL, out_used |-> 0, timer |-> FALSE, sent |-> <<g.out>>,
             frames |-> g.frames, last |-> g.last, cancels |-> g.cancels,
             halved |-> g.halved]
    BY <1>3, <1>4, Zenon DEF end_output, finish_output, DisType, DisShape
  <2> HIDE DEF w
  <2>2. /\ DisShape(w) /\ w.frame_id = g.frame_id /\ w.in = g.in
        /\ w.in_used = g.in_used /\ w.out = NULL /\ w.out_used = 0 /\ w.timer = FALSE
        /\ w.sent = <<g.out>> /\ w.frames = g.frames
    BY <2>1, Zenon DEF DisShape
  <2>3. <<g.out>> \in Seq(Seq(Chunks)) BY <1>1, <1>3
  <2>4. DisType(w) BY <1>3, <2>2, FALSE \in BOOLEAN, 0 \in Nat, Zenon DEF DisType
  <2>5. QED BY <1>2, <2>2, <2>3, <2>4, Zenon DEF DisLeft
<1>5. CASE ~(out_avail(g) <= 0 \/ options.latency < 0)
  <2>1. w = [frame_id |-> g.frame_id, in |-> g.in, in_used |-> g.in_used,
             out |-> g.out, out_used |-> g.out_used, timer |-> TRUE, sent |-> g.sent,
             frames |-> g.frames, last |-> g.last, cancels |-> g.cancels,
             halved |-> g.halved]
    BY <1>3, <1>5, Zenon DEF end_output, DisType, DisShape
  <2> HIDE DEF w
  <2>2. /\ DisShape(w) /\ w.frame_id = g.frame_id /\ w.in = g.in
        /\ w.in_used = g.in_used /\ w.out = g.out /\ w.out_used = g.out_used
        /\ w.timer = TRUE /\ w.sent = g.sent /\ w.frames = g.frames
    BY <2>1, Zenon DEF DisShape
  <2>3. DisType(w) BY <1>3, <2>2, Zenon DEF DisType
  <2>4. out_avail(w) > 0
    <3>1. out_avail(g) \in Int BY <1>3, SettingFacts, SMTT(30) DEF out_avail, DisType, header
    <3>2. out_avail(w) = out_avail(g) BY <2>2 DEF out_avail
    <3>3. QED BY <3>1, <3>2, <1>5
  <2>5. g.out \in Seq(Chunks) /\ g.out # <<>> /\ g.out # NULL BY <1>1, <1>3, SettingFacts
  <2>6. w.sent \in Seq(Seq(Chunks)) BY <1>3, <2>2
  <2>7. w.in = NULL BY <1>3, <1>5, <2>2
  <2>8. QED BY <1>2, <2>2, <2>3, <2>4, <2>5, <2>6, <2>7, Zenon DEF DisLeft
<1>6. QED BY <1>4, <1>5

-----------------------------------------------------------------------------
(* The assembler *)

Entries(o) == 1 .. o.num_frames
Used(a, f) == BSmallPending_IsSet(a.used, f)

AsmShape(a) ==
  a = [time |-> a.time, frames |-> a.frames, used |-> a.used, free |-> a.free,
       in |-> a.in, sending |-> a.sending]

EntryShape(e) ==
  e = [id |-> e.id, time |-> e.time, chunks |-> e.chunks, sum |-> e.sum,
       length |-> e.length, length_so_far |-> e.length_so_far,
       buffer |-> e.buffer, age |-> e.age]

Covers(c, p) == c.start <= p /\ p < c.start + c.len
Byte(x, p) == \E n, t \in Nat : x = <<n, p, t>>

\* What an entry holds: the bytes of its buffer are those its chunks cover,
\* each covered once, and they are all within the length that is known.
Filled(o, e) ==
  /\ EntryShape(e)
  /\ e.chunks \in Seq([start : Nat, len : Nat])
  /\ e.sum \in Nat /\ e.length_so_far \in Nat
  /\ e.length \in Int /\ -1 <= e.length /\ e.length <= o.output_mtu
  /\ DOMAIN e.buffer = {p \in Nat : \E i \in DOMAIN e.chunks : Covers(e.chunks[i], p)}
  /\ IsFiniteSet(DOMAIN e.buffer) /\ Cardinality(DOMAIN e.buffer) = e.sum
  /\ \A p \in DOMAIN e.buffer : p < IF e.length < 0 THEN e.length_so_far ELSE e.length
  /\ \A p \in DOMAIN e.buffer : Byte(e.buffer[p], p)

\* The number of chunks an entry has room for.
Room(o) == fragmentproto_max_chunks_for_frame(o.carrier_mtu, o.output_mtu)

\* The entry of an incomplete frame has room for another chunk.
Content(o, e) == Filled(o, e) /\ Len(e.chunks) < Room(o)

\* The time of an entry, and its age in packets, when the packet time is t.
Timed(e, t) == e.time \in Nat /\ e.time <= t /\ e.age = t - e.time

\* Every entry is used or free, not both; no two used ones have one id.
Pool(o, a) ==
  /\ AsmShape(a)
  /\ a.time \in Nat /\ a.time <= o.FPA_MAX_TIME
  /\ a.used \in Seq(Entries(o)) /\ NoDup(a.used)
  /\ a.free \in Seq(Entries(o)) /\ NoDup(a.free)
  /\ \A f \in Entries(o) : Used(a, f) <=> ~BSmallPending_IsSet(a.free, f)
  /\ a.frames = [f \in Entries(o) |-> a.frames[f]]
  /\ \A f \in Entries(o) : Used(a, f) => Content(o, a.frames[f]) /\ Timed(a.frames[f], a.time)
  /\ \A f, g \in Entries(o) :
       Used(a, f) /\ Used(a, g) /\ a.frames[f].id = a.frames[g].id => f = g

\* What is in the list of used entries is an entry.
LEMMA UsedEntries ==
  ASSUME NEW a, Pool(options, a)
  PROVE  /\ \A f : Used(a, f) => f \in Entries(options)
         /\ \A f : f \in Range(a.used) <=> Used(a, f)
<1>1. a.used \in Seq(Entries(options)) BY DEF Pool
<1>2. \A i \in DOMAIN a.used : a.used[i] \in Entries(options) BY <1>1
<1>3. QED BY <1>2, Zenon DEF Used, BSmallPending_IsSet, Range

\* One entry is changed.
LEMMA ExceptAt ==
  ASSUME NEW D, NEW g, g = [x \in D |-> g[x]], NEW f \in D, NEW v
  PROVE  LET h == [g EXCEPT ![f] = v]
         IN  /\ h = [x \in D |-> h[x]] /\ h[f] = v
             /\ \A x \in D : x # f => h[x] = g[x]
  OBVIOUS

\* free_frame: the entry is free, and nothing else changes.
LEMMA FreeFrame ==
  ASSUME NEW a, Pool(options, a), NEW f, Used(a, f)
  PROVE  LET b == free_frame(a, f)
         IN  /\ Pool(options, b) /\ b.free # <<>>
             /\ b.time = a.time /\ b.in = a.in /\ b.sending = a.sending
             /\ \A g : Used(b, g) <=> Used(a, g) /\ g # f
             /\ \A g \in Entries(options) : g # f => b.frames[g] = a.frames[g]
<1> DEFINE b == free_frame(a, f)
           used == LinkedList1_Remove(a.used, f)
           free == Append(a.free, f)
           frames == [a.frames EXCEPT ![f] = NULL]
<1>0. AsmShape(a) BY DEF Pool
<1>1. b = [time |-> a.time, frames |-> frames, used |-> used, free |-> free,
           in |-> a.in, sending |-> a.sending]
  <2> DEFINE m == [a EXCEPT !.used = used, !.free = free]
  <2>1. b = [m EXCEPT !.frames = [m.frames EXCEPT ![f] = NULL]] BY Zenon DEF free_frame
  <2>2. m = [a EXCEPT !.used = used, !.free = free] OBVIOUS
  <2> HIDE DEF m, used, free
  <2>3. m = [time |-> a.time, frames |-> a.frames, used |-> used, free |-> free,
             in |-> a.in, sending |-> a.sending]
    BY <1>0, <2>2, Zenon DEF AsmShape
  <2>4. m.frames = a.frames BY <2>3, Zenon
  <2> HIDE DEF b
  <2>5. QED BY <2>1, <2>3, <2>4, Zenon
<1>2. f \in Entries(options) /\ ~BSmallPending_IsSet(a.free, f) BY UsedEntries, SMTT(30) DEF Pool
<1>3. /\ used \in Seq(Entries(options)) /\ NoDup(used)
      /\ \A g : BSmallPending_IsSet(used, g) <=> BSmallPending_IsSet(a.used, g) /\ g # f
  BY RemoveFacts, SMTT(30) DEF Pool
<1>4. /\ free \in Seq(Entries(options)) /\ NoDup(free) /\ free # <<>>
      /\ \A g : BSmallPending_IsSet(free, g) <=> BSmallPending_IsSet(a.free, g) \/ g = f
  BY <1>2, AppendFacts, SMTT(30) DEF Pool
<1>5. /\ frames = [g \in Entries(options) |-> frames[g]]
      /\ \A g \in Entries(options) : g # f => frames[g] = a.frames[g]
  <2>1. a.frames = [g \in Entries(options) |-> a.frames[g]] BY DEF Pool
  <2>2. QED BY ONLY <1>2, <2>1, ExceptAt
<1> HIDE DEF b, used, free, frames
<1>6. /\ b.time = a.time /\ b.frames = frames /\ b.used = used /\ b.free = free
      /\ b.in = a.in /\ b.sending = a.sending /\ AsmShape(b)
  BY <1>1, Zenon DEF AsmShape
<1>7. \A g : Used(b, g) <=> Used(a, g) /\ g # f BY <1>3, <1>6, Zenon DEF Used
<1>8. Pool(options, b)
  <2>1. \A g \in Entries(options) : Used(b, g) <=> ~BSmallPending_IsSet(b.free, g)
    BY <1>4, <1>6, <1>7, Zenon DEF Pool
  <2>2. \A g \in Entries(options) : Used(b, g) => b.frames[g] = a.frames[g] /\ Used(a, g)
    BY <1>5, <1>6, <1>7, Zenon
  <2>3. \A g \in Entries(options) : Used(b, g) => Content(options, b.frames[g]) /\ Timed(b.frames[g], b.time)
    BY <2>2, <1>6, Zenon DEF Pool
  <2>4. \A g, k \in Entries(options) :
          Used(b, g) /\ Used(b, k) /\ b.frames[g].id = b.frames[k].id => g = k
    BY <2>2, Zenon DEF Pool
  <2>5. /\ a.time \in Nat /\ a.time <= options.FPA_MAX_TIME BY SMTT(30) DEF Pool
  <2>6. QED BY <2>1, <2>3, <2>4, <2>5, <1>3, <1>4, <1>5, <1>6, Zenon DEF Pool
<1>9. QED BY <1>4, <1>5, <1>6, <1>7, <1>8, Zenon DEF b

\* An entry has room for a chunk.
LEMMA RoomForChunks ==
  ASSUME options \in Settings
  PROVE  Room(options) \in Nat /\ Room(options) > 0
<1> DEFINE x == options.output_mtu + options.carrier_mtu - 1 - 1
           y == options.carrier_mtu - 1
<1>1. x \in Nat /\ y \in Nat /\ y > 0 BY SettingFacts, SMTT(30)
<1>2. Room(options) = x \div y + 1 BY DEF Room, fragmentproto_max_chunks_for_frame, header
<1> HIDE DEF x, y
<1>3. x \div y \in Nat BY <1>1
<1>4. QED BY <1>2, <1>3

\* A new entry holds nothing yet.
NewEntry(id, t) ==
  [id |-> id, time |-> t, chunks |-> <<>>, sum |-> 0, length |-> -1,
   length_so_far |-> 0, buffer |-> <<>>, age |-> 0]

\* So its content and its time are right.
LEMMA NewEntryFacts ==
  ASSUME options \in Settings, NEW id, NEW t \in Nat
  PROVE  /\ Content(options, NewEntry(id, t)) /\ Timed(NewEntry(id, t), t)
         /\ NewEntry(id, t).id = id
<1> DEFINE e == NewEntry(id, t)
<1>1. /\ EntryShape(e) /\ e.id = id /\ e.time = t /\ e.chunks = <<>> /\ e.sum = 0 /\ e.length = -1
      /\ e.length_so_far = 0 /\ e.buffer = <<>> /\ e.age = 0
  BY Zenon DEF NewEntry, EntryShape
<1> HIDE DEF e
<1>2. Timed(e, t) BY <1>1 DEF Timed
<1>3. Len(<<>>) < Room(options) /\ <<>> \in Seq([start : Nat, len : Nat]) /\ DOMAIN <<>> = {}
  BY RoomForChunks
<1>4. DOMAIN e.buffer = {} /\ DOMAIN e.chunks = {} BY <1>1, <1>3
<1>5. {} = {p \in Nat : \E i \in DOMAIN e.chunks : Covers(e.chunks[i], p)} BY <1>4, Zenon
<1>6. IsFiniteSet({}) /\ Cardinality({}) = 0 BY FS_EmptySet
<1>7. -1 <= options.output_mtu BY SettingFacts
<1>8. Content(options, e)
  <2>1. e.chunks \in Seq([start : Nat, len : Nat]) /\ Len(e.chunks) < Room(options) BY <1>1, <1>3
  <2>2. /\ e.sum \in Nat /\ e.length_so_far \in Nat /\ e.length \in Int /\ -1 <= e.length
        /\ e.length <= options.output_mtu
    BY <1>1, <1>7
  <2>3. QED BY <1>1, <2>1, <2>2, <1>4, <1>5, <1>6, Zenon DEF Content, Filled
<1>9. QED BY <1>1, <1>2, <1>8 DEF e

\* The first free entry is taken for id.
TakeEntry(b, id) ==
  [b EXCEPT !.free = Tail(@), !.used = Append(@, Head(b.free)),
            !.frames[Head(b.free)] = NewEntry(id, b.time)]

\* It keeps the pool.
LEMMA TakeFree ==
  ASSUME options \in Settings, NEW b, Pool(options, b), b.free # <<>>, NEW id,
         \A f \in Entries(options) : Used(b, f) => b.frames[f].id # id
  PROVE  LET f == Head(b.free)
             c == TakeEntry(b, id)
         IN  /\ Pool(options, c) /\ c.time = b.time /\ c.in = b.in /\ c.sending = b.sending
             /\ Used(c, f) /\ c.frames[f].id = id
<1> DEFINE f == Head(b.free)
           used == Append(b.used, f)
           free == Tail(b.free)
           frames == [b.frames EXCEPT ![f] = NewEntry(id, b.time)]
           c == TakeEntry(b, id)
<1>0. AsmShape(b) BY SMTT(30) DEF Pool
<1>1. c = [time |-> b.time, frames |-> frames, used |-> used, free |-> free,
           in |-> b.in, sending |-> b.sending]
  <2> DEFINE m == [b EXCEPT !.free = free, !.used = used]
  <2>1. c = [m EXCEPT !.frames = [m.frames EXCEPT ![f] = NewEntry(id, b.time)]]
    BY Zenon DEF TakeEntry
  <2>2. m = [b EXCEPT !.free = free, !.used = used] OBVIOUS
  <2> HIDE DEF m, used, free
  <2>3. m = [time |-> b.time, frames |-> b.frames, used |-> used, free |-> free,
             in |-> b.in, sending |-> b.sending]
    BY <1>0, <2>2, Zenon DEF AsmShape
  <2>4. m.frames = b.frames BY <2>3, Zenon
  <2> HIDE DEF c
  <2>5. QED BY <2>1, <2>3, <2>4, Zenon
<1>2. /\ f \in Entries(options) /\ free \in Seq(Entries(options)) /\ NoDup(free) /\ BSmallPending_IsSet(b.free, f)
      /\ \A g : BSmallPending_IsSet(free, g) <=> BSmallPending_IsSet(b.free, g) /\ g # f
  BY TailFacts DEF Pool
<1>3. ~Used(b, f) BY <1>2 DEF Pool
<1>4. /\ used \in Seq(Entries(options)) /\ NoDup(used)
      /\ \A g : BSmallPending_IsSet(used, g) <=> BSmallPending_IsSet(b.used, g) \/ g = f
  BY <1>2, <1>3, AppendFacts, SMTT(30) DEF Pool, Used
<1>5. /\ frames = [g \in Entries(options) |-> frames[g]] /\ frames[f] = NewEntry(id, b.time)
      /\ \A g \in Entries(options) : g # f => frames[g] = b.frames[g]
  <2>1. b.frames = [g \in Entries(options) |-> b.frames[g]] BY DEF Pool
  <2>2. QED BY ONLY <1>2, <2>1, ExceptAt
<1>6. b.time \in Nat /\ b.time <= options.FPA_MAX_TIME BY DEF Pool
<1>7. /\ Content(options, NewEntry(id, b.time)) /\ Timed(NewEntry(id, b.time), b.time)
      /\ NewEntry(id, b.time).id = id
  BY <1>6, NewEntryFacts
<1> HIDE DEF f, used, free, frames, c
<1>8. /\ c.time = b.time /\ c.frames = frames /\ c.used = used /\ c.free = free
      /\ c.in = b.in /\ c.sending = b.sending /\ AsmShape(c)
  BY <1>1, Zenon DEF AsmShape
<1>9. \A g : Used(c, g) <=> Used(b, g) \/ g = f BY <1>4, <1>8, Zenon DEF Used
<1>10. Pool(options, c)
  <2>1. \A g \in Entries(options) : Used(c, g) <=> ~BSmallPending_IsSet(c.free, g)
    BY <1>2, <1>8, <1>9, Zenon DEF Pool
  <2>2. \A g \in Entries(options) : Used(c, g) => Content(options, c.frames[g]) /\ Timed(c.frames[g], c.time)
    BY <1>5, <1>7, <1>8, <1>9, Zenon DEF Pool
  <2>3. \A g, k \in Entries(options) :
          Used(c, g) /\ Used(c, k) /\ c.frames[g].id = c.frames[k].id => g = k
    <3> SUFFICES ASSUME NEW g \in Entries(options), NEW k \in Entries(options), Used(c, g), Used(c, k),
                        c.frames[g].id = c.frames[k].id
                 PROVE  g = k
      OBVIOUS
    <3>1. CASE g = f /\ k # f BY <3>1, <1>5, <1>7, <1>8, <1>9
    <3>2. CASE k = f /\ g # f BY <3>2, <1>5, <1>7, <1>8, <1>9
    <3>3. CASE k # f /\ g # f
      <4>1. Used(b, g) /\ Used(b, k) /\ b.frames[g].id = b.frames[k].id
        BY <3>3, <1>5, <1>8, <1>9, Zenon
      <4>2. QED BY <4>1 DEF Pool
    <3>4. QED BY <3>1, <3>2, <3>3, Zenon
  <2>4. QED BY <2>1, <2>2, <2>3, <1>2, <1>4, <1>5, <1>6, <1>8, Zenon DEF Pool
<1>11. QED BY <1>5, <1>7, <1>8, <1>9, <1>10, Zenon DEF c, f

\* allocate_new_frame: some entry, the oldest one if none is free, is id's.
LEMMA AllocateNewFrame ==
  ASSUME options \in Settings, NEW a, Pool(options, a), NEW id,
         \A f \in Entries(options) : Used(a, f) => a.frames[f].id # id
  PROVE  LET c == allocate_new_frame(a, id)
         IN  /\ Pool(options, c) /\ c.time = a.time /\ c.in = a.in /\ c.sending = a.sending
             /\ \E f \in Entries(options) : Used(c, f) /\ c.frames[f].id = id
<1> DEFINE b == IF a.free = <<>> THEN free_frame(a, Head(a.used)) ELSE a
           f == Head(b.free)
           c == TakeEntry(b, id)
<1>1. /\ Pool(options, b) /\ b.free # <<>> /\ b.time = a.time /\ b.in = a.in /\ b.sending = a.sending
      /\ \A g \in Entries(options) : Used(b, g) => b.frames[g].id # id
  <2>1. CASE a.free # <<>> BY <2>1
  <2>2. CASE a.free = <<>>
    <3>1. 1 \in Entries(options) BY SettingFacts DEF Entries
    <3>2. ~BSmallPending_IsSet(a.free, 1) BY <2>2 DEF BSmallPending_IsSet
    <3>3. Used(a, 1) BY <3>1, <3>2 DEF Pool
    <3>4. a.used # <<>> BY <3>3 DEF Used, BSmallPending_IsSet
    <3>5. Used(a, Head(a.used)) BY <3>4, TailFacts, SMTT(30) DEF Pool, Used
    <3>6. b = free_frame(a, Head(a.used)) BY <2>2
    <3> HIDE DEF b
    <3>7. /\ Pool(options, b) /\ b.free # <<>> /\ b.time = a.time /\ b.in = a.in /\ b.sending = a.sending
          /\ \A g : Used(b, g) <=> Used(a, g) /\ g # Head(a.used)
          /\ \A g \in Entries(options) : g # Head(a.used) => b.frames[g] = a.frames[g]
      BY <3>5, <3>6, FreeFrame, SMTT(30)
    <3>8. QED BY <3>7, Zenon
  <2>3. QED BY <2>1, <2>2, SMTT(30)
<1>2. allocate_new_frame(a, id) = c
  <2>1. allocate_new_frame(a, id) = [b EXCEPT !.free = Tail(@), !.used = Append(@, f),
                                              !.frames[f] = NewEntry(id, a.time)]
    BY Zenon DEF allocate_new_frame, NewEntry
  <2> HIDE DEF b
  <2>2. QED BY <1>1, <2>1, Zenon DEF TakeEntry
<1> HIDE DEF b
<1>3. /\ Pool(options, c) /\ c.time = b.time /\ c.in = b.in /\ c.sending = b.sending
      /\ Used(c, f) /\ c.frames[f].id = id
  BY <1>1, TakeFree, SMTT(30)
<1> HIDE DEF c, f
<1>4. f \in Entries(options) BY <1>3, UsedEntries
<1>5. QED BY <1>1, <1>2, <1>3, <1>4, Zenon

\* The size of a range of positions.
LEMMA IntervalSize ==
  ASSUME NEW a \in Nat, NEW b \in Nat, a <= b
  PROVE  IsFiniteSet(a .. b - 1) /\ Cardinality(a .. b - 1) = b - a
<1> DEFINE x == b - 1
<1>1. x \in Int /\ (IF a > x THEN 0 ELSE x - a + 1) = b - a OBVIOUS
<1> HIDE DEF x
<1>2. a \in Int OBVIOUS
<1>3. /\ IsFiniteSet(a .. x)
      /\ Cardinality(a .. x) = IF a > x THEN 0 ELSE x - a + 1
  BY ONLY <1>1, <1>2, FS_Interval
<1>4. QED BY <1>1, <1>3 DEF x

\* A chunk that contradicts nothing adds its bytes to those already there.
LEMMA AddChunk ==
  ASSUME options \in Settings, NEW e, Filled(options, e), NEW c \in Chunks, NEW t \in Nat,
         c.start + c.len <= options.output_mtu, ~contradicts(e, c)
  PROVE  LET n == add_chunk(e, c, t)
         IN  /\ Filled(options, n) /\ Timed(n, t) /\ n.id = e.id
             /\ Len(n.chunks) = Len(e.chunks) + 1
<1> DEFINE end == c.start + c.len
           span == c.start .. end - 1
           n == add_chunk(e, c, t)
           chunk == [start |-> c.start, len |-> c.len]
           chunks == Append(e.chunks, chunk)
           length == IF c.is_last THEN end ELSE e.length
           so_far == IF ~c.is_last /\ e.length < 0 THEN Max({e.length_so_far, end})
                     ELSE e.length_so_far
           buffer == [p \in DOMAIN e.buffer \cup span |->
                        IF p \in span THEN <<c.of, p, c.total>> ELSE e.buffer[p]]
<1>0. /\ c.start \in Nat /\ c.len \in Nat /\ c.of \in Nat /\ c.total \in Nat
      /\ c.is_last \in BOOLEAN /\ end \in Nat /\ options.output_mtu \in Nat
  BY SettingFacts, SMTT(30) DEF Chunks
<1>1. /\ EntryShape(e) /\ e.chunks \in Seq([start : Nat, len : Nat])
      /\ e.sum \in Nat /\ e.length_so_far \in Nat /\ e.length \in Int /\ -1 <= e.length
      /\ e.length <= options.output_mtu
  BY DEF Filled
<1>2. /\ DOMAIN e.buffer = {p \in Nat : \E i \in DOMAIN e.chunks : Covers(e.chunks[i], p)}
      /\ IsFiniteSet(DOMAIN e.buffer) /\ Cardinality(DOMAIN e.buffer) = e.sum
      /\ \A p \in DOMAIN e.buffer : p < IF e.length < 0 THEN e.length_so_far ELSE e.length
      /\ \A p \in DOMAIN e.buffer : Byte(e.buffer[p], p)
  BY DEF Filled
<1>3. n = [e EXCEPT !.time = t, !.age = 0, !.chunks = chunks, !.sum = e.sum + c.len,
                    !.length = length, !.length_so_far = so_far, !.buffer = buffer]
  BY Zenon DEF add_chunk
<1> HIDE DEF n, chunks, length, so_far, buffer
<1>4. n = [id |-> e.id, time |-> t, chunks |-> chunks, sum |-> e.sum + c.len,
           length |-> length, length_so_far |-> so_far, buffer |-> buffer, age |-> 0]
  BY <1>1, <1>3, Zenon DEF EntryShape
<1>5. /\ EntryShape(n) /\ n.id = e.id /\ n.time = t /\ n.chunks = chunks /\ n.sum = e.sum + c.len
      /\ n.length = length /\ n.length_so_far = so_far /\ n.buffer = buffer /\ n.age = 0
  BY <1>4, Zenon DEF EntryShape
<1>6. Timed(n, t) BY <1>5 DEF Timed
<1>7. /\ chunks \in Seq([start : Nat, len : Nat]) /\ Len(chunks) = Len(e.chunks) + 1
      /\ DOMAIN chunks = 1 .. Len(e.chunks) + 1 /\ DOMAIN e.chunks = 1 .. Len(e.chunks)
      /\ \A i \in 1 .. Len(e.chunks) : chunks[i] = e.chunks[i]
      /\ chunks[Len(e.chunks) + 1] = chunk /\ Len(e.chunks) \in Nat
  BY <1>0, <1>1, SMTT(30) DEF chunks
<1>8. /\ \A p : p \in span <=> p \in Nat /\ Covers(chunk, p)
  BY <1>0, SMTT(30) DEF Covers
<1>9. DOMAIN buffer = {p \in Nat : \E i \in DOMAIN chunks : Covers(chunks[i], p)}
  <2>1. DOMAIN buffer = DOMAIN e.buffer \cup span BY DEF buffer
  <2>2. ASSUME NEW p \in Nat
        PROVE  (\E i \in DOMAIN chunks : Covers(chunks[i], p)) <=>
                 (\E i \in DOMAIN e.chunks : Covers(e.chunks[i], p)) \/ Covers(chunk, p)
    <3> HIDE DEF chunk
    <3>1. \A i \in DOMAIN chunks : i \in DOMAIN e.chunks \/ i = Len(e.chunks) + 1 BY <1>7, SMTT(30)
    <3>2. \A i \in DOMAIN e.chunks : i \in DOMAIN chunks BY <1>7
    <3>3. Len(e.chunks) + 1 \in DOMAIN chunks BY <1>7
    <3>4. \A i \in DOMAIN e.chunks : chunks[i] = e.chunks[i] BY <1>7, Zenon
    <3>5. QED BY <1>7, <3>1, <3>2, <3>3, <3>4, Zenon
  <2> HIDE DEF chunk, span
  <2>3. ASSUME NEW p
        PROVE  p \in DOMAIN buffer <=>
                 p \in {q \in Nat : \E i \in DOMAIN chunks : Covers(chunks[i], q)}
    BY <1>2, <1>8, <2>1, <2>2, Zenon
  <2>4. QED BY <2>3, Zenon
<1>10. DOMAIN e.buffer \cap span = {}
  <2>1. ASSUME NEW p \in DOMAIN e.buffer, p \in span PROVE FALSE
    <3>1. PICK i \in DOMAIN e.chunks : Covers(e.chunks[i], p) BY <1>2, SMTT(30)
    <3>2. e.chunks[i].start \in Nat /\ e.chunks[i].len \in Nat
      <4> DEFINE C == [start : Nat, len : Nat]
      <4>1. e.chunks \in Seq(C) BY <1>1
      <4>2. \A k \in C : k.start \in Nat /\ k.len \in Nat OBVIOUS
      <4> HIDE DEF C
      <4>3. e.chunks[i] \in C BY ONLY <4>1, i \in DOMAIN e.chunks
      <4>4. QED BY <4>2, <4>3, SMTT(30)
    <3>3. p \in Nat /\ c.start <= p /\ p < end BY <1>0, <2>1, SMTT(30)
    <3>4. chunks_overlap(e.chunks[i], c)
      BY <1>0, <3>1, <3>2, <3>3, SMTT(30) DEF chunks_overlap, Covers
    <3>5. QED BY <3>4, SMTT(30) DEF contradicts
  <2> HIDE DEF span
  <2>2. QED BY <2>1, Zenon
<1>11. IsFiniteSet(DOMAIN buffer) /\ Cardinality(DOMAIN buffer) = e.sum + c.len
  <2>1. IsFiniteSet(span) /\ Cardinality(span) = c.len
    <3>1. c.start \in Nat /\ end - 1 \in Int /\ end - c.start = c.len /\ c.start <= end BY <1>0
    <3> HIDE DEF end
    <3>2. QED BY ONLY <3>1, <1>0, IntervalSize, SMTT(30)
  <2>2. DOMAIN buffer = DOMAIN e.buffer \cup span BY DEF buffer
  <2> HIDE DEF span
  <2>3. /\ IsFiniteSet(DOMAIN e.buffer \cup span)
        /\ Cardinality(DOMAIN e.buffer \cup span) =
             Cardinality(DOMAIN e.buffer) + Cardinality(span) - Cardinality(DOMAIN e.buffer \cap span)
    BY <1>2, <2>1, FS_Union, SMTT(30)
  <2>4. Cardinality(DOMAIN e.buffer \cap span) = 0 BY <1>10, FS_EmptySet
  <2>5. QED BY <1>0, <1>1, <1>2, <2>1, <2>2, <2>3, <2>4, SMTT(30)
<1>12. \A p \in DOMAIN buffer : Byte(buffer[p], p)
  <2> SUFFICES ASSUME NEW p \in DOMAIN e.buffer \cup span PROVE Byte(buffer[p], p) BY SMTT(30) DEF buffer
  <2>1. CASE p \in span
    <3>1. buffer[p] = <<c.of, p, c.total>> BY <2>1 DEF buffer
    <3>2. QED BY <1>0, <3>1 DEF Byte
  <2>2. CASE p \notin span
    <3>1. p \in DOMAIN e.buffer /\ buffer[p] = e.buffer[p] BY <2>2 DEF buffer
    <3>2. QED BY <3>1, <1>2
  <2>3. QED BY <2>1, <2>2, SMTT(30)
<1>13. /\ so_far \in Nat /\ e.length_so_far <= so_far
       /\ (~c.is_last /\ e.length < 0 => end <= so_far)
  <2>1. Max({e.length_so_far, end}) = IF e.length_so_far >= end THEN e.length_so_far ELSE end
    <3> DEFINE m == IF e.length_so_far >= end THEN e.length_so_far ELSE end
               two == {e.length_so_far, end}
    <3>1. m \in two /\ two \subseteq Int /\ \A y \in two : y <= m BY <1>0, <1>1, SMTT(30)
    <3> HIDE DEF m, two
    <3>2. Max(two) = m BY <3>1, MaxTop, Zenon
    <3>3. QED BY <3>2 DEF two, m
  <2>2. QED BY <1>0, <1>1, <2>1, SMTT(30) DEF so_far
<1>14. length \in Int /\ -1 <= length /\ length <= options.output_mtu
  BY <1>0, <1>1, SMTT(30) DEF length
<1>15. \A p \in DOMAIN buffer : p < IF length < 0 THEN so_far ELSE length
  <2> SUFFICES ASSUME NEW p \in DOMAIN e.buffer \cup span
               PROVE  p < IF length < 0 THEN so_far ELSE length
    BY SMTT(30) DEF buffer
  <2>1. p \in Nat BY <1>0, <1>2, SMTT(30)
  <2>2. p \in DOMAIN e.buffer => p < IF e.length < 0 THEN e.length_so_far ELSE e.length BY <1>2, SMTT(30)
  <2>3. p \notin DOMAIN e.buffer => p < end BY <1>0, SMTT(30)
  <2>4. CASE c.is_last
    <3>1. e.length < 0 /\ e.length_so_far <= end /\ length = end
      BY <2>4, <1>0, <1>1, SMTT(30) DEF contradicts, length
    <3>2. QED BY ONLY <1>0, <1>1, <2>1, <2>2, <2>3, <3>1, SMTT(30)
  <2>5. CASE ~c.is_last
    <3>1. length = e.length /\ (e.length >= 0 => end <= e.length)
      BY <2>5, <1>0, <1>1, SMTT(30) DEF contradicts, length
    <3>2. QED BY <2>5, <1>0, <1>1, <1>13, <2>1, <2>2, <2>3, <3>1, SMTT(30)
  <2>6. QED BY <2>4, <2>5, SMTT(30)
<1>16. Filled(options, n)
  <2>1. e.sum + c.len \in Nat BY <1>0, <1>1, SMTT(30)
  <2>2. QED BY <1>5, <1>7, <1>9, <1>11, <1>12, <1>13, <1>14, <1>15, <2>1, Zenon DEF Filled
<1>17. QED BY <1>5, <1>6, <1>7, <1>16, SMTT(30) DEF n

\* A frame as long as its chunks together has no hole.
LEMMA Complete ==
  ASSUME NEW e, Filled(options, e), ~(e.length < 0), ~(e.sum < e.length)
  PROVE  DOMAIN e.buffer = 0 .. e.length - 1
<1>1. /\ e.length \in Nat /\ e.sum \in Nat /\ DOMAIN e.buffer \subseteq Nat
      /\ Cardinality(DOMAIN e.buffer) = e.sum
      /\ \A p \in DOMAIN e.buffer : p < e.length
  BY SMTT(30) DEF Filled
<1>2. DOMAIN e.buffer \in SUBSET (0 .. e.length - 1) BY <1>1
<1> DEFINE all == 0 .. e.length - 1
<1>3. IsFiniteSet(all) /\ Cardinality(all) = e.length BY ONLY <1>1, IntervalSize
<1>4. Cardinality(all) = e.length BY <1>3
<1> HIDE DEF all
<1>5. /\ Cardinality(DOMAIN e.buffer) <= Cardinality(all)
      /\ Cardinality(all) = Cardinality(DOMAIN e.buffer) => all = DOMAIN e.buffer
  BY <1>2, <1>3, FS_Subset, Zenon DEF all
<1>6. e.sum = e.length BY <1>1, <1>4, <1>5
<1>7. QED BY <1>1, <1>4, <1>5, <1>6, SMTT(30) DEF all

\* A change of what the pool does not depend on.
LEMMA SamePool ==
  ASSUME NEW a, Pool(options, a), NEW b, AsmShape(b), b.time = a.time, b.frames = a.frames,
         b.used = a.used, b.free = a.free
  PROVE  Pool(options, b) /\ \A f : Used(b, f) <=> Used(a, f)
<1>1. \A f : Used(b, f) <=> Used(a, f) BY Zenon DEF Used
<1>2. QED BY <1>1, Zenon DEF Pool

\* The input packet, and the frame being sent, are no part of the pool.
LEMMA SetIn ==
  ASSUME NEW a, Pool(options, a), NEW x
  PROVE  LET b == [a EXCEPT !.in = x]
         IN  /\ Pool(options, b) /\ b.in = x /\ b.sending = a.sending /\ b.time = a.time
             /\ b.used = a.used /\ \A f : Used(b, f) <=> Used(a, f)
<1> DEFINE b == [a EXCEPT !.in = x]
<1>0. AsmShape(a) BY SMTT(30) DEF Pool
<1>1. b = [a EXCEPT !.in = x] OBVIOUS
<1> HIDE DEF b
<1>2. b = [time |-> a.time, frames |-> a.frames, used |-> a.used, free |-> a.free,
           in |-> x, sending |-> a.sending]
  BY <1>0, <1>1, Zenon DEF AsmShape
<1>3. /\ AsmShape(b) /\ b.time = a.time /\ b.frames = a.frames /\ b.used = a.used
      /\ b.free = a.free /\ b.in = x /\ b.sending = a.sending
  BY <1>2, Zenon DEF AsmShape
<1>4. Pool(options, b) /\ \A f : Used(b, f) <=> Used(a, f) BY <1>3, SamePool
<1>5. QED BY <1>3, <1>4 DEF b

\* The same for the frame being sent.
LEMMA SetSending ==
  ASSUME NEW a, Pool(options, a), NEW x
  PROVE  LET b == [a EXCEPT !.sending = x]
         IN  /\ Pool(options, b) /\ b.in = a.in /\ b.sending = x /\ b.time = a.time
             /\ \A f : Used(b, f) <=> Used(a, f)
<1> DEFINE b == [a EXCEPT !.sending = x]
<1>0. AsmShape(a) BY DEF Pool
<1>1. b = [a EXCEPT !.sending = x] OBVIOUS
<1> HIDE DEF b
<1>2. b = [time |-> a.time, frames |-> a.frames, used |-> a.used, free |-> a.free,
           in |-> a.in, sending |-> x]
  BY <1>0, <1>1, Zenon DEF AsmShape
<1>3. /\ AsmShape(b) /\ b.time = a.time /\ b.frames = a.frames /\ b.used = a.used
      /\ b.free = a.free /\ b.in = a.in /\ b.sending = x
  BY <1>2, Zenon DEF AsmShape
<1>4. Pool(options, b) /\ \A f : Used(b, f) <=> Used(a, f) BY <1>3, SamePool
<1>5. QED BY <1>3, <1>4 DEF b

\* A used entry takes what it holds now.
LEMMA SetEntry ==
  ASSUME NEW a, Pool(options, a), NEW f, Used(a, f), NEW e, Content(options, e), Timed(e, a.time),
         e.id = a.frames[f].id
  PROVE  LET b == [a EXCEPT !.frames[f] = e]
         IN  Pool(options, b) /\ b.in = a.in /\ b.sending = a.sending /\ b.time = a.time
<1> DEFINE b == [a EXCEPT !.frames[f] = e]
           frames == [a.frames EXCEPT ![f] = e]
<1>0. AsmShape(a) BY SMTT(30) DEF Pool
<1>1. b = [a EXCEPT !.frames = frames] BY Zenon
<1>2. f \in Entries(options) BY UsedEntries
<1>3. /\ frames = [g \in Entries(options) |-> frames[g]] /\ frames[f] = e
      /\ \A g \in Entries(options) : g # f => frames[g] = a.frames[g]
  <2>1. a.frames = [g \in Entries(options) |-> a.frames[g]] BY SMTT(30) DEF Pool
  <2>2. QED BY ONLY <1>2, <2>1, ExceptAt
<1> HIDE DEF b, frames
<1>4. b = [time |-> a.time, frames |-> frames, used |-> a.used, free |-> a.free,
           in |-> a.in, sending |-> a.sending]
  BY <1>0, <1>1, Zenon DEF AsmShape
<1>5. /\ AsmShape(b) /\ b.time = a.time /\ b.frames = frames /\ b.used = a.used
      /\ b.free = a.free /\ b.in = a.in /\ b.sending = a.sending
  BY <1>4, Zenon DEF AsmShape
<1>6. \A g : Used(b, g) <=> Used(a, g) BY <1>5, Zenon DEF Used
<1>7. \A g \in Entries(options) : Used(b, g) => Content(options, b.frames[g]) /\ Timed(b.frames[g], b.time)
  BY <1>3, <1>5, <1>6, Zenon DEF Pool
<1>8. \A g \in Entries(options) : b.frames[g].id = a.frames[g].id BY <1>3, <1>5, Zenon
<1>9. \A g, k \in Entries(options) :
        Used(b, g) /\ Used(b, k) /\ b.frames[g].id = b.frames[k].id => g = k
  BY <1>6, <1>8, Zenon DEF Pool
<1>10. Pool(options, b)
  <2>1. \A g \in Entries(options) : Used(b, g) <=> ~BSmallPending_IsSet(b.free, g)
    BY <1>5, <1>6, Zenon DEF Pool
  <2>2. /\ b.time \in Nat /\ b.time <= options.FPA_MAX_TIME
        /\ b.used \in Seq(Entries(options)) /\ NoDup(b.used)
        /\ b.free \in Seq(Entries(options)) /\ NoDup(b.free)
    BY <1>5, Zenon DEF Pool
  <2>3. QED BY <1>3, <1>5, <1>7, <1>9, <2>1, <2>2, Zenon DEF Pool
<1>11. QED BY <1>5, <1>10 DEF b

\* The tree of used entries finds the entry of a frame id.
LEMMA LookupFacts ==
  ASSUME options \in Settings, NEW a, Pool(options, a), NEW id
  PROVE  /\ lookup(a, id) = NULL => \A f \in Entries(options) : Used(a, f) => a.frames[f].id # id
         /\ lookup(a, id) # NULL => Used(a, lookup(a, id)) /\ a.frames[lookup(a, id)].id = id
         /\ (\E f \in Entries(options) : Used(a, f) /\ a.frames[f].id = id) => lookup(a, id) # NULL
<1> DEFINE found == {f \in Range(a.used) : a.frames[f].id = id}
<1>1. \A f : f \in Range(a.used) <=> Used(a, f) BY UsedEntries
<1>2. \A f : Used(a, f) => f \in Entries(options) BY UsedEntries
<1>3. \A f \in Entries(options) : f # NULL BY FragmentAssumption, SettingFacts DEF Entries
<1>4. \A f : f \in found <=> Used(a, f) /\ a.frames[f].id = id BY <1>1, Zenon
<1>5. lookup(a, id) = IF found = {} THEN NULL ELSE CHOOSE f \in found : TRUE
  BY Zenon DEF lookup
<1> HIDE DEF found
<1>6. CASE found = {} BY <1>4, <1>5, <1>6, Zenon
<1>7. CASE found # {}
  <2>1. lookup(a, id) \in found BY <1>5, <1>7, Zenon
  <2>2. QED BY <2>1, <1>2, <1>3, <1>4, Zenon
<1>8. QED BY <1>6, <1>7, SMTT(30)

\* A frame passed on has all of its bytes, each in its place, within the
\* output's MTU.
Whole(o, data) ==
  \E len \in Nat : /\ len <= o.output_mtu
                   /\ DOMAIN data = 0 .. len - 1
                   /\ \A p \in 0 .. len - 1 : Byte(data[p], p)

\* While it is being sent, its entry is not used.
SendOK(o, a) ==
  a.sending # NULL => ~Used(a, a.sending.frame) /\ Whole(o, a.sending.data)

\* The entry that process_chunk adds a chunk to.
LEMMA FindFrame ==
  ASSUME options \in Settings, NEW a, Pool(options, a), NEW id
  PROVE  LET old == lookup(a, id)
             b == IF old = NULL THEN allocate_new_frame(a, id)
                  ELSE IF frame_is_timed_out(a, old)
                       THEN allocate_new_frame(free_frame(a, old), id)
                       ELSE a
             f == lookup(b, id)
         IN  /\ Pool(options, b) /\ b.time = a.time /\ b.in = a.in /\ b.sending = a.sending
             /\ Used(b, f) /\ f \in Entries(options)
<1> DEFINE old == lookup(a, id)
           b == IF old = NULL THEN allocate_new_frame(a, id)
                ELSE IF frame_is_timed_out(a, old)
                     THEN allocate_new_frame(free_frame(a, old), id)
                     ELSE a
<1>1. /\ Pool(options, b) /\ b.time = a.time /\ b.in = a.in /\ b.sending = a.sending
      /\ \E g \in Entries(options) : Used(b, g) /\ b.frames[g].id = id
  <2>1. CASE old = NULL
    <3>1. \A g \in Entries(options) : Used(a, g) => a.frames[g].id # id BY <2>1, LookupFacts
    <3>2. b = allocate_new_frame(a, id) BY <2>1
    <3> HIDE DEF b, old
    <3>3. QED BY <3>1, <3>2, AllocateNewFrame
  <2>2. CASE old # NULL
    <3>1. Used(a, old) /\ a.frames[old].id = id /\ old \in Entries(options) BY <2>2, LookupFacts, UsedEntries
    <3>2. CASE frame_is_timed_out(a, old)
      <4> DEFINE c == free_frame(a, old)
      <4>1. b = allocate_new_frame(c, id) BY <2>2, <3>2
      <4> HIDE DEF b, old
      <4>2. /\ Pool(options, c) /\ c.time = a.time /\ c.in = a.in /\ c.sending = a.sending
            /\ \A g : Used(c, g) <=> Used(a, g) /\ g # old
            /\ \A g \in Entries(options) : g # old => c.frames[g] = a.frames[g]
        BY <3>1, FreeFrame
      <4> HIDE DEF c
      <4>3. \A g \in Entries(options) : Used(c, g) => c.frames[g].id # id
        <5> SUFFICES ASSUME NEW g \in Entries(options), Used(c, g), c.frames[g].id = id PROVE FALSE
          BY Zenon
        <5>1. Used(a, g) /\ g # old /\ a.frames[g].id = id BY <4>2, Zenon
        <5>2. QED BY <5>1, <3>1, Zenon DEF Pool
      <4>4. QED BY <4>1, <4>2, <4>3, AllocateNewFrame
    <3>3. CASE ~frame_is_timed_out(a, old)
      <4>1. b = a BY <2>2, <3>3
      <4> HIDE DEF b, old
      <4>2. QED BY <4>1, <3>1
    <3>4. QED BY <3>2, <3>3, SMTT(30)
  <2>3. QED BY <2>1, <2>2, SMTT(30)
<1> HIDE DEF b, old
<1>2. Used(b, lookup(b, id)) BY <1>1, LookupFacts
<1>3. lookup(b, id) \in Entries(options) BY <1>1, <1>2, UsedEntries
<1>4. QED BY <1>1, <1>2, <1>3, SMTT(30) DEF b, old

\* process_chunk for a chunk of a size the output takes.
LEMMA ProcessGoodChunk ==
  ASSUME options \in Settings, NEW a, Pool(options, a), a.sending = NULL, NEW c \in Chunks,
         c.start + c.len <= options.output_mtu
  PROVE  LET b == process_good_chunk(a, c)
         IN  Pool(options, b) /\ SendOK(options, b) /\ b.time = a.time /\ b.in = a.in
<1> DEFINE old == lookup(a, c.frame_id)
           b == IF old = NULL THEN allocate_new_frame(a, c.frame_id)
                ELSE IF frame_is_timed_out(a, old)
                     THEN allocate_new_frame(free_frame(a, old), c.frame_id)
                     ELSE a
           f == lookup(b, c.frame_id)
           e == add_chunk(b.frames[f], c, a.time)
           data == [p \in 0 .. e.length - 1 |->
                      IF p \in DOMAIN e.buffer THEN e.buffer[p] ELSE NULL]
           r == process_good_chunk(a, c)
           g == free_frame(b, f)
<1>1. /\ Pool(options, b) /\ b.time = a.time /\ b.in = a.in /\ b.sending = NULL
      /\ Used(b, f) /\ f \in Entries(options)
  <2>1. /\ Pool(options, b) /\ b.time = a.time /\ b.in = a.in /\ b.sending = a.sending
        /\ Used(b, f) /\ f \in Entries(options)
    <3> DEFINE id == c.frame_id
    <3> HIDE DEF id
    <3>1. LET o == lookup(a, id)
              bb == IF o = NULL THEN allocate_new_frame(a, id)
                    ELSE IF frame_is_timed_out(a, o)
                         THEN allocate_new_frame(free_frame(a, o), id)
                         ELSE a
              ff == lookup(bb, id)
          IN  /\ Pool(options, bb) /\ bb.time = a.time /\ bb.in = a.in /\ bb.sending = a.sending
              /\ Used(bb, ff) /\ ff \in Entries(options)
      BY FindFrame, Zenon
    <3>2. QED BY <3>1, Zenon DEF id
  <2>2. QED BY <2>1, SMTT(30)
<1>2. r = IF contradicts(b.frames[f], c) THEN g
          ELSE IF e.length < 0 \/ e.sum < e.length
               THEN IF Len(e.chunks) = Room(options) THEN g ELSE [b EXCEPT !.frames[f] = e]
               ELSE [g EXCEPT !.sending = [frame |-> f, data |-> data]]
  BY Zenon DEF process_good_chunk, num_chunks, Room
<1> HIDE DEF b, f, old
<1>3. /\ Pool(options, g) /\ g.time = a.time /\ g.in = a.in /\ g.sending = NULL /\ ~Used(g, f)
  BY <1>1, FreeFrame
<1>4. ASSUME r = g PROVE Pool(options, r) /\ SendOK(options, r) /\ r.time = a.time /\ r.in = a.in
  BY <1>3, <1>4 DEF SendOK
<1>5. Filled(options, b.frames[f]) /\ Len(b.frames[f].chunks) < Room(options)
  BY <1>1, Zenon DEF Pool, Content
<1>6. a.time \in Nat BY DEF Pool
<1>7. CASE ~contradicts(b.frames[f], c)
  <2> HIDE DEF g, r
  <2>1. /\ Filled(options, e) /\ Timed(e, a.time) /\ e.id = b.frames[f].id
        /\ Len(e.chunks) = Len(b.frames[f].chunks) + 1
    BY <1>5, <1>6, <1>7, AddChunk
  <2> HIDE DEF e
  <2>2. CASE (e.length < 0 \/ e.sum < e.length) /\ Len(e.chunks) # Room(options)
    <3>1. r = [b EXCEPT !.frames[f] = e] BY <1>2, <1>7, <2>2, Zenon
    <3>2. Content(options, e)
      <4>1. Len(b.frames[f].chunks) \in Nat /\ Room(options) \in Nat
        <5>1. b.frames[f].chunks \in Seq([start : Nat, len : Nat]) BY <1>5, SMTT(30) DEF Filled
        <5>2. QED BY <5>1, RoomForChunks
      <4>2. Len(e.chunks) < Room(options) BY <4>1, <1>5, <2>1, <2>2
      <4>3. QED BY <2>1, <4>2 DEF Content
    <3>3. Pool(options, r) /\ r.in = b.in /\ r.sending = b.sending /\ r.time = b.time
      BY <1>1, <2>1, <3>1, <3>2, SetEntry
    <3>4. QED BY <1>1, <3>3 DEF SendOK, r
  <2>3. CASE (e.length < 0 \/ e.sum < e.length) /\ Len(e.chunks) = Room(options)
    <3>1. r = g BY <1>2, <1>7, <2>3, Zenon
    <3>2. QED BY <3>1, <1>4 DEF r
  <2>4. CASE ~(e.length < 0 \/ e.sum < e.length)
    <3> DEFINE s == [frame |-> f, data |-> data]
    <3>1. r = [g EXCEPT !.sending = s] BY <1>2, <1>7, <2>4, Zenon
    <3>2. s.frame = f /\ s.data = data BY Zenon
    <3>3. Whole(options, data)
      <4>1. DOMAIN e.buffer = 0 .. e.length - 1 BY <2>1, <2>4, Complete
      <4>2. e.length \in Nat /\ e.length <= options.output_mtu
            /\ \A p \in DOMAIN e.buffer : Byte(e.buffer[p], p)
        BY <2>1, <2>4 DEF Filled
      <4> DEFINE all == 0 .. e.length - 1
      <4>3. /\ DOMAIN e.buffer = all
            /\ data = [p \in all |-> IF p \in DOMAIN e.buffer THEN e.buffer[p] ELSE NULL]
        BY <4>1, Zenon
      <4> HIDE DEF all, data
      <4>4. DOMAIN data = all /\ \A p \in all : data[p] = e.buffer[p] BY <4>3, Zenon
      <4>5. \A p \in all : Byte(data[p], p) BY <4>2, <4>3, <4>4, Zenon
      <4>6. QED BY <4>2, <4>4, <4>5 DEF Whole, all
    <3> HIDE DEF s, data
    <3>4. /\ Pool(options, r) /\ r.in = g.in /\ r.sending = s /\ r.time = g.time
          /\ \A x : Used(r, x) <=> Used(g, x)
      BY <1>3, <3>1, SetSending
    <3>5. SendOK(options, r) BY <1>3, <3>2, <3>3, <3>4 DEF SendOK
    <3>6. QED BY <1>3, <3>4, <3>5 DEF r
  <2>5. QED BY <2>2, <2>3, <2>4
<1>8. CASE contradicts(b.frames[f], c)
  <2>1. r = g BY <1>2, <1>8
  <2>2. QED BY <2>1, <1>4
<1>9. QED BY <1>7, <1>8

\* The loop of process_input keeps the chunks that are left.
NextOK(a, time, left) ==
  /\ Pool(options, a) /\ SendOK(options, a) /\ a.time = time
  /\ a.in \in Seq(Chunks) /\ Len(a.in) >= left

\* The loop of process_input at one chunk.
LEMMA NextChunk ==
  ASSUME options \in Settings, NEW t, NEW left \in Nat, NEW a, NextOK(a, t, left + 1),
         NEW c \in Chunks
  PROVE  NextOK(next_chunk(a, c), t, left)
<1>1. /\ Pool(options, a) /\ SendOK(options, a) /\ a.time = t /\ a.in \in Seq(Chunks) /\ Len(a.in) >= left + 1
  BY DEF NextOK
<1>2. CASE a.sending # NULL
  <2>1. next_chunk(a, c) = a BY <1>2, Zenon DEF next_chunk
  <2>2. Len(a.in) >= left BY <1>1
  <2>3. QED BY <1>1, <2>1, <2>2 DEF NextOK
<1>3. CASE a.sending = NULL
  <2> DEFINE b == process_chunk(a, c)
             r == [b EXCEPT !.in = Tail(b.in)]
  <2>1. next_chunk(a, c) = r BY <1>3, Zenon DEF next_chunk
  <2>2. Pool(options, b) /\ SendOK(options, b) /\ b.time = a.time /\ b.in = a.in
    <3>1. CASE c.start > options.output_mtu \/ c.len > options.output_mtu - c.start
      <4>1. b = a BY <3>1 DEF process_chunk
      <4>2. QED BY <1>1, <4>1
    <3>2. CASE ~(c.start > options.output_mtu \/ c.len > options.output_mtu - c.start)
      <4>1. b = process_good_chunk(a, c) BY <3>2, Zenon DEF process_chunk
      <4>2. c.start + c.len <= options.output_mtu BY <3>2, SettingFacts, SMTT(30) DEF Chunks
      <4> HIDE DEF b
      <4>3. QED BY <1>1, <1>3, <4>1, <4>2, ProcessGoodChunk
    <3>3. QED BY <3>1, <3>2
  <2> HIDE DEF b
  <2>3. /\ Pool(options, r) /\ r.in = Tail(b.in) /\ r.sending = b.sending /\ r.time = b.time
        /\ \A f : Used(r, f) <=> Used(b, f)
    BY <2>2, SetIn, Zenon
  <2> HIDE DEF r
  <2>4. SendOK(options, r) BY <2>2, <2>3, Zenon DEF SendOK
  <2>5. Tail(a.in) \in Seq(Chunks) /\ Len(Tail(a.in)) >= left
    <3> DEFINE q == a.in
    <3>1. q \in Seq(Chunks) /\ Len(q) >= left + 1 BY <1>1
    <3> HIDE DEF q
    <3>2. q # <<>> /\ Len(q) \in Nat BY <3>1
    <3>3. Tail(q) \in Seq(Chunks) /\ Len(Tail(q)) = Len(q) - 1 BY <3>1, <3>2
    <3>4. QED BY <3>1, <3>2, <3>3 DEF q
  <2>6. QED BY <1>1, <2>1, <2>2, <2>3, <2>4, <2>5, Zenon DEF NextOK
<1>4. QED BY <1>2, <1>3

\* The whole loop.
LEMMA ChunkLoop ==
  ASSUME options \in Settings, NEW a, Pool(options, a), SendOK(options, a), a.in \in Seq(Chunks)
  PROVE  LET b == FoldLeft(next_chunk, a, a.in)
         IN  Pool(options, b) /\ SendOK(options, b) /\ b.time = a.time /\ b.in \in Seq(Chunks)
<1> DEFINE s == a.in
           n == Len(s)
<1>1. s \in Seq(Chunks) /\ n \in Nat /\ DOMAIN s = 1..n BY DEF s
<1>2. PICK h : /\ h[0] = a
               /\ \A i \in 1..n : h[i] = next_chunk(h[i - 1], s[i])
               /\ h[n] = FoldLeft(next_chunk, a, s)
  <2> HIDE DEF s
  <2>1. QED BY <1>1, ChunkTrace, Zenon
<1> DEFINE T == {i \in 0..n : NextOK(h[i], a.time, n - i)}
<1>3. 0 \in T
  <2>1. n >= n - 0 /\ 0 \in 0..n BY <1>1
  <2>2. NextOK(a, a.time, n - 0) BY <2>1 DEF NextOK
  <2>3. QED BY <1>2, <2>1, <2>2
<1>4. ASSUME NEW i \in 0..(n - 1), i \in T PROVE i + 1 \in T
  <2> HIDE DEF s, n
  <2>1. i + 1 \in 1..n /\ i + 1 \in 0..n /\ (i + 1) - 1 = i /\ n - (i + 1) \in Nat
        /\ (n - (i + 1)) + 1 = n - i
    BY <1>1
  <2>2. h[i + 1] = next_chunk(h[i], s[i + 1]) BY <1>2, <2>1
  <2>3. s[i + 1] \in Chunks BY <1>1, <2>1
  <2>4. NextOK(h[i], a.time, (n - (i + 1)) + 1) BY <1>4, <2>1
  <2>5. NextOK(h[i + 1], a.time, n - (i + 1)) BY <2>1, <2>2, <2>3, <2>4, NextChunk
  <2>6. QED BY <2>1, <2>5
<1>5. n \in 0..n BY <1>1
<1>6. n \in T
  <2> HIDE DEF T, n
  <2>1. QED BY <1>1, <1>3, <1>4, <1>5, UpTo, SMTT(30)
<1>7. NextOK(h[n], a.time, n - n) BY <1>6
<1>8. QED BY <1>2, <1>7, Zenon DEF NextOK

-----------------------------------------------------------------------------
(* The packet time *)

\* An entry that is at another time, or is older, holds the same.
LEMMA Aged ==
  ASSUME NEW e, Content(options, e), NEW n, n.id = e.id, n.chunks = e.chunks, n.sum = e.sum,
         n.length = e.length, n.length_so_far = e.length_so_far, n.buffer = e.buffer,
         EntryShape(n)
  PROVE  Content(options, n)
  BY Zenon DEF Content, Filled

\* The times go back by m, and a packet has passed.
LEMMA EarlierEntry ==
  ASSUME NEW e, Content(options, e), NEW t \in Nat, Timed(e, t), NEW m \in Nat, m <= e.time
  PROVE  LET n == [e EXCEPT !.time = @ - m]
         IN  Content(options, n) /\ Timed(n, t - m) /\ n.id = e.id
<1> DEFINE n == [e EXCEPT !.time = @ - m]
<1>0. EntryShape(e) BY DEF Content, Filled
<1>1. n = [e EXCEPT !.time = e.time - m] BY Zenon
<1> HIDE DEF n
<1>2. n = [id |-> e.id, time |-> e.time - m, chunks |-> e.chunks, sum |-> e.sum,
           length |-> e.length, length_so_far |-> e.length_so_far,
           buffer |-> e.buffer, age |-> e.age]
  BY <1>0, <1>1, Zenon DEF EntryShape
<1>3. /\ EntryShape(n) /\ n.id = e.id /\ n.time = e.time - m /\ n.chunks = e.chunks
      /\ n.sum = e.sum /\ n.length = e.length /\ n.length_so_far = e.length_so_far
      /\ n.buffer = e.buffer /\ n.age = e.age
  BY <1>2, Zenon DEF EntryShape
<1>4. Content(options, n) BY <1>3, Aged
<1>5. Timed(n, t - m) BY <1>3 DEF Timed
<1>6. QED BY <1>3, <1>4, <1>5 DEF n

\* A packet has passed since the entry's last chunk.
LEMMA OlderEntry ==
  ASSUME NEW e, Content(options, e), NEW t \in Nat, Timed(e, t)
  PROVE  LET n == [e EXCEPT !.age = @ + 1]
         IN  Content(options, n) /\ Timed(n, t + 1) /\ n.id = e.id
<1> DEFINE n == [e EXCEPT !.age = @ + 1]
<1>0. EntryShape(e) BY DEF Content, Filled
<1>1. n = [e EXCEPT !.age = e.age + 1] BY Zenon
<1> HIDE DEF n
<1>2. n = [id |-> e.id, time |-> e.time, chunks |-> e.chunks, sum |-> e.sum,
           length |-> e.length, length_so_far |-> e.length_so_far,
           buffer |-> e.buffer, age |-> e.age + 1]
  BY <1>0, <1>1, Zenon DEF EntryShape
<1>3. /\ EntryShape(n) /\ n.id = e.id /\ n.time = e.time /\ n.chunks = e.chunks
      /\ n.sum = e.sum /\ n.length = e.length /\ n.length_so_far = e.length_so_far
      /\ n.buffer = e.buffer /\ n.age = e.age + 1
  BY <1>2, Zenon DEF EntryShape
<1>4. Content(options, n) BY <1>3, Aged
<1>5. Timed(n, t + 1) BY <1>3 DEF Timed
<1>6. QED BY <1>3, <1>4, <1>5 DEF n

\* All used entries change, and the packet time with them.
LEMMA PoolMoves ==
  ASSUME NEW a, Pool(options, a), NEW b, AsmShape(b), b.used = a.used, b.free = a.free,
         b.time \in Nat, b.time <= options.FPA_MAX_TIME,
         b.frames = [f \in Entries(options) |-> b.frames[f]],
         \A f \in Entries(options) : Used(a, f) => /\ Content(options, b.frames[f]) /\ Timed(b.frames[f], b.time)
                                          /\ b.frames[f].id = a.frames[f].id
  PROVE  Pool(options, b) /\ \A f : Used(b, f) <=> Used(a, f)
<1>1. \A f : Used(b, f) <=> Used(a, f) BY Zenon DEF Used
<1>2. \A f, g \in Entries(options) :
        Used(b, f) /\ Used(b, g) /\ b.frames[f].id = b.frames[g].id => f = g
  BY <1>1, Zenon DEF Pool
<1>3. /\ b.used \in Seq(Entries(options)) /\ NoDup(b.used)
      /\ b.free \in Seq(Entries(options)) /\ NoDup(b.free)
      /\ \A f \in Entries(options) : Used(b, f) <=> ~BSmallPending_IsSet(b.free, f)
  BY <1>1, Zenon DEF Pool
<1>4. QED BY <1>1, <1>2, <1>3, Zenon DEF Pool

\* What is left after the first i rounds of reduce_times' first loop.
TimedOK(a, x, i) ==
  /\ Pool(options, x) /\ x.time = a.time /\ x.in = a.in /\ x.sending = a.sending
  /\ \A f : Used(x, f) => Used(a, f) /\ x.frames[f] = a.frames[f]
  /\ \A j \in DOMAIN a.used :
       Used(x, a.used[j]) <=> j > i \/ ~frame_is_timed_out(a, a.used[j])

\* One round of that loop.
LEMMA TimedOutRound ==
  ASSUME NEW a, Pool(options, a), NEW x, NEW i \in Nat, TimedOK(a, x, i), i + 1 \in DOMAIN a.used
  PROVE  TimedOK(a, free_timed_out(x, a.used[i + 1]), i + 1)
<1> DEFINE f == a.used[i + 1]
           y == free_timed_out(x, f)
<1>1. /\ Pool(options, x) /\ x.time = a.time /\ x.in = a.in /\ x.sending = a.sending
      /\ \A g : Used(x, g) => Used(a, g) /\ x.frames[g] = a.frames[g]
      /\ \A j \in DOMAIN a.used :
           Used(x, a.used[j]) <=> j > i \/ ~frame_is_timed_out(a, a.used[j])
  BY DEF TimedOK
<1>2. DOMAIN a.used \subseteq Nat /\ NoDup(a.used) BY DEF Pool
<1>3. Used(x, f) BY <1>1, <1>2
<1>4. frame_is_timed_out(x, f) <=> frame_is_timed_out(a, f)
  BY <1>1, <1>3, Zenon DEF frame_is_timed_out
<1>5. \A j \in DOMAIN a.used : a.used[j] = f <=> j = i + 1 BY SMTT(30) DEF Pool, NoDup
<1>6. \A j \in DOMAIN a.used : j > i <=> j > i + 1 \/ j = i + 1 BY <1>2
<1> HIDE DEF f
<1>7. CASE ~frame_is_timed_out(a, f)
  <2>1. y = x BY <1>4, <1>7, Zenon DEF free_timed_out
  <2>2. \A j \in DOMAIN a.used :
          Used(x, a.used[j]) <=> j > i + 1 \/ ~frame_is_timed_out(a, a.used[j])
    BY <1>1, <1>5, <1>6, <1>7, Zenon
  <2>3. QED BY <1>1, <2>1, <2>2, Zenon DEF TimedOK, f
<1>8. CASE frame_is_timed_out(a, f)
  <2>1. y = free_frame(x, f) BY <1>4, <1>8, Zenon DEF free_timed_out
  <2> HIDE DEF y
  <2>2. /\ Pool(options, y) /\ y.time = x.time /\ y.in = x.in /\ y.sending = x.sending
        /\ \A g : Used(y, g) <=> Used(x, g) /\ g # f
        /\ \A g \in Entries(options) : g # f => y.frames[g] = x.frames[g]
    BY <1>1, <1>3, <2>1, FreeFrame
  <2>3. \A g : Used(y, g) => g \in Entries(options) BY <2>2, UsedEntries
  <2>4. \A g : Used(y, g) => Used(a, g) /\ y.frames[g] = a.frames[g]
    BY <1>1, <2>2, <2>3, Zenon
  <2>5. \A j \in DOMAIN a.used :
          Used(y, a.used[j]) <=> j > i + 1 \/ ~frame_is_timed_out(a, a.used[j])
    <3> SUFFICES ASSUME NEW j \in DOMAIN a.used
                 PROVE Used(y, a.used[j]) <=> j > i + 1 \/ ~frame_is_timed_out(a, a.used[j])
      BY Zenon
    <3>1. ~(i + 1 > i + 1) OBVIOUS
    <3>2. QED BY <1>1, <1>5, <1>6, <1>8, <2>2, <3>1, Zenon
  <2>6. QED BY <1>1, <2>2, <2>4, <2>5, Zenon DEF TimedOK, y, f
<1>9. QED BY <1>7, <1>8

\* reduce_times' first loop leaves the entries that did not time out.
LEMMA TimedOutLoop ==
  ASSUME NEW a, Pool(options, a)
  PROVE  LET b == FoldLeft(free_timed_out, a, a.used)
         IN  /\ Pool(options, b) /\ b.time = a.time /\ b.in = a.in /\ b.sending = a.sending
             /\ \A f : Used(b, f) => ~frame_is_timed_out(b, f)
<1> DEFINE n == Len(a.used)
           b == FoldLeft(free_timed_out, a, a.used)
<1>1. a.used \in Seq(Entries(options)) /\ n \in Nat /\ DOMAIN a.used = 1..n BY DEF Pool
<1>2. PICK h : /\ h[0] = a
               /\ \A i \in 1..n : h[i] = free_timed_out(h[i - 1], a.used[i])
               /\ h[n] = b
  BY ONLY <1>1, TimedTrace, Zenon
<1> DEFINE T == {i \in 0..n : TimedOK(a, h[i], i)}
<1>3. 0 \in T
  <2>1. 0 \in 0..n /\ \A j \in DOMAIN a.used : j > 0 /\ Used(a, a.used[j])
    BY <1>1 DEF Used, BSmallPending_IsSet
  <2>2. TimedOK(a, a, 0) BY <2>1, Zenon DEF TimedOK
  <2>3. QED BY <1>2, <2>1, <2>2
<1>4. ASSUME NEW i \in 0..(n - 1), i \in T PROVE i + 1 \in T
  <2> HIDE DEF n
  <2>1. i \in Nat /\ i + 1 \in 1..n /\ i + 1 \in 0..n /\ (i + 1) - 1 = i BY <1>1
  <2>2. h[i + 1] = free_timed_out(h[i], a.used[i + 1]) BY <1>2, <2>1
  <2>3. TimedOK(a, h[i], i) /\ i + 1 \in DOMAIN a.used BY <1>1, <1>4, <2>1
  <2>4. TimedOK(a, h[i + 1], i + 1) BY <2>1, <2>2, <2>3, TimedOutRound
  <2>5. QED BY <2>1, <2>4
<1>5. n \in 0..n BY <1>1
<1>6. n \in T
  <2> HIDE DEF T, n
  <2>1. QED BY <1>1, <1>3, <1>4, <1>5, UpTo, SMTT(30)
<1>7. TimedOK(a, b, n) BY <1>2, <1>6
<1> HIDE DEF b
<1>8. ASSUME NEW f, Used(b, f) PROVE ~frame_is_timed_out(b, f)
  <2>1. Used(a, f) /\ b.frames[f] = a.frames[f] /\ b.time = a.time BY <1>7, <1>8 DEF TimedOK
  <2>2. PICK j \in DOMAIN a.used : a.used[j] = f BY <2>1 DEF Used, BSmallPending_IsSet
  <2>3. ~(j > n) BY <1>1
  <2>4. ~frame_is_timed_out(a, f) BY <1>7, <1>8, <2>2, <2>3, Zenon DEF TimedOK
  <2>5. QED BY <2>1, <2>4, Zenon DEF frame_is_timed_out
<1>9. QED BY <1>7, <1>8, Zenon DEF TimedOK, b

\* The second loop of reduce_times: the times go back by the least of them.
Earlier(b, m) ==
  [b EXCEPT !.time = @ - m,
            !.frames = [f \in DOMAIN b.frames |-> IF f \in Range(b.used)
                                                  THEN [b.frames[f] EXCEPT !.time = @ - m]
                                                  ELSE b.frames[f]]]

\* It keeps the pool, and the packet time is below its limit.
LEMMA EarlierTimes ==
  ASSUME options \in Settings, NEW b, Pool(options, b), NEW m \in Nat,
         \A f \in Entries(options) : Used(b, f) => m <= b.frames[f].time, m <= b.time
  PROVE  LET c == Earlier(b, m)
         IN  /\ Pool(options, c) /\ c.time = b.time - m /\ c.in = b.in /\ c.sending = b.sending
             /\ c.used = b.used
<1> DEFINE c == Earlier(b, m)
           frames == [f \in Entries(options) |-> IF f \in Range(b.used)
                                        THEN [b.frames[f] EXCEPT !.time = @ - m]
                                        ELSE b.frames[f]]
<1>0. AsmShape(b) BY DEF Pool
<1>1. b.frames = [f \in Entries(options) |-> b.frames[f]] BY DEF Pool
<1>2. DOMAIN b.frames = Entries(options) BY <1>1
<1>3. \E k : k = [b EXCEPT !.time = b.time - m] /\ c = [k EXCEPT !.frames = frames]
  <2> DEFINE k == [b EXCEPT !.time = b.time - m]
             same == [f \in DOMAIN b.frames |-> IF f \in Range(b.used)
                                               THEN [b.frames[f] EXCEPT !.time = @ - m]
                                               ELSE b.frames[f]]
  <2>1. c = [k EXCEPT !.frames = same] BY Zenon DEF Earlier
  <2>2. k = [b EXCEPT !.time = b.time - m] OBVIOUS
  <2> HIDE DEF k
  <2>3. same = frames BY <1>2
  <2>4. QED BY <2>1, <2>2, <2>3, Zenon
<1>4. \A f \in Entries(options) : Used(b, f) => frames[f] = [b.frames[f] EXCEPT !.time = @ - m]
  BY UsedEntries, Zenon
<1>5. frames = [f \in Entries(options) |-> frames[f]] BY Zenon
<1> HIDE DEF c, frames
<1>6. c = [time |-> b.time - m, frames |-> frames, used |-> b.used, free |-> b.free,
           in |-> b.in, sending |-> b.sending]
  <2>1. PICK k : k = [b EXCEPT !.time = b.time - m] /\ c = [k EXCEPT !.frames = frames] BY <1>3, Zenon
  <2>2. k = [time |-> b.time - m, frames |-> b.frames, used |-> b.used, free |-> b.free,
             in |-> b.in, sending |-> b.sending]
    BY <1>0, <2>1, Zenon DEF AsmShape
  <2>3. QED BY <2>1, <2>2, Zenon
<1>7. /\ AsmShape(c) /\ c.time = b.time - m /\ c.frames = frames /\ c.used = b.used
      /\ c.free = b.free /\ c.in = b.in /\ c.sending = b.sending
  BY <1>6, Zenon DEF AsmShape
<1>8. b.time \in Nat /\ b.time <= options.FPA_MAX_TIME BY DEF Pool
<1>9. ASSUME NEW f \in Entries(options), Used(b, f)
      PROVE  /\ Content(options, c.frames[f]) /\ Timed(c.frames[f], c.time)
             /\ c.frames[f].id = b.frames[f].id
  <2>1. Content(options, b.frames[f]) /\ Timed(b.frames[f], b.time) BY <1>9, Zenon DEF Pool
  <2>2. m <= b.frames[f].time BY <1>9
  <2>3. LET n == [b.frames[f] EXCEPT !.time = @ - m]
        IN  Content(options, n) /\ Timed(n, b.time - m) /\ n.id = b.frames[f].id
    BY ONLY <1>8, <2>1, <2>2, EarlierEntry, m \in Nat
  <2>4. QED BY <1>4, <1>7, <1>9, <2>3, Zenon
<1>10. c.time \in Nat /\ c.time <= options.FPA_MAX_TIME BY <1>7, <1>8, SettingFacts
<1>11. Pool(options, c) BY <1>5, <1>7, <1>9, <1>10, PoolMoves
<1>12. QED BY <1>7, <1>11 DEF c

\* reduce_times: at the limit of the packet time, it makes the time smaller.
LEMMA ReduceTimes ==
  ASSUME options \in Settings, NEW a, Pool(options, a), a.time = options.FPA_MAX_TIME
  PROVE  LET c == reduce_times(a)
         IN  /\ Pool(options, c) /\ c.in = a.in /\ c.sending = a.sending
             /\ c.time < options.FPA_MAX_TIME
             /\ c.used = <<>> => c.time = 0
<1> DEFINE b == FoldLeft(free_timed_out, a, a.used)
           times == {b.frames[f].time : f \in Range(b.used)}
           c == reduce_times(a)
<1>1. /\ Pool(options, b) /\ b.time = a.time /\ b.in = a.in /\ b.sending = a.sending
      /\ \A f : Used(b, f) => ~frame_is_timed_out(b, f)
  BY TimedOutLoop, SMTT(30)
<1>2. c = IF b.used = <<>> THEN [b EXCEPT !.time = 0] ELSE Earlier(b, Min(times))
  BY Zenon DEF reduce_times, Earlier
<1>3. /\ options.FPA_MAX_TIME \in Nat /\ options.num_frames \in Nat
      /\ options.num_frames < options.FPA_MAX_TIME /\ 0 < options.num_frames
  BY SettingFacts
<1> HIDE DEF b, c
<1>4. CASE b.used = <<>>
  <2>0. AsmShape(b) BY <1>1, SMTT(30) DEF Pool
  <2>1. c = [b EXCEPT !.time = 0] BY <1>2, <1>4
  <2>2. c = [time |-> 0, frames |-> b.frames, used |-> b.used, free |-> b.free,
             in |-> b.in, sending |-> b.sending]
    BY <2>0, <2>1, Zenon DEF AsmShape
  <2>3. /\ AsmShape(c) /\ c.time = 0 /\ c.frames = b.frames /\ c.used = b.used
        /\ c.free = b.free /\ c.in = b.in /\ c.sending = b.sending
    BY <2>2, Zenon DEF AsmShape
  <2>4. \A f : ~Used(b, f) BY <1>4 DEF Used, BSmallPending_IsSet
  <2>5. b.frames = [f \in Entries(options) |-> b.frames[f]] BY <1>1, SMTT(30) DEF Pool
  <2>6. 0 \in Nat /\ 0 <= options.FPA_MAX_TIME /\ 0 < options.FPA_MAX_TIME BY <1>3
  <2>7. Pool(options, c) BY <1>1, <2>3, <2>4, <2>5, <2>6, PoolMoves
  <2>8. QED BY <1>1, <2>3, <2>6, <2>7 DEF c
<1>5. CASE b.used # <<>>
  <2> DEFINE m == Min(times)
  <2>1. c = Earlier(b, m) BY <1>2, <1>5
  <2>2. \A f : Used(b, f) <=> f \in Range(b.used) BY <1>1, UsedEntries
  <2>3. ASSUME NEW f, Used(b, f)
        PROVE  b.frames[f].time \in Nat /\ b.frames[f].time <= b.time /\ b.frames[f].time > 0
    <3>0. f \in Entries(options) BY <1>1, <2>3, UsedEntries, Zenon
    <3>1. Timed(b.frames[f], b.time) BY <1>1, <2>3, <3>0, Zenon DEF Pool
    <3>2. b.time - b.frames[f].time <= options.num_frames
      BY <1>1, <1>3, <2>3, <3>1 DEF Timed, frame_is_timed_out
    <3>3. QED BY <1>1, <1>3, <3>1, <3>2 DEF Timed
  <2>4. times \subseteq Nat BY <2>2, <2>3, Zenon
  <2>5. PICK f : Used(b, f)
    <3>1. b.used \in Seq(Entries(options)) BY <1>1, SMTT(30) DEF Pool
    <3>2. \E x \in Entries(options) : BSmallPending_IsSet(b.used, x) BY <1>5, <3>1, EmptyFacts
    <3>3. QED BY <3>2 DEF Used
  <2>6. b.frames[f].time \in times BY <2>2, <2>5
  <2>7. m \in times /\ \A y \in times : m <= y
    <3> HIDE DEF times
    <3>1. times # {} BY <2>6
    <3>2. QED BY <2>4, <3>1, MinBottom, Zenon
  <2>8. PICK g : Used(b, g) /\ m = b.frames[g].time
    <3> HIDE DEF m
    <3>1. QED BY <2>2, <2>7
  <2>9. \A k \in Entries(options) : Used(b, k) => m <= b.frames[k].time BY <2>2, <2>7
  <2> HIDE DEF m, times
  <2>10. m \in Nat /\ m > 0 /\ m <= b.time BY <2>3, <2>8
  <2>11. /\ Pool(options, c) /\ c.time = b.time - m /\ c.in = b.in /\ c.sending = b.sending
         /\ c.used = b.used
    BY <1>1, <2>1, <2>9, <2>10, EarlierTimes
  <2>12. c.time < options.FPA_MAX_TIME BY <1>1, <1>3, <2>10, <2>11
  <2>13. QED BY <1>1, <1>5, <2>11, <2>12 DEF c
<1>6. QED BY <1>4, <1>5

\* Every used entry gets a packet older.
Older(b) ==
  [b EXCEPT !.in = NULL,
            !.frames = [f \in DOMAIN b.frames |-> IF f \in Range(b.used)
                                                  THEN [b.frames[f] EXCEPT !.age = @ + 1]
                                                  ELSE b.frames[f]]]

\* The packet time moves on.
Later(b) == [Older(b) EXCEPT !.time = (@ + 1) % (options.FPA_MAX_TIME + 1)]

\* The fields of these two.
LEMMA OlderFields ==
  ASSUME NEW b, Pool(options, b)
  PROVE  LET frames == [f \in Entries(options) |-> IF f \in Range(b.used)
                                          THEN [b.frames[f] EXCEPT !.age = @ + 1]
                                          ELSE b.frames[f]]
         IN  Older(b) = [time |-> b.time, frames |-> frames, used |-> b.used,
                         free |-> b.free, in |-> NULL, sending |-> b.sending]
<1> DEFINE c == Older(b)
           frames == [f \in Entries(options) |-> IF f \in Range(b.used)
                                        THEN [b.frames[f] EXCEPT !.age = @ + 1]
                                        ELSE b.frames[f]]
<1>0. AsmShape(b) BY DEF Pool
<1>1. b.frames = [f \in Entries(options) |-> b.frames[f]] BY DEF Pool
<1>2. DOMAIN b.frames = Entries(options) BY <1>1
<1>3. \E k : k = [b EXCEPT !.in = NULL] /\ c = [k EXCEPT !.frames = frames]
  <2> DEFINE k == [b EXCEPT !.in = NULL]
             same == [f \in DOMAIN b.frames |-> IF f \in Range(b.used)
                                               THEN [b.frames[f] EXCEPT !.age = @ + 1]
                                               ELSE b.frames[f]]
  <2>1. c = [k EXCEPT !.frames = same] BY Zenon DEF Older
  <2>2. k = [b EXCEPT !.in = NULL] OBVIOUS
  <2> HIDE DEF k
  <2>3. same = frames BY <1>2
  <2>4. QED BY <2>1, <2>2, <2>3, Zenon
<1> HIDE DEF c, frames
<1>4. PICK k : k = [b EXCEPT !.in = NULL] /\ c = [k EXCEPT !.frames = frames] BY <1>3, Zenon
<1>5. k = [time |-> b.time, frames |-> b.frames, used |-> b.used, free |-> b.free,
           in |-> NULL, sending |-> b.sending]
  BY <1>0, <1>4, Zenon DEF AsmShape
<1>6. c = [time |-> b.time, frames |-> frames, used |-> b.used, free |-> b.free,
           in |-> NULL, sending |-> b.sending]
  BY <1>4, <1>5, Zenon
<1>7. QED BY <1>6 DEF c, frames

\* A packet that leaves no entry behind.
LEMMA OlderEmpty ==
  ASSUME NEW b, Pool(options, b), b.used = <<>>
  PROVE  LET c == Older(b) IN Pool(options, c) /\ c.in = NULL /\ c.sending = b.sending
<1> DEFINE c == Older(b)
           frames == [f \in Entries(options) |-> IF f \in Range(b.used)
                                        THEN [b.frames[f] EXCEPT !.age = @ + 1]
                                        ELSE b.frames[f]]
<1>1. c = [time |-> b.time, frames |-> frames, used |-> b.used,
           free |-> b.free, in |-> NULL, sending |-> b.sending]
  BY OlderFields
<1>2. frames = [f \in Entries(options) |-> frames[f]] BY Zenon
<1> HIDE DEF c, frames
<1>3. /\ AsmShape(c) /\ c.time = b.time /\ c.frames = frames /\ c.used = b.used
      /\ c.free = b.free /\ c.in = NULL /\ c.sending = b.sending
  BY <1>1, Zenon DEF AsmShape
<1>4. \A f : ~Used(b, f) BY DEF Used, BSmallPending_IsSet
<1>5. b.time \in Nat /\ b.time <= options.FPA_MAX_TIME BY SMTT(30) DEF Pool
<1>6. Pool(options, c) BY <1>2, <1>3, <1>4, <1>5, PoolMoves
<1>7. QED BY <1>3, <1>6 DEF c

\* Below its limit, the packet time and the ages move on together.
LEMMA LaterPool ==
  ASSUME options \in Settings, NEW b, Pool(options, b), b.time < options.FPA_MAX_TIME
  PROVE  LET r == Later(b) IN Pool(options, r) /\ r.in = NULL /\ r.sending = b.sending
<1> DEFINE c == Older(b)
           r == Later(b)
           frames == [f \in Entries(options) |-> IF f \in Range(b.used)
                                        THEN [b.frames[f] EXCEPT !.age = @ + 1]
                                        ELSE b.frames[f]]
<1>1. c = [time |-> b.time, frames |-> frames, used |-> b.used,
           free |-> b.free, in |-> NULL, sending |-> b.sending]
  BY OlderFields
<1>2. frames = [f \in Entries(options) |-> frames[f]] BY Zenon
<1>3. \A f \in Entries(options) : Used(b, f) => frames[f] = [b.frames[f] EXCEPT !.age = @ + 1]
  BY UsedEntries, Zenon
<1>4. b.time \in Nat /\ b.time <= options.FPA_MAX_TIME /\ options.FPA_MAX_TIME \in Nat
  BY SettingFacts DEF Pool
<1> HIDE DEF c, frames
<1>5. c.time = b.time BY <1>1, Zenon
<1>6. (c.time + 1) % (options.FPA_MAX_TIME + 1) = b.time + 1
  BY ONLY <1>4, <1>5, b.time < options.FPA_MAX_TIME
<1>7. r = [c EXCEPT !.time = b.time + 1]
  <2>1. r = [c EXCEPT !.time = (c.time + 1) % (options.FPA_MAX_TIME + 1)] BY Zenon DEF Later, c
  <2>2. QED BY <1>6, <2>1
<1> HIDE DEF r
<1>8. r = [time |-> b.time + 1, frames |-> frames, used |-> b.used,
           free |-> b.free, in |-> NULL, sending |-> b.sending]
  BY <1>1, <1>7, Zenon
<1>9. /\ AsmShape(r) /\ r.time = b.time + 1 /\ r.frames = frames /\ r.used = b.used
      /\ r.free = b.free /\ r.in = NULL /\ r.sending = b.sending
  BY <1>8, Zenon DEF AsmShape
<1>10. ASSUME NEW f \in Entries(options), Used(b, f)
       PROVE  /\ Content(options, r.frames[f]) /\ Timed(r.frames[f], r.time)
              /\ r.frames[f].id = b.frames[f].id
  <2>1. Content(options, b.frames[f]) /\ Timed(b.frames[f], b.time) BY <1>10, Zenon DEF Pool
  <2>2. LET n == [b.frames[f] EXCEPT !.age = @ + 1]
        IN  Content(options, n) /\ Timed(n, b.time + 1) /\ n.id = b.frames[f].id
    BY ONLY <1>4, <2>1, OlderEntry
  <2>3. QED BY <1>3, <1>9, <1>10, <2>2, Zenon
<1>11. r.time \in Nat /\ r.time <= options.FPA_MAX_TIME BY <1>4, <1>9
<1>12. Pool(options, r) BY <1>2, <1>9, <1>10, <1>11, PoolMoves
<1>13. QED BY <1>9, <1>12 DEF r

\* The end of process_input: the packet is done with.
LEMMA FinishPacket ==
  ASSUME options \in Settings, NEW a, Pool(options, a), a.sending = NULL
  PROVE  LET r == finish_packet(a) IN Pool(options, r) /\ r.in = NULL /\ r.sending = NULL
<1> DEFINE b == IF a.time = options.FPA_MAX_TIME THEN reduce_times(a) ELSE a
           r == finish_packet(a)
<1>1. r = IF a.time = options.FPA_MAX_TIME /\ b.used = <<>> THEN Older(b) ELSE Later(b)
  BY Zenon DEF finish_packet, Older, Later
<1>2. CASE a.time = options.FPA_MAX_TIME
  <2>1. b = reduce_times(a) BY <1>2
  <2> HIDE DEF b, r
  <2>2. Pool(options, b) /\ b.sending = NULL /\ b.time < options.FPA_MAX_TIME BY <1>2, <2>1, ReduceTimes
  <2>3. CASE b.used = <<>>
    <3>1. r = Older(b) BY <1>1, <1>2, <2>3
    <3>2. QED BY <2>2, <2>3, <3>1, OlderEmpty DEF r
  <2>4. CASE b.used # <<>>
    <3>1. r = Later(b) BY <1>1, <2>4
    <3>2. QED BY <2>2, <3>1, LaterPool DEF r
  <2>5. QED BY <2>3, <2>4
<1>3. CASE a.time # options.FPA_MAX_TIME
  <2>1. b = a BY <1>3
  <2> HIDE DEF b, r
  <2>2. r = Later(a) BY <1>1, <1>3, <2>1
  <2>3. a.time < options.FPA_MAX_TIME BY <1>3, SettingFacts, SMTT(30) DEF Pool
  <2>4. QED BY <2>2, <2>3, LaterPool DEF r
<1>4. QED BY <1>2, <1>3

\* The assembler between two calls: a packet is held only while a frame of it
\* is being sent.
AsmInv(o, a) ==
  /\ Pool(o, a) /\ SendOK(o, a)
  /\ a.sending # NULL => a.in \in Seq(Chunks)
  /\ a.sending = NULL => a.in = NULL

\* process_input, however it was reached.
LEMMA ProcessInput ==
  ASSUME options \in Settings, NEW a, Pool(options, a), SendOK(options, a), a.in \in Seq(Chunks)
  PROVE  AsmInv(options, process_input(a))
<1> DEFINE b == FoldLeft(next_chunk, a, a.in)
<1>1. Pool(options, b) /\ SendOK(options, b) /\ b.in \in Seq(Chunks) BY ChunkLoop
<1>2. process_input(a) = IF b.sending # NULL THEN b ELSE finish_packet(b)
  BY Zenon DEF process_input
<1> HIDE DEF b
<1>3. CASE b.sending # NULL BY <1>1, <1>2, <1>3 DEF AsmInv
<1>4. CASE b.sending = NULL
  <2> DEFINE r == finish_packet(b)
  <2>1. Pool(options, r) /\ r.in = NULL /\ r.sending = NULL BY <1>1, <1>4, FinishPacket
  <2> HIDE DEF r
  <2>2. AsmInv(options, r) BY <2>1 DEF AsmInv, SendOK
  <2>3. QED BY <1>2, <1>4, <2>2 DEF r
<1>5. QED BY <1>3, <1>4

-----------------------------------------------------------------------------
(* The specification *)

Packets == [chunks : Seq(Chunks), at : {"way", "there", "lost"}]

NetInv(n, f) ==
  /\ n \in Seq(Packets)
  /\ f = [lost |-> f.lost, copies |-> f.copies, copied |-> f.copied]
  /\ f.copies \in Seq(Seq(Chunks))

\* The inductive invariant.
IInv ==
  /\ options \in Settings
  /\ DisInv(dis)
  /\ NetInv(net, faults)
  /\ AsmInv(options, asm)

\* Where a packet is changes.
LEMMA MarkPacket ==
  ASSUME NEW n \in Seq(Packets), NEW i \in DOMAIN n, NEW v \in {"way", "there", "lost"}
  PROVE  [n EXCEPT ![i].at = v] \in Seq(Packets)
<1> DEFINE p == [n[i] EXCEPT !.at = v]
           m == [n EXCEPT ![i] = p]
<1>1. [n EXCEPT ![i].at = v] = m BY Zenon
<1>2. n[i] \in Packets
  <2> HIDE DEF Packets
  <2>1. QED OBVIOUS
<1>3. p \in Packets BY <1>2, SMTT(30) DEF Packets
<1> HIDE DEF p
<1>4. m \in Seq(Packets)
  <2> HIDE DEF Packets
  <2>1. QED BY <1>3
<1>5. QED BY <1>1, <1>4

\* Settle keeps some of the packets.
LEMMA SettleFacts ==
  ASSUME NEW n \in Seq(Packets)
  PROVE  Settle(n) \in Seq(Packets)
<1> DEFINE ways == {i \in DOMAIN n : n[i].at = "way"}
<1>1. Settle(n) = IF ways = {} THEN <<>> ELSE SubSeq(n, Min(ways), Len(n)) BY Zenon DEF Settle
<1>2. DOMAIN n = 1 .. Len(n) /\ Len(n) \in Nat OBVIOUS
<1>3. ways \subseteq Nat /\ ways \subseteq 1 .. Len(n) BY <1>2
<1> HIDE DEF ways
<1>4. CASE ways = {} BY <1>1, <1>4
<1>5. CASE ways # {}
  <2>1. Min(ways) \in 1 .. Len(n) BY <1>3, <1>5, MinBottom, Zenon
  <2> DEFINE k == Min(ways)
  <2>2. k \in 1 .. Len(n) /\ Settle(n) = SubSeq(n, k, Len(n)) BY <1>1, <1>5, <2>1
  <2> HIDE DEF k
  <2>3. QED BY <1>2, <2>2
<1>6. QED BY <1>4, <1>5

\* A handler of the disassembler leaves.
LEMMA LeaveKeeps ==
  ASSUME IInv, NEW d, DisLeft(d), Leave(d)
  PROVE  IInv'
<1>1. /\ dis' = [d EXCEPT !.sent = <<>>]
      /\ net' = net \o [i \in DOMAIN d.sent |-> [chunks |-> d.sent[i], at |-> "way"]]
      /\ options' = options /\ faults' = faults /\ asm' = asm
  BY DEF Leave
<1>2. DisInv(dis)'
  <2>0. DisShape(d) BY DEF DisLeft, DisType
  <2>1. dis' = [frame_id |-> d.frame_id, in |-> d.in, in_used |-> d.in_used, out |-> d.out,
                out_used |-> d.out_used, timer |-> d.timer, sent |-> <<>>,
                frames |-> d.frames, last |-> d.last, cancels |-> d.cancels,
                halved |-> d.halved]
    BY <1>1, <2>0, Zenon DEF DisShape
  <2>2. /\ DisShape(dis') /\ dis'.frame_id = d.frame_id /\ dis'.in = d.in
        /\ dis'.in_used = d.in_used /\ dis'.out = d.out /\ dis'.out_used = d.out_used
        /\ dis'.timer = d.timer /\ dis'.sent = <<>> /\ dis'.frames = d.frames
    BY <2>1, Zenon DEF DisShape
  <2>3. DisType(dis') BY <2>2, Zenon DEF DisLeft, DisType
  <2>4. options'.carrier_mtu - dis'.out_used - header = options.carrier_mtu - d.out_used - header
    BY <1>1, <2>2, Zenon
  <2>5. QED BY <2>2, <2>3, <2>4, Zenon DEF DisLeft, DisInv, out_avail
<1>3. NetInv(net, faults)'
  <2> DEFINE s == d.sent
             new == [i \in DOMAIN s |-> [chunks |-> s[i], at |-> "way"]]
  <2>1. s \in Seq(Seq(Chunks)) BY DEF DisLeft
  <2> HIDE DEF s
  <2>2. new \in Seq(Packets)
    <3>1. \A i \in DOMAIN s : s[i] \in Seq(Chunks)
      <4> DEFINE C == Seq(Chunks)
      <4>1. s \in Seq(C) BY <2>1
      <4> HIDE DEF C
      <4>2. \A i \in DOMAIN s : s[i] \in C BY <4>1
      <4>3. QED BY <4>2 DEF C
    <3>2. \A i \in DOMAIN s : [chunks |-> s[i], at |-> "way"] \in Packets BY <3>1, Zenon DEF Packets
    <3>3. DOMAIN s = 1 .. Len(s) /\ Len(s) \in Nat
      <4> DEFINE C == Seq(Chunks)
      <4>1. s \in Seq(C) BY <2>1
      <4> HIDE DEF C
      <4>2. QED BY <4>1
    <3>4. new \in [1 .. Len(s) -> Packets]
      <4> HIDE DEF Packets
      <4>1. QED BY <3>2, <3>3, Zenon
    <3>5. QED
      <4> HIDE DEF Packets, new
      <4>1. QED BY <3>3, <3>4
  <2>3. net' = net \o new BY <1>1 DEF s
  <2>4. net \in Seq(Packets) BY DEF IInv, NetInv
  <2> HIDE DEF new, Packets
  <2>5. net' \in Seq(Packets) BY <2>2, <2>3, <2>4
  <2>6. QED BY <1>1, <2>5, Zenon DEF IInv, NetInv
<1>4. (options \in Settings)' /\ AsmInv(options, asm)' BY <1>1, Zenon DEF IInv
<1>5. QED BY <1>2, <1>3, <1>4 DEF IInv

\* input_handler_send of the disassembler.
LEMMA DisInputKeeps ==
  ASSUME IInv, NEW len \in options.Lengths, dis_input_handler_send(len)
  PROVE  IInv'
<1> DEFINE d == [dis EXCEPT !.in = [of |-> dis.frames, total |-> len],
                            !.in_used = 0, !.frames = @ + 1]
<1>0. /\ options \in Settings /\ DisInv(dis) /\ DisType(dis) /\ DisShape(dis) /\ len \in Nat
  BY SettingFacts, SMTT(30) DEF IInv, DisInv, DisType
<1>1. dis.in = NULL /\ Leave(IF d.out = NULL THEN d ELSE write_chunks(d))
  BY Zenon DEF dis_input_handler_send
<1>2. d = [dis EXCEPT !.in = [of |-> dis.frames, total |-> len],
                      !.in_used = 0, !.frames = dis.frames + 1]
  BY Zenon
<1> HIDE DEF d
<1>3. d = [frame_id |-> dis.frame_id, in |-> [of |-> dis.frames, total |-> len], in_used |-> 0,
           out |-> dis.out, out_used |-> dis.out_used, timer |-> dis.timer, sent |-> dis.sent,
           frames |-> dis.frames + 1, last |-> dis.last, cancels |-> dis.cancels,
           halved |-> dis.halved]
  BY <1>0, <1>2, Zenon DEF DisShape
<1>4. /\ DisShape(d) /\ d.frame_id = dis.frame_id /\ d.in_used = 0 /\ d.out = dis.out
      /\ d.out_used = dis.out_used /\ d.timer = dis.timer /\ d.sent = dis.sent
      /\ d.frames = dis.frames + 1 /\ d.in = [of |-> dis.frames, total |-> len]
      /\ d.in.of = dis.frames /\ d.in.total = len
  BY <1>3, Zenon DEF DisShape
<1>5. /\ dis.frame_id \in Nat /\ dis.out_used \in Nat /\ dis.frames \in Nat
      /\ dis.timer \in BOOLEAN /\ dis.sent = <<>>
      /\ dis.out # NULL => dis.out \in Seq(Chunks) /\ out_avail(dis) > 0
      /\ dis.timer <=> dis.out # NULL /\ dis.out # <<>>
  BY <1>0, Zenon DEF DisInv, DisType
<1>6. d.in # NULL BY <1>0, <1>4, <1>5, SettingFacts, SMTT(30)
<1>7. DisType(d)
  <2>1. 0 \in Nat /\ dis.frames + 1 \in Nat /\ 0 <= len BY <1>0, <1>5, SMTT(30)
  <2>2. QED BY <1>0, <1>4, <1>5, <2>1, Zenon DEF DisType
<1>8. out_avail(d) = out_avail(dis) BY <1>4, Zenon DEF out_avail
<1>9. CASE d.out = NULL
  <2>1. <<>> \in Seq(Seq(Chunks)) OBVIOUS
  <2>2. DisLeft(d) BY <1>4, <1>5, <1>7, <1>9, <2>1, Zenon DEF DisLeft
  <2>3. QED BY <1>1, <1>9, <2>2, LeaveKeeps
<1>10. CASE d.out # NULL
  <2>1. DisLeft(write_chunks(d)) BY <1>0, <1>4, <1>5, <1>6, <1>7, <1>8, <1>10, WriteChunks, SMTT(30)
  <2>2. QED BY <1>1, <1>10, <2>1, LeaveKeeps
<1>11. QED BY <1>9, <1>10

\* input_handler_requestcancel.
LEMMA CancelKeeps ==
  ASSUME IInv, input_handler_requestcancel
  PROVE  IInv'
<1> DEFINE f == finish_input(dis)
           d == [f EXCEPT !.cancels = @ + 1, !.halved = @ \/ dis.in_used > 0]
<1>0. DisInv(dis) /\ DisType(dis) /\ DisShape(dis) BY DEF IInv, DisInv, DisType
<1>1. dis.in # NULL /\ Leave(d) BY Zenon DEF input_handler_requestcancel
<1>2. f = [dis EXCEPT !.in = NULL, !.in_used = 0] BY Zenon DEF finish_input
<1> HIDE DEF f
<1>3. f = [frame_id |-> dis.frame_id, in |-> NULL, in_used |-> 0,
           out |-> dis.out, out_used |-> dis.out_used, timer |-> dis.timer, sent |-> dis.sent,
           frames |-> dis.frames, last |-> dis.last, cancels |-> dis.cancels,
           halved |-> dis.halved]
  BY <1>0, <1>2, Zenon DEF DisShape
<1>4. d = [f EXCEPT !.cancels = f.cancels + 1, !.halved = f.halved \/ dis.in_used > 0] BY Zenon
<1> HIDE DEF d
<1>5. d = [frame_id |-> dis.frame_id, in |-> NULL, in_used |-> 0,
           out |-> dis.out, out_used |-> dis.out_used, timer |-> dis.timer, sent |-> dis.sent,
           frames |-> dis.frames, last |-> dis.last, cancels |-> f.cancels + 1,
           halved |-> f.halved \/ dis.in_used > 0]
  BY <1>3, <1>4, Zenon
<1>6. /\ DisShape(d) /\ d.frame_id = dis.frame_id /\ d.in = NULL /\ d.in_used = 0
      /\ d.out = dis.out /\ d.out_used = dis.out_used /\ d.timer = dis.timer
      /\ d.sent = dis.sent /\ d.frames = dis.frames
  BY <1>5, Zenon DEF DisShape
<1>7. DisType(d)
  <2>1. 0 \in Nat OBVIOUS
  <2>2. QED BY <1>0, <1>6, <2>1, Zenon DEF DisType
<1>8. out_avail(d) = out_avail(dis) BY <1>6, Zenon DEF out_avail
<1>9. <<>> \in Seq(Seq(Chunks)) OBVIOUS
<1>10. DisLeft(d) BY <1>0, <1>6, <1>7, <1>8, <1>9, Zenon DEF DisLeft, DisInv
<1>11. QED BY <1>1, <1>10, LeaveKeeps

\* output_handler_recv.
LEMMA RecvKeeps ==
  ASSUME IInv, output_handler_recv
  PROVE  IInv'
<1> DEFINE d == [dis EXCEPT !.out = <<>>, !.out_used = 0]
<1>0. options \in Settings /\ DisInv(dis) /\ DisType(dis) /\ DisShape(dis)
  BY DEF IInv, DisInv, DisType
<1>1. dis.out = NULL /\ Leave(IF d.in = NULL THEN d ELSE write_chunks(d))
  BY Zenon DEF output_handler_recv
<1>2. d = [dis EXCEPT !.out = <<>>, !.out_used = 0] OBVIOUS
<1> HIDE DEF d
<1>3. d = [frame_id |-> dis.frame_id, in |-> dis.in, in_used |-> dis.in_used,
           out |-> <<>>, out_used |-> 0, timer |-> dis.timer, sent |-> dis.sent,
           frames |-> dis.frames, last |-> dis.last, cancels |-> dis.cancels,
           halved |-> dis.halved]
  BY <1>0, <1>2, Zenon DEF DisShape
<1>4. /\ DisShape(d) /\ d.frame_id = dis.frame_id /\ d.in = dis.in /\ d.in_used = dis.in_used
      /\ d.out = <<>> /\ d.out_used = 0 /\ d.timer = dis.timer
      /\ d.sent = dis.sent /\ d.frames = dis.frames
  BY <1>3, Zenon DEF DisShape
<1>5. DisType(d)
  <2>1. 0 \in Nat OBVIOUS
  <2>2. QED BY <1>0, <1>4, <2>1, Zenon DEF DisType
<1>6. <<>> \in Seq(Chunks) /\ <<>> \in Seq(Seq(Chunks)) OBVIOUS
<1>7. out_avail(d) > 0 BY <1>0, <1>4, SettingFacts DEF out_avail, header
<1>8. CASE d.in = NULL
  <2>1. DisLeft(d) BY <1>0, <1>1, <1>4, <1>5, <1>6, <1>7, <1>8, Zenon DEF DisLeft, DisInv
  <2>2. QED BY <1>1, <1>8, <2>1, LeaveKeeps
<1>9. CASE d.in # NULL
  <2>1. d.sent = <<>> BY <1>0, <1>4, Zenon DEF DisInv
  <2>2. DisLeft(write_chunks(d)) BY <1>0, <1>4, <1>5, <1>6, <1>7, <1>9, <2>1, WriteChunks, Zenon
  <2>3. QED BY <1>1, <1>9, <2>2, LeaveKeeps
<1>10. QED BY <1>8, <1>9

\* timer_handler.
LEMMA TimerKeeps ==
  ASSUME IInv, timer_handler
  PROVE  IInv'
<1> DEFINE e == [dis EXCEPT !.timer = FALSE]
           d == finish_output(e)
<1>0. DisInv(dis) /\ DisType(dis) /\ DisShape(dis) BY DEF IInv, DisInv, DisType
<1>1. dis.timer /\ Leave(d) BY Zenon DEF timer_handler
<1>2. e = [dis EXCEPT !.timer = FALSE] OBVIOUS
<1>3. d = [e EXCEPT !.sent = <<e.out>>, !.out = NULL, !.out_used = 0] BY Zenon DEF finish_output
<1> HIDE DEF e, d
<1>4. e = [frame_id |-> dis.frame_id, in |-> dis.in, in_used |-> dis.in_used,
           out |-> dis.out, out_used |-> dis.out_used, timer |-> FALSE, sent |-> dis.sent,
           frames |-> dis.frames, last |-> dis.last, cancels |-> dis.cancels,
           halved |-> dis.halved]
  BY <1>0, <1>2, Zenon DEF DisShape
<1>5. e.out = dis.out BY <1>4, Zenon
<1>6. d = [frame_id |-> dis.frame_id, in |-> dis.in, in_used |-> dis.in_used,
           out |-> NULL, out_used |-> 0, timer |-> FALSE, sent |-> <<e.out>>,
           frames |-> dis.frames, last |-> dis.last, cancels |-> dis.cancels,
           halved |-> dis.halved]
  BY <1>3, <1>4, Zenon
<1>7. /\ DisShape(d) /\ d.frame_id = dis.frame_id /\ d.in = dis.in /\ d.in_used = dis.in_used
      /\ d.out = NULL /\ d.out_used = 0 /\ d.timer = FALSE
      /\ d.sent = <<dis.out>> /\ d.frames = dis.frames
  BY <1>5, <1>6, Zenon DEF DisShape
<1>8. DisType(d)
  <2>1. 0 \in Nat /\ FALSE \in BOOLEAN OBVIOUS
  <2>2. QED BY <1>0, <1>7, <2>1, Zenon DEF DisType
<1>9. dis.out \in Seq(Chunks) BY <1>0, <1>1, Zenon DEF DisInv
<1>10. <<dis.out>> \in Seq(Seq(Chunks)) BY <1>9
<1>11. DisLeft(d) BY <1>7, <1>8, <1>10, Zenon DEF DisLeft
<1>12. QED BY <1>1, <1>11, LeaveKeeps

\* The assembler took a packet or went on with one.
LEMMA AssembledKeeps ==
  ASSUME IInv, NEW a, Pool(options, a), SendOK(options, a), a.in \in Seq(Chunks),
         asm' = process_input(a), UNCHANGED <<options, dis>>, NetInv(net, faults)'
  PROVE  IInv'
<1>1. options' = options /\ dis' = dis OBVIOUS
<1>2. options \in Settings BY DEF IInv
<1>3. AsmInv(options, process_input(a)) BY <1>2, ProcessInput
<1>4. AsmInv(options, asm)' BY <1>1, <1>3, Zenon
<1>5. DisInv(dis)'
  <2>1. options'.carrier_mtu - dis'.out_used - header = options.carrier_mtu - dis.out_used - header
    BY <1>1, Zenon
  <2>2. QED BY <1>1, <2>1, Zenon DEF IInv, DisInv, out_avail
<1>6. QED BY <1>1, <1>2, <1>4, <1>5, Zenon DEF IInv

\* input_handler_send of the assembler: a packet of the network.
LEMMA AsmInputKeeps ==
  ASSUME IInv, NEW i \in DOMAIN net, asm_input_handler_send(i)
  PROVE  IInv'
<1> DEFINE a == [asm EXCEPT !.in = net[i].chunks]
           n == [net EXCEPT ![i].at = "there"]
<1>0. /\ options \in Settings /\ Pool(options, asm) /\ SendOK(options, asm)
      /\ net \in Seq(Packets) /\ NetInv(net, faults)
  BY DEF IInv, AsmInv, NetInv
<1>1. /\ net' = Settle(n) /\ asm' = process_input(a) /\ UNCHANGED <<options, dis>>
      /\ faults' = faults
  BY Zenon DEF asm_input_handler_send, Assembled
<1>2. net[i].chunks \in Seq(Chunks)
  <2>1. net[i] \in Packets
    <3> HIDE DEF Packets
    <3>1. QED BY <1>0
  <2>2. QED BY <2>1, Zenon DEF Packets
<1>3. /\ Pool(options, a) /\ a.in = net[i].chunks /\ a.sending = asm.sending
      /\ \A f : Used(a, f) <=> Used(asm, f)
  BY <1>0, SetIn, Zenon
<1>4. n \in Seq(Packets) BY <1>0, MarkPacket, Zenon
<1> HIDE DEF a, n
<1>5. SendOK(options, a) BY <1>0, <1>3, Zenon DEF SendOK
<1>6. Settle(n) \in Seq(Packets) BY <1>4, SettleFacts
<1>7. NetInv(net, faults)' BY <1>0, <1>1, <1>6, Zenon DEF NetInv
<1>8. QED BY <1>1, <1>2, <1>3, <1>5, <1>7, AssembledKeeps

\* A packet is lost, or will come twice.
LEMMA FaultKeeps ==
  ASSUME IInv, NEW i \in DOMAIN net, Lose(i) \/ Duplicate(i)
  PROVE  IInv'
<1>0. /\ options \in Settings /\ net \in Seq(Packets) /\ NetInv(net, faults)
      /\ AsmInv(options, asm)
      /\ faults = [lost |-> faults.lost, copies |-> faults.copies, copied |-> faults.copied]
      /\ faults.copies \in Seq(Seq(Chunks))
  BY DEF IInv, NetInv
<1>1. options' = options /\ dis' = dis /\ asm' = asm BY DEF Lose, Duplicate
<1>2. NetInv(net, faults)'
  <2>1. CASE Lose(i)
    <3> DEFINE n == [net EXCEPT ![i].at = "lost"]
    <3>1. net' = Settle(n) /\ faults' = [faults EXCEPT !.lost = faults.lost + 1]
      BY <2>1, Zenon DEF Lose
    <3>2. n \in Seq(Packets) BY <1>0, MarkPacket, Zenon
    <3> HIDE DEF n
    <3>3. net' \in Seq(Packets) BY <3>1, <3>2, SettleFacts
    <3>4. faults' = [lost |-> faults.lost + 1, copies |-> faults.copies, copied |-> faults.copied]
      BY <1>0, <3>1, Zenon
    <3>5. QED BY <1>0, <3>3, <3>4, Zenon DEF NetInv
  <2>2. CASE Duplicate(i)
    <3> DEFINE c == Append(faults.copies, net[i].chunks)
    <3>1. net' = net /\ faults' = [faults EXCEPT !.copies = c, !.copied = faults.copied + 1]
      BY <2>2, Zenon DEF Duplicate
    <3>2. net[i].chunks \in Seq(Chunks)
      <4>1. net[i] \in Packets
        <5> HIDE DEF Packets
        <5>1. QED BY <1>0
      <4>2. QED BY <4>1, Zenon DEF Packets
    <3>3. c \in Seq(Seq(Chunks))
      <4> DEFINE C == Seq(Chunks)
      <4>1. faults.copies \in Seq(C) /\ net[i].chunks \in C BY <1>0, <3>2
      <4> HIDE DEF C
      <4>2. c \in Seq(C) BY <4>1
      <4>3. QED BY <4>2 DEF C
    <3> HIDE DEF c
    <3>4. faults' = [lost |-> faults.lost, copies |-> c, copied |-> faults.copied + 1]
      BY <1>0, <3>1, Zenon
    <3>5. QED BY <1>0, <3>1, <3>3, <3>4, Zenon DEF NetInv
  <2>3. QED BY <2>1, <2>2
<1>3. DisInv(dis)'
  <2>1. options'.carrier_mtu - dis'.out_used - header = options.carrier_mtu - dis.out_used - header
    BY <1>1, Zenon
  <2>2. QED BY <1>1, <2>1, Zenon DEF IInv, DisInv, out_avail
<1>4. QED BY <1>0, <1>1, <1>2, <1>3, Zenon DEF IInv

\* The copy of a packet arrives.
LEMMA CopyKeeps ==
  ASSUME IInv, ArriveCopy
  PROVE  IInv'
<1> DEFINE c == Head(faults.copies)
           a == [asm EXCEPT !.in = c]
           t == Tail(faults.copies)
<1>0. /\ options \in Settings /\ Pool(options, asm) /\ SendOK(options, asm)
      /\ net \in Seq(Packets) /\ faults.copies \in Seq(Seq(Chunks))
      /\ faults = [lost |-> faults.lost, copies |-> faults.copies, copied |-> faults.copied]
  BY DEF IInv, AsmInv, NetInv
<1>1. /\ faults.copies # <<>> /\ asm' = process_input(a) /\ UNCHANGED <<options, dis>>
      /\ net' = net /\ faults' = [faults EXCEPT !.copies = t]
  BY Zenon DEF ArriveCopy, Assembled
<1>2. c \in Seq(Chunks) /\ t \in Seq(Seq(Chunks))
  <2> DEFINE C == Seq(Chunks)
  <2>1. faults.copies \in Seq(C) /\ faults.copies # <<>> BY <1>0, <1>1
  <2> HIDE DEF C
  <2>2. c \in C /\ t \in Seq(C) BY <2>1
  <2>3. QED BY <2>2 DEF C
<1>3. /\ Pool(options, a) /\ a.in = c /\ a.sending = asm.sending
      /\ \A f : Used(a, f) <=> Used(asm, f)
  BY <1>0, SetIn, Zenon
<1> HIDE DEF a, c, t
<1>4. SendOK(options, a) BY <1>0, <1>3, Zenon DEF SendOK
<1>5. faults' = [lost |-> faults.lost, copies |-> t, copied |-> faults.copied]
  BY <1>0, <1>1, Zenon
<1>6. NetInv(net, faults)' BY <1>0, <1>1, <1>2, <1>5, Zenon DEF NetInv
<1>7. QED BY <1>1, <1>2, <1>3, <1>4, <1>6, AssembledKeeps, Zenon

\* output_handler_done.
LEMMA DoneKeeps ==
  ASSUME IInv, output_handler_done
  PROVE  IInv'
<1> DEFINE a == [asm EXCEPT !.sending = NULL]
<1>0. Pool(options, asm) /\ NetInv(net, faults) /\ (asm.sending # NULL => asm.in \in Seq(Chunks))
  BY DEF IInv, AsmInv
<1>1. /\ asm.sending # NULL /\ asm' = process_input(a) /\ UNCHANGED <<options, dis>>
      /\ net' = net /\ faults' = faults
  BY Zenon DEF output_handler_done, Assembled
<1>2. Pool(options, a) /\ a.in = asm.in /\ a.sending = NULL BY <1>0, SetSending
<1> HIDE DEF a
<1>3. SendOK(options, a) /\ a.in \in Seq(Chunks) BY <1>0, <1>1, <1>2 DEF SendOK
<1>4. NetInv(net, faults)' BY <1>0, <1>1, Zenon
<1>5. QED BY <1>1, <1>2, <1>3, <1>4, AssembledKeeps

\* The initial state.
LEMMA InitIInv == Init => IInv
<1> SUFFICES ASSUME Init PROVE IInv OBVIOUS
<1>1. /\ options \in Settings /\ dis = Disassembler /\ net = <<>>
      /\ faults = [lost |-> 0, copies |-> <<>>, copied |-> 0] /\ asm = Assembler(options)
  BY DEF Init
<1>2. DisInv(dis)
  <2>1. /\ DisShape(dis) /\ dis.frame_id = 0 /\ dis.in = NULL /\ dis.in_used = 0
        /\ dis.out = NULL /\ dis.out_used = 0 /\ dis.timer = FALSE /\ dis.sent = <<>>
        /\ dis.frames = 0
    BY <1>1, Zenon DEF Disassembler, DisShape
  <2>2. 0 \in Nat /\ FALSE \in BOOLEAN OBVIOUS
  <2>3. DisType(dis) BY <2>1, <2>2, Zenon DEF DisType
  <2>4. QED BY <2>1, <2>3, Zenon DEF DisInv
<1>3. NetInv(net, faults)
  <2>1. faults.lost = 0 /\ faults.copies = <<>> /\ faults.copied = 0 BY <1>1, Zenon
  <2>2. <<>> \in Seq(Packets) /\ <<>> \in Seq(Seq(Chunks))
    <3> HIDE DEF Packets, Chunks
    <3>1. QED OBVIOUS
  <2>3. QED BY <1>1, <2>1, <2>2, Zenon DEF NetInv
<1>4. AsmInv(options, asm)
  <2> DEFINE free == [f \in 1 .. options.num_frames |-> f]
             frames == [f \in 1 .. options.num_frames |-> NULL]
  <2>1. /\ AsmShape(asm) /\ asm.time = 0 /\ asm.frames = frames /\ asm.used = <<>>
        /\ asm.free = free /\ asm.in = NULL /\ asm.sending = NULL
    BY <1>1, Zenon DEF Assembler, AsmShape
  <2>2. options.num_frames \in Nat /\ options.FPA_MAX_TIME \in Nat BY <1>1, SettingFacts
  <2>3. free \in Seq(Entries(options)) /\ NoDup(free)
        /\ \A f \in Entries(options) : BSmallPending_IsSet(free, f)
    <3>1. free \in [1 .. options.num_frames -> Entries(options)] BY DEF Entries
    <3>2. free \in Seq(Entries(options)) BY <2>2, <3>1
    <3>3. DOMAIN free = Entries(options) /\ \A f \in Entries(options) : free[f] = f BY DEF Entries
    <3> HIDE DEF free
    <3>4. QED BY <3>2, <3>3, Zenon DEF NoDup, BSmallPending_IsSet
  <2>4. \A f : ~Used(asm, f) BY <2>1 DEF Used, BSmallPending_IsSet
  <2>5. frames = [f \in Entries(options) |-> frames[f]] BY DEF Entries
  <2>6. 0 \in Nat /\ 0 <= options.FPA_MAX_TIME /\ <<>> \in Seq(Entries(options)) /\ NoDup(<<>>)
    BY <2>2 DEF NoDup
  <2> HIDE DEF free, frames
  <2>7. Pool(options, asm) BY <2>1, <2>3, <2>4, <2>5, <2>6, Zenon DEF Pool
  <2>8. QED BY <2>1, <2>7, Zenon DEF AsmInv, SendOK
<1>5. QED BY <1>1, <1>2, <1>3, <1>4 DEF IInv

\* Every step keeps the invariant.
LEMMA NextIInv == IInv /\ [Next]_vars => IInv'
<1> SUFFICES ASSUME IInv, [Next]_vars PROVE IInv' OBVIOUS
<1>1. ASSUME NEW len \in options.Lengths, dis_input_handler_send(len) PROVE IInv'
  BY <1>1, DisInputKeeps
<1>2. ASSUME input_handler_requestcancel PROVE IInv' BY <1>2, CancelKeeps
<1>3. ASSUME output_handler_recv PROVE IInv' BY <1>3, RecvKeeps
<1>4. ASSUME timer_handler PROVE IInv' BY <1>4, TimerKeeps
<1>5. ASSUME NEW i \in DOMAIN net, asm_input_handler_send(i) PROVE IInv' BY <1>5, AsmInputKeeps
<1>6. ASSUME NEW i \in DOMAIN net, Lose(i) \/ Duplicate(i) PROVE IInv' BY <1>6, FaultKeeps
<1>7. ASSUME ArriveCopy PROVE IInv' BY <1>7, CopyKeeps
<1>8. ASSUME output_handler_done PROVE IInv' BY <1>8, DoneKeeps
<1>9. ASSUME UNCHANGED vars PROVE IInv'
  <2>1. options' = options /\ dis' = dis /\ net' = net /\ faults' = faults /\ asm' = asm
    BY <1>9 DEF vars
  <2>2. DisInv(dis)'
    <3>1. options'.carrier_mtu - dis'.out_used - header = options.carrier_mtu - dis.out_used - header
      BY <2>1, Zenon
    <3>2. QED BY <2>1, <3>1, Zenon DEF IInv, DisInv, out_avail
  <2>3. NetInv(net, faults)' /\ AsmInv(options, asm)' /\ (options \in Settings)'
    BY <2>1, Zenon DEF IInv
  <2>4. QED BY <2>2, <2>3 DEF IInv
<1>10. QED BY <1>1, <1>2, <1>3, <1>4, <1>5, <1>6, <1>7, <1>8, <1>9, Zenon DEF Next

\* The invariant holds throughout, for every setting.
THEOREM InvariantHolds == Spec => []IInv
  BY InitIInv, NextIInv, PTL DEF Spec

\* A packet begun has its timer running, and no frame waits while there is a
\* packet to write it to, whatever the lengths, MTUs and the latency are.
THEOREM FlushAlwaysArmed == Spec => []FlushArmed
<1>1. IInv => FlushArmed BY Zenon DEF IInv, DisInv, FlushArmed
<1>2. QED BY <1>1, InvariantHolds, PTL

\* The packet time less the time of a frame is the age of the frame in packets,
\* for every limit FPA_MAX_TIME above the number of entries.
THEOREM AgesAlwaysTrue == Spec => []AgesTrue
<1>1. ASSUME IInv PROVE AgesTrue
  <2> SUFFICES ASSUME NEW f \in Range(asm.used)
               PROVE  asm.time - asm.frames[f].time = asm.frames[f].age
    BY Zenon DEF AgesTrue
  <2>1. Pool(options, asm) BY <1>1 DEF IInv, AsmInv
  <2>2. Used(asm, f) /\ f \in Entries(options) BY <2>1, UsedEntries
  <2>3. Timed(asm.frames[f], asm.time) BY <2>1, <2>2, Zenon DEF Pool
  <2>4. QED BY <2>3, Zenon DEF Timed
<1>2. QED BY <1>1, InvariantHolds, PTL

\* A frame that is passed on has no hole, holds at every position a byte of that
\* position, fits the output, and its entry is not used for another frame.
SentWhole ==
  asm.sending # NULL =>
    /\ asm.sending.frame \notin Range(asm.used)
    /\ Whole(options, asm.sending.data)

\* So it is for every sequence of chunks that arrives: process_chunk's checks
\* imply the asserts of the assembler.
THEOREM FramesPassedWhole == Spec => []SentWhole
<1>1. ASSUME IInv PROVE SentWhole
  <2>1. Pool(options, asm) /\ SendOK(options, asm) BY <1>1 DEF IInv, AsmInv
  <2>2. \A f : f \in Range(asm.used) <=> Used(asm, f) BY <2>1, UsedEntries
  <2>3. QED BY <2>1, <2>2, Zenon DEF SendOK, SentWhole
<1>2. QED BY <1>1, InvariantHolds, PTL
=============================================================================
