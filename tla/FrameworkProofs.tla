--------------------------- MODULE FrameworkProofs ---------------------------
(*****************************************************************************)
(* Proofs about two parts of the framework that all programs are built on.   *)
(*                                                                           *)
(* The job group: the job list is last-in-first-out and BReactor_Synchronize *)
(* always finds its mark, for every number of jobs, marks and sets.          *)
(*                                                                           *)
(* The fair queue: its pointers agree, it never stalls, and it sends the     *)
(* flow with the least time, for every MTU, weight and width of times.       *)
(*****************************************************************************)
EXTENDS BPending, PacketPassFairQueue, JobListProofs

-----------------------------------------------------------------------------
(* The job group: BPending *)

\* No job was set in the future.
StampsPast == \A j \in AllJobs : stamp[j] <= clock

\* The inductive invariant.
GroupInv == GroupTypeOK /\ LinkedJobs /\ MostRecentFirst /\ MarksStayLinked /\ StampsPast

\* The list is ordered by the times f of the last set.
Ordered(list, f) == \A i, k \in DOMAIN list : i < k => f[list[i]] > f[list[k]]

\* What unlinking a job (BSmallPending_Unset, BSmallPending_Free) keeps.
LEMMA UnlinkKeeps ==
  ASSUME GroupTypeOK, LinkedJobs, MostRecentFirst, NEW x \in AllJobs
  PROVE  LET r == BSmallPending_Unset(jobs, x)
         IN  /\ r \in Seq(AllJobs) /\ NoDup(r) /\ Ordered(r, stamp)
             /\ \A y : BSmallPending_IsSet(r, y) <=> BSmallPending_IsSet(jobs, y) /\ y # x
<1> DEFINE r == BSmallPending_Unset(jobs, x)
<1>1. jobs \in Seq(AllJobs) /\ NoDup(jobs) BY DEF GroupTypeOK, LinkedJobs
<1>2. r = LinkedList1_Remove(jobs, x) BY DEF BSmallPending_Unset
<1> HIDE DEF r
<1>3. /\ r \in Seq(AllJobs) /\ NoDup(r)
      /\ \A y : BSmallPending_IsSet(r, y) <=> BSmallPending_IsSet(jobs, y) /\ y # x
      /\ \A j, k \in DOMAIN r : j < k =>
           \E p, q \in DOMAIN jobs : p < q /\ r[j] = jobs[p] /\ r[k] = jobs[q]
  BY <1>1, <1>2, RemoveFacts
<1>4. Ordered(r, stamp) BY <1>3 DEF Ordered, MostRecentFirst
<1>5. QED BY <1>3, <1>4 DEF r

\* What setting a job (BSmallPending_Set) at the next time keeps.
LEMMA SetKeeps ==
  ASSUME GroupTypeOK, LinkedJobs, MostRecentFirst, StampsPast, NEW x \in AllJobs
  PROVE  LET r == BSmallPending_Set(jobs, x)
             f == [stamp EXCEPT ![x] = clock + 1]
         IN  /\ r \in Seq(AllJobs) /\ NoDup(r) /\ Ordered(r, f)
             /\ \A y : BSmallPending_IsSet(r, y) <=> BSmallPending_IsSet(jobs, y) \/ y = x
             /\ f \in [AllJobs -> Nat]
             /\ \A y \in AllJobs : f[y] = IF y = x THEN clock + 1 ELSE stamp[y]
<1> DEFINE u == BSmallPending_Unset(jobs, x)
           r == BSmallPending_Set(jobs, x)
           f == [stamp EXCEPT ![x] = clock + 1]
<1>1. /\ u \in Seq(AllJobs) /\ NoDup(u) /\ Ordered(u, stamp)
      /\ \A y : BSmallPending_IsSet(u, y) <=> BSmallPending_IsSet(jobs, y) /\ y # x
  BY UnlinkKeeps
<1>2. r = <<x>> \o u BY DEF BSmallPending_Set, BSmallPending_Unset
<1>3. /\ f \in [AllJobs -> Nat]
      /\ \A y \in AllJobs : f[y] = IF y = x THEN clock + 1 ELSE stamp[y]
  BY DEF GroupTypeOK
<1> HIDE DEF u, r, f
<1>4. /\ r \in Seq(AllJobs) /\ NoDup(r) /\ Len(r) = Len(u) + 1 /\ r[1] = x
      /\ \A j \in 1..Len(u) : r[j+1] = u[j]
      /\ \A y : BSmallPending_IsSet(r, y) <=> BSmallPending_IsSet(u, y) \/ y = x
  BY <1>1, <1>2, PrependFacts
<1>5. Ordered(r, f)
  <2> SUFFICES ASSUME NEW i \in DOMAIN r, NEW k \in DOMAIN r, i < k
               PROVE  f[r[i]] > f[r[k]]
    BY DEF Ordered
  <2>1. i \in 1..(Len(u)+1) /\ k \in 1..(Len(u)+1) BY <1>1, <1>4
  <2>2. k - 1 \in 1..Len(u) /\ (k - 1) + 1 = k BY <2>1, <1>1
  <2>3. r[k] = u[k-1] BY <2>2, <1>4
  <2>4. BSmallPending_IsSet(u, r[k]) /\ r[k] \in AllJobs
    BY <2>2, <2>3, <1>1 DEF BSmallPending_IsSet
  <2>5. r[k] # x /\ f[r[k]] = stamp[r[k]] BY <2>4, <1>1, <1>3
  <2>6. CASE i = 1
    <3>1. f[r[i]] = clock + 1 BY <2>6, <1>3, <1>4
    <3>2. QED BY <3>1, <2>4, <2>5 DEF StampsPast, GroupTypeOK
  <2>7. CASE i # 1
    <3>1. i - 1 \in 1..Len(u) /\ (i - 1) + 1 = i /\ i - 1 < k - 1 BY <2>1, <2>7, <1>1
    <3>2. r[i] = u[i-1] BY <3>1, <1>4
    <3>3. BSmallPending_IsSet(u, r[i]) /\ r[i] \in AllJobs
      BY <3>1, <3>2, <1>1 DEF BSmallPending_IsSet
    <3>4. f[r[i]] = stamp[r[i]] BY <3>3, <1>1, <1>3
    <3>5. stamp[u[i-1]] > stamp[u[k-1]] BY <3>1, <2>2, <1>1 DEF Ordered
    <3>6. QED BY <3>2, <3>4, <3>5, <2>3, <2>5
  <2>8. QED BY <2>6, <2>7
<1>6. \A y : BSmallPending_IsSet(r, y) <=> BSmallPending_IsSet(jobs, y) \/ y = x
  BY <1>1, <1>4
<1>7. QED BY <1>3, <1>4, <1>5, <1>6 DEF r, f

\* What taking the first job (BPendingGroup_ExecuteJob) keeps.
LEMMA TailKeeps ==
  ASSUME GroupTypeOK, LinkedJobs, MostRecentFirst, jobs # <<>>
  PROVE  LET r == Tail(jobs)
         IN  /\ Head(jobs) \in AllJobs /\ Head(jobs) = jobs[1]
             /\ r \in Seq(AllJobs) /\ NoDup(r) /\ Ordered(r, stamp)
             /\ \A y : BSmallPending_IsSet(r, y) <=>
                         BSmallPending_IsSet(jobs, y) /\ y # Head(jobs)
<1> DEFINE r == Tail(jobs)
<1>1. jobs \in Seq(AllJobs) /\ NoDup(jobs) BY DEF GroupTypeOK, LinkedJobs
<1>2. /\ Head(jobs) \in AllJobs /\ Head(jobs) = jobs[1]
      /\ r \in Seq(AllJobs) /\ NoDup(r)
      /\ \A j \in DOMAIN r : j \in Nat /\ j + 1 \in DOMAIN jobs /\ r[j] = jobs[j+1]
      /\ \A y : BSmallPending_IsSet(r, y) <=> BSmallPending_IsSet(jobs, y) /\ y # Head(jobs)
  BY <1>1, TailFacts
<1> HIDE DEF r
<1>3. Ordered(r, stamp)
  <2> SUFFICES ASSUME NEW j \in DOMAIN r, NEW k \in DOMAIN r, j < k
               PROVE  stamp[r[j]] > stamp[r[k]]
    BY DEF Ordered
  <2>1. j + 1 < k + 1 BY <1>2
  <2>2. QED BY <2>1, <1>2 DEF MostRecentFirst
<1>4. QED BY <1>2, <1>3 DEF r

\* The first mark of an open section, and what the end of the section leaves.
LEMMA MarkFacts ==
  ASSUME GroupTypeOK, MarksStayLinked, marks # <<>>
  PROVE  /\ Head(marks) = marks[1] /\ 1 \in DOMAIN marks /\ Head(marks) \in AllJobs
         /\ BSmallPending_IsSet(jobs, Head(marks))
         /\ Tail(marks) \in Seq(Marks)
         /\ \A i \in DOMAIN Tail(marks) :
              /\ i \in Nat /\ i + 1 \in DOMAIN marks
              /\ Tail(marks)[i] = marks[i+1] /\ marks[i+1] # Head(marks)
<1>1. marks \in Seq(Marks) BY DEF GroupTypeOK
<1>2. /\ Tail(marks) \in Seq(Marks) /\ Len(Tail(marks)) = Len(marks) - 1
      /\ Len(marks) \in Nat \ {0}
      /\ \A i \in 1..Len(Tail(marks)) : Tail(marks)[i] = marks[i+1]
      /\ Head(marks) = marks[1] /\ marks[1] \in Marks
  BY <1>1
<1>3. 1 \in DOMAIN marks BY <1>1, <1>2
<1>4. ASSUME NEW i \in DOMAIN Tail(marks)
      PROVE  /\ i \in Nat /\ i + 1 \in DOMAIN marks
             /\ Tail(marks)[i] = marks[i+1] /\ marks[i+1] # Head(marks)
  <2>1. i \in 1..Len(Tail(marks)) /\ i + 1 \in DOMAIN marks /\ 1 < i + 1 BY <1>1, <1>2
  <2>2. stamp[marks[1]] > stamp[marks[i+1]] BY <2>1, <1>3 DEF MarksStayLinked
  <2>3. stamp[marks[1]] \in Nat BY <1>2 DEF GroupTypeOK, AllJobs
  <2>4. marks[1] # marks[i+1] BY <2>2, <2>3
  <2>5. QED BY <2>1, <2>4, <1>2
<1>5. QED BY <1>2, <1>3, <1>4 DEF MarksStayLinked, AllJobs

\* The end of a section (SYNC_COMMIT, SYNC_BREAK) keeps the invariant.
LEMMA FreeMarkKeeps ==
  ASSUME GroupInv, marks # <<>>, FreeMark
  PROVE  GroupInv'
<1> USE DEF GroupInv
<1>1. /\ jobs' \in Seq(AllJobs) /\ NoDup(jobs') /\ Ordered(jobs', stamp)
      /\ \A y : BSmallPending_IsSet(jobs', y) <=>
                  BSmallPending_IsSet(jobs, y) /\ y # Head(marks)
  BY MarkFacts, UnlinkKeeps DEF FreeMark
<1>2. GroupTypeOK' BY <1>1, MarkFacts DEF FreeMark, GroupTypeOK
<1>3. LinkedJobs'
  <2>1. \A i \in DOMAIN jobs' : jobs'[i] \in inited'
    BY <1>1, Zenon DEF FreeMark, LinkedJobs, BSmallPending_IsSet
  <2>2. \A j \in inited' : pending'[j] <=> BSmallPending_IsSet(jobs', j)
    BY <1>1 DEF FreeMark, LinkedJobs
  <2>3. QED BY <1>1, <2>1, <2>2 DEF LinkedJobs
<1>4. MostRecentFirst' BY <1>1 DEF FreeMark, MostRecentFirst, Ordered
<1>5. MarksStayLinked'
  <2>1. ASSUME NEW i \in DOMAIN marks' PROVE BSmallPending_IsSet(jobs', marks'[i])
    BY <1>1, MarkFacts DEF FreeMark, MarksStayLinked
  <2>2. ASSUME NEW i \in DOMAIN marks', NEW k \in DOMAIN marks', i < k
        PROVE  stamp'[marks'[i]] > stamp'[marks'[k]]
    <3>1. /\ i + 1 \in DOMAIN marks /\ k + 1 \in DOMAIN marks /\ i + 1 < k + 1
          /\ marks'[i] = marks[i+1] /\ marks'[k] = marks[k+1]
      BY <2>2, MarkFacts DEF FreeMark
    <3>2. stamp[marks[i+1]] > stamp[marks[k+1]] BY <3>1 DEF MarksStayLinked
    <3>3. QED BY <3>1, <3>2 DEF FreeMark
  <2>3. QED BY <2>1, <2>2 DEF MarksStayLinked
<1>6. StampsPast' BY DEF FreeMark, StampsPast
<1>7. QED BY <1>2, <1>3, <1>4, <1>5, <1>6

\* Every step of the job group keeps the invariant.
LEMMA GroupStepKeeps == GroupInv /\ [GroupNext]_groupVars => GroupInv'
<1> SUFFICES ASSUME GroupInv, [GroupNext]_groupVars PROVE GroupInv'
  OBVIOUS
<1> USE DEF GroupInv
<1>1. ASSUME NEW j \in JobObjects, JobInit(j) PROVE GroupInv'
  <2>1. GroupTypeOK' BY <1>1 DEF JobInit, GroupTypeOK, AllJobs
  <2>2. LinkedJobs'
    <3>1. \A i \in DOMAIN jobs' : jobs'[i] \in inited' BY <1>1 DEF JobInit, LinkedJobs
    <3>2. ~BSmallPending_IsSet(jobs, j) BY <1>1 DEF JobInit, LinkedJobs, BSmallPending_IsSet
    <3>3. ASSUME NEW k \in inited' PROVE pending'[k] <=> BSmallPending_IsSet(jobs', k)
      BY <1>1, <3>2 DEF JobInit, LinkedJobs, GroupTypeOK, AllJobs
    <3>4. QED BY <1>1, <3>1, <3>3 DEF JobInit, LinkedJobs
  <2>3. MostRecentFirst' /\ MarksStayLinked' /\ StampsPast'
    BY <1>1 DEF JobInit, MostRecentFirst, MarksStayLinked, StampsPast
  <2>4. QED BY <2>1, <2>2, <2>3
<1>2. ASSUME NEW j \in JobObjects,
             jobs' = BSmallPending_Unset(jobs, j), UNCHANGED <<marks, exiting, clock, stamp>>,
             \/ inited' = inited \ {j} /\ pending' = pending
             \/ inited' = inited /\ pending' = [pending EXCEPT ![j] = FALSE]
      PROVE  GroupInv'
  <2>1. /\ jobs' \in Seq(AllJobs) /\ NoDup(jobs') /\ Ordered(jobs', stamp)
        /\ \A y : BSmallPending_IsSet(jobs', y) <=> BSmallPending_IsSet(jobs, y) /\ y # j
    BY <1>2, UnlinkKeeps DEF AllJobs
  <2>2. GroupTypeOK' BY <1>2, <2>1, Zenon DEF GroupTypeOK
  <2>3. LinkedJobs'
    <3>1. \A i \in DOMAIN jobs' : jobs'[i] \in inited'
      BY <1>2, <2>1, Zenon DEF LinkedJobs, BSmallPending_IsSet
    <3>2. ASSUME NEW k \in inited' PROVE pending'[k] <=> BSmallPending_IsSet(jobs', k)
      <4>1. k \in inited /\ k \in AllJobs BY <1>2 DEF GroupTypeOK
      <4>2. CASE k = j
        <5>1. pending'[k] = FALSE BY <1>2, <4>1, <4>2 DEF GroupTypeOK
        <5>2. QED BY <5>1, <4>2, <2>1
      <4>3. CASE k # j
        <5>1. pending'[k] = pending[k] BY <1>2, <4>1, <4>3 DEF GroupTypeOK
        <5>2. BSmallPending_IsSet(jobs', k) <=> BSmallPending_IsSet(jobs, k) BY <2>1, <4>3
        <5>3. QED BY <5>1, <5>2, <4>1 DEF LinkedJobs
      <4>4. QED BY <4>2, <4>3
    <3>3. QED BY <2>1, <3>1, <3>2 DEF LinkedJobs
  <2>4. MostRecentFirst' BY <1>2, <2>1 DEF MostRecentFirst, Ordered
  <2>5. MarksStayLinked'
    <3>1. \A i \in DOMAIN marks : marks[i] \in Marks BY DEF GroupTypeOK
    <3>2. \A i \in DOMAIN marks : marks[i] # j BY <3>1, BPendingAssumption
    <3>3. QED BY <1>2, <2>1, <3>2 DEF MarksStayLinked
  <2>6. StampsPast' BY <1>2 DEF StampsPast
  <2>7. QED BY <2>2, <2>3, <2>4, <2>5, <2>6
<1>3. ASSUME NEW x \in AllJobs,
             jobs' = BSmallPending_Set(jobs, x),
             pending' = [pending EXCEPT ![x] = TRUE],
             clock' = clock + 1, stamp' = [stamp EXCEPT ![x] = clock + 1]
      PROVE  /\ jobs' \in Seq(AllJobs) /\ pending' \in [AllJobs -> BOOLEAN]
             /\ clock' \in Nat /\ stamp' \in [AllJobs -> Nat]
             /\ (inited' = inited \cup {x}) => LinkedJobs'
             /\ MostRecentFirst' /\ StampsPast'
             /\ \A y : BSmallPending_IsSet(jobs', y) <=> BSmallPending_IsSet(jobs, y) \/ y = x
             /\ \A y \in AllJobs : stamp'[y] = IF y = x THEN clock + 1 ELSE stamp[y]
  <2>1. /\ jobs' \in Seq(AllJobs) /\ NoDup(jobs') /\ Ordered(jobs', stamp')
        /\ \A y : BSmallPending_IsSet(jobs', y) <=> BSmallPending_IsSet(jobs, y) \/ y = x
        /\ stamp' \in [AllJobs -> Nat]
        /\ \A y \in AllJobs : stamp'[y] = IF y = x THEN clock + 1 ELSE stamp[y]
    BY <1>3, SetKeeps, Zenon
  <2>2. clock' \in Nat /\ pending' \in [AllJobs -> BOOLEAN] BY <1>3 DEF GroupTypeOK
  <2>3. ASSUME inited' = inited \cup {x} PROVE LinkedJobs'
    <3>1. \A i \in DOMAIN jobs' : jobs'[i] \in inited'
      BY <2>1, <2>3, Zenon DEF LinkedJobs, BSmallPending_IsSet
    <3>2. ASSUME NEW k \in inited' PROVE pending'[k] <=> BSmallPending_IsSet(jobs', k)
      <4>1. k \in AllJobs BY <2>3 DEF GroupTypeOK
      <4>2. CASE k = x
        <5>1. pending'[k] = TRUE BY <1>3, <4>1, <4>2 DEF GroupTypeOK
        <5>2. QED BY <5>1, <4>2, <2>1, SMTT(30) DEF BSmallPending_IsSet
      <4>3. CASE k # x
        <5>1. pending'[k] = pending[k] BY <1>3, <4>1, <4>3 DEF GroupTypeOK
        <5>2. BSmallPending_IsSet(jobs', k) <=> BSmallPending_IsSet(jobs, k) BY <2>1, <4>3
        <5>3. k \in inited BY <2>3, <4>3
        <5>4. QED BY <5>1, <5>2, <5>3 DEF LinkedJobs
      <4>4. QED BY <4>2, <4>3
    <3>3. QED BY <2>1, <3>1, <3>2 DEF LinkedJobs
  <2>4. MostRecentFirst' BY <2>1 DEF MostRecentFirst, Ordered
  <2>5. StampsPast' BY <1>3, <2>1 DEF StampsPast, GroupTypeOK
  <2>6. QED BY <2>1, <2>2, <2>3, <2>4, <2>5
<1>4. ASSUME NEW j \in JobObjects, JobSet(j) PROVE GroupInv'
  <2>1. j \in AllJobs /\ inited' = inited \cup {j} BY <1>4 DEF JobSet, AllJobs
  <2>2. \A i \in DOMAIN marks : marks[i] \in Marks BY DEF GroupTypeOK
  <2>3. \A i \in DOMAIN marks : marks[i] \in AllJobs /\ marks[i] # j
    BY <2>2, BPendingAssumption DEF AllJobs
  <2>4. MarksStayLinked' BY <1>3, <1>4, <2>1, <2>3, Zenon DEF JobSet, MarksStayLinked
  <2>5. GroupTypeOK' BY <1>3, <1>4, <2>1, Zenon DEF JobSet, GroupTypeOK
  <2>6. QED BY <1>3, <1>4, <2>1, <2>4, <2>5, Zenon DEF JobSet
<1>5. ASSUME NEW m \in Marks, SyncFromHere(m) PROVE GroupInv'
  <2>1. m \in AllJobs BY DEF AllJobs
  <2>2. ~BSmallPending_IsSet(jobs, m) BY <1>5 DEF SyncFromHere, LinkedJobs, BSmallPending_IsSet
  <2>3. \A i \in DOMAIN marks : marks[i] \in Marks BY DEF GroupTypeOK
  <2>4. \A i \in DOMAIN marks : marks[i] \in AllJobs /\ marks[i] # m
    BY <2>2, <2>3 DEF AllJobs, MarksStayLinked
  <2>5. NoDup(marks)
    <3> SUFFICES ASSUME NEW i \in DOMAIN marks, NEW k \in DOMAIN marks, i # k
                 PROVE  marks[i] # marks[k]
      BY DEF NoDup
    <3>1. i \in Nat /\ k \in Nat BY DEF GroupTypeOK
    <3>2. stamp[marks[i]] \in Nat /\ stamp[marks[k]] \in Nat BY <2>4 DEF GroupTypeOK
    <3>3. i < k \/ k < i BY <3>1
    <3>4. QED BY <3>2, <3>3 DEF MarksStayLinked
  <2>6. /\ marks' \in Seq(Marks) /\ Len(marks') = Len(marks) + 1 /\ marks'[1] = m
        /\ \A i \in 1..Len(marks) : marks'[i+1] = marks[i]
    <3>1. ~BSmallPending_IsSet(marks, m) BY <2>4 DEF BSmallPending_IsSet
    <3>2. marks \in Seq(Marks) /\ marks' = <<m>> \o marks BY <1>5 DEF GroupTypeOK, SyncFromHere
    <3>3. QED BY <2>5, <3>1, <3>2, PrependFacts
  <2>7. ASSUME NEW i \in DOMAIN marks' 
        PROVE  i = 1 \/ (i - 1 \in DOMAIN marks /\ marks'[i] = marks[i-1])
    <3>1. i \in 1..(Len(marks) + 1) /\ Len(marks) \in Nat BY <2>6 DEF GroupTypeOK
    <3>2. ASSUME i # 1 PROVE i - 1 \in 1..Len(marks) /\ (i - 1) + 1 = i BY <3>1, <3>2
    <3>3. QED BY <3>2, <2>6 DEF GroupTypeOK
  <2>8. MarksStayLinked'
    <3>1. ASSUME NEW i \in DOMAIN marks' PROVE BSmallPending_IsSet(jobs', marks'[i])
      <4>1. \A y : BSmallPending_IsSet(jobs', y) <=> BSmallPending_IsSet(jobs, y) \/ y = m
        BY <1>3, <1>5, <2>1, Zenon DEF SyncFromHere
      <4>2. QED BY <4>1, <2>6, <2>7 DEF MarksStayLinked
    <3>2. ASSUME NEW i \in DOMAIN marks', NEW k \in DOMAIN marks', i < k
          PROVE  stamp'[marks'[i]] > stamp'[marks'[k]]
      <4>1. i \in Nat /\ k \in Nat /\ i >= 1 BY <2>6
      <4>2. k - 1 \in DOMAIN marks /\ marks'[k] = marks[k-1] BY <4>1, <3>2, <2>7
      <4>3. stamp'[marks'[k]] = stamp[marks[k-1]]
        BY <4>2, <2>4, <2>1, <1>3, <1>5 DEF SyncFromHere
      <4>4. CASE i = 1
        <5>1. stamp'[marks'[i]] = clock + 1 BY <4>4, <2>6, <2>1, <1>3, <1>5, Zenon DEF SyncFromHere
        <5>2. stamp[marks[k-1]] <= clock /\ stamp[marks[k-1]] \in Nat /\ clock \in Nat
          BY <4>2, <2>4 DEF StampsPast, GroupTypeOK
        <5>3. QED BY <5>1, <5>2, <4>3
      <4>5. CASE i # 1
        <5>1. i - 1 \in DOMAIN marks /\ marks'[i] = marks[i-1] BY <4>5, <2>7
        <5>2. stamp'[marks'[i]] = stamp[marks[i-1]]
          BY <5>1, <2>4, <2>1, <1>3, <1>5 DEF SyncFromHere
        <5>3. i - 1 < k - 1 BY <4>1, <3>2
        <5>4. stamp[marks[i-1]] > stamp[marks[k-1]] BY <5>1, <5>3, <4>2 DEF MarksStayLinked
        <5>5. QED BY <5>2, <5>4, <4>3
      <4>6. QED BY <4>4, <4>5
    <3>3. QED BY <3>1, <3>2 DEF MarksStayLinked
  <2>9. GroupTypeOK' BY <1>3, <1>5, <2>1, <2>6, Zenon DEF SyncFromHere, GroupTypeOK
  <2>10. QED BY <1>3, <1>5, <2>1, <2>8, <2>9, Zenon DEF SyncFromHere
<1>6. ASSUME ExecuteJob PROVE GroupInv'
  <2>1. /\ Head(jobs) \in AllJobs /\ Head(jobs) = jobs[1]
        /\ jobs' \in Seq(AllJobs) /\ NoDup(jobs') /\ Ordered(jobs', stamp)
        /\ \A y : BSmallPending_IsSet(jobs', y) <=>
                    BSmallPending_IsSet(jobs, y) /\ y # Head(jobs)
    BY <1>6, TailKeeps DEF ExecuteJob
  <2>2. GroupTypeOK' BY <1>6, <2>1 DEF ExecuteJob, GroupTypeOK
  <2>3. LinkedJobs'
    <3>1. \A i \in DOMAIN jobs' : jobs'[i] \in inited'
      BY <1>6, <2>1 DEF ExecuteJob, LinkedJobs, BSmallPending_IsSet
    <3>2. ASSUME NEW k \in inited' PROVE pending'[k] <=> BSmallPending_IsSet(jobs', k)
      <4>1. k \in inited /\ k \in AllJobs BY <1>6 DEF ExecuteJob, GroupTypeOK
      <4>2. CASE k = Head(jobs)
        <5>1. pending'[k] = FALSE BY <1>6, <4>1, <4>2 DEF ExecuteJob, GroupTypeOK
        <5>2. QED BY <5>1, <4>2, <2>1 DEF BSmallPending_IsSet
      <4>3. CASE k # Head(jobs)
        <5>1. pending'[k] = pending[k] BY <1>6, <4>1, <4>3 DEF ExecuteJob, GroupTypeOK
        <5>2. BSmallPending_IsSet(jobs', k) <=> BSmallPending_IsSet(jobs, k) BY <2>1, <4>3
        <5>3. QED BY <5>1, <5>2, <4>1 DEF LinkedJobs
      <4>4. QED BY <4>2, <4>3
    <3>3. QED BY <2>1, <3>1, <3>2 DEF LinkedJobs
  <2>4. MostRecentFirst' BY <1>6, <2>1 DEF ExecuteJob, MostRecentFirst, Ordered
  <2>5. MarksStayLinked'
    <3>1. ASSUME NEW i \in DOMAIN marks PROVE marks[i] # Head(jobs)
      <4>1. marks # <<>> BY DEF GroupTypeOK
      <4>2. Head(jobs) # Head(marks) /\ Head(marks) = marks[1] /\ 1 \in DOMAIN marks
        BY <4>1, <1>6, MarkFacts DEF ExecuteJob
      <4>3. PICK p \in DOMAIN jobs : jobs[p] = marks[1]
        BY <4>2 DEF MarksStayLinked, BSmallPending_IsSet
      <4>4. p \in Nat /\ 1 \in DOMAIN jobs /\ 1 < p
        BY <4>2, <4>3, <2>1 DEF GroupTypeOK
      <4>5. stamp[jobs[1]] > stamp[marks[1]] BY <4>3, <4>4 DEF MostRecentFirst
      <4>6. marks[i] \in AllJobs /\ marks[1] \in AllJobs
        <5>1. marks[i] \in Marks /\ marks[1] \in Marks BY <4>2 DEF GroupTypeOK
        <5>2. QED BY <5>1 DEF AllJobs
      <4>7. stamp[marks[1]] >= stamp[marks[i]]
        <5>1. i \in Nat /\ i >= 1 BY DEF GroupTypeOK
        <5>2. CASE i = 1 BY <5>2, <4>6 DEF GroupTypeOK
        <5>3. CASE i # 1
          <6>1. 1 < i BY <5>1, <5>3
          <6>2. stamp[marks[1]] > stamp[marks[i]] BY <6>1, <4>2 DEF MarksStayLinked
          <6>3. QED BY <6>2, <4>6 DEF GroupTypeOK
        <5>4. QED BY <5>2, <5>3
      <4>8. stamp[jobs[1]] \in Nat /\ stamp[marks[1]] \in Nat /\ stamp[marks[i]] \in Nat
        BY <2>1, <4>6 DEF GroupTypeOK
      <4>9. QED BY <4>5, <4>7, <4>8, <2>1
    <3>2. QED BY <1>6, <2>1, <3>1 DEF ExecuteJob, MarksStayLinked
  <2>6. StampsPast' BY <1>6 DEF ExecuteJob, StampsPast
  <2>7. QED BY <2>2, <2>3, <2>4, <2>5, <2>6
<1>7. ASSUME Quit PROVE GroupInv'
  BY <1>7 DEF Quit, GroupTypeOK, LinkedJobs, MostRecentFirst, MarksStayLinked, StampsPast
<1>8. ASSUME UNCHANGED groupVars PROVE GroupInv'
  BY <1>8 DEF groupVars, GroupTypeOK, LinkedJobs, MostRecentFirst, MarksStayLinked, StampsPast
<1>9. ASSUME NEW j \in JobObjects, JobFree(j) PROVE GroupInv'
  BY <1>2, <1>9 DEF JobFree
<1>10. ASSUME NEW j \in JobObjects, JobUnset(j) PROVE GroupInv'
  BY <1>2, <1>10, Zenon DEF JobUnset
<1>11. ASSUME SyncCommit \/ SyncBreak PROVE GroupInv'
  BY <1>11, FreeMarkKeeps DEF SyncCommit, SyncBreak
<1>12. QED BY <1>1, <1>4, <1>5, <1>6, <1>7, <1>8, <1>9, <1>10, <1>11 DEF GroupNext

\* The invariant holds in every behaviour.
LEMMA GroupInvariance == GroupSpec => []GroupInv
<1>1. ASSUME GroupInit PROVE GroupInv
  <2>1. <<>> \in Seq(AllJobs) /\ <<>> \in Seq(Marks) /\ DOMAIN <<>> = {} OBVIOUS
  <2>2. GroupTypeOK BY <1>1, <2>1, Zenon DEF GroupInit, GroupTypeOK
  <2>3. LinkedJobs /\ MostRecentFirst /\ MarksStayLinked /\ StampsPast
    BY <1>1, <2>1 DEF GroupInit, LinkedJobs, MostRecentFirst, MarksStayLinked, StampsPast, NoDup
  <2>4. QED BY <2>2, <2>3 DEF GroupInv
<1>2. QED BY <1>1, GroupStepKeeps, PTL DEF GroupSpec

\* The debug flag of every live job agrees with its link in the list, and a
\* freed job is never linked: the ASSERTs of BPending.c cannot fail.
THEOREM LinkedJobsAlways == GroupSpec => []LinkedJobs
<1>1. GroupInv => LinkedJobs BY DEF GroupInv
<1>2. QED BY <1>1, GroupInvariance, PTL

\* BPendingGroup_ExecuteJob always takes the job that was set last.
THEOREM LifoOrder == GroupSpec => []MostRecentFirst
<1>1. GroupInv => MostRecentFirst BY DEF GroupInv
<1>2. QED BY <1>1, GroupInvariance, PTL

\* BReactor_Synchronize never runs out of jobs before its reference job, at
\* any depth of nested SYNC sections.
THEOREM MarksReachable == GroupSpec => []MarksStayLinked
<1>1. GroupInv => MarksStayLinked BY DEF GroupInv
<1>2. QED BY <1>1, GroupInvariance, PTL

\* When a SYNC section commits, all that was set in it has been dealt with.
THEOREM SyncCompletesAlways == GroupSpec => SyncCompletes
<1>1. GroupInv /\ [GroupNext]_groupVars => [SyncCommit /\ ~exiting => NothingNewerLeft]_groupVars
  <2> SUFFICES ASSUME GroupInv, SyncCommit, ~exiting, NEW i \in DOMAIN jobs'
               PROVE  stamp[jobs'[i]] < stamp[Head(marks)]
    BY DEF NothingNewerLeft
  <2> USE DEF GroupInv
  <2>1. Head(marks) \in AllJobs /\ BSmallPending_IsSet(jobs, Head(marks))
    BY MarkFacts DEF SyncCommit
  <2>2. jobs # <<>> BY <2>1 DEF BSmallPending_IsSet
  <2>3. Head(jobs) = jobs[1] /\ Head(jobs) = Head(marks)
    BY <2>2, TailKeeps DEF SyncCommit
  <2>4. \A y : BSmallPending_IsSet(jobs', y) <=>
                BSmallPending_IsSet(jobs, y) /\ y # Head(marks)
    BY <2>1, UnlinkKeeps DEF SyncCommit, FreeMark
  <2>5. BSmallPending_IsSet(jobs', jobs'[i]) BY DEF BSmallPending_IsSet
  <2>6. PICK k \in DOMAIN jobs : jobs[k] = jobs'[i] BY <2>4, <2>5 DEF BSmallPending_IsSet
  <2>7. jobs'[i] # Head(marks) BY <2>4, <2>5
  <2>8. 1 \in DOMAIN jobs /\ 1 < k
    <3>1. jobs \in Seq(AllJobs) BY DEF GroupTypeOK
    <3>2. k \in 1..Len(jobs) BY <3>1
    <3>3. k # 1 BY <2>3, <2>6, <2>7
    <3>4. QED BY <3>1, <3>2, <3>3
  <2>9. stamp[jobs[1]] > stamp[jobs[k]] BY <2>8 DEF MostRecentFirst
  <2>10. stamp[jobs[1]] \in Nat /\ stamp[jobs[k]] \in Nat BY <2>8 DEF GroupTypeOK
  <2>11. QED BY <2>3, <2>6, <2>9, <2>10
<1>2. QED BY <1>1, GroupInvariance, PTL DEF GroupSpec, SyncCompletes

\* A SYNC section runs no job that was waiting before it was opened.
THEOREM SyncRunsNewerAlways == GroupSpec => SyncRunsNewer
<1>1. GroupInv /\ [GroupNext]_groupVars =>
        [ExecuteJob /\ marks # <<>> => stamp[Head(jobs)] > stamp[Head(marks)]]_groupVars
  <2> SUFFICES ASSUME GroupInv, ExecuteJob, marks # <<>>
               PROVE  stamp[Head(jobs)] > stamp[Head(marks)]
    OBVIOUS
  <2> USE DEF GroupInv
  <2>1. BSmallPending_IsSet(jobs, Head(marks)) BY MarkFacts
  <2>2. Head(jobs) = jobs[1] /\ Head(jobs) # Head(marks)
    BY TailKeeps DEF ExecuteJob
  <2>3. PICK k \in DOMAIN jobs : jobs[k] = Head(marks) BY <2>1 DEF BSmallPending_IsSet
  <2>4. 1 \in DOMAIN jobs /\ 1 < k BY <2>2, <2>3 DEF GroupTypeOK
  <2>5. QED BY <2>2, <2>3, <2>4 DEF MostRecentFirst
<1>2. QED BY <1>1, GroupInvariance, PTL DEF GroupSpec, SyncRunsNewer

-----------------------------------------------------------------------------
(* The fair queue: PacketPassFairQueue *)

\* A remainder is in range.
LEMMA ModRange ==
  ASSUME NEW m \in Nat \ {0}, NEW a \in Int
  PROVE  a % m \in 0..(m - 1)
OBVIOUS

\* A number that is in range is its own remainder.
LEMMA ModSmall ==
  ASSUME NEW m \in Nat \ {0}, NEW a \in 0..(m - 1)
  PROVE  a % m = a
OBVIOUS

\* A number that has wrapped around once comes back when m is added.
LEMMA ModWrap ==
  ASSUME NEW m \in Nat \ {0}, NEW a \in Int, -m <= a, a < 0
  PROVE  a % m = a + m
OBVIOUS

\* The unsigned sum of two times that overflows: the sum minus 2^w.
LEMMA ModOver ==
  ASSUME NEW m \in Nat \ {0}, NEW a \in Int, m <= a, a < 2 * m
  PROVE  a % m = a - m
OBVIOUS

\* The inductive invariant: the flow being sent can only be shown to be first
\* with the handlers' agreement about when it was chosen.
QueueInv == QueueTypeOK /\ HandlersAgree /\ NeverStalls /\ SendsFirst

\* What a sent packet does to the times: with or without moving them down, the
\* flow ends up its weight further from every waiting flow, and in range.
LEMMA IncrementFacts ==
  ASSUME QueueInv, OutputDone
  PROVE  LET s == sending_flow  amount == packet_weight + sending_len IN
         /\ time' \in [Flows -> Times]
         /\ \A f, g \in queued :
              /\ time'[s] - time'[f] = time[s] + amount - time[f]
              /\ time'[f] - time'[g] = time[f] - time[g]
<1> DEFINE s == sending_flow
           amount == packet_weight + sending_len
           m == MAX_TIME + 1
           t(x) == IF Overflows(time, s, amount) THEN lowered(time, s, x) ELSE time
<1>1. /\ s \in flows /\ s \in Flows /\ s \notin queued /\ queued \subseteq flows /\ flows \subseteq Flows
      /\ time \in [Flows -> Times] /\ \A f \in queued : time[s] <= time[f]
  BY DEF QueueInv, QueueTypeOK, HandlersAgree, SendsFirst, OutputDone
<1>2. amount \in Nat /\ amount <= MAX_TIME /\ MAX_TIME \in Nat /\ m \in Nat \ {0}
  BY FairQueueAssumption DEF QueueInv, QueueTypeOK, Lens
<1>3. PICK x \in Times :
        /\ IF Overflows(time, s, amount) THEN IsSubtract(time, s, x) ELSE x = 0
        /\ time' = [t(x) EXCEPT ![s] = (@ + amount) % m]
  BY DEF OutputDone, increment_sent_flow
<1> HIDE DEF s, amount, m
<1>4. m = MAX_TIME + 1 BY DEF m
<1>5. CASE ~Overflows(time, s, amount)
  <2>1. time' = [time EXCEPT ![s] = (time[s] + amount) % m] BY <1>5, <1>3, <1>1
  <2>2. time[s] + amount \in 0..(m - 1) BY <1>1, <1>2, <1>4, <1>5 DEF Overflows, Times
  <2>3. (time[s] + amount) % m = time[s] + amount BY <2>2, <1>2, ModSmall
  <2>4. time[s] + amount \in Times BY <2>2, <1>2, <1>4 DEF Times
  <2>5. time' = [time EXCEPT ![s] = time[s] + amount] BY <2>1, <2>3, Zenon
  <2>6. time' \in [Flows -> Times] BY <2>4, <2>5, <1>1
  <2>7. time'[s] = time[s] + amount /\ \A f \in queued : time'[f] = time[f] BY <2>5, <1>1
  <2>8. QED BY <2>6, <2>7, <1>1, <1>2 DEF s, amount, Times
<1>6. CASE Overflows(time, s, amount)
  <2>1. IsSubtract(time, s, x) BY <1>3, <1>6
  <2>2. x \in Nat /\ time[s] <= x /\ \A f \in queued : x <= time[f]
    BY <2>1, <1>1 DEF IsSubtract, IsFirst, Before, Times
  <2> DEFINE u == lowered(time, s, x)
  <2>3. time' = [u EXCEPT ![s] = (u[s] + amount) % m] BY <1>3, <1>6, <1>1 DEF lowered
  <2>4. u \in [Flows -> Times] /\ \A f \in queued : u[f] = time[f] - x
    <3>1. ASSUME NEW f \in Flows PROVE u[f] \in Times
      <4>1. time[f] - x \in Int BY <1>1, <1>2 DEF Times
      <4>2. (time[f] - x) % m \in 0..(m - 1) BY <4>1, <1>2, ModRange
      <4>3. QED BY <4>2, <1>1, <1>2, <1>4 DEF lowered, Times, m
    <3>2. ASSUME NEW f \in queued PROVE u[f] = time[f] - x
      <4>1. time[f] - x \in 0..(m - 1) BY <1>1, <1>2, <1>4, <2>2 DEF Times
      <4>2. (time[f] - x) % m = time[f] - x BY <4>1, <1>2, ModSmall
      <4>3. QED BY <4>1, <4>2, <2>2, <1>1 DEF lowered, m, Times
    <3>3. QED BY <3>1, <3>2, Zenon DEF lowered
  <2>5. u[s] = (time[s] - x) % m BY <1>1 DEF lowered, m
  <2>6. time[s] - x + amount \in 0..(m - 1) BY <1>1, <1>2, <1>4, <1>6, <2>2 DEF Overflows, Times
  <2>7. (u[s] + amount) % m = time[s] - x + amount
    <3>1. CASE time[s] = x
      <4>1. 0 \in 0..(m - 1) /\ 0 % m = 0 BY <1>2, ModSmall
      <4>2. time[s] - x = 0 BY <3>1, <1>1 DEF Times
      <4>3. u[s] = 0 BY <4>1, <4>2, <2>5
      <4>4. QED BY <4>2, <4>3, <2>6, <1>2, ModSmall
    <3>2. CASE time[s] < x
      <4>1. time[s] - x \in Int /\ -m <= time[s] - x /\ time[s] - x < 0
        BY <3>2, <1>1, <1>2, <1>4, <2>2 DEF Times
      <4>2. u[s] = time[s] - x + m BY <4>1, <1>2, <2>5, ModWrap
      <4>3. u[s] + amount \in Int /\ m <= u[s] + amount /\ u[s] + amount < 2 * m
        BY <4>1, <4>2, <2>6, <1>2
      <4>4. QED BY <4>2, <4>3, <4>1, <1>2, ModOver
    <3>3. QED BY <3>1, <3>2, <2>2, <1>1 DEF Times
  <2> HIDE DEF u
  <2>8. time'[s] = time[s] - x + amount BY <2>3, <2>4, <2>7, <1>1
  <2>9. \A f \in queued : time'[f] = time[f] - x BY <2>3, <2>4, <1>1
  <2>10. time' \in [Flows -> Times]
    <3>1. (u[s] + amount) % m \in Times BY <2>6, <2>7, <1>2, <1>4 DEF Times
    <3>2. QED BY <2>3, <2>4, <3>1, Zenon
  <2>11. QED BY <2>2, <2>8, <2>9, <2>10, <1>1, <1>2 DEF s, amount, Times
<1>7. QED BY <1>5, <1>6

\* Zero, the time and length of a flow that is not there, is in range.
LEMMA ZeroFits == 0 \in Times /\ 0 \in Lens
BY FairQueueAssumption DEF Times, Lens

\* Choosing the first of some waiting flows makes it the flow being sent, with
\* the least time.
LEMMA ScheduleFacts ==
  ASSUME NEW Q, Q \subseteq Flows, NEW t \in [Flows -> Times], NEW len \in [Flows -> Lens],
         schedule(Q, t, len)
  PROVE  /\ sending_flow' \in Q /\ queued' = Q \ {sending_flow'}
         /\ sending_len' \in Lens
         /\ \A f \in queued' : t[sending_flow'] <= t[f]
BY FairQueueAssumption DEF schedule, IsFirst, Before, Times

\* Every step keeps the invariant.
LEMMA QueueStepKeeps ==
  ASSUME QueueInv, [QueueNext]_queueVars
  PROVE  QueueInv'
<1> USE FairQueueAssumption DEF QueueInv
<1>1. CASE ScheduleJob
  <2>1. sending_flow = NoFlow BY <1>1 DEF ScheduleJob, HandlersAgree
  <2>2. CASE queued = {}
    <3>1. queued' = {} /\ sending_flow' = NoFlow /\ sending_len' = sending_len
      BY <1>1, <2>1, <2>2 DEF ScheduleJob, schedule
    <3>2. QED BY <1>1, <2>1, <3>1, Zenon DEF ScheduleJob, QueueTypeOK, HandlersAgree, NeverStalls, SendsFirst
  <2>3. CASE queued # {}
    <3>1. schedule(queued, time, data_len) BY <1>1, <2>3 DEF ScheduleJob
    <3>2. /\ sending_flow' \in queued /\ queued' = queued \ {sending_flow'}
          /\ sending_len' \in Lens
          /\ \A f \in queued' : time[sending_flow'] <= time[f]
      BY <3>1, ScheduleFacts, Zenon DEF QueueTypeOK
    <3>3. QueueTypeOK' BY <1>1, <3>2, Zenon DEF ScheduleJob, QueueTypeOK
    <3>4. HandlersAgree' BY <1>1, <2>1, <3>2 DEF ScheduleJob, QueueTypeOK, HandlersAgree
    <3>5. QED BY <1>1, <3>2, <3>3, <3>4 DEF ScheduleJob, NeverStalls, SendsFirst, QueueTypeOK
  <2>4. QED BY <2>2, <2>3
<1>2. CASE OutputDone
  <2>1. time' \in [Flows -> Times] BY <1>2, IncrementFacts
  <2>2. QueueTypeOK' BY <1>2, <2>1 DEF OutputDone, QueueTypeOK
  <2>3. QED BY <1>2, <2>2 DEF OutputDone, QueueTypeOK, HandlersAgree, NeverStalls, SendsFirst
<1>3. CASE PrepareFree
  BY <1>3 DEF PrepareFree, QueueTypeOK, HandlersAgree, NeverStalls, SendsFirst
<1>4. CASE Free
  <2>1. queued = {} /\ sending_flow = NoFlow /\ previous_flow = NoFlow BY <1>4 DEF Free, QueueTypeOK
  <2>2. QueueTypeOK' BY <1>4, ZeroFits, Zenon DEF Free, QueueTypeOK
  <2>3. HandlersAgree' BY <1>4, <2>1 DEF Free, QueueTypeOK, HandlersAgree
  <2>4. QED BY <1>4, <2>1, <2>2, <2>3 DEF Free, NeverStalls, SendsFirst
<1>5. ASSUME NEW f \in Flows, FlowInit(f) PROVE QueueInv'
  <2>1. f \notin queued /\ f # sending_flow BY <1>5 DEF FlowInit, QueueTypeOK
  <2>2. time' \in [Flows -> Times] /\ \A g \in Flows : g # f => time'[g] = time[g]
    BY <1>5 DEF FlowInit, QueueTypeOK, Times
  <2>3. QED BY <1>5, <2>1, <2>2 DEF FlowInit, QueueTypeOK, HandlersAgree, NeverStalls, SendsFirst
<1>6. ASSUME NEW f \in Flows, FlowFree(f) PROVE QueueInv'
  <2>1. time' \in [Flows -> Times] /\ \A g \in Flows : g # f => time'[g] = time[g]
    BY <1>6 DEF FlowFree, QueueTypeOK, Times
  <2>2. data_len' \in [Flows -> Lens] BY <1>6 DEF FlowFree, QueueTypeOK, Lens
  <2>3. QueueTypeOK' BY <1>6, <2>1, <2>2 DEF FlowFree, QueueTypeOK
  <2>4. HandlersAgree' BY <1>6 DEF FlowFree, QueueTypeOK, HandlersAgree
  <2>5. NeverStalls' BY <1>6 DEF FlowFree, QueueTypeOK, NeverStalls
  <2>6. SendsFirst' BY <1>6, <2>1 DEF FlowFree, QueueTypeOK, SendsFirst
  <2>7. QED BY <2>3, <2>4, <2>5, <2>6
<1>7. ASSUME NEW f \in Flows, SetBusyHandler(f) PROVE QueueInv'
  BY <1>7 DEF SetBusyHandler, QueueTypeOK, HandlersAgree, NeverStalls, SendsFirst
<1>8. ASSUME NEW f \in Flows, NEW len \in Lens, InputSend(f, len) PROVE QueueInv'
  <2>1. /\ time' \in [Flows -> Times]
        /\ \A g \in Flows : g # f => time'[g] = time[g]
        /\ sending_flow # NoFlow => time[sending_flow] <= time'[f]
    <3>1. CASE f = previous_flow
      BY <1>8, <3>1 DEF InputSend, QueueTypeOK, HandlersAgree
    <3>2. CASE f # previous_flow
      <4>1. PICK x \in Times : /\ get_current_time(x)
                               /\ time' = [time EXCEPT ![f] = IF @ < x THEN x ELSE @]
        BY <1>8, <3>2 DEF InputSend
      <4>2. sending_flow # NoFlow => x = time[sending_flow] BY <4>1 DEF get_current_time
      <4>3. QED BY <4>1, <4>2 DEF QueueTypeOK, Times
    <3>3. QED BY <3>1, <3>2
  <2>2. previous_flow' \in {previous_flow, NoFlow} /\ previous_flow' # f
    BY <1>8 DEF InputSend, QueueTypeOK
  <2>3. data_len' \in [Flows -> Lens] BY <1>8 DEF InputSend, QueueTypeOK
  <2>4. CASE sending_flow # NoFlow \/ schedule_job
    <3>1. queued' = queued \cup {f} /\ sending_flow' = sending_flow /\ sending_len' = sending_len
      BY <1>8, <2>4 DEF InputSend
    <3>2. QueueTypeOK' BY <1>8, <2>1, <2>2, <2>3, <3>1 DEF InputSend, QueueTypeOK
    <3>3. HandlersAgree' BY <1>8, <2>2, <3>1 DEF InputSend, QueueTypeOK, HandlersAgree
    <3>4. NeverStalls' BY <1>8, <2>4, <3>1 DEF InputSend, NeverStalls
    <3>5. SendsFirst' BY <1>8, <2>1, <3>1 DEF InputSend, QueueTypeOK, SendsFirst
    <3>6. QED BY <3>2, <3>3, <3>4, <3>5
  <2>5. CASE sending_flow = NoFlow /\ ~schedule_job
    <3>1. schedule(queued \cup {f}, time', data_len') BY <1>8, <2>5 DEF InputSend
    <3>2. queued \cup {f} \subseteq Flows BY DEF QueueTypeOK
    <3>3. /\ sending_flow' \in queued \cup {f} /\ queued' = (queued \cup {f}) \ {sending_flow'}
          /\ sending_len' \in Lens
          /\ \A g \in queued' : time'[sending_flow'] <= time'[g]
      BY <3>1, <3>2, <2>1, <2>3, ScheduleFacts
    <3>4. previous_flow' = NoFlow BY <1>8, <2>2, <2>5 DEF HandlersAgree
    <3>5. QueueTypeOK' BY <1>8, <2>1, <2>3, <3>3, <3>4 DEF InputSend, QueueTypeOK
    <3>6. HandlersAgree' BY <1>8, <2>5, <3>3, <3>4 DEF InputSend, QueueTypeOK, HandlersAgree
    <3>7. QED BY <3>3, <3>5, <3>6 DEF NeverStalls, SendsFirst, QueueTypeOK
  <2>6. QED BY <2>4, <2>5
<1>9. CASE UNCHANGED queueVars
  BY <1>9 DEF queueVars, QueueTypeOK, HandlersAgree, NeverStalls, SendsFirst
<1>10. QED BY <1>1, <1>2, <1>3, <1>4, <1>5, <1>6, <1>7, <1>8, <1>9 DEF QueueNext

\* The inductive invariant holds in every reachable state of the queue.
LEMMA QueueInvariance == QueueSpec => []QueueInv
<1>1. QueueInit => QueueInv
  BY ZeroFits, Zenon DEF QueueInit, QueueInv, QueueTypeOK, HandlersAgree, NeverStalls, SendsFirst
<1>2. QED BY <1>1, QueueStepKeeps, PTL DEF QueueSpec

\* The ASSERTs of the handlers always hold.
THEOREM HandlersAlwaysAgree == QueueSpec => []HandlersAgree
BY QueueInvariance, PTL DEF QueueInv

\* A waiting packet is never left without a packet under way or the schedule
\* job, so only the output can hold the queue up.
THEOREM StallFree == QueueSpec => []NeverStalls
BY QueueInvariance, PTL DEF QueueInv

\* The flow being sent is always one of least time, whatever flows start to
\* wait, are freed or created meanwhile.
THEOREM LeastTimeFirst == QueueSpec => []SendsFirst
BY QueueInvariance, PTL DEF QueueInv

\* Overflow handling is exact for any maximum time that holds one packet: the
\* times move down together and no wrapped value survives.
THEOREM OverflowInvisible == QueueSpec => ShiftsOnly
<1>1. ASSUME QueueInv, [QueueNext]_queueVars
      PROVE  [OutputDone =>
                LET s == sending_flow  amount == packet_weight + sending_len IN
                \A f, g \in queued :
                     /\ time'[s] - time'[f] = time[s] + amount - time[f]
                     /\ time'[f] - time'[g] = time[f] - time[g]]_queueVars
  BY <1>1, IncrementFacts
<1>2. QED BY <1>1, QueueInvariance, PTL DEF QueueSpec, ShiftsOnly
=============================================================================
