----------------------- MODULE NCDInterpreterHandlers -----------------------
(***************************************************************************)
(* The handlers of NCDInterpreter and the invariant they keep, for every   *)
(* program: any number of processes and statements, and calls nested to    *)
(* any depth.                                                              *)
(*                                                                         *)
(* First the operators of NCDProcess on a process of any length: the       *)
(* pointers stay where process_assert_pointers expects them, one statement *)
(* changes, and a call() in another statement sees no difference.  Then    *)
(* the handlers that change a process, or a process and the call() that    *)
(* runs it, and the invariant they keep: Sound, which also holds in the    *)
(* middle of a handler, EndSeen and Awake.                                 *)
(***************************************************************************)
EXTENDS NCDInterpreter, JobListProofs, WellFoundedInduction

-----------------------------------------------------------------------------
(* The operators of NCDProcess                                             *)

\* A search down from n finds the last member of S, or 0 if there is none.
LEMMA LastOfSet ==
  ASSUME NEW n \in Nat, NEW S
  PROVE  \E k \in 0..n : (k > 0 => k \in S) /\ \A j \in (k + 1)..n : j \notin S
<1> DEFINE T == {m \in 0..n : \A j \in (m + 1)..n : j \notin S}
<1>1. T \subseteq Nat /\ n \in T OBVIOUS
<1> DEFINE R == {ss \in Nat \X Nat : ss[1] < ss[2]}
<1>2. IsWellFoundedOn(R, Nat) BY NatLessThanWellFounded DEF OpToRel
<1>3. PICK k \in T : \A y \in T : ~(<<y, k>> \in R)
  <2> HIDE DEF R, T
  <2>1. QED BY <1>1, <1>2, WFMin, Zenon
<1>4. ASSUME NEW y \in T PROVE ~(y < k) BY <1>1, <1>3, Zenon
<1>5. k > 0 => k \in S
  <2> SUFFICES ASSUME k > 0, k \notin S PROVE FALSE OBVIOUS
  <2>1. k - 1 \in T OBVIOUS
  <2>2. QED BY <2>1, <1>4
<1>6. QED BY <1>5

\* A process whose pointers are right; only a child can be unclean.
Tidy(n, q) == q \in Process(n) /\ PointersOK(q) /\ \A i \in q.unclean : q.st[i] = "CHILD"

\* What the call() of statement j sees of its process has not changed.
Kept(q, r, j) ==
    /\ r.st[j] = q.st[j] /\ (j \in r.unclean <=> j \in q.unclean)
    /\ q.fp = j /\ q.st[j] \in {"CHILD", "DYING"} => r.fp = j

\* A change of statement i alone, to x.
Changed(n, q, r, i, x) ==
    /\ Tidy(n, r) /\ r.state = q.state /\ r.st = [q.st EXCEPT ![i] = x]
    /\ \A j \in 1..n : j # i => Kept(q, r, j)

\* LikeAStack for a process that was q and is r.
StackStep(q, r) ==
    \A i \in DOMAIN q.st :
        \/ q.st[i] = "FORGOTTEN" /\ r.st[i] # "FORGOTTEN"
        \/ q.st[i] \in {"CHILD", "ADULT"} /\ r.st[i] \in {"DYING", "FORGOTTEN"}
        => /\ r.fp <= i /\ r.state # "UP"
           /\ q.st[i] = "FORGOTTEN" => \A j \in 1..(i - 1) : r.st[j] = "ADULT"

\* NCDMODULE_EVENT_UP changes one statement, and the pointers stay right.
LEMMA EventUpChanges ==
  ASSUME NEW n \in Nat, NEW q, Tidy(n, q), NEW i \in 1..n, q.st[i] = "CHILD"
  PROVE  LET r == EventUp(q, i)
         IN  Changed(n, q, r, i, "ADULT") /\ i \notin r.unclean
<1> DEFINE r == EventUp(q, i)
<1>1. q \in Process(n) BY DEF Tidy
<1>2. q.ap \in 0..n /\ q.fp \in 0..n /\ q.st \in [1..n -> SStates] /\ q.unclean \subseteq 1..n
  BY <1>1 DEF Process
<1>3. /\ r.st = [q.st EXCEPT ![i] = "ADULT"] /\ r.unclean = q.unclean \ {i}
      /\ r.ap = q.ap /\ r.fp = q.fp /\ r.state = q.state
  BY <1>1 DEF Process, EventUp
<1>4. r \in Process(n)
  BY <1>1, <1>2, Zenon DEF Process, SStates, EventUp
<1> HIDE DEF r
<1>5. PointersOK(r)
  BY <1>2, <1>3 DEF Tidy, PointersOK, AtMost, SStates, process_have_child
<1>6. \A i_ \in r.unclean : r.st[i_] = "CHILD"
  BY <1>2, <1>3 DEF Tidy, PointersOK
<1>7. \A j \in 1..n : j # i => Kept(q, r, j)
  BY <1>2, <1>3 DEF Kept, Tidy, PointersOK, process_have_child
<1>8. QED
  BY <1>2, <1>3, <1>4, <1>5, <1>6, <1>7 DEF Changed, Tidy, r

\* NCDMODULE_EVENT_DOWN: the statement is unclean, AP goes back to it.
LEMMA EventDownChanges ==
  ASSUME NEW n \in Nat, NEW q, Tidy(n, q), NEW i \in 1..n, q.st[i] = "ADULT"
  PROVE  LET r == EventDown(q, i)
         IN  Changed(n, q, r, i, "CHILD") /\ i \in r.unclean
<1> DEFINE r == EventDown(q, i)
<1>1. q \in Process(n) BY DEF Tidy
<1>2. q.ap \in 0..n /\ q.fp \in 0..n /\ q.st \in [1..n -> SStates] /\ q.unclean \subseteq 1..n
  BY <1>1 DEF Process
<1>3. /\ r.st = [q.st EXCEPT ![i] = "CHILD"] /\ r.unclean = q.unclean \cup {i}
      /\ r.ap = AtMost(q.ap, i) /\ r.fp = q.fp /\ r.state = q.state
  BY <1>1 DEF Process, EventDown, AtMost
<1>4. r \in Process(n)
  <2> DEFINE a == AtMost(q.ap, i)  e == IF i <= q.ap THEN FALSE ELSE q.error
  <2>1. a \in 0..n BY <1>2 DEF AtMost
  <2>2. e \in BOOLEAN BY <1>1, Zenon DEF Process
  <2>3. r = [q EXCEPT !.st = r.st, !.unclean = r.unclean, !.error = e, !.ap = a]
    BY <1>1, <1>3 DEF Process, EventDown, SStates
  <2>4. r.st \in [1..n -> SStates] /\ r.unclean \in SUBSET (1..n) BY <1>2, <1>3 DEF SStates
  <2> HIDE DEF a, e, r
  <2>5. QED BY <1>1, <2>1, <2>2, <2>3, <2>4, Zenon DEF Process
<1> HIDE DEF r
<1>5. PointersOK(r)
  BY <1>2, <1>3 DEF Tidy, PointersOK, AtMost, SStates, process_have_child
<1>6. \A i_ \in r.unclean : r.st[i_] = "CHILD"
  BY <1>2, <1>3 DEF Tidy, PointersOK
<1>7. \A j \in 1..n : j # i => Kept(q, r, j)
  BY <1>2, <1>3 DEF Kept, Tidy, PointersOK, process_have_child
<1>8. QED
  BY <1>2, <1>3, <1>4, <1>5, <1>6, <1>7 DEF Changed, Tidy, r

\* NCDMODULE_EVENT_DOWNUP: AP goes back to the statement, which stays up.
LEMMA EventDownUpChanges ==
  ASSUME NEW n \in Nat, NEW q, Tidy(n, q), NEW i \in 1..n, q.st[i] = "ADULT"
  PROVE  LET r == EventDownUp(q, i)
         IN  Changed(n, q, r, i, "ADULT")
<1> DEFINE r == EventDownUp(q, i)
<1>1. q \in Process(n) BY DEF Tidy
<1>2. q.ap \in 0..n /\ q.fp \in 0..n /\ q.st \in [1..n -> SStates] /\ q.unclean \subseteq 1..n
  BY <1>1 DEF Process
<1>3. /\ r.st = [q.st EXCEPT ![i] = "ADULT"] /\ r.unclean = q.unclean
      /\ r.ap = AtMost(q.ap, i) /\ r.fp = q.fp /\ r.state = q.state
  BY <1>1 DEF Process, EventDownUp, AtMost
<1>4. r \in Process(n)
  <2> DEFINE a == AtMost(q.ap, i)  e == IF i <= q.ap THEN FALSE ELSE q.error
  <2>1. a \in 0..n BY <1>2 DEF AtMost
  <2>2. e \in BOOLEAN BY <1>1, Zenon DEF Process
  <2>3. r = [q EXCEPT !.st = r.st, !.unclean = r.unclean, !.error = e, !.ap = a]
    BY <1>1, <1>3, Zenon DEF Process, EventDownUp
  <2>4. r.st \in [1..n -> SStates] /\ r.unclean \in SUBSET (1..n) BY <1>2, <1>3 DEF SStates
  <2> HIDE DEF a, e, r
  <2>5. QED BY <1>1, <2>1, <2>2, <2>3, <2>4, Zenon DEF Process
<1> HIDE DEF r
<1>5. PointersOK(r)
  BY <1>2, <1>3 DEF Tidy, PointersOK, AtMost, SStates, process_have_child
<1>6. \A i_ \in r.unclean : r.st[i_] = "CHILD"
  BY <1>2, <1>3 DEF Tidy, PointersOK
<1>7. \A j \in 1..n : j # i => Kept(q, r, j)
  BY <1>2, <1>3 DEF Kept, Tidy, PointersOK, process_have_child
<1>8. QED
  BY <1>2, <1>3, <1>4, <1>5, <1>6, <1>7 DEF Changed, Tidy, r

\* The last statement is ordered to die when AP is before it.
LEMMA DyingChanges ==
  ASSUME NEW n \in Nat, NEW q, Tidy(n, q), NEW i \in 1..n, i = q.fp, q.ap < i
  PROVE  LET r == Dying(q, i)
         IN  /\ Changed(n, q, r, i, "DYING") /\ i \notin r.unclean
             /\ r.fp = i /\ r.ap = q.ap
<1> DEFINE r == Dying(q, i)
<1>1. q \in Process(n) BY DEF Tidy
<1>2. q.ap \in 0..n /\ q.fp \in 0..n /\ q.st \in [1..n -> SStates] /\ q.unclean \subseteq 1..n
  BY <1>1 DEF Process
<1>3. /\ r.st = [q.st EXCEPT ![i] = "DYING"] /\ r.unclean = q.unclean \ {i}
      /\ r.ap = q.ap /\ r.fp = q.fp /\ r.state = q.state
  BY <1>1 DEF Process, Dying
<1>4. r \in Process(n)
  BY <1>1, <1>2, Zenon DEF Process, SStates, Dying
<1> HIDE DEF r
<1>5. PointersOK(r)
  BY <1>2, <1>3 DEF Tidy, PointersOK, AtMost, SStates, process_have_child
<1>6. \A i_ \in r.unclean : r.st[i_] = "CHILD"
  BY <1>2, <1>3 DEF Tidy, PointersOK
<1>7. \A j \in 1..n : j # i => Kept(q, r, j)
  BY <1>2, <1>3 DEF Kept, Tidy, PointersOK, process_have_child
<1>8. QED
  BY <1>2, <1>3, <1>4, <1>5, <1>6, <1>7 DEF Changed, Tidy, r

\* A statement is no longer unclean.
LEMMA CleanedChanges ==
  ASSUME NEW n \in Nat, NEW q, Tidy(n, q), NEW i \in 1..n
  PROVE  LET r == Cleaned(q, i)
         IN  /\ Changed(n, q, r, i, q.st[i]) /\ i \notin r.unclean
             /\ r.fp = q.fp /\ r.ap = q.ap
<1> DEFINE r == Cleaned(q, i)
<1>1. q \in Process(n) BY DEF Tidy
<1>2. q.ap \in 0..n /\ q.fp \in 0..n /\ q.st \in [1..n -> SStates] /\ q.unclean \subseteq 1..n
  BY <1>1 DEF Process
<1>3. /\ r.st = [q.st EXCEPT ![i] = q.st[i]] /\ r.unclean = q.unclean \ {i}
      /\ r.ap = q.ap /\ r.fp = q.fp /\ r.state = q.state
  BY <1>1 DEF Process, Cleaned
<1>4. r \in Process(n)
  BY <1>1, <1>2 DEF Process, SStates, Cleaned
<1> HIDE DEF r
<1>5. PointersOK(r)
  BY <1>2, <1>3 DEF Tidy, PointersOK, AtMost, SStates, process_have_child
<1>6. \A i_ \in r.unclean : r.st[i_] = "CHILD"
  BY <1>2, <1>3 DEF Tidy, PointersOK
<1>7. \A j \in 1..n : j # i => Kept(q, r, j)
  BY <1>2, <1>3 DEF Kept, Tidy, PointersOK, process_have_child
<1>8. QED
  BY <1>2, <1>3, <1>4, <1>5, <1>6, <1>7 DEF Changed, Tidy, r

\* The next statement becomes a child when all before it are up.
LEMMA AdvancedChanges ==
  ASSUME NEW n \in Nat, NEW q, Tidy(n, q), q.ap = q.fp, ~process_have_child(q), q.ap < n,
         NEW i, i = q.ap + 1
  PROVE  LET r == Advanced(q)
         IN  /\ Changed(n, q, r, i, "CHILD") /\ i \in 1..n /\ q.st[i] = "FORGOTTEN"
             /\ i \notin r.unclean /\ r.fp = i /\ r.ap = i
             /\ \A j \in 1..(i - 1) : r.st[j] = "ADULT"
<1> DEFINE r == Advanced(q)
<1>1. q \in Process(n) BY DEF Tidy
<1>2. q.ap \in 0..n /\ q.fp \in 0..n /\ q.st \in [1..n -> SStates] /\ q.unclean \subseteq 1..n
  BY <1>1 DEF Process
<1>3. /\ r.st = [q.st EXCEPT ![i] = "CHILD"] /\ r.unclean = q.unclean
      /\ r.ap = i /\ r.fp = i /\ r.state = q.state
  BY <1>1 DEF Process, Advanced
<1>4. r \in Process(n)
  <2>1. i \in 0..n BY <1>2
  <2>2. r = [q EXCEPT !.st = [q.st EXCEPT ![i] = "CHILD"], !.ap = i, !.fp = i]
    BY <1>1 DEF Process, Advanced
  <2>3. [q.st EXCEPT ![i] = "CHILD"] \in [1..n -> SStates] BY <1>2 DEF SStates
  <2> HIDE DEF r
  <2>4. QED BY <1>1, <2>1, <2>2, <2>3, Zenon DEF Process
<1> HIDE DEF r
<1>5. PointersOK(r)
  BY <1>2, <1>3 DEF Tidy, PointersOK, AtMost, SStates, process_have_child
<1>6. \A i_ \in r.unclean : r.st[i_] = "CHILD"
  BY <1>2, <1>3 DEF Tidy, PointersOK
<1>7. \A j \in 1..n : j # i => Kept(q, r, j)
  BY <1>2, <1>3 DEF Kept, Tidy, PointersOK, process_have_child
<1>9. /\ i \in 1..n /\ q.st[i] = "FORGOTTEN" /\ i \notin r.unclean
      /\ \A j \in 1..(i - 1) : r.st[j] = "ADULT"
  <2>1. i \in 1..n BY <1>2
  <2>2. q.st[i] = "FORGOTTEN" BY <1>2, <2>1 DEF Tidy, PointersOK
  <2>3. ASSUME NEW j \in 1..(i - 1) PROVE q.st[j] = "ADULT"
    <3>1. j \in 1..n /\ j <= q.ap BY <1>2
    <3>2. j = q.ap => q.st[j] \in {"ADULT", "CHILD"} /\ q.st[j] # "CHILD"
      BY <1>2, <3>1 DEF Tidy, PointersOK, process_have_child
    <3>3. QED BY <1>2, <3>1, <3>2 DEF Tidy, PointersOK
  <2>4. QED BY <1>2, <1>3, <2>1, <2>2, <2>3 DEF Tidy
<1>8. QED
  BY <1>2, <1>3, <1>4, <1>5, <1>6, <1>7, <1>9 DEF Changed, Tidy, r

\* k is the last statement up to fp that is left, 0 if there is none.
LastLeft(st, fp, k) ==
    /\ k \in 0..fp /\ (k > 0 => st[k] # "FORGOTTEN")
    /\ \A j \in (k + 1)..fp : st[j] = "FORGOTTEN"

\* The loop after "update FP" finds it.
LEMMA UpdatedFPFacts ==
  ASSUME NEW n \in Nat, NEW st \in [1..n -> SStates], NEW fp \in 0..n
  PROVE  LastLeft(st, fp, UpdatedFP(st, fp))
<1> DEFINE S == {j \in 1..n : st[j] # "FORGOTTEN"}
           Found(m) == /\ m > 0 => st[m] # "FORGOTTEN"
                       /\ \A j \in (m + 1)..fp : st[j] = "FORGOTTEN"
           k == UpdatedFP(st, fp)
<1>1. \E m \in 0..fp : (m > 0 => m \in S) /\ \A j \in (m + 1)..fp : j \notin S
  <2>1. fp \in Nat OBVIOUS
  <2> HIDE DEF S
  <2>2. QED BY <2>1, LastOfSet, Zenon
<1>2. \E m \in 0..fp : Found(m) BY <1>1
<1>3. k = CHOOSE m \in 0..fp : Found(m) BY DEF UpdatedFP
<1>4. k \in 0..fp /\ Found(k)
  <2> HIDE DEF Found, k
  <2>1. QED BY <1>2, <1>3
<1>5. QED BY <1>4 DEF LastLeft

\* A statement dies, by itself or because it was told to.
LEMMA EventDeadChanges ==
  ASSUME NEW n \in Nat, NEW q, Tidy(n, q), NEW i \in 1..n, q.st[i] # "FORGOTTEN",
         NEW is_error \in BOOLEAN
  PROVE  LET r == EventDead(q, i, is_error)
         IN  Changed(n, q, r, i, "FORGOTTEN") /\ i \notin r.unclean
<1> DEFINE r == EventDead(q, i, is_error)
           st == [q.st EXCEPT ![i] = "FORGOTTEN"]
           k == UpdatedFP(st, q.fp)
           a == AtMost(q.ap, i - 1)
           e == IF is_error /\ i <= q.ap THEN TRUE ELSE q.error
<1>1. q \in Process(n) BY DEF Tidy
<1>2. q.ap \in 0..n /\ q.fp \in 0..n /\ q.st \in [1..n -> SStates] /\ q.unclean \subseteq 1..n
  BY <1>1 DEF Process
<1>3. st \in [1..n -> SStates] BY <1>2 DEF SStates
<1>4. /\ k \in 0..q.fp /\ (k > 0 => st[k] # "FORGOTTEN")
      /\ \A j \in (k + 1)..q.fp : st[j] = "FORGOTTEN"
  <2>1. LastLeft(st, q.fp, k)
    <3> HIDE DEF st
    <3>1. QED BY <1>2, <1>3, UpdatedFPFacts
  <2>2. QED BY <2>1 DEF LastLeft
<1>5. a \in 0..n BY <1>2 DEF AtMost
<1>6. e \in BOOLEAN BY <1>1, Zenon DEF Process
<1>7. r = [q EXCEPT !.st = st, !.unclean = q.unclean \ {i}, !.error = e, !.ap = a, !.fp = k]
  BY <1>1 DEF Process, EventDead
<1> HIDE DEF k, a, e, r
<1>8. /\ r.st = st /\ r.unclean = q.unclean \ {i} /\ r.ap = a /\ r.fp = k /\ r.state = q.state
  BY <1>1, <1>7 DEF Process
<1>9. r \in Process(n)
  <2> HIDE DEF st
  <2>1. k \in 0..n BY <1>2, <1>4
  <2>2. QED BY <1>1, <1>2, <1>3, <1>5, <1>6, <1>7, <2>1, Zenon DEF Process
<1>10. PointersOK(r)
  <2>1. a <= q.ap /\ a <= i - 1 BY <1>2 DEF a, AtMost
  <2>2. \A j \in 1..n : (j < a => st[j] = "ADULT") /\ (j = a => st[j] \in {"ADULT", "CHILD"})
    BY <1>2, <1>5, <2>1 DEF Tidy, PointersOK
  <2>3. a <= k BY <1>2, <1>4, <1>5, <2>1, <2>2 DEF Tidy, PointersOK
  <2>4. \A j \in 1..n : j > k => st[j] = "FORGOTTEN"
    BY <1>2, <1>4 DEF Tidy, PointersOK
  <2>5. QED BY <1>2, <1>3, <1>4, <1>5, <1>8, <2>2, <2>3, <2>4 DEF PointersOK
<1>11. \A j \in r.unclean : r.st[j] = "CHILD" BY <1>2, <1>8 DEF Tidy
<1>12. \A j \in 1..n : j # i => Kept(q, r, j) BY <1>2, <1>4, <1>8 DEF Kept
<1>13. QED BY <1>8, <1>9, <1>10, <1>11, <1>12 DEF Changed, Tidy, r

\* Nothing about the statements changes.
LEMMA SameStatements ==
  ASSUME NEW n \in Nat, NEW q, Tidy(n, q), NEW r \in Process(n), r.st = q.st,
         r.unclean = q.unclean, r.ap = q.ap, r.fp = q.fp
  PROVE  Tidy(n, r) /\ (\A j \in 1..n : Kept(q, r, j)) /\ StackStep(q, r)
BY DEF Tidy, PointersOK, Kept, StackStep

\* A process changes its state and nothing else.
LEMMA StateChanges ==
  ASSUME NEW n \in Nat, NEW q, Tidy(n, q), NEW x \in PStates
  PROVE  LET r == [q EXCEPT !.state = x]
         IN  /\ Tidy(n, r) /\ r.state = x /\ r.st = q.st /\ r.ap = q.ap /\ r.fp = q.fp
             /\ r.unclean = q.unclean /\ r.error = q.error /\ r.timer = q.timer
             /\ (\A j \in 1..n : Kept(q, r, j)) /\ StackStep(q, r)
<1> DEFINE r == [q EXCEPT !.state = x]
<1>1. q \in Process(n) BY DEF Tidy
<1>2. r \in Process(n) BY <1>1 DEF Process
<1>3. /\ r.state = x /\ r.st = q.st /\ r.ap = q.ap /\ r.fp = q.fp
      /\ r.unclean = q.unclean /\ r.error = q.error /\ r.timer = q.timer
  BY <1>1 DEF Process
<1> HIDE DEF r
<1>4. QED BY <1>2, <1>3, SameStatements, Zenon DEF r

\* "update AP" before the last statement is told to die.
LEMMA APLowered ==
  ASSUME NEW n \in Nat, NEW q, Tidy(n, q), NEW a \in 0..q.ap
  PROVE  LET r == [q EXCEPT !.ap = a]
         IN  /\ Tidy(n, r) /\ r.state = q.state /\ r.st = q.st /\ r.ap = a /\ r.fp = q.fp
             /\ r.unclean = q.unclean
<1> DEFINE r == [q EXCEPT !.ap = a]
<1>1. q \in Process(n) BY DEF Tidy
<1>2. q.ap \in 0..n /\ q.fp \in 0..n /\ q.st \in [1..n -> SStates] BY <1>1 DEF Process
<1>3. a \in 0..n BY <1>2
<1>4. r \in Process(n) BY <1>1, <1>3 DEF Process
<1>5. /\ r.state = q.state /\ r.st = q.st /\ r.ap = a /\ r.fp = q.fp /\ r.unclean = q.unclean
  BY <1>1 DEF Process
<1> HIDE DEF r
<1>6. PointersOK(r) BY <1>2, <1>3, <1>5 DEF Tidy, PointersOK
<1>7. QED BY <1>4, <1>5, <1>6 DEF Tidy, r

\* k is the last statement that has to be waited for, 0 if there is none.
ToWaitFor(q, nodie, k) ==
    /\ k \in 0..q.fp
    /\ k > 0 => q.st[k] = "DYING" \/ (q.st[k] # "FORGOTTEN" /\ k \notin nodie)
    /\ \A j \in (k + 1)..q.fp : q.st[j] = "FORGOTTEN" \/ (q.st[j] # "DYING" /\ j \in nodie)

\* The loop of the terminating handler finds the last statement to wait for.
LEMMA LastToWaitForFacts ==
  ASSUME NEW n \in Nat, NEW q, Tidy(n, q), NEW nodie
  PROVE  ToWaitFor(q, nodie, LastToWaitFor(q, nodie))
<1> DEFINE S == {j \in 1..n : q.st[j] = "DYING" \/ (q.st[j] # "FORGOTTEN" /\ j \notin nodie)}
           Found(m) ==
               /\ m > 0 => q.st[m] = "DYING" \/ (q.st[m] # "FORGOTTEN" /\ m \notin nodie)
               /\ \A j \in (m + 1)..q.fp : \/ q.st[j] = "FORGOTTEN"
                                           \/ q.st[j] # "DYING" /\ j \in nodie
           k == LastToWaitFor(q, nodie)
<1>1. q.fp \in 0..n BY DEF Tidy, Process
<1>2. \E m \in 0..q.fp : (m > 0 => m \in S) /\ \A j \in (m + 1)..q.fp : j \notin S
  <2>1. q.fp \in Nat BY <1>1
  <2> HIDE DEF S
  <2>2. QED BY <2>1, LastOfSet, Zenon
<1>3. \E m \in 0..q.fp : Found(m) BY <1>1, <1>2
<1>4. k = CHOOSE m \in 0..q.fp : Found(m) BY DEF LastToWaitFor
<1>5. k \in 0..q.fp /\ Found(k)
  <2> HIDE DEF Found, k
  <2>1. QED BY <1>3, <1>4
<1>6. QED BY <1>5 DEF ToWaitFor

\* The statements after it are freed; those with a call() are not among them.
LEMMA FreedChanges ==
  ASSUME NEW n \in Nat, NEW q, Tidy(n, q), NEW nodie, NEW k, ToWaitFor(q, nodie, k)
  PROVE  LET r == FreedAfter(q, k)
         IN  /\ Tidy(n, r) /\ r.state = q.state /\ r.fp = k /\ k \in 0..n
             /\ k > 0 => r.st[k] = "DYING" \/ (r.st[k] # "FORGOTTEN" /\ k \notin nodie)
             /\ \A j \in 1..n : j > k => r.st[j] = "FORGOTTEN"
             /\ \A j \in 1..n : j \notin nodie => Kept(q, r, j)
             /\ \A j \in 1..n : j <= k => r.st[j] = q.st[j]
<1> DEFINE r == FreedAfter(q, k)
           st == [j \in 1..n |-> IF j > k THEN "FORGOTTEN" ELSE q.st[j]]
           a == AtMost(q.ap, k)
           u == {j \in q.unclean : j <= k}
<1>1. q \in Process(n) BY DEF Tidy
<1>2. q.ap \in 0..n /\ q.fp \in 0..n /\ q.st \in [1..n -> SStates] /\ q.unclean \subseteq 1..n
  BY <1>1 DEF Process
<1>3. k \in 0..n BY <1>2 DEF ToWaitFor
<1>4. st \in [1..n -> SStates] BY <1>2 DEF SStates
<1>5. a \in 0..n /\ a <= k /\ a <= q.ap BY <1>2, <1>3 DEF AtMost
<1>6. u \in SUBSET (1..n) BY <1>2
<1>7. r = [q EXCEPT !.st = st, !.unclean = u, !.ap = a, !.fp = k]
  <2>1. DOMAIN q.st = 1..n BY <1>2
  <2>2. QED BY <1>1, <2>1 DEF Process, FreedAfter
<1>8. \A j \in 1..n : st[j] = IF j > k THEN "FORGOTTEN" ELSE q.st[j] OBVIOUS
<1>9. \A j : j \in u <=> j \in q.unclean /\ j <= k OBVIOUS
<1> HIDE DEF r, st, a, u
<1>10. r \in Process(n) BY <1>1, <1>3, <1>4, <1>5, <1>6, <1>7, Zenon DEF Process
<1>11. r.st = st /\ r.unclean = u /\ r.ap = a /\ r.fp = k /\ r.state = q.state
  BY <1>1, <1>7 DEF Process
<1>12. k > 0 => st[k] # "FORGOTTEN" BY <1>2, <1>3, <1>8 DEF ToWaitFor
<1>13. PointersOK(r)
  BY <1>2, <1>3, <1>4, <1>5, <1>8, <1>11, <1>12 DEF PointersOK, Tidy
<1>14. \A j \in r.unclean : r.st[j] = "CHILD" BY <1>2, <1>3, <1>8, <1>9, <1>11 DEF Tidy
<1>15. ASSUME NEW j \in 1..n, j \notin nodie PROVE Kept(q, r, j)
  <2>1. CASE j <= k BY <1>2, <1>3, <1>8, <1>9, <1>11, <2>1 DEF Kept, ToWaitFor
  <2>2. CASE ~(j <= k)
    <3>1. q.st[j] = "FORGOTTEN" BY <1>2, <1>3, <1>15, <2>2 DEF ToWaitFor, Tidy, PointersOK
    <3>2. j \notin q.unclean BY <3>1 DEF Tidy
    <3>3. QED BY <1>2, <1>3, <1>8, <1>9, <1>11, <2>2, <3>1, <3>2 DEF Kept
  <2>3. QED BY <2>1, <2>2
<1>16. k > 0 => st[k] = "DYING" \/ (st[k] # "FORGOTTEN" /\ k \notin nodie)
  BY <1>2, <1>3, <1>8 DEF ToWaitFor
<1>17. QED
  BY <1>2, <1>3, <1>8, <1>10, <1>11, <1>13, <1>14, <1>15, <1>16 DEF Tidy, r

\* A change of one statement is like a stack's if its beginning or end is.
LEMMA ChangedStack ==
  ASSUME NEW n \in Nat, NEW q, Tidy(n, q), NEW r, NEW i \in 1..n, NEW x, Changed(n, q, r, i, x),
         \/ q.st[i] = "FORGOTTEN" /\ x # "FORGOTTEN"
         \/ q.st[i] \in {"CHILD", "ADULT"} /\ x \in {"DYING", "FORGOTTEN"}
         => /\ r.fp <= i /\ r.state # "UP"
            /\ q.st[i] = "FORGOTTEN" => \A j \in 1..(i - 1) : r.st[j] = "ADULT"
  PROVE  StackStep(q, r)
<1>1. DOMAIN q.st = 1..n BY DEF Tidy, Process
<1>2. r.st = [q.st EXCEPT ![i] = x] BY DEF Changed
<1>3. SUFFICES ASSUME NEW k \in 1..n,
                      \/ q.st[k] = "FORGOTTEN" /\ r.st[k] # "FORGOTTEN"
                      \/ q.st[k] \in {"CHILD", "ADULT"} /\ r.st[k] \in {"DYING", "FORGOTTEN"}
               PROVE  /\ r.fp <= k /\ r.state # "UP"
                      /\ q.st[k] = "FORGOTTEN" => \A j \in 1..(k - 1) : r.st[j] = "ADULT"
  BY <1>1 DEF StackStep
<1>4. k = i BY <1>1, <1>2, <1>3
<1>5. r.st[i] = x BY <1>1, <1>2
<1>6. QED BY <1>3, <1>4, <1>5

\* Two changes of the same statement are one.
LEMMA ChangedTwice ==
  ASSUME NEW n \in Nat, NEW q, Tidy(n, q), NEW d, NEW r, NEW i \in 1..n, NEW x, NEW y,
         Changed(n, q, d, i, x), Changed(n, d, r, i, y)
  PROVE  Changed(n, q, r, i, y)
<1>1. DOMAIN q.st = 1..n BY DEF Tidy, Process
<1>2. r.st = [q.st EXCEPT ![i] = y] BY <1>1 DEF Changed
<1>3. \A j \in 1..n : j # i => Kept(q, r, j) BY DEF Changed, Kept
<1>4. QED BY <1>2, <1>3 DEF Changed

\* A new process has no statements yet.
LEMMA NewFacts ==
  ASSUME NEW n \in Nat
  PROVE  LET r == process_new(n)
         IN  Tidy(n, r) /\ r.state = "WORKING" /\ \A j \in 1..n : r.st[j] = "FORGOTTEN"
BY DEF process_new, Tidy, Process, PStates, SStates, PointersOK

-----------------------------------------------------------------------------
(* The interpreter: the inductive invariant.                                *)

Size(p) == Len(Program[p])

\* CallMirrorsTemplate for a call() instance in state x whose template's process
\* is r and whose statement is statement i of process q.
Mirror(x, r, q, i) ==
    /\ x \in {NULL, "NONE"} <=> r = NULL
    /\ r # NULL => x = r.state
    /\ x # NULL => q # NULL
    /\ x = NULL /\ q # NULL => q.st[i] = "FORGOTTEN"
    /\ x \in {"WORKING", "WAITING"} => q.st[i] = "CHILD"
    /\ x \in {"UP", "NONE"} => q.st[i] = "ADULT"
    /\ x = "TERMINATING" => q.st[i] = "DYING"
    /\ x # NULL => (x = "WAITING" <=> i \in q.unclean)
    /\ x \in {"WORKING", "TERMINATING"} => q.fp = i

\* What holds of the state also in the middle of a handler.
Sound(s) ==
    /\ DOMAIN s = {"proc", "call", "jobs", "terminating", "finished"}
    /\ DOMAIN s.proc = Procs
    /\ \A p \in Procs : s.proc[p] # NULL =>
          Tidy(Size(p), s.proc[p]) /\ (s.proc[p].state = "WAITING" => p \in Templates)
    /\ s.call \in [Templates -> CStates \cup {NULL}]
    /\ \A t \in Templates : Mirror(s.call[t], s.proc[t], s.proc[Caller[t][1]], Caller[t][2])
    /\ s.jobs \in Seq(Procs) /\ NoDup(s.jobs)
    /\ \A p \in Procs : BSmallPending_IsSet(s.jobs, p) => s.proc[p] # NULL
    /\ s.terminating \in BOOLEAN /\ s.finished \in BOOLEAN

\* The end of the program is seen when the last process goes, and not before.
EndSeen(s) ==
    /\ s.finished => \A p \in Procs : s.proc[p] = NULL
    /\ s.terminating /\ (\A p \in Procs : s.proc[p] = NULL) => s.finished

\* What process q of n statements is waiting for when its job is not set.
Quiet(n, q) ==
    LET dying == q.ap < q.fp /\ q.st[q.fp] = "DYING"
    IN  /\ q.state = "WORKING" =>
             \/ dying
             \/ q.ap = q.fp /\ process_have_child(q) /\ q.ap \notin q.unclean
             \/ q.ap = q.fp /\ ~process_have_child(q) /\ q.ap < n /\ q.timer /\ ~q.error
        /\ q.state = "UP" => q.ap = n /\ ~process_have_child(q)
        /\ q.state = "TERMINATING" => dying

Awake(s, p) == s.proc[p] # NULL => BSmallPending_IsSet(s.jobs, p) \/ Quiet(Size(p), s.proc[p])

IInv == Sound(interp) /\ EndSeen(interp) /\ \A p \in Procs : Awake(interp, p)

-----------------------------------------------------------------------------
(* Changes of the state that keep it sound.                                 *)

\* What ProgramAssumption says of one process.
LEMMA ProgramFacts ==
  ASSUME NEW p \in Procs
  PROVE  Size(p) \in Nat /\ Statements(p) = 1..Size(p) /\ NULL \notin Process(Size(p))
BY ProgramAssumption DEF Size, Statements

\* A template has one call() statement, in another process.
LEMMA CallerFacts ==
  ASSUME NEW t \in Templates
  PROVE  /\ t \in Procs /\ t # "nodie" /\ Caller[t][1] \in Procs /\ Caller[t][1] # t
         /\ Caller[t][2] \in 1..Size(Caller[t][1])
         /\ Program[Caller[t][1]][Caller[t][2]] = t
         /\ \A p \in Procs : \A i \in 1..Size(p) :
               Program[p][i] = t => p = Caller[t][1] /\ i = Caller[t][2]
<1> DEFINE c == Caller[t]
<1>1. t \in Procs /\ \E d \in Calls : IsCall(d, t) BY DEF Templates
<1>2. c \in Calls /\ IsCall(c, t) BY <1>1 DEF Caller
<1>3. \A p \in Procs : \A i \in 1..Size(p) : <<p, i>> \in Calls
  BY DEF Calls, Statements, Size
<1>4. \E p \in Procs : \E i \in 1..Size(p) : c = <<p, i>>
  BY <1>2 DEF Calls, Statements, Size
<1> HIDE DEF c
<1>5. c[1] \in Procs /\ c[2] \in 1..Size(c[1]) /\ Program[c[1]][c[2]] = t
  BY <1>2, <1>4 DEF IsCall
<1>6. c[1] # t BY <1>2, <1>5, ProgramAssumption DEF IsCall
<1>7. ASSUME NEW p_1 \in Procs, NEW j \in 1..Size(p_1), Program[p_1][j] = t
      PROVE  p_1 = c[1] /\ j = c[2]
  <2>1. IsCall(<<p_1, j>>, t) BY <1>7 DEF IsCall
  <2>2. c = <<p_1, j>> BY <1>1, <1>2, <1>3, <2>1, ProgramAssumption
  <2>3. QED BY <2>2
<1>8. t # "nodie" BY <1>1, ProgramAssumption
<1>9. QED BY <1>1, <1>5, <1>6, <1>7, <1>8 DEF c

\* A call() and its template keep matching when the statement is unchanged,
LEMMA MirrorKept ==
  ASSUME NEW x, NEW r, NEW q, NEW q1, NEW i, Mirror(x, r, q, i), q # NULL, q1 # NULL, Kept(q, q1, i)
  PROVE  Mirror(x, r, q1, i)
BY DEF Mirror, Kept

\* or when the template's process keeps its state,
LEMMA MirrorState ==
  ASSUME NEW x, NEW r, NEW r1, NEW q, NEW i, Mirror(x, r, q, i), r # NULL, r1 # NULL,
         r1.state = r.state
  PROVE  Mirror(x, r1, q, i)
BY DEF Mirror

\* The calls of process p see no difference between q and r.
CallsKept(p, q, r) == \A j \in 1..Size(p) : Program[p][j] \in Templates => Kept(q, r, j)

\* One process changes, unseen by the one that called it and those it has called.
LEMMA SetProcSound ==
  ASSUME NEW s, Sound(s), NEW p \in Procs, s.proc[p] # NULL, NEW q, Tidy(Size(p), q),
         q.state = s.proc[p].state \/ (p \notin Templates /\ q.state # "WAITING"),
         CallsKept(p, s.proc[p], q)
  PROVE  LET u == SetProc(s, p, q)
         IN  /\ Sound(u) /\ u.proc = [s.proc EXCEPT ![p] = q] /\ q # NULL
             /\ u.jobs = s.jobs /\ u.call = s.call
             /\ u.terminating = s.terminating /\ u.finished = s.finished
<1> DEFINE u == SetProc(s, p, q)
<1>1. /\ DOMAIN u = DOMAIN s /\ u.proc = [s.proc EXCEPT ![p] = q]
      /\ u.jobs = s.jobs /\ u.call = s.call
      /\ u.terminating = s.terminating /\ u.finished = s.finished
  BY DEF Sound, SetProc
<1> HIDE DEF u
<1>2. q # NULL BY ProgramFacts DEF Tidy
<1>3. DOMAIN s.proc = Procs BY DEF Sound
<1>4. /\ DOMAIN u.proc = Procs /\ u.proc[p] = q
      /\ \A x \in Procs : x # p => u.proc[x] = s.proc[x]
  BY <1>1, <1>3
<1>5. ASSUME NEW t \in Templates
      PROVE  Mirror(u.call[t], u.proc[t], u.proc[Caller[t][1]], Caller[t][2])
  <2>1. Mirror(s.call[t], s.proc[t], s.proc[Caller[t][1]], Caller[t][2]) BY DEF Sound
  <2>2. t \in Procs /\ Caller[t][1] \in Procs /\ Caller[t][1] # t BY CallerFacts
  <2>3. CASE t = p
    <3>1. q.state = s.proc[t].state /\ s.proc[t] # NULL BY <2>3
    <3>2. u.call[t] = s.call[t] /\ u.proc[t] = q /\ u.proc[Caller[t][1]] = s.proc[Caller[t][1]]
      BY <1>1, <1>4, <2>2, <2>3
    <3>3. QED BY <1>2, <2>1, <3>1, <3>2, MirrorState
  <2>4. CASE Caller[t][1] = p
    <3>1. Kept(s.proc[p], q, Caller[t][2]) BY <2>4, CallerFacts DEF CallsKept
    <3>2. u.call[t] = s.call[t] /\ u.proc[t] = s.proc[t] /\ u.proc[Caller[t][1]] = q
      BY <1>1, <1>4, <2>2, <2>4
    <3>3. QED BY <1>2, <2>1, <2>4, <3>1, <3>2, MirrorKept
  <2>5. CASE t # p /\ Caller[t][1] # p BY <1>1, <1>4, <2>1, <2>2, <2>5
  <2>6. QED BY <2>3, <2>4, <2>5
<1>6. \A x \in Procs : u.proc[x] # NULL =>
         Tidy(Size(x), u.proc[x]) /\ (u.proc[x].state = "WAITING" => x \in Templates)
  BY <1>4 DEF Sound
<1>7. \A x \in Procs : BSmallPending_IsSet(u.jobs, x) => u.proc[x] # NULL
  BY <1>1, <1>2, <1>4 DEF Sound
<1>8. Sound(u) BY <1>1, <1>4, <1>5, <1>6, <1>7 DEF Sound
<1>9. QED BY <1>1, <1>2, <1>8 DEF u

\* The work job of a process is set.
LEMMA SetWorkSound ==
  ASSUME NEW s, Sound(s), NEW p \in Procs, s.proc[p] # NULL
  PROVE  LET u == SetWork(s, p)
         IN  /\ Sound(u) /\ u.proc = s.proc /\ u.call = s.call
             /\ u.terminating = s.terminating /\ u.finished = s.finished
             /\ \A y : BSmallPending_IsSet(u.jobs, y) <=> BSmallPending_IsSet(s.jobs, y) \/ y = p
<1> DEFINE u == SetWork(s, p)
<1>1. /\ DOMAIN u = DOMAIN s /\ u.proc = s.proc /\ u.jobs = BSmallPending_Set(s.jobs, p)
      /\ u.call = s.call /\ u.terminating = s.terminating /\ u.finished = s.finished
  BY DEF Sound, SetWork
<1> HIDE DEF u
<1>2. s.jobs \in Seq(Procs) /\ NoDup(s.jobs) BY DEF Sound
<1>3. /\ u.jobs \in Seq(Procs) /\ NoDup(u.jobs)
      /\ \A y : BSmallPending_IsSet(u.jobs, y) <=> BSmallPending_IsSet(s.jobs, y) \/ y = p
  BY <1>1, <1>2, SetFacts
<1>4. Sound(u) BY <1>1, <1>3 DEF Sound
<1>5. QED BY <1>1, <1>3, <1>4 DEF u

\* and they match when there is neither an instance nor a statement.
LEMMA MirrorNull ==
  ASSUME NEW q, NEW i, q # NULL => q.st[i] = "FORGOTTEN"
  PROVE  Mirror(NULL, NULL, q, i)
<1>1. \A x \in CStates : x # NULL BY ProgramAssumption
<1>2. QED BY <1>1 DEF Mirror, CStates

\* The call() statements of template t see no difference when its process becomes r.
OwnKept(s, t, r) ==
    \A j \in 1..Size(t) : Program[t][j] \in Templates =>
        \/ s.call[Program[t][j]] # NULL /\ r # NULL /\ s.proc[t] # NULL /\ Kept(s.proc[t], r, j)
        \/ s.call[Program[t][j]] = NULL /\ (r # NULL => r.st[j] = "FORGOTTEN")

\* The call() instance of template t goes to state x, and the two processes it
\* joins change with it: the one with its statement, i of p, to q, its own to r.
JoinOK(s, t, p, i, q, r, x) ==
    /\ t \in Templates /\ p = Caller[t][1] /\ i = Caller[t][2]
    /\ s.proc[p] # NULL /\ \E y : Changed(Size(p), s.proc[p], q, i, y)
    /\ (r # NULL => Tidy(Size(t), r)) /\ OwnKept(s, t, r)
    /\ x \in CStates \cup {NULL} /\ Mirror(x, r, q, i)

Joined(s, u, t, q, r, x, js) ==
    /\ DOMAIN u = DOMAIN s /\ DOMAIN u.proc = Procs /\ u.proc[Caller[t][1]] = q /\ u.proc[t] = r
    /\ \A y \in Procs : y # Caller[t][1] /\ y # t => u.proc[y] = s.proc[y]
    /\ u.call = [s.call EXCEPT ![t] = x] /\ u.jobs = js
    /\ u.terminating = s.terminating /\ u.finished = s.finished

JobsOK(s, t, r, js) ==
    /\ js \in Seq(Procs) /\ NoDup(js)
    /\ \A y \in Procs : BSmallPending_IsSet(js, y) =>
          (y = t /\ r # NULL) \/ (y # t /\ s.proc[y] # NULL)

\* Such a change keeps the state sound.
LEMMA CallSound ==
  ASSUME NEW s, Sound(s), NEW t, NEW p, NEW i, NEW q, NEW r, NEW x, JoinOK(s, t, p, i, q, r, x),
         NEW js, JobsOK(s, t, r, js), NEW u, Joined(s, u, t, q, r, x, js)
  PROVE  Sound(u)
<1>0. t \in Templates /\ p = Caller[t][1] /\ i = Caller[t][2] /\ s.proc[p] # NULL BY DEF JoinOK
<1>1. /\ p \in Procs /\ t \in Procs /\ p # t /\ i \in 1..Size(p) /\ Program[p][i] = t
  BY <1>0, CallerFacts
<1>a. /\ Tidy(Size(p), q) /\ q.state = s.proc[p].state
      /\ \A j \in 1..Size(p) : j # i => Kept(s.proc[p], q, j)
  BY DEF JoinOK, Changed
<1>2. q # NULL BY <1>1, <1>a, ProgramFacts DEF Tidy
<1>3. s.call \in [Templates -> CStates \cup {NULL}] BY DEF Sound
<1>4. /\ DOMAIN u.proc = Procs /\ u.proc[p] = q /\ u.proc[t] = r
      /\ \A y \in Procs : y # p /\ y # t => u.proc[y] = s.proc[y]
  BY <1>0 DEF Joined
<1>5. /\ u.call \in [Templates -> CStates \cup {NULL}] /\ u.call[t] = x
      /\ \A y \in Templates : y # t => u.call[y] = s.call[y]
  BY <1>0, <1>3 DEF Joined, JoinOK
<1>6. ASSUME NEW y \in Templates
      PROVE  Mirror(u.call[y], u.proc[y], u.proc[Caller[y][1]], Caller[y][2])
  <2> DEFINE d == Caller[y][1]  j == Caller[y][2]
  <2>1. Mirror(s.call[y], s.proc[y], s.proc[d], j) BY DEF Sound
  <2>2. y \in Procs /\ d \in Procs /\ d # y /\ j \in 1..Size(d) /\ Program[d][j] = y
    BY CallerFacts
  <2> HIDE DEF d, j
  <2>3. ASSUME y # t PROVE Mirror(u.call[y], u.proc[y], s.proc[d], j)
    <3>1. u.call[y] = s.call[y] BY <1>5, <2>3
    <3>2. CASE y = p
      <4>1. /\ s.proc[y] # NULL /\ u.proc[y] # NULL /\ u.proc[y].state = s.proc[y].state
            /\ Mirror(u.call[y], s.proc[y], s.proc[d], j)
        BY <1>0, <1>a, <1>2, <1>4, <2>1, <3>1, <3>2, Zenon
      <4>2. QED BY ONLY <4>1, MirrorState
    <3>3. CASE y # p BY <1>4, <2>1, <2>2, <2>3, <3>1, <3>3
    <3>4. QED BY <3>2, <3>3
  <2>4. Mirror(u.call[y], u.proc[y], u.proc[d], j)
    <3>1. CASE y = t BY <1>0, <1>4, <1>5, <3>1 DEF d, j, JoinOK
    <3>2. CASE y # t /\ d = p
      <4>1. j # i BY <1>1, <2>2, <3>2
      <4>2. Kept(s.proc[d], q, j) BY <1>a, <2>2, <3>2, <4>1
      <4>3. QED BY <1>0, <1>2, <1>4, <2>3, <3>2, <4>2, MirrorKept, Zenon
    <3>3. CASE y # t /\ d = t /\ s.call[y] # NULL
      <4>1. r # NULL /\ s.proc[d] # NULL /\ Kept(s.proc[d], r, j) BY <2>2, <3>3, Zenon DEF OwnKept, JoinOK
      <4>2. QED BY <1>4, <2>3, <3>3, <4>1, MirrorKept
    <3>4. CASE y # t /\ d = t /\ s.call[y] = NULL
      <4>1. s.proc[y] = NULL BY <2>1, <3>4 DEF Mirror
      <4>2. u.proc[y] = NULL /\ u.call[y] = NULL BY <1>0, <1>4, <1>5, <2>2, <3>4, <4>1
      <4>3. r # NULL => r.st[j] = "FORGOTTEN" BY <2>2, <3>4, Zenon DEF OwnKept, JoinOK
      <4>4. QED BY <1>4, <3>4, <4>2, <4>3, MirrorNull
    <3>5. CASE y # t /\ d # p /\ d # t BY <1>4, <2>2, <2>3, <3>5
    <3>6. QED BY <3>1, <3>2, <3>3, <3>4, <3>5
  <2>5. QED BY <2>4 DEF d, j
<1>7. \A y \in Procs : u.proc[y] # NULL =>
         Tidy(Size(y), u.proc[y]) /\ (u.proc[y].state = "WAITING" => y \in Templates)
  BY <1>0, <1>a, <1>4 DEF Sound, JoinOK
<1>8. \A y \in Procs : BSmallPending_IsSet(u.jobs, y) => u.proc[y] # NULL
  BY <1>2, <1>4 DEF Joined, JobsOK
<1>9. QED BY <1>4, <1>5, <1>6, <1>7, <1>8 DEF Sound, Joined, JobsOK

\* What a call() statement of p finds: its instance, in a state that matches.
LEMMA OwnCalls ==
  ASSUME NEW s, Sound(s), NEW p \in Procs, NEW i \in 1..Size(p), Program[p][i] \in Templates
  PROVE  LET t == Program[p][i]
         IN  /\ p = Caller[t][1] /\ i = Caller[t][2] /\ p # t /\ t \in Procs
             /\ Mirror(s.call[t], s.proc[t], s.proc[p], i)
             /\ s.call[t] \in CStates \cup {NULL}
             /\ s.call[t] # NULL => s.proc[p] # NULL /\ s.proc[p].st[i] # "FORGOTTEN"
<1> DEFINE t == Program[p][i]
<1>1. p = Caller[t][1] /\ i = Caller[t][2] /\ t \in Procs /\ p # t BY CallerFacts
<1>2. Mirror(s.call[t], s.proc[t], s.proc[p], i) /\ s.call[t] \in CStates \cup {NULL}
  BY <1>1 DEF Sound
<1>3. s.call[t] # NULL => s.proc[p] # NULL /\ s.proc[p].st[i] # "FORGOTTEN"
  BY <1>2, SMTT(30) DEF Mirror, CStates
<1>4. QED BY <1>1, <1>2, <1>3

-----------------------------------------------------------------------------
(* Handlers.                                                                *)

\* A handler of process p begins: only p may have something to do and no job.
Ready(s, p) ==
    /\ Sound(s) /\ EndSeen(s) /\ s.proc[p] # NULL
    /\ \A y \in Procs : y # p => Awake(s, y)

\* Statements live like a stack from s to u.
Stack(s, u) ==
    \A y \in Procs : s.proc[y] # NULL /\ u.proc[y] # NULL => StackStep(s.proc[y], u.proc[y])

\* No statement is initialised or told to die.
Steady(q, r) ==
    \A i \in DOMAIN q.st :
        /\ q.st[i] = "FORGOTTEN" => r.st[i] = "FORGOTTEN"
        /\ r.st[i] = "DYING" => q.st[i] = "DYING"

\* Between two handlers, and a handler that began in s has ended in u.
Settled(u) == Sound(u) /\ EndSeen(u) /\ \A y \in Procs : Awake(u, y)
Done(s, u) == Settled(u) /\ Stack(s, u)

\* No job is lost, and a process other than p that changes is put to work.
Others(s, u, p) ==
    \A y \in Procs :
        /\ BSmallPending_IsSet(s.jobs, y) => BSmallPending_IsSet(u.jobs, y)
        /\ \/ y = p \/ u.proc[y] = s.proc[y]
           \/ /\ BSmallPending_IsSet(u.jobs, y)
              /\ s.proc[y] # NULL => StackStep(s.proc[y], u.proc[y])

\* A handler of p that leaves p with a job or something to wait for, and puts to
\* work whoever else it changes, leaves all as it should be.
LEMMA DoneIf ==
  ASSUME NEW s, NEW p \in Procs, Ready(s, p), NEW u, Sound(u), u.finished = s.finished,
         u.proc[p] # NULL, StackStep(s.proc[p], u.proc[p]),
         BSmallPending_IsSet(u.jobs, p) \/ Quiet(Size(p), u.proc[p]),
         Others(s, u, p)
  PROVE  Done(s, u)
<1>1. EndSeen(u) BY DEF Ready, EndSeen
<1>2. \A y \in Procs : Awake(u, y) BY DEF Ready, Awake, Others
<1>3. \A q : StackStep(q, q) BY DEF StackStep
<1>4. Stack(s, u) BY <1>3 DEF Stack, Others
<1>5. QED BY <1>1, <1>2, <1>4 DEF Done, Settled

\* An event of a statement that is no call(): its process is put to work.
LEMMA EventSettled ==
  ASSUME NEW s, NEW p \in Procs, Ready(s, p), NEW q, Tidy(Size(p), q),
         q.state = s.proc[p].state \/ (p \notin Templates /\ q.state # "WAITING"),
         CallsKept(p, s.proc[p], q)
  PROVE  LET u == statement_instance_func_event(s, p, q)
         IN  Settled(u) /\ u.proc[p] = q /\ \A y \in Procs : y # p => u.proc[y] = s.proc[y]
<1> DEFINE w == SetWork(s, p)  u == SetProc(w, p, q)
<1>1. Sound(s) /\ s.proc[p] # NULL /\ DOMAIN s.proc = Procs BY DEF Ready, Sound
<1>2. /\ Sound(w) /\ w.proc = s.proc /\ w.finished = s.finished
      /\ \A y : BSmallPending_IsSet(w.jobs, y) <=> BSmallPending_IsSet(s.jobs, y) \/ y = p
  BY <1>1, SetWorkSound
<1> HIDE DEF w
<1>3. /\ Sound(u) /\ u.proc = [w.proc EXCEPT ![p] = q] /\ q # NULL
      /\ u.jobs = w.jobs /\ u.finished = w.finished
  BY <1>1, <1>2, SetProcSound
<1> HIDE DEF u
<1>4. u.proc[p] = q /\ \A y \in Procs : y # p => u.proc[y] = s.proc[y] BY <1>1, <1>2, <1>3
<1>5. EndSeen(u) BY <1>2, <1>3, <1>4 DEF Ready, EndSeen
<1>6. \A y \in Procs : Awake(u, y) BY <1>2, <1>3, <1>4 DEF Ready, Awake
<1>7. QED BY <1>3, <1>4, <1>5, <1>6 DEF Settled, statement_instance_func_event, u, w

LEMMA EventDone ==
  ASSUME NEW s, NEW p \in Procs, Ready(s, p), NEW q, Tidy(Size(p), q),
         q.state = s.proc[p].state \/ (p \notin Templates /\ q.state # "WAITING"),
         CallsKept(p, s.proc[p], q), StackStep(s.proc[p], q)
  PROVE  LET u == statement_instance_func_event(s, p, q)
         IN  Done(s, u) /\ u.proc[p] = q
<1> DEFINE u == statement_instance_func_event(s, p, q)
<1>1. Settled(u) /\ u.proc[p] = q /\ \A y \in Procs : y # p => u.proc[y] = s.proc[y] BY EventSettled
<1> HIDE DEF u
<1>2. \A r : StackStep(r, r) BY DEF StackStep
<1>3. Stack(s, u) BY <1>1, <1>2, Zenon DEF Stack
<1>4. QED BY <1>1, <1>3 DEF Done, u

\* A process changes and its job is not set: it has something to wait for.
LEMMA QuietDone ==
  ASSUME NEW s, NEW p \in Procs, Ready(s, p), NEW q, Tidy(Size(p), q),
         q.state = s.proc[p].state \/ (p \notin Templates /\ q.state # "WAITING"),
         CallsKept(p, s.proc[p], q), StackStep(s.proc[p], q), Quiet(Size(p), q)
  PROVE  LET u == SetProc(s, p, q)
         IN  Done(s, u) /\ u.proc[p] = q
<1> DEFINE u == SetProc(s, p, q)
<1>1. Sound(s) /\ s.proc[p] # NULL /\ DOMAIN s.proc = Procs BY DEF Ready, Sound
<1>2. /\ Sound(u) /\ u.proc = [s.proc EXCEPT ![p] = q] /\ q # NULL
      /\ u.jobs = s.jobs /\ u.finished = s.finished
  BY <1>1, SetProcSound
<1> HIDE DEF u
<1>3. u.proc[p] = q /\ \A y \in Procs : y # p => u.proc[y] = s.proc[y] BY <1>1, <1>2
<1>4. Done(s, u)
  <2>1. Others(s, u, p) BY <1>2, <1>3 DEF Others
  <2>2. QED BY <1>2, <1>3, <2>1, DoneIf, Zenon
<1>5. QED BY <1>3, <1>4 DEF u

\* In the middle of a handler of process p.
LEMMA StillReady ==
  ASSUME NEW s, NEW p \in Procs, Ready(s, p), NEW q, Tidy(Size(p), q),
         q.state = s.proc[p].state \/ (p \notin Templates /\ q.state # "WAITING"),
         CallsKept(p, s.proc[p], q)
  PROVE  LET u == SetProc(s, p, q)
         IN  /\ Ready(u, p) /\ u.proc[p] = q /\ \A y \in Procs : y # p => u.proc[y] = s.proc[y]
             /\ u.jobs = s.jobs /\ u.terminating = s.terminating /\ u.finished = s.finished
             /\ u.call = s.call
<1> DEFINE u == SetProc(s, p, q)
<1>1. Sound(s) /\ s.proc[p] # NULL /\ DOMAIN s.proc = Procs BY DEF Ready, Sound
<1>2. /\ Sound(u) /\ u.proc = [s.proc EXCEPT ![p] = q] /\ q # NULL /\ u.call = s.call
      /\ u.jobs = s.jobs /\ u.terminating = s.terminating /\ u.finished = s.finished
  BY <1>1, SetProcSound
<1> HIDE DEF u
<1>3. u.proc[p] = q /\ \A y \in Procs : y # p => u.proc[y] = s.proc[y] BY <1>1, <1>2
<1>4. Ready(u, p) BY <1>2, <1>3 DEF Ready, EndSeen, Awake
<1>5. QED BY <1>2, <1>3, <1>4 DEF u

\* A template without a process has no calls under way,
LEMMA OwnKeptNew ==
  ASSUME NEW s, Sound(s), NEW t \in Procs, s.proc[t] = NULL, NEW r,
         r # NULL => \A j \in 1..Size(t) : r.st[j] = "FORGOTTEN"
  PROVE  OwnKept(s, t, r)
BY OwnCalls DEF OwnKept

\* and its calls see nothing of a change that leaves its statements alone.
LEMMA OwnKeptSame ==
  ASSUME NEW s, Sound(s), NEW t \in Procs, s.proc[t] # NULL, NEW r, r # NULL,
         \A j \in 1..Size(t) : Kept(s.proc[t], r, j)
  PROVE  OwnKept(s, t, r)
<1>1. SUFFICES ASSUME NEW j \in 1..Size(t), Program[t][j] \in Templates, s.call[Program[t][j]] = NULL
               PROVE  r.st[j] = "FORGOTTEN"
  BY DEF OwnKept
<1>2. Mirror(s.call[Program[t][j]], s.proc[Program[t][j]], s.proc[t], j) BY <1>1, OwnCalls
<1>3. s.proc[t].st[j] = "FORGOTTEN" BY <1>1, <1>2 DEF Mirror
<1>4. QED BY <1>3 DEF Kept

\* CallSound with the job of one of the two processes set.
LEMMA JoinedSound ==
  ASSUME NEW s, Sound(s), NEW t, NEW p, NEW i, NEW q, NEW r, NEW x, JoinOK(s, t, p, i, q, r, x),
         r = NULL => ~BSmallPending_IsSet(s.jobs, t),
         NEW w, w = p \/ (w = t /\ r # NULL),
         NEW u, Joined(s, u, t, q, r, x, BSmallPending_Set(s.jobs, w))
  PROVE  /\ Sound(u) /\ q # NULL
         /\ \A z \in Procs : BSmallPending_IsSet(u.jobs, z) <=> BSmallPending_IsSet(s.jobs, z) \/ z = w
<1>0. t \in Templates /\ p = Caller[t][1] /\ s.proc[p] # NULL BY DEF JoinOK
<1>1. p \in Procs /\ t \in Procs /\ p # t BY <1>0, CallerFacts
<1>2. Tidy(Size(p), q) BY DEF JoinOK, Changed
<1>3. q # NULL BY <1>1, <1>2, ProgramFacts DEF Tidy
<1> DEFINE js == BSmallPending_Set(s.jobs, w)
<1>4. s.jobs \in Seq(Procs) /\ NoDup(s.jobs) /\ w \in Procs BY <1>1 DEF Sound
<1>5. /\ js \in Seq(Procs) /\ NoDup(js)
      /\ \A z : BSmallPending_IsSet(js, z) <=> BSmallPending_IsSet(s.jobs, z) \/ z = w
  BY <1>4, SetFacts
<1>6. Joined(s, u, t, q, r, x, js) /\ u.jobs = js BY DEF Joined
<1> HIDE DEF js
<1>7. JobsOK(s, t, r, js) BY <1>0, <1>1, <1>5 DEF Sound, JobsOK
<1>8. Sound(u) BY <1>6, <1>7, CallSound
<1>9. QED BY <1>3, <1>5, <1>6, <1>8

\* A handler of process z, one of the two that a call() joins, ends with this change.
LEMMA JoinedDone ==
  ASSUME NEW s, NEW t, NEW p, NEW i, NEW q, NEW r, NEW x, JoinOK(s, t, p, i, q, r, x),
         NEW z \in {p, t}, Ready(s, z), StackStep(s.proc[p], q),
         s.proc[t] # NULL => r # NULL /\ StackStep(s.proc[t], r),
         NEW w \in {p, t}, w = t => r # NULL,
         NEW u, Joined(s, u, t, q, r, x, BSmallPending_Set(s.jobs, w)),
         IF z = w THEN z = p /\ r = s.proc[t] ELSE Quiet(Size(z), u.proc[z])
  PROVE  Done(s, u) /\ u.proc[p] = q
<1>0. t \in Templates /\ p = Caller[t][1] /\ s.proc[p] # NULL BY DEF JoinOK
<1>1. p \in Procs /\ t \in Procs /\ p # t BY <1>0, CallerFacts
<1>2. z \in Procs /\ w \in Procs /\ Sound(s) /\ s.proc[z] # NULL BY <1>1 DEF Ready
<1>3. r = NULL => ~BSmallPending_IsSet(s.jobs, t) BY <1>1, <1>2 DEF Sound
<1>4. /\ Sound(u) /\ q # NULL
      /\ \A v \in Procs : BSmallPending_IsSet(u.jobs, v) <=> BSmallPending_IsSet(s.jobs, v) \/ v = w
  BY <1>2, <1>3, JoinedSound
<1>5. /\ u.proc[p] = q /\ u.proc[t] = r /\ u.finished = s.finished
      /\ \A v \in Procs : v # p /\ v # t => u.proc[v] = s.proc[v]
  BY <1>0 DEF Joined
<1>6. u.proc[z] # NULL /\ StackStep(s.proc[z], u.proc[z]) BY <1>2, <1>4, <1>5
<1>7. BSmallPending_IsSet(u.jobs, z) \/ Quiet(Size(z), u.proc[z]) BY <1>2, <1>4
<1>8. Others(s, u, z) BY <1>1, <1>2, <1>4, <1>5 DEF Others
<1>9. QED BY <1>2, <1>4, <1>5, <1>6, <1>7, <1>8, DoneIf

\* The same where the template has no process, before and after.
LEMMA EventJoinedDone ==
  ASSUME NEW s, NEW t, NEW p, NEW i, NEW q, NEW x, JoinOK(s, t, p, i, q, NULL, x),
         Ready(s, p), s.proc[t] = NULL, StackStep(s.proc[p], q),
         NEW u, Joined(s, u, t, q, NULL, x, BSmallPending_Set(s.jobs, p))
  PROVE  Done(s, u) /\ u.proc[p] = q
<1>1. t \in Templates /\ p = Caller[t][1] BY DEF JoinOK
<1>2. p # t BY <1>1, CallerFacts
<1> DEFINE z == p
<1>3. z \in {p, t} /\ (z = t => NULL # NULL) /\ z = p BY <1>2
<1> HIDE DEF z
<1>4. IF z = z THEN z = p /\ NULL = s.proc[t] ELSE Quiet(Size(z), u.proc[z]) BY <1>3
<1>5. s.proc[t] # NULL => NULL # NULL /\ StackStep(s.proc[t], NULL) OBVIOUS
<1>6. Ready(s, z) /\ Joined(s, u, t, q, NULL, x, BSmallPending_Set(s.jobs, z)) BY <1>3
<1>7. QED BY <1>3, <1>4, <1>5, <1>6, JoinedDone

\* The two forms of this change: an event of the call() statement, with its
\* process put to work, and one of the template's process.
LEMMA JoinedEvent ==
  ASSUME NEW s, Sound(s), NEW t \in Templates, NEW p, p = Caller[t][1], NEW r, NEW v,
         \/ v = s /\ r = s.proc[t]
         \/ v = SetProc(s, t, r)
         \/ r = s.proc[t] /\ \E d : v = SetProc(s, p, d),
         NEW q, NEW x
  PROVE  Joined(s, SetCall(statement_instance_func_event(v, p, q), t, x), t, q, r, x,
                BSmallPending_Set(s.jobs, p))
<1>1. p \in Procs /\ t \in Procs /\ p # t BY CallerFacts
<1>2. DOMAIN s = {"proc", "call", "jobs", "terminating", "finished"} /\ DOMAIN s.proc = Procs
  BY DEF Sound
<1>3. /\ DOMAIN v = DOMAIN s /\ DOMAIN v.proc = Procs /\ v.proc[t] = r
      /\ \A y \in Procs : y # p /\ y # t => v.proc[y] = s.proc[y]
      /\ v.call = s.call /\ v.jobs = s.jobs
      /\ v.terminating = s.terminating /\ v.finished = s.finished
  BY <1>1, <1>2 DEF SetProc
<1> DEFINE u == SetCall(statement_instance_func_event(v, p, q), t, x)
<1>4. /\ DOMAIN u = DOMAIN s /\ u.proc = [v.proc EXCEPT ![p] = q]
      /\ u.call = [s.call EXCEPT ![t] = x] /\ u.jobs = BSmallPending_Set(s.jobs, p)
      /\ u.terminating = s.terminating /\ u.finished = s.finished
  BY <1>2, <1>3 DEF SetCall, SetProc, SetWork, statement_instance_func_event
<1> HIDE DEF u
<1>5. Joined(s, u, t, q, r, x, BSmallPending_Set(s.jobs, p)) BY <1>1, <1>3, <1>4 DEF Joined
<1>6. QED BY <1>5 DEF u

\* The change of a template's process by its call(), with its job set.
LEMMA JoinedState ==
  ASSUME NEW s, Sound(s), NEW t \in Templates, NEW r, NEW q, NEW x, NEW p, p = Caller[t][1]
  PROVE  Joined(s, SetCall(SetProc(SetWork(SetProc(s, p, q), t), t, r), t, x), t, q, r, x,
                BSmallPending_Set(s.jobs, t))
<1>1. p \in Procs /\ t \in Procs /\ p # t BY CallerFacts
<1>2. DOMAIN s = {"proc", "call", "jobs", "terminating", "finished"} /\ DOMAIN s.proc = Procs
  BY DEF Sound
<1> DEFINE u == SetCall(SetProc(SetWork(SetProc(s, p, q), t), t, r), t, x)
<1>3. /\ DOMAIN u = DOMAIN s /\ u.proc = [[s.proc EXCEPT ![p] = q] EXCEPT ![t] = r]
      /\ u.call = [s.call EXCEPT ![t] = x] /\ u.jobs = BSmallPending_Set(s.jobs, t)
      /\ u.terminating = s.terminating /\ u.finished = s.finished
  BY <1>2 DEF SetCall, SetProc, SetWork
<1> HIDE DEF u
<1>4. Joined(s, u, t, q, r, x, BSmallPending_Set(s.jobs, t)) BY <1>1, <1>2, <1>3 DEF Joined
<1>5. QED BY <1>4 DEF u

\* The process whose handler begins.
LEMMA ReadyFacts ==
  ASSUME NEW s, NEW p \in Procs, Ready(s, p)
  PROVE  /\ Sound(s) /\ DOMAIN s.proc = Procs /\ s.proc[p] # NULL
         /\ Tidy(Size(p), s.proc[p]) /\ s.proc[p] \in Process(Size(p))
         /\ Size(p) \in Nat /\ DOMAIN s.proc[p].st = 1..Size(p)
<1>1. Sound(s) /\ DOMAIN s.proc = Procs /\ s.proc[p] # NULL /\ Tidy(Size(p), s.proc[p])
  BY DEF Ready, Sound
<1>2. Size(p) \in Nat /\ s.proc[p] \in Process(Size(p)) BY <1>1, ProgramFacts DEF Tidy
<1>3. DOMAIN s.proc[p].st = 1..Size(p) BY <1>2 DEF Process
<1>4. QED BY <1>1, <1>2, <1>3

\* The state of a process changes and nothing else.
LEMMA ToState ==
  ASSUME NEW s, Sound(s), NEW t \in Procs, s.proc[t] # NULL, NEW x \in PStates
  PROVE  LET r == [s.proc[t] EXCEPT !.state = x]
         IN  /\ Tidy(Size(t), r) /\ r # NULL /\ r.state = x /\ r.st = s.proc[t].st
             /\ r.ap = s.proc[t].ap /\ r.fp = s.proc[t].fp /\ r.unclean = s.proc[t].unclean
             /\ OwnKept(s, t, r) /\ CallsKept(t, s.proc[t], r) /\ StackStep(s.proc[t], r)
<1> DEFINE q == s.proc[t]  r == [q EXCEPT !.state = x]  n == Size(t)
<1>1. n \in Nat /\ Tidy(n, q) BY ProgramFacts DEF Sound
<1> HIDE DEF q, n
<1>2. /\ Tidy(n, r) /\ r.state = x /\ r.st = q.st /\ r.ap = q.ap /\ r.fp = q.fp
      /\ r.unclean = q.unclean /\ (\A j \in 1..n : Kept(q, r, j)) /\ StackStep(q, r)
  BY <1>1, StateChanges
<1> HIDE DEF r
<1>3. r # NULL BY <1>2, ProgramFacts DEF Tidy, n
<1>4. OwnKept(s, t, r) BY <1>2, <1>3, OwnKeptSame DEF n, q
<1>5. CallsKept(t, q, r) BY <1>2 DEF CallsKept, n
<1>6. QED BY <1>2, <1>3, <1>4, <1>5 DEF n, q, r

\* The last statement is told to die.
LEMMA DieDone ==
  ASSUME NEW s, NEW p \in Procs, Ready(s, p), NEW i, i = s.proc[p].fp, s.proc[p].ap < i,
         s.proc[p].st[i] # "DYING", s.proc[p].state \in {"WORKING", "TERMINATING"}
  PROVE  LET u == NCDModuleInst_Die(s, p, i)
         IN  /\ Done(s, u) /\ u.proc[p] # NULL /\ u.proc[p].state = s.proc[p].state
             /\ \A j \in 1..Size(p) : j > i => u.proc[p].st[j] = "FORGOTTEN"
<1> DEFINE n == Size(p)
           q == s.proc[p]
           d == Dying(q, i)
           e == EventDead(d, i, FALSE)
           t == Program[p][i]
           u == NCDModuleInst_Die(s, p, i)
<1>1. /\ Sound(s) /\ q # NULL /\ Tidy(n, q) /\ n \in Nat /\ DOMAIN q.st = 1..n /\ q \in Process(n)
  BY ReadyFacts
<1> HIDE DEF n, q
<1>2. i \in 1..n /\ q.st[i] \in {"CHILD", "ADULT"} /\ (\A j \in 1..n : j > i => q.st[j] = "FORGOTTEN")
  BY <1>1, SMTT(30) DEF q, Tidy, PointersOK, Process, SStates
<1>3. Changed(n, q, d, i, "DYING") /\ i \notin d.unclean /\ d.fp = i /\ d.ap = q.ap
  BY <1>1, <1>2, DyingChanges DEF q
<1> HIDE DEF d
<1>4. Tidy(n, d) /\ d.st[i] = "DYING" /\ d.state = q.state BY <1>1, <1>2, <1>3 DEF Changed
<1>5. Changed(n, d, e, i, "FORGOTTEN") /\ i \notin e.unclean BY <1>1, <1>2, <1>4, EventDeadChanges, Zenon
<1> HIDE DEF e
<1>6. Changed(n, q, e, i, "FORGOTTEN") BY <1>1, <1>2, <1>3, <1>5, ChangedTwice
<1>7. StackStep(q, d)
  <2>1. d.fp <= i BY <1>1, <1>2, <1>3
  <2>2. d.state # "UP" BY <1>4 DEF q
  <2>3. QED BY <1>1, <1>2, <1>3, <2>1, <2>2, ChangedStack, Zenon
<1>9. Quiet(n, d) BY <1>2, <1>3, <1>4, Zenon DEF q, Quiet
<1>10. /\ Tidy(n, e) /\ e.state = q.state /\ e.st[i] = "FORGOTTEN"
       /\ \A j \in 1..n : j > i => d.st[j] = "FORGOTTEN" /\ e.st[j] = "FORGOTTEN"
  BY <1>1, <1>2, <1>3, <1>6, Zenon DEF Changed
<1>8. StackStep(q, e)
  <2>1. e.fp <= i BY <1>1, <1>2, <1>10 DEF Tidy, PointersOK, Process
  <2>2. e.state # "UP" BY <1>10 DEF q
  <2>3. QED BY <1>1, <1>2, <1>6, <2>1, <2>2, ChangedStack
<1>11. SUFFICES Done(s, u) /\ u.proc[p] \in {d, e}
  <2>1. NULL \notin {d, e} BY <1>4, <1>10, ProgramFacts, Zenon DEF Tidy, n
  <2>2. u.proc[p].state = s.proc[p].state BY <1>4, <1>10, <1>11, Zenon DEF q
  <2>3. QED BY <1>10, <1>11, <2>1, <2>2, Zenon DEF n
<1>12. CASE t \notin Templates
  <2>1. CallsKept(p, q, d) /\ CallsKept(p, q, e) BY <1>3, <1>6, <1>12, Zenon DEF CallsKept, Changed, n
  <2>2. CASE t = "nodie"
    <3>1. u = statement_instance_func_event(s, p, e) BY <1>12, <2>2, Zenon DEF NCDModuleInst_Die, e, d, q
    <3>2. QED BY <1>8, <1>10, <2>1, <3>1, EventDone DEF n, q
  <2>3. CASE t # "nodie"
    <3>1. u = SetProc(s, p, d) BY <1>12, <2>3, Zenon DEF NCDModuleInst_Die, e, d, q
    <3>2. QED BY <1>4, <1>7, <1>9, <2>1, <3>1, QuietDone, SMTT(30) DEF n, q
  <2>4. QED BY <2>2, <2>3, Zenon
<1>13. CASE t \in Templates
  <2>1. /\ p = Caller[t][1] /\ i = Caller[t][2] /\ p # t /\ t \in Procs
        /\ Mirror(s.call[t], s.proc[t], q, i) /\ s.call[t] \in CStates \cup {NULL}
    <3>1. i \in 1..Size(p) BY <1>2 DEF n
    <3>2. QED BY ONLY p \in Procs, <1>1, <1>13, <3>1, OwnCalls, SMTT(30) DEF q
  <2> HIDE DEF t
  <2>2. CASE s.call[t] = "NONE"
    <3>1. s.proc[t] = NULL BY <2>1, <2>2, Zenon DEF Mirror
    <3>2. u = SetCall(statement_instance_func_event(s, p, e), t, NULL)
      BY <1>13, <2>2, Zenon DEF NCDModuleInst_Die, e, d, q, t
    <3>3. Joined(s, u, t, e, NULL, NULL, BSmallPending_Set(s.jobs, p))
      BY <1>1, <1>13, <2>1, <3>1, <3>2, JoinedEvent, Zenon
    <3>4. Mirror(NULL, NULL, e, i) BY <1>10, MirrorNull, Zenon
    <3>5. OwnKept(s, t, NULL) BY <1>1, <2>1, <3>1, OwnKeptNew, Zenon
    <3>6. JoinOK(s, t, p, i, e, NULL, NULL)
      BY <1>1, <1>6, <1>13, <2>1, <3>4, <3>5, Zenon DEF JoinOK, n, q
    <3>7. QED BY <1>8, <3>1, <3>3, <3>6, EventJoinedDone, SMTT(30) DEF q
  <2>3. CASE s.call[t] # "NONE"
    <3> DEFINE r == [s.proc[t] EXCEPT !.state = "TERMINATING"]
    <3>1. s.call[t] # NULL /\ s.proc[t] # NULL BY <1>1, <1>2, <2>1, <2>3, Zenon DEF Mirror
    <3>2. "TERMINATING" \in PStates BY DEF PStates
    <3>3. /\ Tidy(Size(t), r) /\ r.state = "TERMINATING" /\ r # NULL /\ OwnKept(s, t, r)
          /\ StackStep(s.proc[t], r)
      BY ONLY <1>1, <2>1, <3>1, <3>2, ToState
    <3>5. SetProc(s, p, d).proc[t] = s.proc[t] /\ SetWork(SetProc(s, p, d), t).proc[t] = s.proc[t]
      BY <1>1, <2>1, ReadyFacts, Zenon DEF SetProc, SetWork, Sound
    <3>6. u = SetCall(SetProc(SetWork(SetProc(s, p, d), t), t, r), t, "TERMINATING")
      BY <1>13, <2>3, <3>5, Zenon DEF NCDModuleInst_Die, NCDModuleProcess_Terminate, process_start_terminating,
             SetState, d, q, t
    <3> HIDE DEF r
    <3>7. Joined(s, u, t, d, r, "TERMINATING", BSmallPending_Set(s.jobs, t))
      BY <1>1, <1>13, <2>1, <3>6, JoinedState, Zenon
    <3>8. Mirror("TERMINATING", r, d, i)
      <4>1. "TERMINATING" # NULL BY ProgramAssumption, Zenon DEF CStates
      <4>2. d # NULL BY <1>4, ProgramFacts DEF Tidy, n
      <4>3. QED BY <1>3, <1>4, <3>3, <4>1, <4>2, Zenon DEF Mirror
    <3>10. JoinOK(s, t, p, i, d, r, "TERMINATING")
      BY <1>1, <1>3, <1>13, <2>1, <3>3, <3>8, Zenon DEF JoinOK, CStates, n, q
    <3>11. u.proc[p] = d BY <2>1, <3>7, Zenon DEF Joined
    <3>12. QED BY <1>7, <1>9, <2>1, <3>1, <3>3, <3>7, <3>10, <3>11, JoinedDone, Zenon DEF n, q
  <2>4. QED BY <2>2, <2>3, Zenon
<1>14. QED BY <1>12, <1>13, Zenon

\* The child that is the last statement is told of the clean state.
LEMMA CleanDone ==
  ASSUME NEW s, NEW p \in Procs, Ready(s, p), NEW i, i = s.proc[p].ap, i = s.proc[p].fp,
         process_have_child(s.proc[p]), s.proc[p].state = "WORKING"
  PROVE  Done(s, NCDModuleInst_Clean(s, p, i))
<1> DEFINE n == Size(p)
           q == s.proc[p]
           d == Cleaned(q, i)
           t == Program[p][i]
           u == NCDModuleInst_Clean(s, p, i)
<1>1. /\ Sound(s) /\ q # NULL /\ Tidy(n, q) /\ n \in Nat /\ DOMAIN q.st = 1..n /\ q \in Process(n)
  BY ReadyFacts
<1> HIDE DEF n, q
<1>2. i \in 1..n /\ q.st[i] = "CHILD"
  BY <1>1 DEF q, process_have_child, Process
<1>3. Changed(n, q, d, i, q.st[i]) /\ i \notin d.unclean /\ d.fp = q.fp /\ d.ap = q.ap
  BY <1>1, <1>2, CleanedChanges, Zenon
<1> HIDE DEF d
<1>4. Tidy(n, d) /\ d.st = q.st /\ d.state = q.state
  <2>1. q.st \in [1..n -> SStates] BY <1>1 DEF Process
  <2>2. [q.st EXCEPT ![i] = q.st[i]] = q.st BY <1>2, <2>1
  <2>3. QED BY <1>3, <2>2 DEF Changed
<1>5. StackStep(q, d) BY <1>1, <1>2, <1>3, <1>4, ChangedStack
<1>6. Quiet(n, d) BY <1>2, <1>3, <1>4, Zenon DEF q, Quiet, process_have_child
<1>7. CASE i \in q.unclean /\ t \in Templates /\ s.call[t] = "WAITING"
  <2>1. p = Caller[t][1] /\ i = Caller[t][2] /\ p # t /\ t \in Procs /\ Mirror(s.call[t], s.proc[t], q, i)
    <3>1. i \in 1..Size(p) BY <1>2 DEF n
    <3>2. QED BY ONLY p \in Procs, <1>1, <1>7, <3>1, OwnCalls, SMTT(30) DEF q
  <2> HIDE DEF t
  <2> DEFINE r == [s.proc[t] EXCEPT !.state = "WORKING"]
  <2>2. s.proc[t] # NULL
    <3>1. "WAITING" # NULL BY ProgramAssumption DEF CStates
    <3>2. QED BY <1>7, <2>1, <3>1, Zenon DEF Mirror
  <2>3. "WORKING" \in PStates BY DEF PStates
  <2>4. /\ Tidy(Size(t), r) /\ r.state = "WORKING" /\ r # NULL /\ OwnKept(s, t, r)
        /\ StackStep(s.proc[t], r)
    BY ONLY <1>1, <2>1, <2>2, <2>3, ToState
  <2>5. SetProc(s, p, d).proc[t] = s.proc[t] /\ SetWork(SetProc(s, p, d), t).proc[t] = s.proc[t]
    BY <1>1, <2>1, ReadyFacts, Zenon DEF SetProc, SetWork, Sound
  <2>6. u = SetCall(SetProc(SetWork(SetProc(s, p, d), t), t, r), t, "WORKING")
    BY <1>7, <2>5, Zenon DEF NCDModuleInst_Clean, NCDModuleProcess_Continue, SetState, d, q, t
  <2> HIDE DEF r
  <2>7. Joined(s, u, t, d, r, "WORKING", BSmallPending_Set(s.jobs, t))
    BY <1>1, <1>7, <2>1, <2>6, JoinedState, Zenon
  <2>8. Mirror("WORKING", r, d, i)
    <3>1. "WORKING" # NULL BY ProgramAssumption, Zenon DEF CStates
    <3>2. d # NULL BY <1>4, ProgramFacts DEF Tidy, n
    <3>3. QED BY <1>2, <1>3, <1>4, <2>4, <3>1, <3>2, Zenon DEF Mirror, q
  <2>9. JoinOK(s, t, p, i, d, r, "WORKING")
    BY <1>1, <1>3, <1>7, <2>1, <2>4, <2>8, Zenon DEF JoinOK, CStates, n, q
  <2>10. u.proc[p] = d BY <2>1, <2>7, Zenon DEF Joined
  <2>11. QED BY <1>5, <1>6, <2>1, <2>2, <2>4, <2>7, <2>9, <2>10, JoinedDone, Zenon DEF n, q
<1>8. CASE ~(i \in q.unclean /\ t \in Templates /\ s.call[t] = "WAITING")
  <2>1. u = SetProc(s, p, d) BY <1>8, Zenon DEF NCDModuleInst_Clean, d, q
  <2>2. ASSUME t \in Templates PROVE i \notin q.unclean
    <3>1. i \in 1..Size(p) BY <1>2 DEF n
    <3>2. Mirror(s.call[t], s.proc[t], q, i)
      BY ONLY p \in Procs, <1>1, <2>2, <3>1, OwnCalls, SMTT(30) DEF q
    <3>3. QED BY <1>1, <1>2, <1>8, <2>2, <3>2, Zenon DEF Mirror
  <2>3. CallsKept(p, q, d) BY <1>3, <1>4, <2>2 DEF CallsKept, Changed, Kept, n
  <2>4. QED BY <1>4, <1>5, <1>6, <2>1, <2>3, QuietDone DEF n, q
<1>9. QED BY <1>7, <1>8, Zenon

\* The call() instance of a living template.
LEMMA CalledFacts ==
  ASSUME NEW s, Sound(s), NEW t \in Templates, s.proc[t] # NULL, NEW p, NEW i,
         p = Caller[t][1], i = Caller[t][2]
  PROVE  /\ p \in Procs /\ t \in Procs /\ p # t /\ i \in 1..Size(p) /\ Size(p) \in Nat
         /\ s.call[t] = s.proc[t].state /\ s.proc[p] # NULL /\ Tidy(Size(p), s.proc[p])
         /\ Mirror(s.call[t], s.proc[t], s.proc[p], i)
<1>1. p \in Procs /\ t \in Procs /\ p # t /\ i \in 1..Size(p) /\ Size(p) \in Nat
  BY CallerFacts, ProgramFacts
<1>2. Mirror(s.call[t], s.proc[t], s.proc[p], i) BY DEF Sound
<1>3. s.call[t] = s.proc[t].state /\ s.proc[p] # NULL BY <1>2, Zenon DEF Mirror
<1>4. QED BY <1>1, <1>2, <1>3 DEF Sound

\* A template comes up: the statement that called it is up.
LEMMA InterpUpDone ==
  ASSUME NEW s, NEW t \in Templates, Ready(s, t), s.proc[t].state = "WORKING",
         s.proc[t].ap = Size(t), ~process_have_child(s.proc[t])
  PROVE  Done(s, NCDModuleProcess_Interp_Up(SetState(s, t, "UP"), t))
<1> DEFINE p == Caller[t][1]  i == Caller[t][2]  q == EventUp(s.proc[p], i)
           r == [s.proc[t] EXCEPT !.state = "UP"]
           v == SetProc(s, t, r)
           u == SetCall(statement_instance_func_event(v, p, q), t, "UP")
<1>1. Sound(s) /\ s.proc[t] # NULL /\ DOMAIN s.proc = Procs BY DEF Ready, Sound
<1>2. /\ p \in Procs /\ t \in Procs /\ p # t /\ i \in 1..Size(p) /\ Size(p) \in Nat
      /\ s.call[t] = "WORKING" /\ s.proc[p] # NULL /\ Tidy(Size(p), s.proc[p])
      /\ Mirror("WORKING", s.proc[t], s.proc[p], i)
  BY <1>1, CalledFacts
<1> HIDE DEF p, i
<1>3. s.proc[p].st[i] = "CHILD" BY <1>2 DEF Mirror
<1>4. Changed(Size(p), s.proc[p], q, i, "ADULT") /\ i \notin q.unclean BY <1>2, <1>3, EventUpChanges
<1>5. "UP" \in PStates BY DEF PStates
<1>6. /\ Tidy(Size(t), r) /\ r # NULL /\ r.state = "UP" /\ r.st = s.proc[t].st /\ r.ap = s.proc[t].ap
      /\ OwnKept(s, t, r) /\ StackStep(s.proc[t], r)
  BY ONLY <1>1, <1>2, <1>5, ToState
<1>7. NCDModuleProcess_Interp_Up(SetState(s, t, "UP"), t) = u
  <2>1. v.proc[p] = s.proc[p] BY <1>1, <1>2 DEF SetProc, Sound
  <2>2. QED BY <2>1 DEF NCDModuleProcess_Interp_Up, SetState, p, i
<1> HIDE DEF q, r
<1>8. Joined(s, u, t, q, r, "UP", BSmallPending_Set(s.jobs, p)) BY <1>1, JoinedEvent DEF p
<1>9. Mirror("UP", r, q, i)
  <2>1. "UP" # NULL BY ProgramAssumption DEF CStates
  <2>2. q # NULL BY <1>2, <1>4, ProgramFacts DEF Changed, Tidy
  <2>3. q.st[i] = "ADULT" BY <1>2, <1>4, SMTT(30) DEF Changed, Tidy, Process
  <2>4. QED BY <1>4, <1>6, <2>1, <2>2, <2>3 DEF Mirror
<1>10. JoinOK(s, t, p, i, q, r, "UP")
  <2>1. "UP" \in CStates BY DEF CStates
  <2>2. QED BY <1>2, <1>4, <1>6, <1>9, <2>1, Zenon DEF JoinOK, p, i
<1>11. StackStep(s.proc[p], q) BY <1>2, <1>3, <1>4, ChangedStack
<1>12. Quiet(Size(t), r) BY <1>6 DEF Quiet, process_have_child
<1> HIDE DEF u
<1>13. u.proc[t] = r BY <1>8 DEF Joined
<1>14. Done(s, u) BY <1>1, <1>2, <1>6, <1>8, <1>10, <1>11, <1>12, <1>13, JoinedDone, Zenon
<1>15. QED BY <1>7, <1>14

\* A template goes down: the statement that called it is down and unclean.
LEMMA InterpDownDone ==
  ASSUME NEW s, NEW t \in Templates, Ready(s, t), s.proc[t].state = "UP"
  PROVE  Done(s, NCDModuleProcess_Interp_Down(SetState(s, t, "WAITING"), t))
<1> DEFINE p == Caller[t][1]  i == Caller[t][2]  q == EventDown(s.proc[p], i)
           r == [s.proc[t] EXCEPT !.state = "WAITING"]
           v == SetProc(s, t, r)
           u == SetCall(statement_instance_func_event(v, p, q), t, "WAITING")
<1>1. Sound(s) /\ s.proc[t] # NULL /\ DOMAIN s.proc = Procs BY DEF Ready, Sound
<1>2. /\ p \in Procs /\ t \in Procs /\ p # t /\ i \in 1..Size(p) /\ Size(p) \in Nat
      /\ s.call[t] = "UP" /\ s.proc[p] # NULL /\ Tidy(Size(p), s.proc[p])
      /\ Mirror("UP", s.proc[t], s.proc[p], i)
  BY <1>1, CalledFacts
<1> HIDE DEF p, i
<1>3. s.proc[p].st[i] = "ADULT" BY <1>2 DEF Mirror
<1>4. Changed(Size(p), s.proc[p], q, i, "CHILD") /\ i \in q.unclean BY <1>2, <1>3, EventDownChanges
<1>5. "WAITING" \in PStates BY DEF PStates
<1>6. /\ Tidy(Size(t), r) /\ r # NULL /\ r.state = "WAITING" /\ r.st = s.proc[t].st /\ r.ap = s.proc[t].ap
      /\ OwnKept(s, t, r) /\ StackStep(s.proc[t], r)
  BY ONLY <1>1, <1>2, <1>5, ToState
<1>7. NCDModuleProcess_Interp_Down(SetState(s, t, "WAITING"), t) = u
  <2>1. v.proc[p] = s.proc[p] BY <1>1, <1>2 DEF SetProc, Sound
  <2>2. QED BY <2>1 DEF NCDModuleProcess_Interp_Down, SetState, p, i
<1> HIDE DEF q, r
<1>8. Joined(s, u, t, q, r, "WAITING", BSmallPending_Set(s.jobs, p)) BY <1>1, JoinedEvent, Zenon DEF p
<1>9. Mirror("WAITING", r, q, i)
  <2>1. "WAITING" # NULL BY ProgramAssumption DEF CStates
  <2>2. q # NULL BY <1>2, <1>4, ProgramFacts DEF Changed, Tidy
  <2>3. q.st[i] = "CHILD" BY <1>2, <1>4 DEF Changed, Tidy, Process
  <2>4. QED BY <1>4, <1>6, <2>1, <2>2, <2>3 DEF Mirror
<1>10. JoinOK(s, t, p, i, q, r, "WAITING")
  <2>1. "WAITING" \in CStates BY DEF CStates
  <2>2. QED BY <1>2, <1>4, <1>6, <1>9, <2>1, Zenon DEF JoinOK, p, i
<1>11. StackStep(s.proc[p], q) BY <1>2, <1>3, <1>4, ChangedStack
<1>12. Quiet(Size(t), r) BY <1>6 DEF Quiet
<1> HIDE DEF u
<1>13. u.proc[t] = r BY <1>8 DEF Joined
<1>14. Done(s, u) BY <1>1, <1>2, <1>6, <1>8, <1>10, <1>11, <1>12, <1>13, JoinedDone, Zenon
<1>15. QED BY <1>7, <1>14

\* A template has ended.
LEMMA InterpTerminatedDone ==
  ASSUME NEW s, NEW t \in Templates, Ready(s, t), s.proc[t].state = "TERMINATING",
         \A j \in 1..Size(t) : s.proc[t].st[j] = "FORGOTTEN", ~BSmallPending_IsSet(s.jobs, t)
  PROVE  LET u == NCDModuleProcess_Interp_Terminated(SetProc(s, t, NULL), t)
         IN  Done(s, u) /\ u.proc[t] = NULL
<1> DEFINE p == Caller[t][1]  i == Caller[t][2]  q == EventDead(s.proc[p], i, FALSE)
           v == SetProc(s, t, NULL)
           u == SetCall(statement_instance_func_event(v, p, q), t, NULL)
<1>1. Sound(s) /\ s.proc[t] # NULL /\ DOMAIN s.proc = Procs BY SMTT(30) DEF Ready, Sound
<1>2. /\ p \in Procs /\ t \in Procs /\ p # t /\ i \in 1..Size(p) /\ Size(p) \in Nat
      /\ s.call[t] = "TERMINATING" /\ s.proc[p] # NULL /\ Tidy(Size(p), s.proc[p])
      /\ Mirror("TERMINATING", s.proc[t], s.proc[p], i)
  BY <1>1, CalledFacts
<1> HIDE DEF p, i
<1>3. s.proc[p].st[i] = "DYING" BY <1>2 DEF Mirror
<1>4. Changed(Size(p), s.proc[p], q, i, "FORGOTTEN") BY <1>2, <1>3, EventDeadChanges, Zenon
<1>5. NCDModuleProcess_Interp_Terminated(v, t) = u
  <2>1. v.proc[p] = s.proc[p] BY <1>1, <1>2 DEF SetProc, Sound
  <2>2. QED BY <2>1 DEF NCDModuleProcess_Interp_Terminated, p, i
<1> HIDE DEF q
<1>6. Joined(s, u, t, q, NULL, NULL, BSmallPending_Set(s.jobs, p)) BY <1>1, JoinedEvent, SMTT(30) DEF p
<1> HIDE DEF u
<1>7. Mirror(NULL, NULL, q, i)
  <2>1. q.st[i] = "FORGOTTEN" BY <1>2, <1>4, SMTT(30) DEF Changed, Tidy, Process
  <2>2. QED BY <2>1, MirrorNull
<1>8. OwnKept(s, t, NULL)
  <2>1. SUFFICES ASSUME NEW j \in 1..Size(t), Program[t][j] \in Templates
                 PROVE  s.call[Program[t][j]] = NULL
    BY DEF OwnKept
  <2>2. QED BY <1>1, <1>2, <2>1, OwnCalls, SMTT(30)
<1>9. JoinOK(s, t, p, i, q, NULL, NULL) BY <1>2, <1>4, <1>7, <1>8, Zenon DEF JoinOK, p, i
<1>10. /\ Sound(u) /\ q # NULL
       /\ \A y \in Procs : BSmallPending_IsSet(u.jobs, y) <=> BSmallPending_IsSet(s.jobs, y) \/ y = p
  BY <1>1, <1>6, <1>9, JoinedSound
<1>11. StackStep(s.proc[p], q) BY <1>2, <1>3, <1>4, ChangedStack
<1>12. /\ u.proc[p] = q /\ u.proc[t] = NULL /\ u.finished = s.finished
       /\ \A y \in Procs : y # p /\ y # t => u.proc[y] = s.proc[y]
  BY <1>6 DEF Joined, p
<1>13. EndSeen(u) BY <1>1, <1>2, <1>10, <1>12 DEF EndSeen, Ready
<1>14. \A y \in Procs : Awake(u, y) BY <1>10, <1>12 DEF Awake, Ready
<1>15. Stack(s, u)
  <2>1. \A z : StackStep(z, z) BY DEF StackStep
  <2>2. QED BY <1>11, <1>12, <2>1 DEF Stack
<1>16. QED BY <1>5, <1>10, <1>12, <1>13, <1>14, <1>15 DEF Done, Settled
=============================================================================
