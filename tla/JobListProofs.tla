--------------------------- MODULE JobListProofs ---------------------------
(***************************************************************************)
(* What the list operations of JobList return, for every list without      *)
(* repetitions.                                                            *)
(***************************************************************************)
EXTENDS JobList, TLAPS

\* The sequence operation behind LinkedList1_Remove: one element
\* less, those after the removed place moved down by one.
LEMMA RemoveAtFacts ==
  ASSUME NEW S, NEW s \in Seq(S), NEW i \in 1..Len(s)
  PROVE  LET r == SubSeq(s, 1, i-1) \o SubSeq(s, i+1, Len(s))
         IN  /\ r \in Seq(S)
             /\ Len(r) = Len(s) - 1
             /\ \A j \in 1..(Len(s)-1) : r[j] = IF j < i THEN s[j] ELSE s[j+1]
<1> DEFINE a == SubSeq(s, 1, i-1)
           b == SubSeq(s, i+1, Len(s))
<1>1. a \in Seq(S) /\ Len(a) = i-1 /\ \A j \in 1..(i-1) : a[j] = s[j]
  OBVIOUS
<1>2. b \in Seq(S) /\ Len(b) = Len(s) - i /\ \A j \in 1..(Len(s)-i) : b[j] = s[j+i]
  OBVIOUS
<1> HIDE DEF a, b
<1>3. a \o b \in Seq(S) /\ Len(a \o b) = Len(a) + Len(b)
  <2>1. a \in Seq(S) /\ b \in Seq(S) BY <1>1, <1>2
  <2>2. QED BY <2>1
<1>4. \A j \in 1..(Len(a) + Len(b)) : (a \o b)[j] = IF j <= Len(a) THEN a[j] ELSE b[j - Len(a)]
  BY <1>1, <1>2
<1>5. ASSUME NEW j \in 1..(Len(s)-1)
      PROVE  (a \o b)[j] = IF j < i THEN s[j] ELSE s[j+1]
  <2>1. CASE j < i BY <2>1, <1>1, <1>2, <1>4
  <2>2. CASE ~(j < i)
    <3>1. (a \o b)[j] = b[j - (i-1)] BY <2>2, <1>1, <1>2, <1>4
    <3>2. j - (i-1) \in 1..(Len(s)-i) BY <2>2
    <3>3. b[j - (i-1)] = s[(j - (i-1)) + i] BY <3>2, <1>2
    <3>4. QED BY <3>1, <3>3, <2>2
  <2>3. QED BY <2>1, <2>2, Zenon
<1>6. Len(a) + Len(b) = Len(s) - 1 BY <1>1, <1>2
<1>7. QED BY <1>3, <1>5, <1>6, Zenon DEF a, b

\* LinkedList1_Remove unlinks the node and nothing else, keeps the others
\* distinct and in their order.
LEMMA RemoveFacts ==
  ASSUME NEW S, NEW s \in Seq(S), NoDup(s), NEW x
  PROVE  LET r == LinkedList1_Remove(s, x)
         IN  /\ r \in Seq(S)
             /\ NoDup(r)
             /\ \A y : BSmallPending_IsSet(r, y) <=> BSmallPending_IsSet(s, y) /\ y # x
             /\ \A j, k \in DOMAIN r : j < k =>
                  \E p, q \in DOMAIN s : p < q /\ r[j] = s[p] /\ r[k] = s[q]
<1> DEFINE r == LinkedList1_Remove(s, x)
<1>1. CASE ~BSmallPending_IsSet(s, x)
  <2>1. r = s BY <1>1 DEF LinkedList1_Remove, BSmallPending_IsSet
  <2>2. QED BY <2>1, <1>1
<1>2. CASE BSmallPending_IsSet(s, x)
  <2> DEFINE i == CHOOSE i \in DOMAIN s : s[i] = x
  <2>1. i \in 1..Len(s) /\ s[i] = x BY <1>2 DEF BSmallPending_IsSet
  <2>2. r = SubSeq(s, 1, i-1) \o SubSeq(s, i+1, Len(s)) BY <1>2, Zenon DEF LinkedList1_Remove, BSmallPending_IsSet
  <2> HIDE DEF i, r
  <2>3. /\ r \in Seq(S)
        /\ Len(r) = Len(s) - 1
        /\ \A j \in 1..(Len(s)-1) : r[j] = IF j < i THEN s[j] ELSE s[j+1]
    BY <2>1, <2>2, RemoveAtFacts, Zenon
  <2>4. NoDup(r)
    <3> SUFFICES ASSUME NEW j \in DOMAIN r, NEW k \in DOMAIN r, r[j] = r[k] PROVE j = k
      BY DEF NoDup
    <3>1. j \in 1..(Len(s)-1) /\ k \in 1..(Len(s)-1) BY <2>3
    <3> DEFINE p(n) == IF n < i THEN n ELSE n + 1
    <3>2. r[j] = s[p(j)] /\ r[k] = s[p(k)] BY <3>1, <2>3
    <3>3. p(j) \in 1..Len(s) /\ p(k) \in 1..Len(s) BY <3>1, <2>1
    <3> HIDE DEF p
    <3>4. s[p(j)] = s[p(k)] BY <3>2, Zenon
    <3>5. p(j) = p(k) BY <3>3, <3>4 DEF NoDup
    <3>6. QED BY <3>5, <3>1, <2>1 DEF p
  <2>5. ASSUME NEW y
        PROVE  BSmallPending_IsSet(r, y) <=> BSmallPending_IsSet(s, y) /\ y # x
    <3>1. ASSUME BSmallPending_IsSet(r, y) PROVE BSmallPending_IsSet(s, y) /\ y # x
      <4>1. PICK j \in DOMAIN r : r[j] = y BY <3>1 DEF BSmallPending_IsSet
      <4>2. j \in 1..(Len(s)-1) BY <2>3
      <4>3. PICK n \in 1..Len(s) : n # i /\ s[n] = y
        <5>1. CASE j < i BY <5>1, <4>1, <4>2, <2>3
        <5>2. CASE ~(j < i) BY <5>2, <4>1, <4>2, <2>3, <2>1
        <5>3. QED BY <5>1, <5>2
      <4>4. y # x BY <4>3, <2>1 DEF NoDup
      <4>5. QED BY <4>3, <4>4 DEF BSmallPending_IsSet
    <3>2. ASSUME BSmallPending_IsSet(s, y), y # x PROVE BSmallPending_IsSet(r, y)
      <4>1. PICK n \in 1..Len(s) : s[n] = y BY <3>2 DEF BSmallPending_IsSet
      <4>2. n # i BY <4>1, <3>2, <2>1
      <4>3. CASE n < i
        <5>1. n \in 1..(Len(s)-1) /\ r[n] = y BY <4>1, <4>3, <2>1, <2>3
        <5>2. QED BY <5>1, <2>3 DEF BSmallPending_IsSet
      <4>4. CASE n > i
        <5>1. n - 1 \in 1..(Len(s)-1) /\ ~(n - 1 < i) /\ (n - 1) + 1 = n BY <4>1, <4>4, <2>1
        <5>2. r[n-1] = y BY <5>1, <4>1, <2>3
        <5>3. QED BY <5>1, <5>2, <2>3 DEF BSmallPending_IsSet
      <4>5. QED BY <4>2, <4>3, <4>4, <2>1
    <3>3. QED BY <3>1, <3>2
  <2>6. ASSUME NEW j \in DOMAIN r, NEW k \in DOMAIN r, j < k
        PROVE  \E p, q \in DOMAIN s : p < q /\ r[j] = s[p] /\ r[k] = s[q]
    <3>1. j \in 1..(Len(s)-1) /\ k \in 1..(Len(s)-1) BY <2>3
    <3> DEFINE p(n) == IF n < i THEN n ELSE n + 1
    <3>2. r[j] = s[p(j)] /\ r[k] = s[p(k)] BY <3>1, <2>3
    <3>3. p(j) \in DOMAIN s /\ p(k) \in DOMAIN s /\ p(j) < p(k) BY <3>1, <2>1, <2>6
    <3> HIDE DEF p
    <3>4. QED BY <3>2, <3>3
  <2>7. QED BY <2>3, <2>4, <2>5, <2>6 DEF r
<1>3. QED BY <1>1, <1>2

\* Prepending a node that is not linked (LinkedList1_Prepend).
LEMMA PrependFacts ==
  ASSUME NEW S, NEW s \in Seq(S), NoDup(s), NEW x \in S, ~BSmallPending_IsSet(s, x)
  PROVE  LET r == <<x>> \o s
         IN  /\ r \in Seq(S)
             /\ NoDup(r)
             /\ Len(r) = Len(s) + 1
             /\ r[1] = x
             /\ \A j \in 1..Len(s) : r[j+1] = s[j]
             /\ \A y : BSmallPending_IsSet(r, y) <=> BSmallPending_IsSet(s, y) \/ y = x
<1> DEFINE r == <<x>> \o s
<1>1. <<x>> \in Seq(S) /\ Len(<<x>>) = 1 /\ <<x>>[1] = x OBVIOUS
<1>2. r \in Seq(S) /\ Len(r) = Len(s) + 1
  BY <1>1
<1>3. r[1] = x BY <1>1
<1>4. ASSUME NEW j \in 1..Len(s) PROVE r[j+1] = s[j]
  <2>1. r[j+1] = s[(j+1) - 1] BY <1>1
  <2>2. QED BY <2>1
<1> HIDE DEF r
<1>5. ASSUME NEW j \in DOMAIN r PROVE \/ j = 1
                                      \/ j - 1 \in 1..Len(s) /\ r[j] = s[j-1]
  <2>1. j \in 1..(Len(s) + 1) BY <1>2
  <2>2. ASSUME j # 1 PROVE j - 1 \in 1..Len(s) /\ (j - 1) + 1 = j BY <2>1, <2>2
  <2>3. QED BY <2>2, <1>4
<1>6. NoDup(r)
  <2> SUFFICES ASSUME NEW j \in DOMAIN r, NEW k \in DOMAIN r, r[j] = r[k] PROVE j = k
    BY DEF NoDup
  <2>1. j \in 1..(Len(s)+1) /\ k \in 1..(Len(s)+1) BY <1>2
  <2>2. CASE j = 1 /\ k # 1 BY <2>1, <2>2, <1>3, <1>5 DEF BSmallPending_IsSet
  <2>3. CASE k = 1 /\ j # 1 BY <2>1, <2>3, <1>3, <1>5 DEF BSmallPending_IsSet
  <2>4. CASE j # 1 /\ k # 1
    <3>1. s[j-1] = s[k-1] /\ j-1 \in DOMAIN s /\ k-1 \in DOMAIN s BY <2>4, <1>5
    <3>2. j - 1 = k - 1 BY <3>1 DEF NoDup
    <3>3. QED BY <3>2, <2>1
  <2>5. QED BY <2>2, <2>3, <2>4
<1>7. ASSUME NEW y PROVE BSmallPending_IsSet(r, y) <=> BSmallPending_IsSet(s, y) \/ y = x
  <2>1. ASSUME BSmallPending_IsSet(r, y) PROVE BSmallPending_IsSet(s, y) \/ y = x
    BY <2>1, <1>3, <1>5 DEF BSmallPending_IsSet
  <2>2. ASSUME BSmallPending_IsSet(s, y) PROVE BSmallPending_IsSet(r, y)
    <3>1. PICK j \in 1..Len(s) : s[j] = y BY <2>2 DEF BSmallPending_IsSet
    <3>2. j + 1 \in DOMAIN r /\ r[j+1] = y BY <3>1, <1>2, <1>4
    <3>3. QED BY <3>2 DEF BSmallPending_IsSet
  <2>3. ASSUME y = x PROVE BSmallPending_IsSet(r, y)
    <3>1. 1 \in DOMAIN r BY <1>2
    <3>2. QED BY <3>1, <2>3, <1>3 DEF BSmallPending_IsSet
  <2>4. QED BY <2>1, <2>2, <2>3
<1>8. QED BY <1>2, <1>3, <1>4, <1>6, <1>7 DEF r

\* Taking the first node (LinkedList1_GetFirst and LinkedList1_RemoveFirst).
LEMMA TailFacts ==
  ASSUME NEW S, NEW s \in Seq(S), NoDup(s), s # <<>>
  PROVE  LET r == Tail(s)
         IN  /\ Head(s) \in S /\ Head(s) = s[1] /\ 1 \in DOMAIN s
             /\ r \in Seq(S)
             /\ NoDup(r)
             /\ \A j \in DOMAIN r : j \in Nat /\ j + 1 \in DOMAIN s /\ r[j] = s[j+1]
             /\ \A y : BSmallPending_IsSet(r, y) <=> BSmallPending_IsSet(s, y) /\ y # Head(s)
             /\ BSmallPending_IsSet(s, Head(s))
<1> DEFINE r == Tail(s)
<1>1. /\ r \in Seq(S) /\ Len(r) = Len(s) - 1 /\ Len(s) \in Nat \ {0}
      /\ \A j \in 1..Len(r) : r[j] = s[j+1]
      /\ Head(s) = s[1] /\ s[1] \in S
  OBVIOUS
<1> HIDE DEF r
<1>2. ASSUME NEW j \in DOMAIN r PROVE j + 1 \in DOMAIN s /\ r[j] = s[j+1] /\ j \in Nat
  BY <1>1
<1>3. 1 \in DOMAIN s BY <1>1
<1>4. NoDup(r)
  <2> SUFFICES ASSUME NEW j \in DOMAIN r, NEW k \in DOMAIN r, r[j] = r[k] PROVE j = k
    BY DEF NoDup
  <2>1. j + 1 = k + 1 BY <1>2 DEF NoDup
  <2>2. QED BY <2>1, <1>2
<1>5. ASSUME NEW y
      PROVE  BSmallPending_IsSet(r, y) <=> BSmallPending_IsSet(s, y) /\ y # Head(s)
  <2>1. ASSUME BSmallPending_IsSet(r, y) PROVE BSmallPending_IsSet(s, y) /\ y # Head(s)
    <3>1. PICK j \in DOMAIN r : r[j] = y BY <2>1 DEF BSmallPending_IsSet
    <3>2. j + 1 \in DOMAIN s /\ s[j+1] = y /\ j + 1 # 1 BY <3>1, <1>1, <1>2
    <3>3. QED BY <3>2, <1>1, <1>3 DEF BSmallPending_IsSet, NoDup
  <2>2. ASSUME BSmallPending_IsSet(s, y), y # Head(s) PROVE BSmallPending_IsSet(r, y)
    <3>1. PICK j \in DOMAIN s : s[j] = y BY <2>2 DEF BSmallPending_IsSet
    <3>2. j - 1 \in 1..Len(r) /\ (j - 1) + 1 = j BY <3>1, <2>2, <1>1
    <3>3. r[j-1] = y /\ j - 1 \in DOMAIN r BY <3>1, <3>2, <1>1
    <3>4. QED BY <3>3 DEF BSmallPending_IsSet
  <2>3. QED BY <2>1, <2>2
<1>6. QED BY <1>1, <1>2, <1>3, <1>4, <1>5 DEF r, BSmallPending_IsSet

\* Appending a node that is not linked (LinkedList1_Append).
LEMMA AppendFacts ==
  ASSUME NEW S, NEW s \in Seq(S), NoDup(s), NEW x \in S, ~BSmallPending_IsSet(s, x)
  PROVE  LET r == Append(s, x)
         IN  /\ r \in Seq(S)
             /\ NoDup(r)
             /\ r # <<>>
             /\ \A y : BSmallPending_IsSet(r, y) <=> BSmallPending_IsSet(s, y) \/ y = x
<1> DEFINE r == Append(s, x)
<1>1. /\ r \in Seq(S) /\ Len(r) = Len(s) + 1 /\ r[Len(s) + 1] = x
      /\ \A j \in 1..Len(s) : r[j] = s[j]
  OBVIOUS
<1> HIDE DEF r
<1>2. ASSUME NEW j \in DOMAIN r
      PROVE  (j \in DOMAIN s /\ r[j] = s[j]) \/ (j = Len(s) + 1 /\ r[j] = x)
  BY <1>1
<1>3. NoDup(r)
  <2> SUFFICES ASSUME NEW j \in DOMAIN r, NEW k \in DOMAIN r, r[j] = r[k] PROVE j = k
    BY DEF NoDup
  <2>1. QED BY <1>2 DEF NoDup, BSmallPending_IsSet
<1>4. ASSUME NEW y PROVE BSmallPending_IsSet(r, y) <=> BSmallPending_IsSet(s, y) \/ y = x
  <2>1. ASSUME BSmallPending_IsSet(r, y) PROVE BSmallPending_IsSet(s, y) \/ y = x
    BY <2>1, <1>2 DEF BSmallPending_IsSet
  <2>2. ASSUME BSmallPending_IsSet(s, y) PROVE BSmallPending_IsSet(r, y)
    <3>1. PICK j \in DOMAIN s : s[j] = y BY <2>2 DEF BSmallPending_IsSet
    <3>2. j \in DOMAIN r /\ r[j] = y BY <3>1, <1>1
    <3>3. QED BY <3>2 DEF BSmallPending_IsSet
  <2>3. ASSUME y = x PROVE BSmallPending_IsSet(r, y)
    <3>1. Len(s) + 1 \in DOMAIN r BY <1>1
    <3>2. QED BY <3>1, <2>3, <1>1 DEF BSmallPending_IsSet
  <2>4. QED BY <2>1, <2>2, <2>3
<1>5. r # <<>> BY <1>1
<1>6. QED BY <1>1, <1>3, <1>4, <1>5 DEF r

\* BSmallPending_Set as the callers see it: the job is linked, once, and no
\* other job comes or goes.
LEMMA SetFacts ==
  ASSUME NEW S, NEW s \in Seq(S), NoDup(s), NEW x \in S
  PROVE  LET r == BSmallPending_Set(s, x)
         IN  /\ r \in Seq(S)
             /\ NoDup(r)
             /\ \A y : BSmallPending_IsSet(r, y) <=> BSmallPending_IsSet(s, y) \/ y = x
<1> DEFINE u == LinkedList1_Remove(s, x)
<1>1. /\ u \in Seq(S) /\ NoDup(u)
      /\ \A y : BSmallPending_IsSet(u, y) <=> BSmallPending_IsSet(s, y) /\ y # x
  BY RemoveFacts
<1>2. BSmallPending_Set(s, x) = <<x>> \o u BY DEF BSmallPending_Set
<1> HIDE DEF u
<1>3. /\ <<x>> \o u \in Seq(S) /\ NoDup(<<x>> \o u)
      /\ \A y : BSmallPending_IsSet(<<x>> \o u, y) <=> BSmallPending_IsSet(u, y) \/ y = x
  BY <1>1, PrependFacts
<1>4. QED BY <1>1, <1>2, <1>3

\* A list is empty iff no node is linked in it.
LEMMA EmptyFacts ==
  ASSUME NEW S, NEW s \in Seq(S)
  PROVE  /\ s # <<>> => \E x \in S : BSmallPending_IsSet(s, x)
         /\ \A x : BSmallPending_IsSet(s, x) => s # <<>>
<1>1. ASSUME s # <<>> PROVE \E x \in S : BSmallPending_IsSet(s, x)
  <2>1. 1 \in DOMAIN s /\ s[1] \in S BY <1>1
  <2>2. QED BY <2>1 DEF BSmallPending_IsSet
<1>2. \A x : BSmallPending_IsSet(s, x) => s # <<>> BY DEF BSmallPending_IsSet
<1>3. QED BY <1>1, <1>2
=============================================================================
