----------------------------- MODULE ListProofs -----------------------------
(***************************************************************************)
(* What the proofs about the kernel's queues use of lists and of numbers.  *)
(* The nodes of a list (include/list.h) are a sequence without duplicates; *)
(* its operations are Append (list_add_tail), <<t>> \o l (list_add_head)   *)
(* and the cut of one node (list_delete).  Nodes are found by the least    *)
(* place or the highest priority, and loops over a list are recursive      *)
(* functions of the number of nodes done: induction is over the set of the *)
(* numbers for which a statement holds.                                    *)
(***************************************************************************)
EXTENDS Integers, Sequences, FiniteSetsExt, SequenceTheorems, WellFoundedInduction, TLAPS

LEMMA ElementsOfList ==
    ASSUME NEW S, NEW l \in Seq(S)
    PROVE  /\ Len(l) \in Nat /\ DOMAIN l = 1..Len(l)
           /\ Range(l) \subseteq S
           /\ \A x : x \in Range(l) <=> \E i \in 1..Len(l) : l[i] = x
BY LenProperties, ElementOfSeq DEF Range

LEMMA AppendElements ==
    ASSUME NEW S, NEW l \in Seq(S), IsInjective(l), NEW t \in S, t \notin Range(l)
    PROVE  /\ Append(l, t) \in Seq(S)
           /\ Len(Append(l, t)) = Len(l) + 1
           /\ Range(Append(l, t)) = Range(l) \cup {t}
           /\ IsInjective(Append(l, t))
<1> DEFINE a == Append(l, t)
<1>1. /\ a \in Seq(S) /\ Len(a) = Len(l) + 1 /\ Len(l) \in Nat
      /\ \A i \in 1..Len(l) : a[i] = l[i]
      /\ a[Len(l) + 1] = t
  BY AppendProperties, LenProperties
<1>2. \A x : x \in Range(l) <=> \E i \in 1..Len(l) : l[i] = x
  BY ElementsOfList
<1> HIDE DEF a
<1>3. \A x : x \in Range(a) <=> \E i \in 1..Len(a) : a[i] = x
  BY <1>1, ElementsOfList
<1>4. DOMAIN a = 1..Len(a) /\ DOMAIN l = 1..Len(l)
  BY <1>1, ElementsOfList
<1>5. Range(a) = Range(l) \cup {t}
  BY <1>1, <1>2, <1>3
<1>6. IsInjective(a)
  BY <1>1, <1>2, <1>4 DEF IsInjective
<1>7. QED BY <1>1, <1>5, <1>6 DEF a

LEMMA PrependElements ==
    ASSUME NEW S, NEW l \in Seq(S), IsInjective(l), NEW t \in S, t \notin Range(l)
    PROVE  /\ <<t>> \o l \in Seq(S)
           /\ Len(<<t>> \o l) = Len(l) + 1
           /\ Range(<<t>> \o l) = Range(l) \cup {t}
           /\ IsInjective(<<t>> \o l)
<1> DEFINE a == <<t>> \o l
<1>1. /\ a \in Seq(S) /\ Len(a) = Len(l) + 1 /\ Len(l) \in Nat
      /\ a[1] = t
      /\ \A i \in 2..Len(l) + 1 : a[i] = l[i - 1]
  <2>1. <<t>> \in Seq(S) /\ Len(<<t>>) = 1 /\ <<t>>[1] = t
    OBVIOUS
  <2>2. /\ a \in Seq(S) /\ Len(a) = 1 + Len(l)
        /\ \A i \in 1..(1 + Len(l)) : a[i] = IF i <= 1 THEN <<t>>[i] ELSE l[i - 1]
    BY <2>1, ConcatProperties
  <2>3. Len(l) \in Nat
    BY LenProperties
  <2> HIDE DEF a
  <2>4. QED BY <2>1, <2>2, <2>3
<1>2. \A x : x \in Range(l) <=> \E i \in 1..Len(l) : l[i] = x
  BY ElementsOfList
<1> HIDE DEF a
<1>3. \A x : x \in Range(a) <=> \E i \in 1..Len(a) : a[i] = x
  BY <1>1, ElementsOfList
<1>4. DOMAIN a = 1..Len(a) /\ DOMAIN l = 1..Len(l)
  BY <1>1, ElementsOfList
<1>5. ASSUME NEW x PROVE x \in Range(a) <=> x \in Range(l) \cup {t}
  <2>1. ASSUME x \in Range(l) PROVE x \in Range(a)
    <3>1. PICK i \in 1..Len(l) : l[i] = x BY <2>1, <1>2
    <3>2. i + 1 \in 1..Len(a) /\ a[i + 1] = x BY <3>1, <1>1
    <3>3. QED BY <3>2, <1>3
  <2>2. t \in Range(a)
    BY <1>1, <1>3
  <2>3. ASSUME x \in Range(a), x # t PROVE x \in Range(l)
    <3>1. PICK i \in 1..Len(a) : a[i] = x BY <2>3, <1>3
    <3>2. i - 1 \in 1..Len(l) /\ l[i - 1] = x BY <3>1, <2>3, <1>1
    <3>3. QED BY <3>2, <1>2
  <2>4. QED BY <2>1, <2>2, <2>3
<1>6. IsInjective(a)
  <2>1. ASSUME NEW i \in 1..Len(a), NEW j \in 1..Len(a), a[i] = a[j] PROVE i = j
    <3>1. \A n \in 1..Len(a) : n # 1 => n - 1 \in 1..Len(l) /\ a[n] = l[n - 1]
      BY <1>1
    <3>2. \A n \in 1..Len(l) : l[n] # t
      BY <1>2
    <3>3. i = 1 <=> j = 1
      BY <3>1, <3>2, <2>1, <1>1
    <3>4. CASE i # 1
      <4>1. i - 1 \in DOMAIN l /\ j - 1 \in DOMAIN l /\ l[i - 1] = l[j - 1]
        BY <3>1, <3>3, <3>4, <2>1, <1>4
      <4>2. i - 1 = j - 1
        BY <4>1 DEF IsInjective
      <4>3. QED BY <4>2
    <3>5. QED BY <3>3, <3>4
  <2>2. QED BY <2>1, <1>4 DEF IsInjective
<1>7. QED BY <1>1, <1>5, <1>6 DEF a

LEMMA RemoveElements ==
    ASSUME NEW S, NEW l \in Seq(S), IsInjective(l), NEW k \in 1..Len(l)
    PROVE  LET d == SubSeq(l, 1, k - 1) \o SubSeq(l, k + 1, Len(l))
           IN  /\ d \in Seq(S)
               /\ Len(d) = Len(l) - 1
               /\ Range(d) = Range(l) \ {l[k]}
               /\ IsInjective(d)
<1> DEFINE a == SubSeq(l, 1, k - 1)
           b == SubSeq(l, k + 1, Len(l))
           d == a \o b
<1>0. /\ Len(l) \in Nat /\ DOMAIN l = 1..Len(l)
      /\ \A x : x \in Range(l) <=> \E i \in 1..Len(l) : l[i] = x
      /\ \A i \in 1..Len(l) : l[i] \in S
  BY ElementsOfList, ElementOfSeq
<1>1. k \in 1..Len(l)
  OBVIOUS
<1>2. d = a \o b
  OBVIOUS
<1>a. /\ a \in Seq(S) /\ Len(a) = k - 1
      /\ \A i \in 1..(k - 1) : a[i] = l[i]
  <2>1. 1 \in Int /\ k - 1 \in Int /\ \A i \in 1..(k - 1) : l[i] \in S
    BY <1>0, <1>1
  <2> HIDE DEF a
  <2>2. /\ a \in Seq(S)
        /\ Len(a) = IF 1 <= k - 1 THEN k - 1 - 1 + 1 ELSE 0
        /\ \A i \in 1..(k - 1 - 1 + 1) : a[i] = l[1 + i - 1]
    BY <2>1, SubSeqProperties, SMTT(30) DEF a
  <2>3. QED BY <2>2, <1>1, <1>0
<1>b. /\ b \in Seq(S) /\ Len(b) = Len(l) - k
      /\ \A i \in 1..(Len(l) - k) : b[i] = l[k + i]
  <2>1. k + 1 \in Int /\ Len(l) \in Int /\ \A i \in (k + 1)..Len(l) : l[i] \in S
    BY <1>0, <1>1
  <2> HIDE DEF b
  <2>2. /\ b \in Seq(S)
        /\ Len(b) = IF k + 1 <= Len(l) THEN Len(l) - (k + 1) + 1 ELSE 0
        /\ \A i \in 1..(Len(l) - (k + 1) + 1) : b[i] = l[k + 1 + i - 1]
    BY <2>1, SubSeqProperties, SMTT(30) DEF b
  <2>3. Len(b) = Len(l) - k
    <3>1. Len(b) = IF k + 1 <= Len(l) THEN Len(l) - (k + 1) + 1 ELSE 0 BY <2>2
    <3>2. Len(l) \in Nat /\ k \in 1..Len(l) BY <1>0, <1>1
    <3>3. QED BY <3>1, <3>2
  <2>4. ASSUME NEW i \in 1..(Len(l) - k) PROVE b[i] = l[k + i]
    <3>1. i \in 1..(Len(l) - (k + 1) + 1) /\ k + 1 + i - 1 = k + i
      BY <1>1, <1>0
    <3>2. QED BY <3>1, <2>2
  <2>5. QED BY <2>2, <2>3, <2>4
<1> HIDE DEF a, b, d
<1>3. /\ d \in Seq(S)
      /\ Len(d) = Len(l) - 1
      /\ \A j \in 1..Len(d) : d[j] = IF j < k THEN l[j] ELSE l[j + 1]
  <2>1. /\ d \in Seq(S) /\ Len(d) = Len(a) + Len(b)
        /\ \A i \in 1..(Len(a) + Len(b)) : d[i] = IF i <= Len(a) THEN a[i] ELSE b[i - Len(a)]
    BY <1>2, <1>a, <1>b, ConcatProperties
  <2>2. Len(d) = Len(l) - 1
    BY <2>1, <1>a, <1>b, <1>0, <1>1
  <2>3. ASSUME NEW j \in 1..Len(d) PROVE d[j] = IF j < k THEN l[j] ELSE l[j + 1]
    <3>1. CASE j < k BY <3>1, <2>1, <1>a, <1>b, <1>0, <1>1
    <3>2. CASE ~(j < k)
      <4>1. d[j] = b[j - Len(a)] /\ j - Len(a) \in 1..(Len(l) - k)
        BY <3>2, <2>1, <2>2, <1>a, <1>b, <1>0, <1>1
      <4>2. b[j - Len(a)] = l[k + (j - Len(a))]
        BY <4>1, <1>b
      <4>3. k + (j - Len(a)) = j + 1
        BY <1>a, <1>0, <1>1
      <4>4. QED BY <4>1, <4>2, <4>3, <3>2
    <3>3. QED BY <3>1, <3>2
  <2>4. QED BY <2>1, <2>2, <2>3
<1>c. DOMAIN d = 1..Len(d) /\ \A x : x \in Range(d) <=> \E i \in 1..Len(d) : d[i] = x
  BY <1>3, ElementsOfList
<1>4. ASSUME NEW x PROVE x \in Range(d) <=> x \in Range(l) /\ x # l[k]
  <2>1. ASSUME x \in Range(l), x # l[k] PROVE x \in Range(d)
    <3>1. PICK j \in 1..Len(l) : l[j] = x BY <2>1, <1>0
    <3>2. CASE j < k BY <3>1, <3>2, <1>0, <1>1, <1>3, <1>c
    <3>3. CASE j > k
      <4>1. j - 1 \in 1..Len(d) /\ d[j - 1] = x BY <3>1, <3>3, <1>0, <1>1, <1>3
      <4>2. QED BY <4>1, <1>c
    <3>4. QED BY <3>1, <3>2, <3>3, <1>1, <2>1
  <2>2. ASSUME x \in Range(d) PROVE x \in Range(l) /\ x # l[k]
    <3>1. PICK j \in 1..Len(d) : d[j] = x BY <2>2, <1>c
    <3>2. PICK i \in 1..Len(l) : l[i] = x /\ i # k
      <4>1. CASE j < k BY <4>1, <3>1, <1>0, <1>1, <1>3
      <4>2. CASE ~(j < k)
        <5>1. j + 1 \in 1..Len(l) /\ l[j + 1] = x /\ j + 1 # k BY <4>2, <3>1, <1>0, <1>1, <1>3
        <5>2. QED BY <5>1
      <4>3. QED BY <4>1, <4>2
    <3>3. QED BY <3>2, <1>0, <1>1 DEF IsInjective
  <2>3. QED BY <2>1, <2>2
<1>5. IsInjective(d)
  <2>1. ASSUME NEW i \in 1..Len(d), NEW j \in 1..Len(d), d[i] = d[j] PROVE i = j
    <3> DEFINE f(n) == IF n < k THEN n ELSE n + 1
    <3>1. f(i) \in DOMAIN l /\ f(j) \in DOMAIN l /\ l[f(i)] = l[f(j)]
      BY <2>1, <1>0, <1>1, <1>3
    <3>2. f(i) = f(j)
      BY <3>1 DEF IsInjective
    <3>3. QED BY <3>2, <1>1, <1>3, <1>0
  <2>2. QED BY <2>1, <1>c DEF IsInjective
<1>6. d \in Seq(S) /\ Len(d) = Len(l) - 1 /\ Range(d) = Range(l) \ {l[k]} /\ IsInjective(d)
  BY <1>3, <1>4, <1>5
<1>7. QED BY <1>6 DEF d, a, b

\* The first node is cut off by taking the tail.
LEMMA CutHead ==
    ASSUME NEW S, NEW l \in Seq(S), l # <<>>, IsInjective(l)
    PROVE  LET k == CHOOSE i \in DOMAIN l : l[i] = Head(l)
           IN  SubSeq(l, 1, k - 1) \o SubSeq(l, k + 1, Len(l)) = Tail(l)
<1> DEFINE k == CHOOSE i \in DOMAIN l : l[i] = Head(l)
<1>1. Len(l) \in Nat /\ Len(l) >= 1 /\ DOMAIN l = 1..Len(l) /\ Head(l) = l[1]
  BY LenProperties, EmptySeq, HeadTailProperties
<1>2. k = 1
  <2>1. 1 \in DOMAIN l /\ l[1] = Head(l)
    BY <1>1
  <2>2. k \in DOMAIN l /\ l[k] = Head(l)
    BY <2>1
  <2> HIDE DEF k
  <2>3. QED BY <2>1, <2>2 DEF IsInjective
<1> HIDE DEF k
<1>3. SubSeq(l, 1, k - 1) = <<>>
  BY <1>2, SubSeqEmpty
<1>4. SubSeq(l, k + 1, Len(l)) = Tail(l)
  BY <1>1, <1>2
<1>5. Tail(l) \in Seq(S)
  BY HeadTailProperties
<1>6. SubSeq(l, 1, k - 1) \o SubSeq(l, k + 1, Len(l)) = Tail(l)
  BY <1>3, <1>4, <1>5, ConcatEmptySeq
<1>7. QED BY <1>6 DEF k

\* The first k nodes of a list, and the others.
LEMMA SplitElements ==
    ASSUME NEW S, NEW l \in Seq(S), IsInjective(l), NEW k \in 0..Len(l)
    PROVE  LET a == SubSeq(l, 1, k)
               b == SubSeq(l, k + 1, Len(l))
           IN  /\ a \in Seq(S) /\ IsInjective(a) /\ Len(a) = k
               /\ b \in Seq(S) /\ IsInjective(b)
               /\ \A x : x \in Range(b) <=> x \in Range(l) /\ x \notin Range(a)
               /\ Range(a) \subseteq Range(l)
<1> DEFINE a == SubSeq(l, 1, k)
           b == SubSeq(l, k + 1, Len(l))
<1>1. /\ Len(l) \in Nat /\ DOMAIN l = 1..Len(l)
      /\ \A x : x \in Range(l) <=> \E i \in 1..Len(l) : l[i] = x
      /\ \A i \in 1..Len(l) : l[i] \in S
  BY ElementsOfList, ElementOfSeq
<1>2. a \in Seq(S) /\ Len(a) = k /\ \A i \in 1..k : a[i] = l[i]
  <2>1. 1 \in Int /\ k \in Int /\ \A i \in 1..k : l[i] \in S
    BY <1>1
  <2> HIDE DEF a
  <2>2. /\ a \in Seq(S)
        /\ Len(a) = IF 1 <= k THEN k - 1 + 1 ELSE 0
        /\ \A i \in 1..(k - 1 + 1) : a[i] = l[1 + i - 1]
    BY <2>1, SubSeqProperties, SMTT(30) DEF a
  <2>3. QED BY <2>2, <1>1
<1>3. b \in Seq(S) /\ Len(b) = Len(l) - k /\ \A i \in 1..(Len(l) - k) : b[i] = l[k + i]
  <2>1. k + 1 \in Int /\ Len(l) \in Int /\ \A i \in (k + 1)..Len(l) : l[i] \in S
    BY <1>1
  <2> HIDE DEF b
  <2>2. /\ b \in Seq(S)
        /\ Len(b) = IF k + 1 <= Len(l) THEN Len(l) - (k + 1) + 1 ELSE 0
        /\ \A i \in 1..(Len(l) - (k + 1) + 1) : b[i] = l[k + 1 + i - 1]
    BY <2>1, SubSeqProperties, SMTT(30) DEF b
  <2>3. Len(b) = Len(l) - k
    <3>1. Len(b) = IF k + 1 <= Len(l) THEN Len(l) - (k + 1) + 1 ELSE 0
      BY <2>2
    <3>2. Len(l) \in Nat /\ k \in 0..Len(l)
      BY <1>1
    <3>3. QED BY <3>1, <3>2
  <2>4. ASSUME NEW i \in 1..(Len(l) - k) PROVE b[i] = l[k + i]
    <3>1. i \in 1..(Len(l) - (k + 1) + 1) /\ k + 1 + i - 1 = k + i
      BY <1>1
    <3>2. QED BY <3>1, <2>2
  <2>5. QED BY <2>2, <2>3, <2>4
<1> HIDE DEF a, b
<1>4. /\ DOMAIN a = 1..k /\ \A x : x \in Range(a) <=> \E i \in 1..k : a[i] = x
      /\ DOMAIN b = 1..(Len(l) - k) /\ \A x : x \in Range(b) <=> \E i \in 1..(Len(l) - k) : b[i] = x
  <2>1. a \in Seq(S) /\ Len(a) = k /\ b \in Seq(S) /\ Len(b) = Len(l) - k
    BY <1>2, <1>3
  <2>2. DOMAIN a = 1..Len(a) /\ \A x : x \in Range(a) <=> \E i \in 1..Len(a) : a[i] = x
    BY <2>1, ElementsOfList
  <2>3. DOMAIN b = 1..Len(b) /\ \A x : x \in Range(b) <=> \E i \in 1..Len(b) : b[i] = x
    BY <2>1, ElementsOfList
  <2>4. QED BY <2>1, <2>2, <2>3, Zenon
<1>5. IsInjective(a)
  BY <1>1, <1>2, <1>4 DEF IsInjective
<1>6. IsInjective(b)
  <2>1. ASSUME NEW i \in 1..(Len(l) - k), NEW j \in 1..(Len(l) - k), b[i] = b[j] PROVE i = j
    <3>1. k + i \in DOMAIN l /\ k + j \in DOMAIN l /\ l[k + i] = l[k + j]
      BY <2>1, <1>1, <1>3
    <3>2. k + i = k + j
      BY <3>1 DEF IsInjective
    <3>3. QED BY <3>2
  <2>2. QED BY <2>1, <1>4 DEF IsInjective
<1>7. Range(a) \subseteq Range(l)
  <2>1. ASSUME NEW x \in Range(a) PROVE x \in Range(l)
    <3>1. PICK i \in 1..k : a[i] = x
      BY <1>4
    <3>2. i \in 1..Len(l) /\ l[i] = x
      BY <3>1, <1>1, <1>2
    <3>3. QED BY <3>2, <1>1
  <2>2. QED BY <2>1
<1>8. ASSUME NEW x PROVE x \in Range(b) <=> x \in Range(l) /\ x \notin Range(a)
  <2>1. ASSUME x \in Range(b) PROVE x \in Range(l) /\ x \notin Range(a)
    <3>1. PICK i \in 1..(Len(l) - k) : b[i] = x
      BY <2>1, <1>4
    <3>2. k + i \in 1..Len(l) /\ l[k + i] = x
      BY <3>1, <1>1, <1>3
    <3>3. ASSUME NEW j \in 1..k, a[j] = x PROVE FALSE
      <4>1. j \in DOMAIN l /\ k + i \in DOMAIN l /\ l[j] = l[k + i]
        BY <3>2, <3>3, <1>1, <1>2
      <4>2. j = k + i
        BY <4>1 DEF IsInjective
      <4>3. QED BY <4>2
    <3>4. QED BY <3>2, <3>3, <1>1, <1>4
  <2>2. ASSUME x \in Range(l), x \notin Range(a) PROVE x \in Range(b)
    <3>1. PICK i \in 1..Len(l) : l[i] = x
      BY <2>2, <1>1
    <3>2. ~(i <= k)
      <4>1. ASSUME i <= k PROVE FALSE
        <5>1. i \in 1..k /\ a[i] = x
          BY <4>1, <3>1, <1>1, <1>2
        <5>2. QED BY <5>1, <2>2, <1>4
      <4>2. QED BY <4>1
    <3>3. i - k \in 1..(Len(l) - k) /\ k + (i - k) = i
      BY <3>2, <1>1
    <3>4. b[i - k] = x
      BY <3>1, <3>3, <1>3
    <3>5. QED BY <3>3, <3>4, <1>4
  <2>3. QED BY <2>1, <2>2
<1>9. QED BY <1>2, <1>3, <1>5, <1>6, <1>7, <1>8 DEF a, b

-----------------------------------------------------------------------------

\* The natural numbers are well ordered.
LEMMA Smallest ==
    ASSUME NEW S \in SUBSET Nat, S # {}
    PROVE  \E m \in S : \A k \in S : m <= k
<1> DEFINE R == OpToRel(<, Nat)
<1>1. IsWellFoundedOn(R, Nat)
  BY NatLessThanWellFounded
<1>2. ASSUME NEW x \in Nat, NEW y \in Nat, y < x PROVE <<y, x>> \in R
  <2>1. <<y, x>> \in Nat \X Nat /\ <<y, x>>[1] < <<y, x>>[2]
    BY <1>2
  <2>2. QED BY <2>1, Zenon DEF OpToRel
<1> HIDE DEF R
<1>3. PICK m \in S : \A k \in S : ~(<<k, m>> \in R)
  BY <1>1, WFMin
<1>4. ASSUME NEW k \in S PROVE m <= k
  <2>1. m \in Nat /\ k \in Nat
    OBVIOUS
  <2>2. ~(k < m)
    BY <1>2, <1>3, <2>1, Zenon
  <2>3. QED BY <2>1, <2>2
<1>5. QED BY <1>4

\* Induction up to N, for the set S of the numbers a statement holds for.
LEMMA SetInduction ==
    ASSUME NEW S, NEW N \in Nat, 0 \in S, \A n \in 0..N - 1 : n \in S => n + 1 \in S
    PROVE  0..N \subseteq S
<1> DEFINE B == {n \in 0..N : n \notin S}
<1>1. SUFFICES ASSUME B # {} PROVE FALSE
  OBVIOUS
<1>2. PICK m \in B : \A k \in B : m <= k
  <2>1. B \in SUBSET Nat
    OBVIOUS
  <2> HIDE DEF B
  <2>2. QED BY <1>1, <2>1, Smallest
<1>3. m # 0 /\ m - 1 \in 0..N - 1 /\ m - 1 \notin B
  BY <1>2
<1>4. QED BY <1>2, <1>3

LEMMA MinIsLeast ==
    ASSUME NEW S \in SUBSET Nat, S # {}
    PROVE  Min(S) \in S /\ \A k \in S : Min(S) <= k
<1>1. \E m \in S : \A k \in S : m <= k
  BY Smallest
<1>2. QED BY <1>1 DEF Min

LEMMA MaxIsGreatest ==
    ASSUME NEW N \in Nat, NEW S \in SUBSET (0..N), S # {}
    PROVE  Max(S) \in S /\ \A k \in S : k <= Max(S)
<1> DEFINE D == {N - k : k \in S}
<1>1. D \in SUBSET Nat /\ D # {}
  OBVIOUS
<1>2. PICK d \in D : \A k \in D : d <= k
  <2> HIDE DEF D
  <2>1. QED BY <1>1, Smallest
<1>3. PICK m \in S : d = N - m
  OBVIOUS
<1>4. ASSUME NEW k \in S PROVE m >= k
  <2>1. N - k \in D
    OBVIOUS
  <2>2. N - m <= N - k
    BY <2>1, <1>2, <1>3
  <2>3. m \in 0..N /\ k \in 0..N
    OBVIOUS
  <2>4. QED BY <2>2, <2>3
<1>5. \E x \in S : \A y \in S : x >= y
  BY <1>4
<1>6. Max(S) \in S /\ \A y \in S : Max(S) >= y
  BY <1>5 DEF Max
<1>7. QED BY <1>6
=============================================================================
