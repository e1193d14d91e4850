-------------------------- MODULE LinkedListProofs --------------------------
(* Facts about linked lists and the sequences that they are, for the proofs*)
(* about the caches.  That Follow finds the list which the links make is by*)
(* induction on the nodes still ahead; the rest is what a change of two or *)
(* four pointers does to a list that is whole.                             *)
EXTENDS LinkedLists, SequencesExt, SequenceTheorems, FiniteSetTheorems, WellFoundedInduction, TLAPS

(* Induction over a set of numbers: the smallest number that is missing has*)
(* a predecessor that is not.                                              *)
LEMMA SetInduction ==
  ASSUME NEW S, 0 \in S, \A n \in Nat : n \in S => n + 1 \in S
  PROVE  Nat \subseteq S
<1>1. SUFFICES ASSUME Nat \ S # {} PROVE FALSE
  OBVIOUS
<1>2. PICK n \in Nat \ S : \A m \in Nat \ S : ~ (<<m, n>> \in OpToRel(<, Nat))
  BY <1>1, NatLessThanWellFounded, WFMin
<1>3. n # 0 /\ n - 1 \in Nat
  OBVIOUS
<1>4. <<n - 1, n>> \in OpToRel(<, Nat)
  BY <1>3 DEF OpToRel
<1>5. n - 1 \in S
  BY <1>2, <1>3, <1>4
<1>. QED
  BY <1>3, <1>5

(* The recursive function that Follow is made of; there is one.            *)
IsFrom(f, succ, nodes, more) ==
  f = [k \in 0 .. more |->
         IF k = 0 THEN [p \in nodes |-> <<p>>] ELSE Ahead(succ, nodes, f[k - 1])]

(* By induction on the steps that it looks ahead.                          *)
LEMMA FromExists ==
  ASSUME NEW nodes, NEW succ, NEW more \in Nat
  PROVE  \E f : IsFrom(f, succ, nodes, more)
<1>. DEFINE S == {m \in Nat : \E f : IsFrom(f, succ, nodes, m)}
            base == [p \in nodes |-> <<p>>]
<1>1. 0 \in S
  <2>. DEFINE f == [k \in 0 .. 0 |-> base]
  <2>1. f = [k \in 0 .. 0 |-> IF k = 0 THEN base ELSE Ahead(succ, nodes, f[k - 1])]
    OBVIOUS
  <2>. QED
    BY <2>1 DEF IsFrom
<1>2. ASSUME NEW m \in Nat, m \in S
      PROVE  m + 1 \in S
  <2>1. PICK f : f = [k \in 0 .. m |-> IF k = 0 THEN base ELSE Ahead(succ, nodes, f[k - 1])]
    BY <1>2 DEF IsFrom
  <2>. HIDE DEF base
  <2>. DEFINE g == [k \in 0 .. m + 1 |-> IF k = 0 THEN base ELSE Ahead(succ, nodes, f[k - 1])]
  <2>2. \A k \in 0 .. m : g[k] = f[k]
    BY <2>1
  <2>3. \A k \in 0 .. m + 1 : k # 0 => k - 1 \in 0 .. m
    OBVIOUS
  <2>4. \A k \in 0 .. m + 1 : k # 0 => g[k - 1] = f[k - 1]
    BY <2>2, <2>3
  <2>5. \A k \in 0 .. m + 1 : g[k] = IF k = 0 THEN base ELSE Ahead(succ, nodes, g[k - 1])
    BY <2>4
  <2>6. g = [k \in 0 .. m + 1 |-> g[k]]
    OBVIOUS
  <2>. HIDE DEF g
  <2>7. g = [k \in 0 .. m + 1 |-> IF k = 0 THEN base ELSE Ahead(succ, nodes, g[k - 1])]
    BY <2>5, <2>6
  <2>. QED
    BY <2>7 DEF base, IsFrom
<1>. HIDE DEF S
<1>3. Nat \subseteq S
  BY <1>1, <1>2, SetInduction
<1>. QED
  BY <1>3 DEF S

(* Follow returns the list that leads from start to a pointer that is no   *)
(* node, if it is not longer than Follow looks.                            *)
LEMMA FollowIs ==
  ASSUME NEW nodes, NEW start, NEW succ, NEW stop, NEW more \in Nat,
         NEW list \in Seq(nodes), Len(list) <= more + 1,
         stop \notin nodes, Leads(list, start, succ, stop)
  PROVE  Follow(start, succ, nodes, more) = list
<1>. DEFINE F(f) == [k \in 0 .. more |->
              IF k = 0 THEN [p \in nodes |-> <<p>>] ELSE Ahead(succ, nodes, f[k - 1])]
            from == CHOOSE f : f = F(f)
<1>1. Follow(start, succ, nodes, more) = IF start \in nodes THEN from[more][start] ELSE <<>>
  BY DEF Follow
<1>2. from = F(from)
  <2>1. PICK f : IsFrom(f, succ, nodes, more)
    BY FromExists
  <2>2. f = F(f)
    BY <2>1 DEF IsFrom
  <2>. QED
    BY <2>2
<1>. HIDE DEF from
<1>. DEFINE last(i, k) == IF i + k <= Len(list) THEN i + k ELSE Len(list)
            P(k) == \A i \in 1 .. Len(list) : from[k][list[i]] = SubSeq(list, i, last(i, k))
            S == {k \in Nat : k <= more => P(k)}
<1>3. /\ Len(list) \in Nat
      /\ \A i \in 1 .. Len(list) : list[i] \in nodes
      /\ \A i \in 1 .. Len(list) : SubSeq(list, i, i) = <<list[i]>>
  <2>1. ASSUME NEW i \in 1 .. Len(list)
        PROVE  SubSeq(list, i, i) = <<list[i]>>
    <3>1. SubSeq(list, i, i) = <<list[i]>> \o SubSeq(list, i + 1, i)
      BY SubSeqRecursiveFirst
    <3>2. SubSeq(list, i + 1, i) = <<>>
      BY SubSeqEmpty
    <3>3. <<list[i]>> \o <<>> = <<list[i]>>
      OBVIOUS
    <3>. QED
      BY <3>1, <3>2, <3>3
  <2>. QED
    BY <2>1
<1>4. 0 \in S
  <2>1. from[0] = [p \in nodes |-> <<p>>]
    BY <1>2
  <2>2. \A i \in 1 .. Len(list) : last(i, 0) = i
    BY <1>3
  <2>. QED
    BY <1>3, <2>1, <2>2
<1>5. ASSUME NEW k \in Nat, k \in S
      PROVE  k + 1 \in S
  <2>a. SUFFICES ASSUME k + 1 <= more
                 PROVE  P(k + 1)
    OBVIOUS
  <2>b. P(k)
    BY <1>5, <2>a
  <2>. SUFFICES ASSUME NEW i \in 1 .. Len(list)
                PROVE  from[k + 1][list[i]] = SubSeq(list, i, last(i, k + 1))
    OBVIOUS
  <2>1. from[k + 1] = Ahead(succ, nodes, from[k])
    BY <1>2, <2>a
  <2>2. from[k + 1][list[i]] = IF succ[list[i]] \in nodes
                               THEN <<list[i]>> \o from[k][succ[list[i]]] ELSE <<list[i]>>
    BY <1>3, <2>1 DEF Ahead
  <2>3. CASE i = Len(list)
    <3>1. succ[list[i]] = stop /\ last(i, k + 1) = i
      BY <1>3, <2>3 DEF Leads
    <3>. QED
      BY <1>3, <2>2, <3>1
  <2>4. CASE i # Len(list)
    <3>1. /\ i + 1 \in 1 .. Len(list) /\ succ[list[i]] = list[i + 1]
          /\ last(i, k + 1) = last(i + 1, k) /\ last(i, k + 1) \in i .. Len(list)
      BY <1>3, <2>4 DEF Leads
    <3>2. from[k][list[i + 1]] = SubSeq(list, i + 1, last(i + 1, k))
      BY <2>b, <3>1
    <3>3. SubSeq(list, i, last(i, k + 1)) = <<list[i]>> \o SubSeq(list, i + 1, last(i, k + 1))
      BY <3>1, SubSeqRecursiveFirst
    <3>. HIDE DEF last
    <3>. QED
      BY <1>3, <2>2, <3>1, <3>2, <3>3
  <2>. QED
    BY <2>3, <2>4
<1>6. more \in S
  <2>. HIDE DEF S
  <2>. QED
    BY <1>4, <1>5, SetInduction
<1>7. CASE list = <<>>
  BY <1>1, <1>7 DEF Leads
<1>8. CASE list # <<>>
  <2>1. 1 \in 1 .. Len(list) /\ start = list[1] /\ last(1, more) = Len(list)
    BY <1>3, <1>8 DEF Leads
  <2>2. from[more][list[1]] = SubSeq(list, 1, Len(list))
    BY <1>6, <2>1
  <2>3. SubSeq(list, 1, Len(list)) = list
    BY SubSeqFull
  <2>. QED
    BY <1>1, <1>3, <2>1, <2>2, <2>3
<1>. QED
  BY <1>7, <1>8

(* A sequence of distinct nodes.                                           *)
Distinct(list, nodes) == list \in Seq(nodes) /\ IsInjective(list)

(* Its elements are nodes.                                                 *)
LEMMA DistinctIn ==
  ASSUME NEW nodes, NEW list, Distinct(list, nodes)
  PROVE  /\ list \in Seq(nodes) /\ Len(list) \in Nat /\ Range(list) \subseteq nodes
         /\ \A i \in 1 .. Len(list) : list[i] \in Range(list)
BY DEF Distinct, Range

(* It has no more elements than there are nodes.                           *)
LEMMA DistinctFits ==
  ASSUME NEW nodes, IsFiniteSet(nodes), NEW list, Distinct(list, nodes)
  PROVE  Len(list) <= Cardinality(nodes)
<1>1. Len(list) \in Nat /\ list \in [1 .. Len(list) -> nodes] /\ DOMAIN list = 1 .. Len(list)
  BY DEF Distinct
<1>2. list \in Injection(1 .. Len(list), nodes)
  BY <1>1 DEF Distinct, Injection, IsInjective
<1>3. Cardinality(1 .. Len(list)) <= Cardinality(nodes)
  BY <1>2, FS_Injection
<1>4. Cardinality(1 .. Len(list)) = Len(list)
  BY <1>1, FS_Interval
<1>. QED
  BY <1>3, <1>4

(* A list that is whole leads from what its head points at to its tail.    *)
LEMMA WholeLeads ==
  ASSUME NEW nodes, NEW list, Distinct(list, nodes), NEW head, NEW tail, NEW next, NEW prev,
         IsWhole(head, list, tail, next, prev)
  PROVE  Leads(list, next[head], next, tail)
<1>1. Len(list) \in Nat
  BY DEF Distinct
<1>2. CASE list = <<>>
  <2>1. next[Spot(head, list, tail, 0)] = Spot(head, list, tail, 1)
    BY <1>1 DEF IsWhole
  <2>. QED
    BY <1>2, <2>1 DEF Leads, Spot
<1>3. CASE list # <<>>
  <2>1. Len(list) >= 1
    BY <1>3, EmptySeq DEF Distinct
  <2>2. \A i \in 0 .. Len(list) : next[Spot(head, list, tail, i)] = Spot(head, list, tail, i + 1)
    BY DEF IsWhole
  <2>3. next[head] = list[1] /\ next[list[Len(list)]] = tail
    BY <1>1, <2>1, <2>2 DEF Spot
  <2>4. \A i \in 1 .. Len(list) - 1 : next[list[i]] = list[i + 1]
    <3>1. ASSUME NEW i \in 1 .. Len(list) - 1 PROVE next[list[i]] = list[i + 1]
      <4>1. i \in 0 .. Len(list) /\ i # 0 /\ i # Len(list) + 1 /\ i + 1 # 0 /\ i + 1 # Len(list) + 1
        BY <1>1
      <4>. QED
        BY <2>2, <4>1 DEF Spot
    <3>. QED
      BY <3>1
  <2>. QED
    BY <1>3, <2>3, <2>4 DEF Leads
<1>. QED
  BY <1>2, <1>3

(* A list without one of its nodes.                                        *)
LEMMA RemoveAtIs ==
  ASSUME NEW nodes, NEW list \in Seq(nodes), NEW i \in 1 .. Len(list)
  PROVE  /\ RemoveAt(list, i) \in Seq(nodes)
         /\ Len(RemoveAt(list, i)) = Len(list) - 1
         /\ \A j \in 1 .. Len(list) - 1 :
              RemoveAt(list, i)[j] = IF j < i THEN list[j] ELSE list[j + 1]
<1>. DEFINE front == SubSeq(list, 1, i - 1)
            back == SubSeq(list, i + 1, Len(list))
<1>1. Len(list) \in Nat /\ \A j \in 1 .. Len(list) : list[j] \in nodes
  OBVIOUS
<1>2. /\ front \in Seq(nodes) /\ Len(front) = i - 1
      /\ \A j \in 1 .. i - 1 : front[j] = list[j]
  <2>1. \A j \in 1 .. i - 1 : list[j] \in nodes
    BY <1>1
  <2>2. i - 1 \in Int /\ 1 \in Int /\ (1 <= i - 1 \/ i - 1 = 0)
    OBVIOUS
  <2>3. /\ front \in Seq(nodes)
        /\ Len(front) = IF 1 <= i - 1 THEN i - 1 - 1 + 1 ELSE 0
        /\ \A j \in 1 .. i - 1 - 1 + 1 : front[j] = list[1 + j - 1]
    BY <2>1, <2>2, SubSeqProperties
  <2>. HIDE DEF front
  <2>. QED
    BY <2>2, <2>3
<1>3. /\ back \in Seq(nodes) /\ Len(back) = Len(list) - i
      /\ \A j \in 1 .. Len(list) - i : back[j] = list[i + j]
  <2>1. \A j \in i + 1 .. Len(list) : list[j] \in nodes
    BY <1>1
  <2>2. Len(list) \in Int /\ i + 1 \in Int /\ (i + 1 <= Len(list) \/ Len(list) - i = 0)
    BY <1>1
  <2>3. /\ back \in Seq(nodes)
        /\ Len(back) = IF i + 1 <= Len(list) THEN Len(list) - (i + 1) + 1 ELSE 0
        /\ \A j \in 1 .. Len(list) - (i + 1) + 1 : back[j] = list[i + 1 + j - 1]
    BY <2>1, <2>2, SubSeqProperties
  <2>. HIDE DEF back
  <2>. QED
    BY <2>2, <2>3
<1>4. RemoveAt(list, i) = front \o back
  BY DEF RemoveAt
<1>. HIDE DEF front, back
<1>5. /\ front \o back \in Seq(nodes) /\ Len(front \o back) = Len(list) - 1
      /\ \A j \in 1 .. Len(list) - 1 :
           (front \o back)[j] = IF j <= i - 1 THEN front[j] ELSE back[j - (i - 1)]
  <2>1. /\ front \o back \in Seq(nodes) /\ Len(front \o back) = Len(front) + Len(back)
        /\ \A j \in 1 .. Len(front) + Len(back) :
             (front \o back)[j] = IF j <= Len(front) THEN front[j] ELSE back[j - Len(front)]
    BY <1>2, <1>3, ConcatProperties
  <2>2. Len(front) = i - 1 /\ Len(front) + Len(back) = Len(list) - 1
    BY <1>1, <1>2, <1>3
  <2>. QED
    BY <2>1, <2>2
<1>6. ASSUME NEW j \in 1 .. Len(list) - 1
      PROVE  (front \o back)[j] = IF j < i THEN list[j] ELSE list[j + 1]
  <2>1. CASE j < i
    BY <1>2, <1>5, <2>1
  <2>2. CASE j >= i
    <3>1. j - (i - 1) \in 1 .. Len(list) - i /\ i + (j - (i - 1)) = j + 1 /\ ~ (j <= i - 1)
      BY <1>1, <2>2
    <3>2. back[j - (i - 1)] = list[j + 1]
      BY <1>3, <3>1
    <3>. QED
      BY <1>5, <2>2, <3>1, <3>2
  <2>3. j < i \/ j >= i
    BY <1>1
  <2>. QED
    BY <2>1, <2>2, <2>3
<1>. QED
  BY <1>4, <1>5, <1>6

(* The list without one element has all the others.                        *)
LEMMA RemoveAtDistinct ==
  ASSUME NEW nodes, NEW list, Distinct(list, nodes), NEW i \in 1 .. Len(list)
  PROVE  /\ Distinct(RemoveAt(list, i), nodes)
         /\ Range(RemoveAt(list, i)) = Range(list) \ {list[i]}
<1>. DEFINE rest == RemoveAt(list, i)
<1>1. Len(list) \in Nat /\ DOMAIN list = 1 .. Len(list)
  BY DEF Distinct
<1>2. /\ rest \in Seq(nodes) /\ Len(rest) = Len(list) - 1 /\ DOMAIN rest = 1 .. Len(list) - 1
      /\ \A j \in 1 .. Len(list) - 1 : rest[j] = IF j < i THEN list[j] ELSE list[j + 1]
  <2>1. /\ rest \in Seq(nodes) /\ Len(rest) = Len(list) - 1
        /\ \A j \in 1 .. Len(list) - 1 : rest[j] = IF j < i THEN list[j] ELSE list[j + 1]
    BY RemoveAtIs DEF Distinct
  <2>. HIDE DEF rest
  <2>2. DOMAIN rest = 1 .. Len(rest)
    BY <2>1
  <2>. QED
    BY <2>1, <2>2
<1>. HIDE DEF rest
<1>3. \A j, k \in 1 .. Len(list) : list[j] = list[k] => j = k
  BY <1>1 DEF Distinct, IsInjective
<1>4. IsInjective(rest)
  <2>1. ASSUME NEW j \in 1 .. Len(list) - 1, NEW k \in 1 .. Len(list) - 1, rest[j] = rest[k]
        PROVE  j = k
    <3>1. /\ j \in 1 .. Len(list) /\ j + 1 \in 1 .. Len(list)
          /\ k \in 1 .. Len(list) /\ k + 1 \in 1 .. Len(list)
      BY <1>1
    <3>2. (IF j < i THEN list[j] ELSE list[j + 1]) = (IF k < i THEN list[k] ELSE list[k + 1])
      BY <1>2, <2>1
    <3>3. (IF j < i THEN j ELSE j + 1) = (IF k < i THEN k ELSE k + 1)
      BY <1>3, <3>1, <3>2
    <3>. QED
      BY <1>1, <3>3
  <2>. QED
    BY <1>2, <2>1 DEF IsInjective
<1>5. ASSUME NEW j \in 1 .. Len(list) - 1
      PROVE  \E k \in 1 .. Len(list) : k # i /\ rest[j] = list[k]
  <2>1. (IF j < i THEN j ELSE j + 1) \in 1 .. Len(list) /\ (IF j < i THEN j ELSE j + 1) # i
    BY <1>1
  <2>. QED
    BY <1>2, <2>1
<1>6. ASSUME NEW k \in 1 .. Len(list), k # i
      PROVE  \E j \in 1 .. Len(list) - 1 : rest[j] = list[k]
  <2>1. CASE k < i
    <3>1. k \in 1 .. Len(list) - 1
      BY <1>1, <2>1
    <3>. QED
      BY <1>2, <2>1, <3>1
  <2>2. CASE k > i
    <3>1. k - 1 \in 1 .. Len(list) - 1 /\ ~ (k - 1 < i) /\ k - 1 + 1 = k
      BY <1>1, <2>2
    <3>. QED
      BY <1>2, <3>1
  <2>. QED
    BY <1>1, <1>6, <2>1, <2>2
<1>7. Range(rest) = Range(list) \ {list[i]}
  <2>1. ASSUME NEW x \in Range(rest) PROVE x \in Range(list) /\ x # list[i]
    BY <1>1, <1>2, <1>3, <1>5 DEF Range
  <2>2. ASSUME NEW x \in Range(list), x # list[i] PROVE x \in Range(rest)
    <3>1. PICK k \in 1 .. Len(list) : x = list[k]
      BY <1>1 DEF Range
    <3>. QED
      BY <1>2, <1>6, <2>2, <3>1 DEF Range
  <2>. QED
    BY <2>1, <2>2
<1>. QED
  BY <1>2, <1>4, <1>7 DEF rest, Distinct

(* The places of a list hold different pointers, but for head and tail.    *)
LEMMA SpotsDiffer ==
  ASSUME NEW nodes, NEW list, Distinct(list, nodes), NEW head, head \notin nodes,
         NEW tail, tail \notin nodes
  PROVE  /\ \A i, j \in 0 .. Len(list) :
              Spot(head, list, tail, i) = Spot(head, list, tail, j) => i = j
         /\ \A i, j \in 1 .. Len(list) + 1 :
              Spot(head, list, tail, i) = Spot(head, list, tail, j) => i = j
         /\ \A i \in 0 .. Len(list) : Spot(head, list, tail, i) \in nodes \cup {head}
         /\ \A i \in 1 .. Len(list) + 1 : Spot(head, list, tail, i) \in nodes \cup {tail}
<1>1. Len(list) \in Nat /\ \A i \in 1 .. Len(list) : list[i] \in nodes
  BY DEF Distinct
<1>2. \A i, j \in 1 .. Len(list) : list[i] = list[j] => i = j
  BY DEF Distinct, IsInjective
<1>3. \A i \in 0 .. Len(list) : Spot(head, list, tail, i) = IF i = 0 THEN head ELSE list[i]
  BY <1>1 DEF Spot
<1>4. \A i \in 1 .. Len(list) + 1 :
        Spot(head, list, tail, i) = IF i = Len(list) + 1 THEN tail ELSE list[i]
  BY <1>1 DEF Spot
<1>5. /\ \A i \in 0 .. Len(list) : i = 0 \/ i \in 1 .. Len(list)
      /\ \A i \in 1 .. Len(list) + 1 : i = Len(list) + 1 \/ i \in 1 .. Len(list)
  BY <1>1
<1>. QED
  BY <1>1, <1>2, <1>3, <1>4, <1>5

(* What is in a whole list has its neighbours there, or head or tail.      *)
LEMMA WholeLinks ==
  ASSUME NEW nodes, NEW list, Distinct(list, nodes), NEW head, head \notin nodes,
         NEW tail, tail \notin nodes, NEW next, NEW prev,
         IsWhole(head, list, tail, next, prev)
  PROVE  /\ \A x \in Range(list) \cup {head} :
              next[x] \in Range(list) \cup {tail} /\ prev[next[x]] = x
         /\ \A x \in Range(list) \cup {tail} :
              prev[x] \in Range(list) \cup {head} /\ next[prev[x]] = x
         /\ \A x \in Range(list) : next[x] # x /\ prev[x] # x
         /\ Range(list) \subseteq nodes
<1>. DEFINE spot(i) == Spot(head, list, tail, i)
<1>1. Len(list) \in Nat /\ DOMAIN list = 1 .. Len(list) /\ \A i \in 1 .. Len(list) : list[i] \in nodes
  BY DEF Distinct
<1>2. \A i \in 0 .. Len(list) : next[spot(i)] = spot(i + 1) /\ prev[spot(i + 1)] = spot(i)
  BY DEF IsWhole
<1>3. /\ spot(0) = head /\ spot(Len(list) + 1) = tail
      /\ \A i \in 1 .. Len(list) : spot(i) = list[i]
  BY <1>1 DEF Spot
<1>4. /\ \A i, j \in 0 .. Len(list) : spot(i) = spot(j) => i = j
      /\ \A i, j \in 1 .. Len(list) + 1 : spot(i) = spot(j) => i = j
  BY SpotsDiffer
<1>. HIDE DEF spot
<1>5. /\ \A i \in 0 .. Len(list) : spot(i) \in Range(list) \cup {head}
      /\ \A i \in 1 .. Len(list) + 1 : spot(i) \in Range(list) \cup {tail}
  <2>1. \A i \in 1 .. Len(list) : spot(i) \in Range(list)
    BY <1>1, <1>3 DEF Range
  <2>2. /\ \A i \in 0 .. Len(list) : i = 0 \/ i \in 1 .. Len(list)
        /\ \A i \in 1 .. Len(list) + 1 : i = Len(list) + 1 \/ i \in 1 .. Len(list)
    BY <1>1
  <2>. QED
    BY <1>3, <2>1, <2>2
<1>6. ASSUME NEW x \in Range(list) \cup {head}
      PROVE  \E i \in 0 .. Len(list) : x = spot(i)
  <2>1. 0 \in 0 .. Len(list) /\ \A i \in 1 .. Len(list) : i \in 0 .. Len(list)
    BY <1>1
  <2>. QED
    BY <1>1, <1>3, <2>1 DEF Range
<1>7. ASSUME NEW x \in Range(list) \cup {tail}
      PROVE  \E i \in 0 .. Len(list) : x = spot(i + 1)
  <2>1. CASE x = tail
    BY <1>1, <1>3, <2>1
  <2>2. CASE x \in Range(list)
    <3>1. PICK i \in 1 .. Len(list) : x = spot(i)
      BY <1>1, <1>3, <2>2 DEF Range
    <3>2. i - 1 \in 0 .. Len(list) /\ i - 1 + 1 = i
      BY <1>1
    <3>. QED
      BY <3>1, <3>2
  <2>. QED
    BY <2>1, <2>2
<1>8. \A i \in 0 .. Len(list) : i + 1 \in 1 .. Len(list) + 1
  BY <1>1
<1>9. ASSUME NEW x \in Range(list) \cup {head}
      PROVE  next[x] \in Range(list) \cup {tail} /\ prev[next[x]] = x
  BY <1>2, <1>5, <1>6, <1>8
<1>10. ASSUME NEW x \in Range(list) \cup {tail}
       PROVE  prev[x] \in Range(list) \cup {head} /\ next[prev[x]] = x
  BY <1>2, <1>5, <1>7
<1>11. ASSUME NEW x \in Range(list)
       PROVE  next[x] # x /\ prev[x] # x
  <2>1. PICK i \in 1 .. Len(list) : x = spot(i)
    BY <1>1, <1>3 DEF Range
  <2>2. /\ i \in 0 .. Len(list) /\ i - 1 \in 0 .. Len(list) /\ i - 1 + 1 = i
        /\ i \in 1 .. Len(list) + 1 /\ i + 1 \in 1 .. Len(list) + 1
        /\ i # i + 1 /\ i # i - 1
    BY <1>1
  <2>3. next[x] = spot(i + 1) /\ prev[x] = spot(i - 1)
    BY <1>2, <2>1, <2>2
  <2>. QED
    BY <1>4, <2>1, <2>2, <2>3
<1>12. Range(list) \subseteq nodes
  BY <1>1 DEF Range
<1>. QED
  BY <1>9, <1>10, <1>11, <1>12

(* Nodes that are not in the list, and the links that lead to and from     *)
(* nodes not in it, are not the list's concern.                            *)
LEMMA WholeFrame ==
  ASSUME NEW nodes, NEW list, Distinct(list, nodes), NEW head, head \notin nodes,
         NEW tail, tail \notin nodes, NEW next, NEW prev,
         IsWhole(head, list, tail, next, prev), NEW next2, NEW prev2,
         \A x \in Range(list) \cup {head} : next2[x] = next[x],
         \A x \in Range(list) \cup {tail} : prev2[x] = prev[x]
  PROVE  IsWhole(head, list, tail, next2, prev2)
<1>. DEFINE spot(i) == Spot(head, list, tail, i)
<1>1. Len(list) \in Nat /\ DOMAIN list = 1 .. Len(list)
  BY DEF Distinct
<1>2. \A i \in 0 .. Len(list) : next[spot(i)] = spot(i + 1) /\ prev[spot(i + 1)] = spot(i)
  BY DEF IsWhole
<1>3. \A i \in 0 .. Len(list) :
        spot(i) \in Range(list) \cup {head} /\ spot(i + 1) \in Range(list) \cup {tail}
  <2>1. ASSUME NEW i \in 0 .. Len(list)
        PROVE  spot(i) \in Range(list) \cup {head}
    <3>1. i = 0 \/ (i \in 1 .. Len(list) /\ i # 0 /\ i # Len(list) + 1)
      BY <1>1
    <3>. QED
      BY <1>1, <3>1 DEF Spot, Range
  <2>2. ASSUME NEW i \in 0 .. Len(list)
        PROVE  spot(i + 1) \in Range(list) \cup {tail}
    <3>1. \/ i + 1 # 0 /\ i + 1 = Len(list) + 1
          \/ i + 1 \in 1 .. Len(list) /\ i + 1 # 0 /\ i + 1 # Len(list) + 1
      BY <1>1
    <3>. QED
      BY <1>1, <3>1 DEF Spot, Range
  <2>. QED
    BY <2>1, <2>2
<1>. HIDE DEF spot
<1>4. \A i \in 0 .. Len(list) : next2[spot(i)] = spot(i + 1) /\ prev2[spot(i + 1)] = spot(i)
  BY <1>2, <1>3
<1>. QED
  BY <1>4 DEF IsWhole, spot

(* To link the neighbours of a node to each other takes it out.            *)
LEMMA WholeRemove ==
  ASSUME NEW nodes, NEW list, Distinct(list, nodes), NEW head, head \notin nodes,
         NEW tail, tail \notin nodes, NEW next, NEW prev,
         IsWhole(head, list, tail, next, prev), NEW i \in 1 .. Len(list),
         NEW next2, NEW prev2,
         LET p == prev[list[i]]
             q == next[list[i]]
         IN  /\ next2[p] = q /\ \A x \in nodes \cup {head} : x # p => next2[x] = next[x]
             /\ prev2[q] = p /\ \A x \in nodes \cup {tail} : x # q => prev2[x] = prev[x]
  PROVE  IsWhole(head, RemoveAt(list, i), tail, next2, prev2)
<1>. DEFINE rest == RemoveAt(list, i)
            spot(j) == Spot(head, list, tail, j)
            left(j) == Spot(head, rest, tail, j)
<1>1. Len(list) \in Nat /\ i \in Nat /\ i >= 1 /\ i <= Len(list)
  BY DEF Distinct
<1>2. \A j \in 0 .. Len(list) : next[spot(j)] = spot(j + 1) /\ prev[spot(j + 1)] = spot(j)
  BY DEF IsWhole
<1>3. /\ Len(rest) = Len(list) - 1
      /\ \A j \in 1 .. Len(list) - 1 : rest[j] = IF j < i THEN list[j] ELSE list[j + 1]
  BY RemoveAtIs DEF Distinct
<1>4. /\ \A j, k \in 0 .. Len(list) : spot(j) = spot(k) => j = k
      /\ \A j, k \in 1 .. Len(list) + 1 : spot(j) = spot(k) => j = k
      /\ \A j \in 0 .. Len(list) : spot(j) \in nodes \cup {head}
      /\ \A j \in 1 .. Len(list) + 1 : spot(j) \in nodes \cup {tail}
  BY SpotsDiffer
<1>5. spot(i) = list[i]
  BY <1>1 DEF Spot
<1>. HIDE DEF rest
<1>6. ASSUME NEW j \in 0 .. Len(list)
      PROVE  left(j) = IF j < i THEN spot(j) ELSE spot(j + 1)
  <2>1. CASE j = 0
    BY <1>1, <2>1 DEF Spot
  <2>2. CASE j = Len(list)
    BY <1>1, <1>3, <2>2 DEF Spot
  <2>3. CASE j # 0 /\ j # Len(list)
    <3>1. /\ j \in 1 .. Len(list) - 1 /\ j # Len(list) - 1 + 1 /\ j # Len(list) + 1
          /\ j + 1 # 0 /\ j + 1 # Len(list) + 1
      BY <1>1, <2>3
    <3>. QED
      BY <1>3, <2>3, <3>1 DEF Spot
  <2>. QED
    BY <2>1, <2>2, <2>3
<1>. HIDE DEF spot, left
<1>7. /\ i - 1 \in 0 .. Len(list) /\ i - 1 + 1 = i /\ i \in 0 .. Len(list)
      /\ i + 1 \in 1 .. Len(list) + 1
  BY <1>1
<1>8. prev[list[i]] = spot(i - 1) /\ next[list[i]] = spot(i + 1)
  BY <1>2, <1>5, <1>7
<1>9. /\ next2[spot(i - 1)] = spot(i + 1)
      /\ \A x \in nodes \cup {head} : x # spot(i - 1) => next2[x] = next[x]
      /\ prev2[spot(i + 1)] = spot(i - 1)
      /\ \A x \in nodes \cup {tail} : x # spot(i + 1) => prev2[x] = prev[x]
  BY <1>8
<1>10. ASSUME NEW j \in 0 .. Len(list), j # i - 1
       PROVE  next2[spot(j)] = spot(j + 1)
  BY <1>2, <1>4, <1>7, <1>9, <1>10
<1>11. ASSUME NEW j \in 0 .. Len(list), j # i
       PROVE  prev2[spot(j + 1)] = spot(j)
  <2>1. j + 1 \in 1 .. Len(list) + 1 /\ j + 1 # i + 1
    BY <1>1, <1>11
  <2>. QED
    BY <1>2, <1>4, <1>7, <1>9, <2>1
<1>12. ASSUME NEW j \in 0 .. Len(list) - 1
       PROVE  next2[left(j)] = left(j + 1) /\ prev2[left(j + 1)] = left(j)
  <2>0. j \in 0 .. Len(list) /\ j + 1 \in 0 .. Len(list)
    BY <1>1
  <2>1. CASE j + 1 < i
    <3>1. left(j) = spot(j) /\ left(j + 1) = spot(j + 1) /\ j # i - 1 /\ j # i
      BY <1>6, <2>0, <2>1
    <3>. QED
      BY <1>10, <1>11, <2>0, <3>1
  <2>2. CASE j + 1 = i
    <3>1. left(j) = spot(i - 1) /\ left(j + 1) = spot(i + 1)
      BY <1>1, <1>6, <2>0, <2>2
    <3>. QED
      BY <1>9, <3>1
  <2>3. CASE j + 1 > i
    <3>1. left(j) = spot(j + 1) /\ left(j + 1) = spot(j + 2) /\ j + 1 # i - 1 /\ j + 1 # i
      BY <1>1, <1>6, <2>0, <2>3
    <3>2. j + 1 + 1 = j + 2
      BY <2>0
    <3>3. next2[spot(j + 1)] = spot(j + 1 + 1) /\ prev2[spot(j + 1 + 1)] = spot(j + 1)
      BY <1>10, <1>11, <2>0, <3>1
    <3>. QED
      BY <3>1, <3>2, <3>3
  <2>4. j + 1 < i \/ j + 1 = i \/ j + 1 > i
    BY <1>1
  <2>. QED
    BY <2>1, <2>2, <2>3, <2>4
<1>13. \A j \in 0 .. Len(rest) : next2[left(j)] = left(j + 1) /\ prev2[left(j + 1)] = left(j)
  BY <1>3, <1>12
<1>. QED
  BY <1>13 DEF IsWhole, left, rest

(* To link a new node between the last one and the tail appends it.        *)
LEMMA WholeAppend ==
  ASSUME NEW nodes, NEW list, Distinct(list, nodes), NEW head, head \notin nodes,
         NEW tail, tail \notin nodes, NEW next, NEW prev,
         IsWhole(head, list, tail, next, prev), NEW n \in nodes, n \notin Range(list),
         NEW next2, NEW prev2,
         LET p == prev[tail]
         IN  /\ next2[p] = n /\ next2[n] = tail
             /\ \A x \in nodes \cup {head} : x # p /\ x # n => next2[x] = next[x]
             /\ prev2[n] = p /\ prev2[tail] = n
             /\ \A x \in nodes : x # n => prev2[x] = prev[x]
  PROVE  /\ Distinct(Append(list, n), nodes)
         /\ Range(Append(list, n)) = Range(list) \cup {n}
         /\ IsWhole(head, Append(list, n), tail, next2, prev2)
<1>. DEFINE more == Append(list, n)
            spot(j) == Spot(head, list, tail, j)
            left(j) == Spot(head, more, tail, j)
<1>1. /\ Len(list) \in Nat /\ DOMAIN list = 1 .. Len(list)
      /\ \A j \in 1 .. Len(list) : list[j] \in nodes
      /\ \A j, k \in 1 .. Len(list) : list[j] = list[k] => j = k
  BY DEF Distinct, IsInjective
<1>2. \A j \in 0 .. Len(list) : next[spot(j)] = spot(j + 1) /\ prev[spot(j + 1)] = spot(j)
  BY DEF IsWhole
<1>3. /\ more \in Seq(nodes) /\ Len(more) = Len(list) + 1 /\ DOMAIN more = 1 .. Len(list) + 1
      /\ more[Len(list) + 1] = n
      /\ \A j \in 1 .. Len(list) : more[j] = list[j]
  <2>1. /\ more \in Seq(nodes) /\ Len(more) = Len(list) + 1
        /\ more[Len(list) + 1] = n
        /\ \A j \in 1 .. Len(list) : more[j] = list[j]
    BY AppendProperties DEF Distinct
  <2>2. DOMAIN more = 1 .. Len(more)
    BY <2>1, LenProperties
  <2>. QED
    BY <2>1, <2>2
<1>4. /\ \A j, k \in 0 .. Len(list) : spot(j) = spot(k) => j = k
      /\ \A j, k \in 1 .. Len(list) + 1 : spot(j) = spot(k) => j = k
      /\ \A j \in 0 .. Len(list) : spot(j) \in nodes \cup {head}
      /\ \A j \in 1 .. Len(list) + 1 : spot(j) \in nodes \cup {tail}
  BY SpotsDiffer
<1>. HIDE DEF more
<1>5. \A j \in 1 .. Len(list) : list[j] # n
  BY <1>1 DEF Range
<1>6. \A j \in 1 .. Len(list) + 1 : j = Len(list) + 1 \/ j \in 1 .. Len(list)
  BY <1>1
<1>7. Distinct(more, nodes)
  BY <1>1, <1>3, <1>5, <1>6 DEF Distinct, IsInjective
<1>8. Range(more) = Range(list) \cup {n}
  <2>1. Range(more) = {more[j] : j \in 1 .. Len(list) + 1}
    BY <1>3 DEF Range
  <2>2. Range(list) = {list[j] : j \in 1 .. Len(list)}
    BY <1>1 DEF Range
  <2>3. Len(list) + 1 \in 1 .. Len(list) + 1 /\ \A j \in 1 .. Len(list) : j \in 1 .. Len(list) + 1
    BY <1>1
  <2>. QED
    BY <1>3, <1>6, <2>1, <2>2, <2>3
<1>9. /\ \A j \in 0 .. Len(list) : left(j) = spot(j)
      /\ left(Len(list) + 1) = n /\ left(Len(list) + 2) = tail
  <2>1. left(Len(list) + 1) = n /\ left(Len(list) + 2) = tail
    BY <1>1, <1>3 DEF Spot
  <2>2. ASSUME NEW j \in 0 .. Len(list)
        PROVE  left(j) = spot(j)
    <3>1. j = 0 \/ (j \in 1 .. Len(list) /\ j # 0 /\ j # Len(list) + 1 /\ j # Len(list) + 1 + 1)
      BY <1>1
    <3>. QED
      BY <1>3, <3>1 DEF Spot
  <2>. QED
    BY <2>1, <2>2
<1>10. spot(Len(list) + 1) = tail
  BY <1>1 DEF Spot
<1>11. \A j \in 0 .. Len(list) : spot(j) # n
  <2>1. \A j \in 1 .. Len(list) : spot(j) = list[j]
    BY <1>1 DEF Spot
  <2>2. spot(0) = head
    BY DEF Spot
  <2>3. \A j \in 0 .. Len(list) : j = 0 \/ j \in 1 .. Len(list)
    BY <1>1
  <2>. HIDE DEF spot
  <2>. QED
    BY <1>5, <2>1, <2>2, <2>3
<1>. HIDE DEF spot, left
<1>12. prev[tail] = spot(Len(list)) /\ Len(list) \in 0 .. Len(list)
  BY <1>1, <1>2, <1>10
<1>13. ASSUME NEW j \in 0 .. Len(list) + 1
       PROVE  next2[left(j)] = left(j + 1) /\ prev2[left(j + 1)] = left(j)
  <2>1. CASE j < Len(list)
    <3>1. /\ j \in 0 .. Len(list) /\ j + 1 \in 0 .. Len(list) /\ j # Len(list)
          /\ j + 1 \in 1 .. Len(list) + 1 /\ j + 1 # Len(list) + 1 /\ Len(list) + 1 \in 1 .. Len(list) + 1
      <4>1. Len(list) \in Nat
        BY <1>1
      <4>. QED
        BY <2>1, <4>1
    <3>2. spot(j) # spot(Len(list)) /\ spot(j + 1) # tail
      BY <1>4, <1>10, <1>12, <3>1
    <3>3. next2[spot(j)] = next[spot(j)] /\ prev2[spot(j + 1)] = prev[spot(j + 1)]
      BY <1>4, <1>11, <1>12, <3>1, <3>2
    <3>. QED
      BY <1>2, <1>9, <3>1, <3>3
  <2>2. CASE j = Len(list)
    BY <1>9, <1>12, <2>2
  <2>3. CASE j = Len(list) + 1
    <3>1. j + 1 = Len(list) + 2
      BY <1>1, <2>3
    <3>2. left(j) = n /\ left(j + 1) = tail
      BY <1>9, <2>3, <3>1
    <3>3. next2[n] = tail /\ prev2[tail] = n
      OBVIOUS
    <3>. QED
      BY <3>2, <3>3
  <2>4. j < Len(list) \/ j = Len(list) \/ j = Len(list) + 1
    <3>1. Len(list) \in Nat
      BY <1>1
    <3>. QED
      BY <3>1
  <2>. QED
    BY <2>1, <2>2, <2>3, <2>4
<1>14. \A j \in 0 .. Len(more) : next2[left(j)] = left(j + 1) /\ prev2[left(j + 1)] = left(j)
  BY <1>3, <1>13
<1>15. IsWhole(head, more, tail, next2, prev2)
  BY <1>14 DEF IsWhole, left
<1>. QED
  BY <1>7, <1>8, <1>15 DEF more

(* A walk of all nodes finds the list.                                     *)
LEMMA FollowWhole ==
  ASSUME NEW nodes, IsFiniteSet(nodes), NEW list, Distinct(list, nodes),
         NEW head, NEW tail, tail \notin nodes, NEW next, NEW prev,
         IsWhole(head, list, tail, next, prev)
  PROVE  Follow(next[head], next, nodes, Cardinality(nodes)) = list
<1>1. Leads(list, next[head], next, tail)
  BY WholeLeads
<1>2. Cardinality(nodes) \in Nat
  BY FS_CardinalityType
<1>3. list \in Seq(nodes) /\ Len(list) \in Nat
  BY DEF Distinct
<1>4. Len(list) <= Cardinality(nodes) + 1
  BY <1>2, <1>3, DistinctFits
<1>. QED
  BY <1>1, <1>2, <1>3, <1>4, FollowIs

(* To take out the first node leaves the tail.                             *)
LEMMA TailIsRemoveAt ==
  ASSUME NEW nodes, NEW list \in Seq(nodes), list # <<>>
  PROVE  RemoveAt(list, 1) = Tail(list) /\ 1 \in 1 .. Len(list) /\ Head(list) = list[1]
<1>1. 1 \in 1 .. Len(list) /\ Head(list) = list[1]
  BY EmptySeq
<1>2. SubSeq(list, 1, 0) = <<>> /\ SubSeq(list, 2, Len(list)) = Tail(list)
  BY <1>1, SubSeqEmpty, TailIsSubSeq
<1>3. RemoveAt(list, 1) = SubSeq(list, 1, 1 - 1) \o SubSeq(list, 1 + 1, Len(list))
  BY Zenon DEF RemoveAt
<1>4. RemoveAt(list, 1) = <<>> \o Tail(list)
  <2>1. 1 - 1 = 0 /\ 1 + 1 = 2
    OBVIOUS
  <2>. QED
    BY <1>2, <1>3, <2>1
<1>. QED
  BY <1>1, <1>4, HeadTailProperties, ConcatEmptySeq

(* The list without its first node.                                        *)
LEMMA TailDistinct ==
  ASSUME NEW nodes, NEW list, Distinct(list, nodes), list # <<>>
  PROVE  /\ Distinct(Tail(list), nodes)
         /\ Range(Tail(list)) = Range(list) \ {Head(list)}
<1>1. /\ list \in Seq(nodes) /\ 1 \in 1 .. Len(list) /\ Head(list) = list[1]
      /\ RemoveAt(list, 1) = Tail(list)
  BY TailIsRemoveAt DEF Distinct
<1>2. /\ Distinct(RemoveAt(list, 1), nodes)
      /\ Range(RemoveAt(list, 1)) = Range(list) \ {list[1]}
  BY <1>1, RemoveAtDistinct
<1>. QED
  BY <1>1, <1>2, Zenon

(* The list behind a new node.                                             *)
LEMMA ConsDistinct ==
  ASSUME NEW nodes, NEW list, Distinct(list, nodes), NEW n \in nodes, n \notin Range(list)
  PROVE  /\ Distinct(<<n>> \o list, nodes)
         /\ Range(<<n>> \o list) = Range(list) \cup {n}
<1>. DEFINE more == <<n>> \o list
<1>1. /\ Len(list) \in Nat /\ DOMAIN list = 1 .. Len(list) /\ list \in Seq(nodes)
      /\ \A i, j \in 1 .. Len(list) : list[i] = list[j] => i = j
  BY DEF Distinct, IsInjective
<1>2. /\ more \in Seq(nodes) /\ DOMAIN more = 1 .. Len(list) + 1
      /\ \A i \in 1 .. Len(list) + 1 : more[i] = IF i = 1 THEN n ELSE list[i - 1]
  <2>1. <<n>> \in Seq(nodes) /\ Len(<<n>>) = 1
    OBVIOUS
  <2>2. /\ more \in Seq(nodes) /\ Len(more) = 1 + Len(list)
        /\ \A i \in 1 .. 1 + Len(list) : more[i] = IF i <= 1 THEN <<n>>[i] ELSE list[i - 1]
    BY <1>1, <2>1, ConcatProperties
  <2>. HIDE DEF more
  <2>3. DOMAIN more = 1 .. Len(more)
    BY <2>2
  <2>. QED
    BY <1>1, <2>2, <2>3
<1>. HIDE DEF more
<1>3. \A i \in 1 .. Len(list) : list[i] # n
  BY <1>1 DEF Range
<1>4. \A i \in 1 .. Len(list) + 1 : i = 1 \/ (i - 1 \in 1 .. Len(list) /\ i # 1)
  BY <1>1
<1>5. IsInjective(more)
  <2>1. ASSUME NEW i \in 1 .. Len(list) + 1, NEW j \in 1 .. Len(list) + 1, more[i] = more[j]
        PROVE  i = j
    <3>1. (i = 1 /\ j = 1) \/ (i # 1 /\ j # 1)
      BY <1>2, <1>3, <1>4, <2>1
    <3>2. CASE i # 1 /\ j # 1
      <4>1. i - 1 = j - 1
        BY <1>1, <1>2, <1>4, <2>1, <3>2
      <4>. QED
        BY <4>1
    <3>. QED
      BY <3>1, <3>2
  <2>. QED
    BY <1>2, <2>1 DEF IsInjective
<1>6. Range(more) = Range(list) \cup {n}
  <2>1. ASSUME NEW x \in Range(more) PROVE x \in Range(list) \cup {n}
    BY <1>1, <1>2, <1>4 DEF Range
  <2>2. n \in Range(more)
    <3>1. 1 \in 1 .. Len(list) + 1
      BY <1>1
    <3>. QED
      BY <1>2, <3>1 DEF Range
  <2>3. ASSUME NEW x \in Range(list) PROVE x \in Range(more)
    <3>1. PICK i \in 1 .. Len(list) : x = list[i]
      BY <1>1 DEF Range
    <3>2. i + 1 \in 1 .. Len(list) + 1 /\ i + 1 # 1 /\ i + 1 - 1 = i
      BY <1>1
    <3>3. more[i + 1] = list[i]
      BY <1>2, <3>2
    <3>. QED
      BY <1>2, <3>1, <3>2, <3>3 DEF Range
  <2>. QED
    BY <2>1, <2>2, <2>3
<1>. QED
  BY <1>2, <1>5, <1>6 DEF Distinct, more

-----------------------------------------------------------------------------
(* The list that Follow finds from start on ends in stop, and has no node  *)
(* twice.                                                                  *)
Arrives(start, succ, stop, nodes, more) ==
  /\ Distinct(Follow(start, succ, nodes, more), nodes)
  /\ Leads(Follow(start, succ, nodes, more), start, succ, stop)

(* A list that leads to stop is the one that Follow finds.                 *)
LEMMA EndsIs ==
  ASSUME NEW nodes, IsFiniteSet(nodes), NEW more \in Nat, Cardinality(nodes) <= more + 1,
         NEW stop, stop \notin nodes, NEW start, NEW succ, NEW list,
         Distinct(list, nodes), Leads(list, start, succ, stop)
  PROVE  Follow(start, succ, nodes, more) = list /\ Arrives(start, succ, stop, nodes, more)
<1>1. list \in Seq(nodes) /\ Len(list) \in Nat /\ Cardinality(nodes) \in Nat
  BY FS_CardinalityType DEF Distinct
<1>2. Len(list) <= more + 1
  BY <1>1, DistinctFits
<1>3. Follow(start, succ, nodes, more) = list
  BY <1>1, <1>2, FollowIs
<1>. QED
  BY <1>3 DEF Arrives

(* Nothing follows stop.                                                   *)
LEMMA EndsAtOnce ==
  ASSUME NEW nodes, NEW more, NEW stop, stop \notin nodes, NEW succ
  PROVE  Follow(stop, succ, nodes, more) = <<>> /\ Arrives(stop, succ, stop, nodes, more)
<1>1. Follow(stop, succ, nodes, more) = <<>>
  BY DEF Follow
<1>. QED
  BY <1>1 DEF Arrives, Distinct, Leads, IsInjective

(* Links of other nodes do not matter.                                     *)
LEMMA EndsFrame ==
  ASSUME NEW nodes, IsFiniteSet(nodes), NEW more \in Nat, Cardinality(nodes) <= more + 1,
         NEW stop, stop \notin nodes, NEW start, NEW succ, NEW succ2,
         Arrives(start, succ, stop, nodes, more),
         \A n \in Range(Follow(start, succ, nodes, more)) : succ2[n] = succ[n]
  PROVE  /\ Follow(start, succ2, nodes, more) = Follow(start, succ, nodes, more)
         /\ Arrives(start, succ2, stop, nodes, more)
<1>. DEFINE list == Follow(start, succ, nodes, more)
<1>1. Distinct(list, nodes) /\ Leads(list, start, succ, stop)
  BY DEF Arrives
<1>2. DOMAIN list = 1 .. Len(list) /\ Len(list) \in Nat
  BY <1>1 DEF Distinct
<1>3. \A i \in 1 .. Len(list) : succ2[list[i]] = succ[list[i]]
  BY <1>2 DEF Range
<1>. HIDE DEF list
<1>4. Leads(list, start, succ2, stop)
  <2>1. CASE list = <<>>
    BY <1>1, <2>1 DEF Leads
  <2>2. CASE list # <<>>
    <3>1. Len(list) \in 1 .. Len(list)
      BY <1>1, <2>2, EmptySeq DEF Distinct
    <3>. QED
      BY <1>1, <1>2, <1>3, <2>2, <3>1 DEF Leads
  <2>. QED
    BY <2>1, <2>2
<1>. QED
  BY <1>1, <1>4, EndsIs DEF list

(* A node before the first.                                                *)
LEMMA EndsCons ==
  ASSUME NEW nodes, IsFiniteSet(nodes), NEW more \in Nat, Cardinality(nodes) <= more + 1,
         NEW stop, stop \notin nodes, NEW succ, NEW n \in nodes,
         Arrives(succ[n], succ, stop, nodes, more),
         n \notin Range(Follow(succ[n], succ, nodes, more))
  PROVE  /\ Follow(n, succ, nodes, more) = <<n>> \o Follow(succ[n], succ, nodes, more)
         /\ Arrives(n, succ, stop, nodes, more)
         /\ Range(Follow(n, succ, nodes, more)) = Range(Follow(succ[n], succ, nodes, more)) \cup {n}
<1>. DEFINE list == Follow(succ[n], succ, nodes, more)
            longer == <<n>> \o list
<1>1. Distinct(list, nodes) /\ Leads(list, succ[n], succ, stop)
  BY DEF Arrives
<1>2. Distinct(longer, nodes) /\ Range(longer) = Range(list) \cup {n}
  BY <1>1, ConsDistinct
<1>3. list \in Seq(nodes) /\ Len(list) \in Nat
  BY <1>1 DEF Distinct
<1>4. Leads(longer, n, succ, stop)
  <2>1. Len(longer) = Len(list) + 1 /\ longer[1] = n /\ longer # <<>>
        /\ \A i \in 1 .. Len(list) : longer[i + 1] = list[i]
    BY <1>3
  <2>2. CASE list = <<>>
    BY <1>1, <2>1, <2>2 DEF Leads
  <2>3. CASE list # <<>>
    <3>1. 1 \in 1 .. Len(list) /\ Len(list) \in 1 .. Len(list)
      BY <1>3, <2>3, EmptySeq
    <3>2. /\ succ[n] = list[1] /\ succ[list[Len(list)]] = stop
          /\ \A i \in 1 .. Len(list) - 1 : succ[list[i]] = list[i + 1]
      BY <1>1, <2>3 DEF Leads
    <3>. HIDE DEF list, longer
    <3>3. succ[longer[Len(longer)]] = stop
      BY <2>1, <3>1, <3>2
    <3>4. ASSUME NEW i \in 1 .. Len(longer) - 1
          PROVE  succ[longer[i]] = longer[i + 1]
      <4>1. CASE i = 1
        BY <2>1, <3>1, <3>2, <4>1
      <4>2. CASE i # 1
        <5>1. i - 1 \in 1 .. Len(list) - 1 /\ i \in 1 .. Len(list) /\ i - 1 \in 1 .. Len(list)
          BY <1>3, <2>1, <4>2
        <5>2. longer[i - 1 + 1] = list[i - 1] /\ i - 1 + 1 = i /\ longer[i + 1] = list[i]
          BY <2>1, <5>1
        <5>3. succ[list[i - 1]] = list[i - 1 + 1]
          BY <3>2, <5>1
        <5>. QED
          BY <5>2, <5>3
      <4>. QED
        BY <4>1, <4>2
    <3>. QED
      BY <2>1, <3>3, <3>4 DEF Leads
  <2>. QED
    BY <2>2, <2>3
<1>. HIDE DEF list, longer
<1>5. /\ Follow(n, succ, nodes, more) = longer
      /\ Arrives(n, succ, stop, nodes, more)
  BY <1>2, <1>4, EndsIs
<1>. QED
  BY <1>2, <1>5 DEF list, longer

(* A list that begins with a node goes on with what that node leads to.    *)
LEMMA EndsRest ==
  ASSUME NEW nodes, IsFiniteSet(nodes), NEW more \in Nat, Cardinality(nodes) <= more + 1,
         NEW stop, stop \notin nodes, NEW succ, NEW n \in nodes,
         Arrives(n, succ, stop, nodes, more)
  PROVE  /\ Arrives(succ[n], succ, stop, nodes, more)
         /\ Follow(n, succ, nodes, more) = <<n>> \o Follow(succ[n], succ, nodes, more)
         /\ Range(Follow(succ[n], succ, nodes, more)) = Range(Follow(n, succ, nodes, more)) \ {n}
         /\ n \in Range(Follow(n, succ, nodes, more))
<1>. DEFINE list == Follow(n, succ, nodes, more)
            rest == Tail(list)
<1>1. Distinct(list, nodes) /\ Leads(list, n, succ, stop)
  BY DEF Arrives
<1>2. list # <<>>
  BY <1>1 DEF Leads
<1>. HIDE DEF list
<1>3. /\ list \in Seq(nodes) /\ Len(list) \in Nat /\ 1 \in 1 .. Len(list)
      /\ DOMAIN list = 1 .. Len(list)
  BY <1>1, <1>2, EmptySeq DEF Distinct
<1>4. /\ list[1] = n /\ succ[list[Len(list)]] = stop /\ Head(list) = n
      /\ \A i \in 1 .. Len(list) - 1 : succ[list[i]] = list[i + 1]
  BY <1>1, <1>2, <1>3 DEF Leads
<1>5. Distinct(rest, nodes) /\ Range(rest) = Range(list) \ {n}
  BY <1>1, <1>2, <1>4, TailDistinct
<1>6. rest \in Seq(nodes) /\ Len(rest) = Len(list) - 1 /\ \A i \in 1 .. Len(rest) : rest[i] = list[i + 1]
  BY <1>2, <1>3, HeadTailProperties
<1>7. list = <<n>> \o rest
  BY <1>2, <1>3, <1>4
<1>. HIDE DEF rest
<1>8. Leads(rest, succ[n], succ, stop)
  <2>1. CASE Len(list) = 1
    <3>1. rest = <<>>
      BY <1>6, <2>1, EmptySeq
    <3>. QED
      BY <1>4, <2>1, <3>1 DEF Leads
  <2>2. CASE Len(list) # 1
    <3>1. 1 \in 1 .. Len(rest) /\ 1 \in 1 .. Len(list) - 1 /\ Len(rest) \in 1 .. Len(rest)
          /\ rest # <<>> /\ Len(rest) + 1 = Len(list)
      BY <1>3, <1>6, <2>2
    <3>2. rest[1] = succ[n] /\ succ[rest[Len(rest)]] = stop
      BY <1>4, <1>6, <3>1
    <3>3. ASSUME NEW i \in 1 .. Len(rest) - 1 PROVE succ[rest[i]] = rest[i + 1]
      <4>1. i + 1 \in 1 .. Len(list) - 1 /\ i \in 1 .. Len(rest) /\ i + 1 \in 1 .. Len(rest)
        BY <1>3, <1>6
      <4>. QED
        BY <1>4, <1>6, <4>1
    <3>. QED
      BY <3>1, <3>2, <3>3 DEF Leads
  <2>. QED
    BY <2>1, <2>2
<1>9. Follow(succ[n], succ, nodes, more) = rest /\ Arrives(succ[n], succ, stop, nodes, more)
  BY <1>5, <1>8, EndsIs
<1>10. n \in Range(list)
  BY <1>3, <1>4 DEF Range
<1>. QED
  BY <1>5, <1>7, <1>9, <1>10 DEF list

(* Every node but the first is what another leads to.                      *)
LEMMA EndsReached ==
  ASSUME NEW nodes, NEW more, NEW stop, NEW start, NEW succ,
         Arrives(start, succ, stop, nodes, more),
         NEW n \in Range(Follow(start, succ, nodes, more))
  PROVE  n \in nodes /\ (n = start \/ \E m \in Range(Follow(start, succ, nodes, more)) : succ[m] = n)
<1>. DEFINE list == Follow(start, succ, nodes, more)
<1>1. Distinct(list, nodes) /\ Leads(list, start, succ, stop)
  BY DEF Arrives
<1>. HIDE DEF list
<1>2. list \in Seq(nodes) /\ DOMAIN list = 1 .. Len(list) /\ Len(list) \in Nat
  BY <1>1 DEF Distinct
<1>3. PICK i \in 1 .. Len(list) : list[i] = n
  BY <1>2 DEF Range, list
<1>4. list # <<>> /\ list[i] \in nodes
  BY <1>2, <1>3
<1>5. CASE i = 1
  BY <1>1, <1>3, <1>4, <1>5 DEF Leads
<1>6. CASE i # 1
  <2>1. i - 1 \in 1 .. Len(list) - 1 /\ i - 1 \in DOMAIN list /\ i - 1 + 1 = i
    BY <1>2, <1>3, <1>6
  <2>2. succ[list[i - 1]] = n
    BY <1>1, <1>3, <1>4, <2>1 DEF Leads
  <2>3. list[i - 1] \in Range(list)
    BY <2>1 DEF Range
  <2>. QED
    BY <1>3, <1>4, <2>2, <2>3 DEF list
<1>. QED
  BY <1>5, <1>6

(* A sequence is a suffix of itself, and of one with an element before it. *)
LEMMA SuffixOfSame ==
  ASSUME NEW S, NEW s \in Seq(S)
  PROVE  IsSuffix(s, s)
BY DEF IsSuffix, IsPrefix, Reverse

(* A chain that has grown at its head ends in the chain it was.            *)
LEMMA SuffixOfCons ==
  ASSUME NEW S, NEW s \in Seq(S), NEW e \in S
  PROVE  IsSuffix(s, <<e>> \o s)
<1>. DEFINE t == <<e>> \o s
            rs == Reverse(s)
            rt == Reverse(t)
            n == Len(s)
<1>1. /\ n \in Nat /\ t \in Seq(S) /\ Len(t) = n + 1
      /\ \A i \in 1 .. n : t[i + 1] = s[i]
  OBVIOUS
<1>. HIDE DEF t
<1>2. /\ rs \in Seq(S) /\ Len(rs) = n /\ \A i \in 1 .. n : rs[i] = s[n - i + 1]
  BY <1>1 DEF Reverse
<1>3. /\ rt \in Seq(S) /\ Len(rt) = n + 1 /\ \A i \in 1 .. n + 1 : rt[i] = t[n + 1 - i + 1]
  BY <1>1 DEF Reverse
<1>. HIDE DEF rs, rt, n
<1>4. \A i \in 1 .. n : rt[i] = rs[i]
  <2>. SUFFICES ASSUME NEW i \in 1 .. n PROVE rt[i] = rs[i]
    OBVIOUS
  <2>1. n - i + 1 \in 1 .. n /\ i \in 1 .. n + 1 /\ n + 1 - i + 1 = n - i + 1 + 1
    BY <1>1
  <2>. QED
    BY <1>1, <1>2, <1>3, <2>1
<1>5. SubSeq(rs, 1, n) = SubSeq(rt, 1, n)
  <2>1. \A i \in 1 .. n : i \in 1 .. n + 1
    BY <1>1
  <2>. QED
    BY <1>1, <1>2, <1>3, <1>4, <2>1
<1>. QED
  BY <1>1, <1>2, <1>3, <1>5 DEF IsSuffix, IsPrefix, rs, rt, n, t

(* A sequence is a suffix of what it is appended to.                       *)
LEMMA SuffixOfJoin ==
  ASSUME NEW S, NEW s \in Seq(S), NEW front \in Seq(S)
  PROVE  IsSuffix(s, front \o s)
<1>. DEFINE t == front \o s
            rs == Reverse(s)
            rt == Reverse(t)
            n == Len(s)
            m == Len(front)
<1>1. /\ n \in Nat /\ m \in Nat /\ t \in Seq(S) /\ Len(t) = m + n
      /\ \A i \in 1 .. n : t[m + i] = s[i]
  OBVIOUS
<1>. HIDE DEF t
<1>2. /\ rs \in Seq(S) /\ Len(rs) = n /\ \A i \in 1 .. n : rs[i] = s[n - i + 1]
  BY <1>1 DEF Reverse
<1>3. /\ rt \in Seq(S) /\ Len(rt) = m + n /\ \A i \in 1 .. m + n : rt[i] = t[m + n - i + 1]
  BY <1>1 DEF Reverse
<1>. HIDE DEF rs, rt, n, m
<1>4. \A i \in 1 .. n : rt[i] = rs[i]
  <2>. SUFFICES ASSUME NEW i \in 1 .. n PROVE rt[i] = rs[i]
    OBVIOUS
  <2>1. n - i + 1 \in 1 .. n /\ i \in 1 .. m + n /\ m + n - i + 1 = m + (n - i + 1)
    BY <1>1
  <2>. QED
    BY <1>1, <1>2, <1>3, <2>1
<1>5. SubSeq(rs, 1, n) = SubSeq(rt, 1, n)
  <2>1. \A i \in 1 .. n : i \in 1 .. m + n
    BY <1>1
  <2>. QED
    BY <1>1, <1>2, <1>3, <1>4, <2>1
<1>. QED
  BY <1>1, <1>2, <1>3, <1>5 DEF IsSuffix, IsPrefix, rs, rt, n, m, t

(* A node put in front of a list.                                          *)
LEMMA WholePrepend ==
  ASSUME NEW nodes, NEW list, Distinct(list, nodes), NEW head, head \notin nodes,
         NEW tail, tail \notin nodes, NEW next, NEW prev,
         IsWhole(head, list, tail, next, prev), NEW n \in nodes, n \notin Range(list),
         NEW next2, NEW prev2,
         LET q == next[head]
         IN  /\ next2[head] = n /\ next2[n] = q
             /\ \A x \in nodes : x # n => next2[x] = next[x]
             /\ prev2[q] = n /\ prev2[n] = head
             /\ \A x \in nodes \cup {tail} : x # q /\ x # n => prev2[x] = prev[x]
  PROVE  /\ Distinct(<<n>> \o list, nodes)
         /\ Range(<<n>> \o list) = Range(list) \cup {n}
         /\ IsWhole(head, <<n>> \o list, tail, next2, prev2)
<1>. DEFINE new == <<n>> \o list
            S(i) == Spot(head, list, tail, i)
            T(i) == Spot(head, new, tail, i)
<1>1. Distinct(new, nodes) /\ Range(new) = Range(list) \cup {n}
  BY ConsDistinct
<1>2. /\ list \in Seq(nodes) /\ Len(list) \in Nat /\ Len(new) = Len(list) + 1
      /\ new[1] = n /\ \A i \in 1 .. Len(list) : new[i + 1] = list[i]
  BY DEF Distinct
<1>. HIDE DEF new
<1>3. T(0) = head /\ T(1) = n /\ \A i \in 1 .. Len(list) + 1 : T(i + 1) = S(i)
  BY <1>2 DEF Spot
<1>4. \A i \in 0 .. Len(list) : next[S(i)] = S(i + 1) /\ prev[S(i + 1)] = S(i)
  BY DEF IsWhole
<1>5. S(0) = head /\ next[head] = S(1)
  BY <1>2, <1>4 DEF Spot
<1>6. \A i \in 1 .. Len(list) : S(i) = list[i] /\ S(i) \in nodes /\ S(i) # n
  BY <1>2 DEF Spot, Range
<1>7. \A i \in 1 .. Len(list) + 1 : S(i) \in nodes \cup {tail} /\ S(i) # n
  BY <1>2, <1>6 DEF Spot
<1>8. \A i \in 1 .. Len(list) + 1 : S(i) = S(1) => i = 1
  BY <1>2, SpotsDiffer
<1>. HIDE DEF S, T
<1>9. ASSUME NEW i \in 0 .. Len(new)
      PROVE  next2[T(i)] = T(i + 1) /\ prev2[T(i + 1)] = T(i)
  <2>1. CASE i = 0
    BY <1>3, <2>1
  <2>2. CASE i = 1
    <3>1. T(1) = n /\ T(2) = S(1)
      BY <1>2, <1>3
    <3>. QED
      BY <1>5, <2>2, <3>1
  <2>3. CASE i > 1
    <3>1. PICK j \in 1 .. Len(list) : i = j + 1
      <4>1. i - 1 \in 1 .. Len(list) /\ i = (i - 1) + 1
        BY <1>2, <2>3
      <4>. QED
        BY <4>1
    <3>2. T(i) = S(j) /\ T(i + 1) = S(j + 1) /\ j + 1 \in 1 .. Len(list) + 1
      BY <1>2, <1>3, <3>1
    <3>3. next2[S(j)] = S(j + 1)
      BY <1>2, <1>4, <1>6
    <3>4. S(j + 1) # S(1) /\ S(j + 1) \in nodes \cup {tail} /\ S(j + 1) # n
      BY <1>2, <1>7, <1>8, <3>2
    <3>5. prev2[S(j + 1)] = S(j)
      BY <1>2, <1>4, <1>5, <3>4
    <3>. QED
      BY <3>2, <3>3, <3>5
  <2>. QED
    BY <1>2, <2>1, <2>2, <2>3
<1>10. IsWhole(head, new, tail, next2, prev2)
  BY <1>9 DEF IsWhole, T
<1>. QED
  BY <1>1, <1>10 DEF new

(* Backwards, a list that is whole is its reverse.                         *)
LEMMA WholeBack ==
  ASSUME NEW nodes, NEW list, Distinct(list, nodes), NEW head, NEW tail, NEW next, NEW prev,
         IsWhole(head, list, tail, next, prev)
  PROVE  /\ Distinct(Reverse(list), nodes)
         /\ Leads(Reverse(list), prev[tail], prev, head)
         /\ Len(Reverse(list)) = Len(list)
<1>. DEFINE back == Reverse(list)
            n == Len(list)
            S(i) == Spot(head, list, tail, i)
<1>1. /\ list \in Seq(nodes) /\ n \in Nat /\ back \in Seq(nodes) /\ Len(back) = n
      /\ \A i \in 1 .. n : back[i] = list[n - i + 1]
  BY DEF Distinct, Reverse
<1>2. \A i \in 0 .. n : prev[S(i + 1)] = S(i)
  BY DEF IsWhole
<1>3. S(0) = head /\ S(n + 1) = tail /\ \A i \in 1 .. n : S(i) = list[i]
  BY <1>1 DEF Spot
<1>a. \A i, j \in 1 .. n : list[i] = list[j] => i = j
  BY DEF Distinct, IsInjective
<1>. HIDE DEF back, n, S
<1>4. Distinct(back, nodes)
  <2>2. ASSUME NEW i \in 1 .. n, NEW j \in 1 .. n, back[i] = back[j] PROVE i = j
    <3>0. n - i + 1 \in 1 .. n /\ n - j + 1 \in 1 .. n
      BY <1>1
    <3>1. PICK p \in 1 .. n, q \in 1 .. n : p = n - i + 1 /\ q = n - j + 1
      BY <3>0, Zenon
    <3>2. back[i] = list[p] /\ back[j] = list[q]
      BY <1>1, <3>1
    <3>3. p = q
      BY <1>a, <2>2, <3>2
    <3>. QED
      BY <1>1, <3>1, <3>3
  <2>. QED
    BY <1>1, <2>2 DEF Distinct, IsInjective
<1>5. CASE n = 0
  <2>1. back = <<>>
    BY <1>1, <1>5
  <2>2. prev[tail] = head
    BY <1>2, <1>3, <1>5
  <2>. QED
    BY <1>1, <1>4, <2>1, <2>2 DEF Leads, back, n
<1>6. CASE n # 0
  <2>1. prev[tail] = back[1]
    <3>1. n \in 0 .. n /\ n \in 1 .. n /\ 1 \in 1 .. n /\ n - 1 + 1 = n
      BY <1>1, <1>6
    <3>. QED
      BY <1>1, <1>2, <1>3, <3>1
  <2>2. prev[back[n]] = head
    <3>1. back[n] = list[1] /\ 0 \in 0 .. n /\ 1 \in 1 .. n
      BY <1>1, <1>6
    <3>. QED
      BY <1>2, <1>3, <3>1
  <2>3. ASSUME NEW i \in 1 .. n - 1 PROVE prev[back[i]] = back[i + 1]
    <3>1. PICK j \in 1 .. n : j = n - i
      BY <1>1
    <3>2. back[i] = list[j + 1] /\ back[i + 1] = list[j] /\ j + 1 \in 1 .. n /\ j \in 0 .. n
      BY <1>1, <3>1
    <3>. QED
      BY <1>2, <1>3, <3>2
  <2>4. back # <<>>
    BY <1>1, <1>6
  <2>. QED
    BY <1>1, <1>4, <2>1, <2>2, <2>3, <2>4 DEF Leads, back, n
<1>. QED
  BY <1>1, <1>5, <1>6

-----------------------------------------------------------------------------
(* One node stands before another in a list.                               *)
Before(list, a, b) ==
  \E p, q \in 1 .. Len(list) : p < q /\ list[p] = a /\ list[q] = b

(* Of two nodes of a list one stands before the other, and only one.       *)
LEMMA BeforeOrders ==
  ASSUME NEW nodes, NEW list, Distinct(list, nodes), NEW a, NEW b
  PROVE  /\ Before(list, a, b) => a \in Range(list) /\ b \in Range(list) /\ a # b
         /\ Before(list, a, b) => ~Before(list, b, a)
         /\ a \in Range(list) /\ b \in Range(list) /\ a # b =>
              Before(list, a, b) \/ Before(list, b, a)
<1>1. /\ list \in Seq(nodes) /\ Len(list) \in Nat /\ DOMAIN list = 1 .. Len(list)
      /\ \A p, q \in 1 .. Len(list) : list[p] = list[q] => p = q
  BY DEF Distinct, IsInjective
<1>2. \A x : x \in Range(list) <=> \E p \in 1 .. Len(list) : list[p] = x
  BY <1>1 DEF Range
<1>3. Before(list, a, b) => a \in Range(list) /\ b \in Range(list) /\ a # b
  BY <1>1, <1>2 DEF Before
<1>4. Before(list, a, b) => ~Before(list, b, a)
  BY <1>1 DEF Before
<1>5. a \in Range(list) /\ b \in Range(list) /\ a # b => Before(list, a, b) \/ Before(list, b, a)
  BY <1>1, <1>2 DEF Before
<1>. QED
  BY <1>3, <1>4, <1>5

(* Taking an element out leaves the order of the others.                   *)
LEMMA BeforeRemove ==
  ASSUME NEW nodes, NEW list \in Seq(nodes), NEW i \in 1 .. Len(list), NEW a, NEW b,
         Before(RemoveAt(list, i), a, b)
  PROVE  Before(list, a, b)
<1>. DEFINE rest == RemoveAt(list, i)
<1>1. /\ Len(list) \in Nat /\ Len(rest) = Len(list) - 1
      /\ \A j \in 1 .. Len(list) - 1 : rest[j] = IF j < i THEN list[j] ELSE list[j + 1]
  BY RemoveAtIs
<1>. HIDE DEF rest
<1>2. PICK p \in 1 .. Len(list) - 1, q \in 1 .. Len(list) - 1 : p < q /\ rest[p] = a /\ rest[q] = b
  BY <1>1 DEF Before, rest
<1>3. PICK r \in 1 .. Len(list) : r = IF p < i THEN p ELSE p + 1
  BY <1>1
<1>4. PICK s \in 1 .. Len(list) : s = IF q < i THEN q ELSE q + 1
  BY <1>1
<1>5. r < s /\ list[r] = a /\ list[s] = b
  BY <1>1, <1>2, <1>3, <1>4
<1>. QED
  BY <1>5 DEF Before

(* An element put at the end comes after all others, and one put at the    *)
(* front before them.                                                      *)
LEMMA BeforeAppend ==
  ASSUME NEW nodes, NEW list \in Seq(nodes), NEW n \in nodes, NEW a, NEW b,
         Before(Append(list, n), a, b)
  PROVE  Before(list, a, b) \/ b = n
<1>1. /\ Len(list) \in Nat /\ Len(Append(list, n)) = Len(list) + 1
      /\ \A j \in 1 .. Len(list) : Append(list, n)[j] = list[j]
      /\ Append(list, n)[Len(list) + 1] = n
  OBVIOUS
<1>2. PICK p \in 1 .. Len(list) + 1, q \in 1 .. Len(list) + 1 :
        p < q /\ Append(list, n)[p] = a /\ Append(list, n)[q] = b
  BY <1>1 DEF Before
<1>. QED
  BY <1>1, <1>2 DEF Before

(* What comes before what once a node is put in front.                     *)
LEMMA BeforeCons ==
  ASSUME NEW nodes, NEW list \in Seq(nodes), NEW n \in nodes, NEW a, NEW b,
         Before(<<n>> \o list, a, b)
  PROVE  b \in Range(list) /\ (a = n \/ Before(list, a, b))
<1>. DEFINE new == <<n>> \o list
<1>1. /\ Len(list) \in Nat /\ Len(new) = Len(list) + 1 /\ DOMAIN list = 1 .. Len(list)
      /\ new[1] = n /\ \A j \in 1 .. Len(list) : new[j + 1] = list[j]
  OBVIOUS
<1>. HIDE DEF new
<1>2. PICK p \in 1 .. Len(list) + 1, q \in 1 .. Len(list) + 1 : p < q /\ new[p] = a /\ new[q] = b
  BY <1>1 DEF Before, new
<1>3. PICK s \in 1 .. Len(list) : q = s + 1
  BY <1>1, <1>2
<1>4. list[s] = b
  BY <1>1, <1>2, <1>3
<1>5. b \in Range(list)
  BY <1>1, <1>4 DEF Range
<1>6. CASE p = 1
  BY <1>1, <1>2, <1>5, <1>6
<1>7. CASE p > 1
  <2>1. PICK r \in 1 .. Len(list) : p = r + 1
    BY <1>1, <1>2, <1>7
  <2>2. r < s /\ list[r] = a
    BY <1>1, <1>2, <1>3, <2>1
  <2>. QED
    BY <1>4, <1>5, <2>2 DEF Before
<1>. QED
  BY <1>2, <1>6, <1>7

-----------------------------------------------------------------------------
(* A list with one link keeps leading where it led when links of others    *)
(* change; it may lose its first node, or get another before it.           *)
LEMMA LeadsFrame ==
  ASSUME NEW nodes, NEW list \in Seq(nodes), NEW start, NEW succ, NEW stop, NEW succ2,
         Leads(list, start, succ, stop), \A n \in Range(list) : succ2[n] = succ[n]
  PROVE  Leads(list, start, succ2, stop)
<1>1. Len(list) \in Nat /\ \A i \in 1 .. Len(list) : list[i] \in Range(list)
  BY DEF Range
<1>2. CASE list = <<>>
  BY <1>2 DEF Leads
<1>3. CASE list # <<>>
  <2>1. Len(list) \in 1 .. Len(list) /\ \A i \in 1 .. Len(list) - 1 : i \in 1 .. Len(list)
    BY <1>1, <1>3
  <2>. QED
    BY <1>1, <1>3, <2>1 DEF Leads
<1>. QED
  BY <1>2, <1>3

(* A list without its first node leads from the node that followed.        *)
LEMMA LeadsTail ==
  ASSUME NEW nodes, NEW list \in Seq(nodes), list # <<>>, NEW start, NEW succ, NEW stop,
         Leads(list, start, succ, stop)
  PROVE  start = list[1] /\ Leads(Tail(list), succ[start], succ, stop)
<1>. DEFINE rest == Tail(list)
            n == Len(list) - 1
<1>1. /\ Len(list) \in Nat \ {0} /\ n \in Nat /\ Len(rest) = n /\ rest \in Seq(nodes)
      /\ \A i \in 1 .. n : rest[i] = list[i + 1]
  OBVIOUS
<1>2. /\ start = list[1] /\ succ[list[Len(list)]] = stop
      /\ \A i \in 1 .. Len(list) - 1 : succ[list[i]] = list[i + 1]
  BY DEF Leads
<1>. HIDE DEF rest
<1>3. CASE n = 0
  <2>1. rest = <<>> /\ succ[start] = stop
    BY <1>1, <1>2, <1>3
  <2>. QED
    BY <1>2, <2>1 DEF Leads, rest
<1>4. CASE n > 0
  <2>1. rest # <<>> /\ 1 \in 1 .. n /\ n \in 1 .. n /\ n + 1 = Len(list)
    BY <1>1, <1>4
  <2>2. succ[start] = rest[1] /\ succ[rest[n]] = stop
    BY <1>1, <1>2, <2>1
  <2>3. ASSUME NEW i \in 1 .. n - 1 PROVE succ[rest[i]] = rest[i + 1]
    <3>1. i \in 1 .. n /\ i + 1 \in 1 .. n
      BY <1>1, <1>4
    <3>. QED
      BY <1>1, <1>2, <3>1
  <2>. QED
    BY <1>1, <1>2, <2>1, <2>2, <2>3 DEF Leads, rest
<1>. QED
  BY <1>1, <1>3, <1>4

(* A node whose successor leads to the list leads to the list behind it.   *)
LEMMA LeadsCons ==
  ASSUME NEW nodes, NEW list \in Seq(nodes), NEW succ, NEW stop, NEW n \in nodes,
         Leads(list, succ[n], succ, stop)
  PROVE  Leads(<<n>> \o list, n, succ, stop)
<1>. DEFINE new == <<n>> \o list
            m == Len(list)
<1>1. /\ m \in Nat /\ Len(new) = m + 1 /\ new[1] = n /\ new # <<>>
      /\ \A i \in 1 .. m : new[i + 1] = list[i]
  OBVIOUS
<1>2. IF m = 0 THEN succ[n] = stop
      ELSE /\ succ[n] = list[1] /\ succ[list[m]] = stop
           /\ \A i \in 1 .. m - 1 : succ[list[i]] = list[i + 1]
  BY DEF Leads
<1>. HIDE DEF new, m
<1>3. succ[new[m + 1]] = stop
  <2>1. CASE m = 0
    BY <1>1, <1>2, <2>1
  <2>2. CASE m # 0
    <3>1. m \in 1 .. m
      BY <1>1, <2>2
    <3>. QED
      BY <1>1, <1>2, <2>2, <3>1
  <2>. QED
    BY <2>1, <2>2
<1>4. ASSUME NEW i \in 1 .. m PROVE succ[new[i]] = new[i + 1]
  <2>1. CASE i = 1
    BY <1>1, <1>2, <2>1
  <2>2. CASE i > 1
    <3>1. PICK k \in 1 .. m - 1 : i = k + 1
      <4>1. i - 1 \in 1 .. m - 1 /\ i = (i - 1) + 1
        BY <1>1, <2>2
      <4>. QED
        BY <4>1
    <3>2. new[i] = list[k] /\ new[i + 1] = list[k + 1]
      BY <1>1, <3>1
    <3>. QED
      BY <1>1, <1>2, <3>2
  <2>. QED
    BY <1>1, <2>1, <2>2
<1>5. Len(new) - 1 = m /\ Len(new) = m + 1
  BY <1>1
<1>. QED
  BY <1>1, <1>3, <1>4, <1>5 DEF Leads, new

(* Putting the last element last changes nothing.                          *)
LEMMA LastStays ==
  ASSUME NEW nodes, NEW list \in Seq(nodes), list # <<>>
  PROVE  Append(RemoveAt(list, Len(list)), list[Len(list)]) = list
<1>1. Len(list) \in Nat \ {0} /\ Len(list) \in 1 .. Len(list) /\ list[Len(list)] \in nodes
  OBVIOUS
<1>2. PICK rest \in Seq(nodes) : /\ rest = RemoveAt(list, Len(list))
        /\ Len(rest) = Len(list) - 1
        /\ \A j \in 1 .. Len(list) - 1 : rest[j] = IF j < Len(list) THEN list[j] ELSE list[j + 1]
  BY <1>1, RemoveAtIs
<1>3. PICK new \in Seq(nodes) : /\ new = Append(rest, list[Len(list)])
        /\ Len(new) = Len(list) /\ new[Len(list)] = list[Len(list)]
        /\ \A j \in 1 .. Len(list) - 1 : new[j] = rest[j]
  BY <1>1, <1>2
<1>4. \A j \in 1 .. Len(list) : new[j] = list[j]
  BY <1>1, <1>2, <1>3
<1>5. new = list
  BY <1>1, <1>3, <1>4
<1>. QED
  BY <1>2, <1>3, <1>5

(* As many nodes as it is long.                                            *)
LEMMA DistinctCounts ==
  ASSUME NEW nodes, NEW list, Distinct(list, nodes)
  PROVE  IsFiniteSet(Range(list)) /\ Cardinality(Range(list)) = Len(list)
<1>1. Len(list) \in Nat /\ DOMAIN list = 1 .. Len(list) /\ list \in [1 .. Len(list) -> Range(list)]
  BY DEF Distinct, Range
<1>2. list \in Bijection(1 .. Len(list), Range(list))
  <2>1. \A a, b \in 1 .. Len(list) : list[a] = list[b] => a = b
    BY <1>1 DEF Distinct, IsInjective
  <2>2. \A x \in Range(list) : \E i \in 1 .. Len(list) : list[i] = x
    BY <1>1 DEF Range
  <2>. QED
    BY <1>1, <2>1, <2>2 DEF Bijection, Injection, Surjection, IsInjective
<1>3. IsFiniteSet(1 .. Len(list)) /\ Cardinality(1 .. Len(list)) = Len(list)
  <2>1. 1 \in Int /\ Len(list) \in Int
    BY <1>1
  <2>2. /\ IsFiniteSet(1 .. Len(list))
        /\ Cardinality(1 .. Len(list)) = IF 1 > Len(list) THEN 0 ELSE Len(list) - 1 + 1
    BY <2>1, FS_Interval, Zenon
  <2>. QED
    BY <1>1, <2>2
<1>. QED
  BY <1>2, <1>3, FS_Bijection DEF ExistsBijection

(* The smallest of some numbers.                                           *)
LEMMA MinIs ==
  ASSUME NEW S, S \subseteq Nat, S # {}
  PROVE  Min(S) \in S /\ \A n \in S : Min(S) <= n
<1>1. PICK m \in S :
         \A n \in S : ~ (<<n, m>> \in OpToRel(<, Nat))
  BY NatLessThanWellFounded, WFMin
<1>2. ASSUME NEW n \in S
      PROVE  m <= n
  <2>1. ~ (m <= n) => <<n, m>> \in OpToRel(<, Nat)
    BY DEF OpToRel
  <2>. QED
    BY <1>1, <2>1
<1>. QED
  BY <1>2 DEF Min

(* Two lists without a common node, one behind the other.                  *)
LEMMA ConcatDistinct ==
  ASSUME NEW nodes, NEW front, Distinct(front, nodes), NEW back, Distinct(back, nodes),
         Range(front) \cap Range(back) = {}
  PROVE  /\ Distinct(front \o back, nodes)
         /\ Range(front \o back) = Range(front) \cup Range(back)
<1>. DEFINE both == front \o back
<1>1. /\ front \in Seq(nodes) /\ back \in Seq(nodes) /\ Len(front) \in Nat /\ Len(back) \in Nat
      /\ \A i, j \in 1 .. Len(front) : front[i] = front[j] => i = j
      /\ \A i, j \in 1 .. Len(back) : back[i] = back[j] => i = j
      /\ \A i \in 1 .. Len(front) : front[i] \in Range(front)
      /\ \A i \in 1 .. Len(back) : back[i] \in Range(back)
  BY DistinctIn DEF Distinct, IsInjective
<1>2. /\ both \in Seq(nodes) /\ Len(both) = Len(front) + Len(back)
      /\ \A i \in 1 .. Len(front) + Len(back) :
           both[i] = IF i <= Len(front) THEN front[i] ELSE back[i - Len(front)]
  BY <1>1, ConcatProperties
<1>. HIDE DEF both
<1>3. \A i \in 1 .. Len(both) : \/ i \in 1 .. Len(front) /\ both[i] = front[i]
                                \/ /\ i - Len(front) \in 1 .. Len(back)
                                   /\ both[i] = back[i - Len(front)]
  BY <1>1, <1>2
<1>4. IsInjective(both)
  <2>1. SUFFICES ASSUME NEW i \in 1 .. Len(both), NEW j \in 1 .. Len(both), both[i] = both[j]
                 PROVE  i = j
    BY <1>2 DEF IsInjective
  <2>a. i \in Int /\ j \in Int
    BY <1>1, <1>2
  <2>2. CASE i \in 1 .. Len(front) /\ both[i] = front[i]
    <3>1. both[j] \notin Range(back)
      BY <1>1, <2>1, <2>2
    <3>. QED
      BY <1>1, <1>3, <2>1, <2>2, <3>1
  <2>3. CASE i - Len(front) \in 1 .. Len(back) /\ both[i] = back[i - Len(front)]
    <3>1. both[j] \notin Range(front)
      BY <1>1, <2>1, <2>3
    <3>2. j - Len(front) \in 1 .. Len(back) /\ both[j] = back[j - Len(front)]
      BY <1>1, <1>3, <3>1
    <3>3. i - Len(front) = j - Len(front)
      BY <1>1, <2>1, <2>3, <3>2
    <3>. QED
      BY <1>1, <1>2, <2>a, <3>3
  <2>. QED
    BY <1>3, <2>1, <2>2, <2>3
<1>5. Range(both) \subseteq Range(front) \cup Range(back)
  <2>1. \A i \in 1 .. Len(both) : both[i] \in Range(front) \cup Range(back)
    BY <1>1, <1>3
  <2>. QED
    BY <1>2, <2>1 DEF Range
<1>6. Range(front) \cup Range(back) \subseteq Range(both)
  <2>1. ASSUME NEW i \in 1 .. Len(front)
        PROVE  front[i] \in Range(both)
    <3>1. i \in 1 .. Len(both) /\ both[i] = front[i]
      BY <1>1, <1>2
    <3>. QED
      BY <1>2, <3>1 DEF Range
  <2>2. ASSUME NEW i \in 1 .. Len(back)
        PROVE  back[i] \in Range(both)
    <3>1. PICK m \in Int : m = i + Len(front)
      BY <1>1
    <3>2. /\ m \in 1 .. Len(front) + Len(back) /\ ~(m <= Len(front)) /\ m - Len(front) = i
          /\ m \in 1 .. Len(both)
      BY <1>1, <1>2, <3>1
    <3>3. both[m] = back[i]
      BY <1>2, <3>2
    <3>4. DOMAIN both = 1 .. Len(both) /\ m \in 1 .. Len(both)
      BY <1>2, <3>2
    <3>5. both[m] \in Range(both)
      BY <3>4 DEF Range
    <3>. QED
      BY <3>3, <3>5
  <2>3. Range(front) = {front[i] : i \in 1 .. Len(front)}
    BY <1>1 DEF Range
  <2>4. Range(back) = {back[i] : i \in 1 .. Len(back)}
    BY <1>1 DEF Range
  <2>. QED
    BY <2>1, <2>2, <2>3, <2>4
<1>. QED
  BY <1>2, <1>4, <1>5, <1>6 DEF Distinct, both

(* A whole list put between another one's head and its first node.         *)
LEMMA WholeJoin ==
  ASSUME NEW nodes, NEW list, Distinct(list, nodes), NEW head, head \notin nodes,
         NEW tail, tail \notin nodes, NEW next, NEW prev,
         IsWhole(head, list, tail, next, prev),
         NEW front, Distinct(front, nodes), front # <<>>, Range(front) \cap Range(list) = {},
         NEW top, NEW bottom, NEW ahead, NEW behind, IsWhole(top, front, bottom, ahead, behind),
         NEW next2, NEW prev2,
         LET a == ahead[top]
             z == behind[bottom]
             q == next[head]
         IN  /\ next2[head] = a /\ next2[z] = q
             /\ \A x \in Range(front) : x # z => next2[x] = ahead[x]
             /\ \A x \in Range(list) : next2[x] = next[x]
             /\ prev2[a] = head /\ prev2[q] = z
             /\ \A x \in Range(front) : x # a => prev2[x] = behind[x]
             /\ \A x \in Range(list) \cup {tail} : x # q => prev2[x] = prev[x]
  PROVE  IsWhole(head, front \o list, tail, next2, prev2)
<1>. DEFINE both == front \o list
            spot(j) == Spot(head, list, tail, j)
            all(j) == Spot(head, both, tail, j)
            m == Len(front)
            n == Len(list)
<1>1. /\ front \in Seq(nodes) /\ list \in Seq(nodes) /\ m \in Nat /\ n \in Nat /\ m >= 1
      /\ \A i, j \in 1 .. m : front[i] = front[j] => i = j
      /\ \A i \in 1 .. m : front[i] \in Range(front)
      /\ \A i \in 1 .. n : list[i] \in Range(list)
  BY DistinctIn, EmptySeq DEF Distinct, IsInjective
<1>2. /\ both \in Seq(nodes) /\ Len(both) = m + n
      /\ \A i \in 1 .. m + n : both[i] = IF i <= m THEN front[i] ELSE list[i - m]
  BY <1>1, ConcatProperties
<1>3. \A j \in 0 .. n : next[spot(j)] = spot(j + 1) /\ prev[spot(j + 1)] = spot(j)
  BY DEF IsWhole
<1>4. \A i, j \in 1 .. n + 1 : spot(i) = spot(j) => i = j
  BY SpotsDiffer
<1>5. /\ spot(0) = head /\ spot(n + 1) = tail /\ \A j \in 1 .. n : spot(j) = list[j]
  BY <1>1 DEF Spot
<1>6. /\ ahead[top] = front[1] /\ behind[bottom] = front[m]
      /\ \A i \in 1 .. m - 1 : ahead[front[i]] = front[i + 1] /\ behind[front[i + 1]] = front[i]
  <2>1. \A j \in 0 .. m : /\ ahead[Spot(top, front, bottom, j)] = Spot(top, front, bottom, j + 1)
                          /\ behind[Spot(top, front, bottom, j + 1)] = Spot(top, front, bottom, j)
    BY DEF IsWhole
  <2>2. /\ Spot(top, front, bottom, 0) = top /\ Spot(top, front, bottom, m + 1) = bottom
        /\ \A j \in 1 .. m : Spot(top, front, bottom, j) = front[j]
    BY <1>1 DEF Spot
  <2>3. 0 \in 0 .. m /\ m \in 0 .. m /\ 1 \in 1 .. m /\ m \in 1 .. m /\ 0 + 1 = 1
    BY <1>1
  <2>4. \A i \in 1 .. m - 1 : i \in 0 .. m /\ i \in 1 .. m /\ i + 1 \in 1 .. m
    BY <1>1
  <2>. QED
    BY <2>1, <2>2, <2>3, <2>4
<1>7. /\ all(0) = head /\ \A j \in 1 .. m : all(j) = front[j]
      /\ \A j \in 1 .. n + 1 : all(m + j) = spot(j)
  <2>1. all(0) = head
    BY DEF Spot
  <2>2. ASSUME NEW j \in 1 .. m PROVE all(j) = front[j]
    <3>1. j \in 1 .. m + n /\ j <= m /\ j # 0 /\ j # m + n + 1
      BY <1>1
    <3>. QED
      BY <1>2, <3>1 DEF Spot
  <2>3. ASSUME NEW j \in 1 .. n PROVE all(m + j) = spot(j)
    <3>1. /\ m + j \in 1 .. m + n /\ ~(m + j <= m) /\ (m + j) - m = j /\ m + j # 0
          /\ m + j # m + n + 1 /\ j # 0 /\ j # n + 1
      BY <1>1
    <3>. QED
      BY <1>2, <3>1 DEF Spot
  <2>4. all(m + (n + 1)) = tail
    <3>1. m + (n + 1) = m + n + 1 /\ m + n + 1 # 0
      BY <1>1
    <3>. QED
      BY <1>2, <3>1 DEF Spot
  <2>5. \A j \in 1 .. n + 1 : j \in 1 .. n \/ j = n + 1
    BY <1>1
  <2>. HIDE DEF all, spot, both, m, n
  <2>. QED
    BY <1>5, <2>1, <2>2, <2>3, <2>4, <2>5
<1>8. next[head] = spot(1)
  <2>1. 0 \in 0 .. n /\ 0 + 1 = 1
    BY <1>1
  <2>. QED
    BY <1>3, <1>5, <2>1
<1>9. /\ next2[head] = front[1] /\ prev2[front[1]] = head
      /\ next2[front[m]] = spot(1) /\ prev2[spot(1)] = front[m]
      /\ \A x \in Range(front) : x # front[m] => next2[x] = ahead[x]
      /\ \A x \in Range(front) : x # front[1] => prev2[x] = behind[x]
      /\ \A x \in Range(list) : next2[x] = next[x]
      /\ \A x \in Range(list) \cup {tail} : x # spot(1) => prev2[x] = prev[x]
  BY <1>6, <1>8
<1>. HIDE DEF all, spot, both
<1>10. ASSUME NEW j \in 0 .. m + n
       PROVE  next2[all(j)] = all(j + 1) /\ prev2[all(j + 1)] = all(j)
  <2>1. CASE j = 0
    <3>1. 1 \in 1 .. m /\ j + 1 = 1
      BY <1>1, <2>1
    <3>. QED
      BY <1>7, <1>9, <2>1, <3>1
  <2>2. CASE j \in 1 .. m - 1
    <3>1. j \in 1 .. m /\ j + 1 \in 1 .. m /\ j # m /\ j + 1 # 1 /\ m \in 1 .. m /\ 1 \in 1 .. m
      BY <1>1, <2>2
    <3>2. front[j] # front[m] /\ front[j + 1] # front[1]
      BY <1>1, <3>1
    <3>3. next2[front[j]] = ahead[front[j]] /\ prev2[front[j + 1]] = behind[front[j + 1]]
      BY <1>1, <1>9, <3>1, <3>2
    <3>. QED
      BY <1>6, <1>7, <2>2, <3>1, <3>3
  <2>3. CASE j = m
    <3>1. m \in 1 .. m /\ 1 \in 1 .. n + 1
      BY <1>1
    <3>. QED
      BY <1>7, <1>9, <2>3, <3>1
  <2>4. CASE j > m
    <3>1. PICK i \in 1 .. n : j = m + i
      <4>1. j - m \in 1 .. n /\ j = m + (j - m)
        BY <1>1, <2>4
      <4>. QED
        BY <4>1
    <3>2. /\ i \in 1 .. n + 1 /\ i + 1 \in 1 .. n + 1 /\ i \in 0 .. n /\ j + 1 = m + (i + 1)
          /\ i + 1 # 1 /\ 1 \in 1 .. n + 1
      BY <1>1, <3>1
    <3>3. all(j) = spot(i) /\ all(j + 1) = spot(i + 1)
      BY <1>7, <3>1, <3>2
    <3>4. spot(i) \in Range(list) /\ spot(i + 1) \in Range(list) \cup {tail}
      <4>1. i + 1 \in 1 .. n \/ i + 1 = n + 1
        BY <3>2
      <4>2. /\ \A a \in 1 .. n : spot(a) = list[a] /\ list[a] \in Range(list)
            /\ spot(n + 1) = tail
        BY <1>1, <1>5
      <4>. QED
        BY <3>1, <4>1, <4>2
    <3>5. spot(i + 1) # spot(1)
      BY <1>4, <3>2
    <3>6. next2[spot(i)] = next[spot(i)] /\ prev2[spot(i + 1)] = prev[spot(i + 1)]
      BY <1>9, <3>4, <3>5
    <3>. QED
      BY <1>3, <3>2, <3>3, <3>6
  <2>5. j = 0 \/ j \in 1 .. m - 1 \/ j = m \/ j > m
    BY <1>1
  <2>. QED
    BY <2>1, <2>2, <2>3, <2>4, <2>5
<1>11. IsWhole(head, both, tail, next2, prev2)
  BY <1>2, <1>10 DEF IsWhole, all
<1>. QED
  BY <1>11 DEF both
=============================================================================
