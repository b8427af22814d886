------------------------ MODULE QueuePriorityProofs ------------------------
(* Lemmas about queues of messages: where an insertion by priority goes and *)
(* what the operations on a VecDeque do to its elements.                    *)
EXTENDS QueuePriority, SequenceTheorems, WellFoundedInduction, TLAPS

\* A set of naturals has a least element.
LEMMA LeastElement ==
    ASSUME NEW T \in SUBSET Nat, T # {}
    PROVE  \E i \in T : \A j \in T : i <= j
<1>1. PICK i \in T : \A j \in T : ~(<<j, i>> \in OpToRel(<, Nat))
  BY NatLessThanWellFounded, WFMin, Zenon
<1>2. ASSUME NEW j \in T, j < i
      PROVE  FALSE
  <2>1. <<j, i>> \in Nat \X Nat /\ <<j, i>>[1] = j /\ <<j, i>>[2] = i
    BY SMT
  <2>2. <<j, i>> \in OpToRel(<, Nat)
    BY <1>2, <2>1, Zenon DEF OpToRel
  <2> QED
    BY <1>1, <2>2, Zenon
<1> QED
  BY <1>2, SMT

\* Where a message goes is a position of the queue or the one after its end;
\* nothing before it is of lower priority, what it displaces is.
LEMMA InsertPosProperties ==
    ASSUME NEW q \in Seq(Messages), NEW m \in Messages
    PROVE  /\ InsertPos(q, m) \in 1..Len(q) + 1
           /\ \A i \in 1..InsertPos(q, m) - 1 : ~(Priority[q[i]] < Priority[m])
           /\ InsertPos(q, m) \in DOMAIN q => Priority[q[InsertPos(q, m)]] < Priority[m]
<1> DEFINE lower == {i \in DOMAIN q : Priority[q[i]] < Priority[m]}
<1>1. CASE lower = {}
  <2>1. InsertPos(q, m) = Len(q) + 1
    BY <1>1 DEF InsertPos
  <2> QED
    BY <1>1, <2>1
<1>2. CASE lower # {}
  <2>1. lower \subseteq Nat /\ DOMAIN q = 1..Len(q)
    OBVIOUS
  <2>2. \E i \in lower : \A j \in lower : i <= j
    BY <1>2, <2>1, LeastElement
  <2>3. InsertPos(q, m) = CHOOSE i \in lower : \A j \in lower : i <= j
    BY <1>2 DEF InsertPos
  <2>4. InsertPos(q, m) \in lower /\ \A j \in lower : InsertPos(q, m) <= j
    BY <2>2, <2>3
  <2> QED
    BY <2>1, <2>4
<1> QED
  BY <1>1, <1>2

\* The queue after an insertion, position by position.
LEMMA InsertProperties ==
    ASSUME NEW q \in Seq(Messages), NEW m \in Messages
    PROVE  /\ Insert(q, m) \in Seq(Messages)
           /\ Len(Insert(q, m)) = Len(q) + 1
           /\ \A i \in 1..Len(q) + 1 :
                Insert(q, m)[i] = IF i < InsertPos(q, m) THEN q[i]
                                  ELSE IF i = InsertPos(q, m) THEN m ELSE q[i - 1]
<1> DEFINE k == InsertPos(q, m)
<1>1. k \in 1..Len(q) + 1
  BY InsertPosProperties
<1> HIDE DEF k
<1>2. /\ SubSeq(q, 1, k - 1) \in Seq(Messages)
      /\ Len(SubSeq(q, 1, k - 1)) = k - 1
      /\ \A i \in 1..k - 1 : SubSeq(q, 1, k - 1)[i] = q[i]
  BY <1>1
<1>3. /\ SubSeq(q, k, Len(q)) \in Seq(Messages)
      /\ Len(SubSeq(q, k, Len(q))) = Len(q) + 1 - k
      /\ \A i \in 1..Len(q) + 1 - k : SubSeq(q, k, Len(q))[i] = q[i + k - 1]
  BY <1>1
<1>4. Insert(q, m) = SubSeq(q, 1, k - 1) \o <<m>> \o SubSeq(q, k, Len(q))
  BY DEF Insert, InsertAt, k
<1> DEFINE a == SubSeq(q, 1, k - 1)
           c == SubSeq(q, k, Len(q))
           d == a \o <<m>>
<1>5. /\ d \in Seq(Messages)
      /\ Len(d) = k
      /\ \A i \in 1..k - 1 : d[i] = q[i]
      /\ d[k] = m
  <2> HIDE DEF a
  <2> QED
    BY <1>1, <1>2 DEF a
<1>6. Insert(q, m) = d \o c
  BY <1>4
<1>7. c \in Seq(Messages) /\ Len(c) = Len(q) + 1 - k
  BY <1>3
<1>8. \A i \in k + 1..Len(q) + 1 : c[i - k] = q[i - 1]
  BY <1>1, <1>3
<1> HIDE DEF c, d
<1>9. /\ d \o c \in Seq(Messages)
      /\ Len(d \o c) = Len(q) + 1
      /\ \A i \in 1..Len(q) + 1 : (d \o c)[i] = IF i <= k THEN d[i] ELSE c[i - k]
  BY <1>1, <1>5, <1>7, ConcatProperties, SMT
<1> QED
  BY <1>1, <1>5, <1>6, <1>8, <1>9 DEF k

\* The elements of a sequence and their distinctness, by position.
LEMMA Elements ==
    ASSUME NEW q \in Seq(Messages)
    PROVE  /\ \A x : x \in ToSet(q) <=> \E i \in 1..Len(q) : x = q[i]
           /\ IsInjective(q) <=> \A i, j \in 1..Len(q) : q[i] = q[j] => i = j
           /\ \A i \in 1..Len(q) : q[i] \in Messages
<1>1. DOMAIN q = 1..Len(q)
  OBVIOUS
<1> QED
  BY <1>1 DEF ToSet, IsInjective

LEMMA EmptyElements == ToSet(<<>>) = {} /\ IsInjective(<<>>)
<1>1. <<>> \in Seq(Messages) /\ 1..Len(<<>>) = {}
  OBVIOUS
<1> QED
  BY <1>1, Elements

\* A sequence with one more entry than another, otherwise the same and in the
\* same order, has one more message, and distinct entries if the message is new.
LEMMA InsertionElements ==
    ASSUME NEW q \in Seq(Messages), NEW m \in Messages, NEW k \in 1..Len(q) + 1,
           NEW r \in Seq(Messages), Len(r) = Len(q) + 1,
           \A i \in 1..Len(q) + 1 :
              r[i] = IF i < k THEN q[i] ELSE IF i = k THEN m ELSE q[i - 1]
    PROVE  /\ ToSet(r) = ToSet(q) \cup {m}
           /\ IsInjective(q) /\ m \notin ToSet(q) => IsInjective(r)
           /\ IsInjective(r) => IsInjective(q) /\ m \notin ToSet(q)
<1>1. k \in 1..Len(q) + 1 /\ Len(q) \in Nat
  OBVIOUS
<1>2. /\ r \in Seq(Messages)
      /\ Len(r) = Len(q) + 1
      /\ \A i \in 1..Len(q) + 1 : r[i] = IF i < k THEN q[i] ELSE IF i = k THEN m ELSE q[i - 1]
  OBVIOUS
<1> DEFINE old(i) == IF i < k THEN i ELSE i - 1
           new(i) == IF i < k THEN i ELSE i + 1
<1>o. \A i \in 1..Len(q) + 1 : i # k => old(i) \in 1..Len(q) /\ r[i] = q[old(i)]
  BY <1>1, <1>2
<1>n. \A i \in 1..Len(q) : new(i) \in 1..Len(q) + 1 /\ new(i) # k /\ r[new(i)] = q[i]
  BY <1>1, <1>2
<1>i. /\ \A i, j \in 1..Len(q) + 1 : i # k /\ j # k /\ old(i) = old(j) => i = j
      /\ \A i, j \in 1..Len(q) : new(i) = new(j) => i = j
  BY <1>1
<1>k. r[k] = m
  BY <1>1, <1>2
<1>3. ASSUME NEW x \in ToSet(r) PROVE x \in ToSet(q) \cup {m}
  <2>1. PICK i \in 1..Len(q) + 1 : x = r[i]
    BY <1>2, <1>3, Elements
  <2>2. i < k \/ i = k \/ (i > k /\ i - 1 \in 1..Len(q))
    BY <1>1
  <2>3. x = m \/ \E j \in 1..Len(q) : x = q[j]
    BY <1>1, <1>2, <2>1, <2>2
  <2> QED
    BY <2>3, Elements
<1>4. ASSUME NEW x \in ToSet(q) \cup {m} PROVE x \in ToSet(r)
  <2>1. CASE x = m
    <3>1. r[k] = m
      BY <1>1, <1>2
    <3> QED
      BY <1>1, <1>2, <2>1, <3>1, Elements
  <2>2. CASE x \in ToSet(q)
    <3>1. PICK i \in 1..Len(q) : x = q[i]
      BY <2>2, Elements
    <3>2. \E j \in 1..Len(q) + 1 : x = r[j]
      <4>1. CASE i < k
        BY <1>1, <1>2, <3>1, <4>1
      <4>2. CASE ~(i < k)
        <5>1. i + 1 \in 1..Len(q) + 1 /\ r[i + 1] = q[i]
          BY <1>1, <1>2, <4>2
        <5> QED
          BY <3>1, <5>1
      <4> QED
        BY <4>1, <4>2
    <3> QED
      BY <1>2, <3>2, Elements
  <2> QED
    BY <1>4, <2>1, <2>2
<1> HIDE DEF old, new
<1>5. ASSUME IsInjective(q), m \notin ToSet(q),
             NEW i \in 1..Len(q) + 1, NEW j \in 1..Len(q) + 1, r[i] = r[j]
      PROVE  i = j
  <2>1. /\ \A a, b \in 1..Len(q) : q[a] = q[b] => a = b
        /\ \A a \in 1..Len(q) : q[a] # m
    BY <1>5, Elements
  <2>2. CASE i # k /\ j # k
    <3>1. old(i) \in 1..Len(q) /\ old(j) \in 1..Len(q) /\ q[old(i)] = q[old(j)]
      BY <1>5, <1>o, <2>2, Zenon
    <3>2. old(i) = old(j)
      BY <2>1, <3>1, Zenon
    <3> QED
      BY <1>i, <2>2, <3>2, Zenon
  <2>3. CASE i = k \/ j = k
    BY <1>5, <1>o, <1>k, <2>1, <2>3
  <2> QED
    BY <2>2, <2>3
<1>6. IsInjective(q) /\ m \notin ToSet(q) => IsInjective(r)
  BY <1>2, <1>5, Elements
<1>7. ASSUME IsInjective(r) PROVE IsInjective(q) /\ m \notin ToSet(q)
  <2>1. \A i, j \in 1..Len(q) + 1 : r[i] = r[j] => i = j
    BY <1>2, <1>7, Elements
  <2>2. ASSUME NEW i \in 1..Len(q), NEW j \in 1..Len(q), q[i] = q[j] PROVE i = j
    BY <1>n, <1>i, <2>1, <2>2
  <2>3. \A i \in 1..Len(q) : q[i] # m
    BY <1>1, <1>k, <1>n, <2>1
  <2> QED
    BY <2>2, <2>3, Elements
<1> QED
  BY <1>3, <1>4, <1>6, <1>7

LEMMA InsertElements ==
    ASSUME NEW q \in Seq(Messages), NEW m \in Messages
    PROVE  /\ ToSet(Insert(q, m)) = ToSet(q) \cup {m}
           /\ IsInjective(q) /\ m \notin ToSet(q) => IsInjective(Insert(q, m))
<1> DEFINE k == InsertPos(q, m)
           r == Insert(q, m)
<1>1. k \in 1..Len(q) + 1
  BY InsertPosProperties
<1>2. /\ r \in Seq(Messages)
      /\ Len(r) = Len(q) + 1
      /\ \A i \in 1..Len(q) + 1 : r[i] = IF i < k THEN q[i] ELSE IF i = k THEN m ELSE q[i - 1]
  BY InsertProperties
<1> HIDE DEF k, r
<1>3. /\ ToSet(r) = ToSet(q) \cup {m}
      /\ IsInjective(q) /\ m \notin ToSet(q) => IsInjective(r)
  BY <1>1, <1>2, InsertionElements
<1> QED
  BY <1>3 DEF r

\* The queue without its last message.
LEMMA FrontProperties ==
    ASSUME NEW q \in Seq(Messages), q # <<>>
    PROVE  /\ Front(q) \in Seq(Messages)
           /\ Len(q) \in Nat \ {0}
           /\ Len(Front(q)) = Len(q) - 1
           /\ \A i \in 1..Len(q) - 1 : Front(q)[i] = q[i]
           /\ Last(q) = q[Len(q)] /\ Last(q) \in Messages
<1>1. Len(q) \in Nat \ {0}
  BY EmptySeq
<1>2. /\ SubSeq(q, 1, Len(q) - 1) \in Seq(Messages)
      /\ Len(SubSeq(q, 1, Len(q) - 1)) = Len(q) - 1
      /\ \A i \in 1..Len(q) - 1 : SubSeq(q, 1, Len(q) - 1)[i] = q[i]
  BY <1>1
<1> QED
  BY <1>1, <1>2, Elements DEF Front, Last

\* The elements of a queue after push_back, push_front and pop_front.
LEMMA AppendElements ==
    ASSUME NEW q \in Seq(Messages), NEW m \in Messages
    PROVE  /\ ToSet(Append(q, m)) = ToSet(q) \cup {m}
           /\ IsInjective(q) /\ m \notin ToSet(q) => IsInjective(Append(q, m))
<1> DEFINE r == Append(q, m)
           k == Len(q) + 1
<1>1. /\ r \in Seq(Messages) /\ Len(q) \in Nat /\ Len(r) = Len(q) + 1
      /\ \A i \in 1..Len(q) + 1 : r[i] = IF i < k THEN q[i] ELSE IF i = k THEN m ELSE q[i - 1]
      /\ k \in 1..Len(q) + 1
  OBVIOUS
<1> HIDE DEF r, k
<1>2. /\ ToSet(r) = ToSet(q) \cup {m}
      /\ IsInjective(q) /\ m \notin ToSet(q) => IsInjective(r)
  BY <1>1, InsertionElements, SMTT(30)
<1> QED
  BY <1>2 DEF r

LEMMA ConsElements ==
    ASSUME NEW q \in Seq(Messages), NEW m \in Messages
    PROVE  /\ ToSet(<<m>> \o q) = ToSet(q) \cup {m}
           /\ IsInjective(q) /\ m \notin ToSet(q) => IsInjective(<<m>> \o q)
           /\ IsInjective(<<m>> \o q) => IsInjective(q) /\ m \notin ToSet(q)
<1> DEFINE r == <<m>> \o q
           k == 1
<1>1. /\ r \in Seq(Messages) /\ Len(q) \in Nat /\ Len(r) = Len(q) + 1
      /\ \A i \in 1..Len(q) + 1 : r[i] = IF i < k THEN q[i] ELSE IF i = k THEN m ELSE q[i - 1]
      /\ k \in 1..Len(q) + 1
  OBVIOUS
<1> HIDE DEF r, k
<1>2. /\ ToSet(r) = ToSet(q) \cup {m}
      /\ IsInjective(q) /\ m \notin ToSet(q) => IsInjective(r)
      /\ IsInjective(r) => IsInjective(q) /\ m \notin ToSet(q)
  BY <1>1, InsertionElements
<1> QED
  BY <1>2 DEF r

\* What a queue holds is its first entry and what its tail holds.
LEMMA HeadElements ==
    ASSUME NEW q \in Seq(Messages), q # <<>>
    PROVE  /\ Head(q) \in Messages /\ Tail(q) \in Seq(Messages)
           /\ ToSet(q) = ToSet(Tail(q)) \cup {Head(q)}
<1>1. Head(q) \in Messages /\ Tail(q) \in Seq(Messages)
  OBVIOUS
<1>2. q = <<Head(q)>> \o Tail(q)
  OBVIOUS
<1> DEFINE h == Head(q)
           t == Tail(q)
<1> HIDE DEF h, t
<1>3. ToSet(<<h>> \o t) = ToSet(t) \cup {h}
  BY <1>1, ConsElements DEF h, t
<1> QED
  BY <1>1, <1>2, <1>3 DEF h, t

LEMMA TailElements ==
    ASSUME NEW q \in Seq(Messages), q # <<>>, IsInjective(q)
    PROVE  /\ Head(q) \in Messages /\ Tail(q) \in Seq(Messages)
           /\ Head(q) \in ToSet(q)
           /\ ToSet(Tail(q)) = ToSet(q) \ {Head(q)}
           /\ IsInjective(Tail(q))
<1>1. Head(q) \in Messages /\ Tail(q) \in Seq(Messages)
  OBVIOUS
<1>2. q = <<Head(q)>> \o Tail(q)
  OBVIOUS
<1> DEFINE h == Head(q)
           t == Tail(q)
<1> HIDE DEF h, t
<1>3. /\ ToSet(<<h>> \o t) = ToSet(t) \cup {h}
      /\ IsInjective(<<h>> \o t) => IsInjective(t) /\ h \notin ToSet(t)
  BY <1>1, ConsElements DEF h, t
<1>4. ToSet(q) = ToSet(t) \cup {h} /\ IsInjective(t) /\ h \notin ToSet(t)
  BY <1>2, <1>3 DEF h, t
<1> QED
  BY <1>1, <1>4 DEF h, t
=============================================================================
