---------------------------- MODULE QueueLemmas ----------------------------
(***************************************************************************)
(* What each list operation of QueueOps does, for every set H of handles   *)
(* and all limits.  QueueProofs uses these lemmas for one queue and its    *)
(* channels, ProxyProofs for the queues of all upstreams.                  *)
(***************************************************************************)
EXTENDS QueueOps, FiniteSetTheorems, SequenceTheorems, TLAPS

QueueType(H) == [max : Int, maxQueued : Int, active : SUBSET H, queued : Seq(H)]

NoRepeats(s) == \A i, j \in DOMAIN s : s[i] = s[j] => i = j

(* A queue value whose lists are well-formed and disjoint. *)
Shape(H, x) ==
  /\ x \in QueueType(H)
  /\ IsFiniteSet(x.active)
  /\ NoRepeats(x.queued)
  /\ x.active \cap Items(x.queued) = {}

Conserving(x) == x.queued # << >> => x.max # 0 /\ Cardinality(x.active) >= x.max

(* y comes from x by promoting the first n waiters, which y's limit allows. *)
Promotes(x, y, n) ==
  /\ n \in 0..Len(x.queued)
  /\ Cardinality(y.active) = Cardinality(x.active) + n
  /\ Len(y.queued) = Len(x.queued) - n
  /\ \A i \in 1..Len(y.queued) : y.queued[i] = x.queued[n + i]
  /\ y.active = x.active \cup {x.queued[i] : i \in 1..n}
  /\ n > 0 => y.max = 0 \/ Cardinality(y.active) <= y.max

(* The first k elements of a duplicate-free sequence are k elements. *)
LEMMA PrefixCardinality ==
  ASSUME NEW H, NEW s \in Seq(H), NoRepeats(s), NEW k \in 0..Len(s)
  PROVE  /\ IsFiniteSet({s[i] : i \in 1..k})
         /\ Cardinality({s[i] : i \in 1..k}) = k
<1> DEFINE T == {s[i] : i \in 1..k}
           f == [i \in 1..k |-> s[i]]
<1>1. f \in Bijection(1..k, T)
  BY DEF Bijection, Injection, Surjection, IsInjective, NoRepeats
<1>2. ExistsBijection(1..k, T)
  BY <1>1 DEF ExistsBijection
<1>3. IsFiniteSet(1..k) /\ Cardinality(1..k) = k
  BY FS_Interval
<1> QED
  BY <1>2, <1>3, FS_Bijection

(* The promotion loop stops after at most Len(queued) iterations. *)
LEMMA PopsBounds ==
  ASSUME NEW H, NEW x \in QueueType(H), IsFiniteSet(x.active)
  PROVE  Pops(x) \in 0..Len(x.queued)
BY FS_CardinalityType DEF QueueType, Pops

(* What is left of a sequence when its first k elements are gone. *)
LEMMA SuffixProperties ==
  ASSUME NEW H, NEW s \in Seq(H), NEW k \in 0..Len(s)
  PROVE  /\ SubSeq(s, k + 1, Len(s)) \in Seq(H)
         /\ Len(SubSeq(s, k + 1, Len(s))) = Len(s) - k
         /\ \A i \in 1..(Len(s) - k) : SubSeq(s, k + 1, Len(s))[i] = s[k + i]
<1> DEFINE n == Len(s)
           m == k + 1
<1>1. n \in Int /\ m \in Int /\ \A i \in m..n : s[i] \in H
  OBVIOUS
<1>2. n \in Nat /\ k \in 0..n /\ m = k + 1
  OBVIOUS
<1> HIDE DEF n, m
<1>3. /\ SubSeq(s, m, n) \in Seq(H)
      /\ Len(SubSeq(s, m, n)) = IF m <= n THEN n - m + 1 ELSE 0
      /\ \A i \in 1..(n - m + 1) : SubSeq(s, m, n)[i] = s[m + i - 1]
  BY <1>1, SubSeqProperties
<1>4. n - m + 1 = n - k /\ (~(m <= n) => n - k = 0) /\ \A i \in Int : m + i - 1 = k + i
  BY <1>2
<1>5. Len(SubSeq(s, m, n)) = n - k
  BY <1>3, <1>4
<1>6. \A i \in 1..(n - k) : SubSeq(s, m, n)[i] = s[k + i]
  BY <1>3, <1>4
<1> QED
  BY <1>3, <1>5, <1>6 DEF n, m

(* What the promotion loop does to the lists. *)
LEMMA PopHeadsLemma ==
  ASSUME NEW H, NEW x, Shape(H, x)
  PROVE  /\ Shape(H, PopHeads(x)) /\ Conserving(PopHeads(x))
         /\ PopHeads(x).max = x.max /\ PopHeads(x).maxQueued = x.maxQueued
         /\ Promotes(x, PopHeads(x), Pops(x))
<1> DEFINE y == PopHeads(x)
           k == Pops(x)
           P == {x.queued[i] : i \in 1..k}
<1>1. k \in 0..Len(x.queued)
  BY PopsBounds DEF Shape
<1>2. /\ x.queued \in Seq(H) /\ Len(x.queued) \in Nat
      /\ x.max \in Int /\ Cardinality(x.active) \in Nat
      /\ DOMAIN x.queued = 1..Len(x.queued)
  BY FS_CardinalityType DEF Shape, QueueType
<1>3. /\ y.max = x.max /\ y.maxQueued = x.maxQueued
      /\ y.active = x.active \cup P
      /\ y.queued = SubSeq(x.queued, k + 1, Len(x.queued))
  BY Zenon DEF PopHeads, Shape, QueueType
<1>4. /\ y.queued \in Seq(H)
      /\ Len(y.queued) = Len(x.queued) - k
      /\ DOMAIN y.queued = 1..Len(y.queued)
      /\ \A i \in 1..Len(y.queued) : y.queued[i] = x.queued[k + i]
  <2> HIDE DEF y, k, P
  <2>1. /\ y.queued \in Seq(H)
        /\ Len(y.queued) = Len(x.queued) - k
        /\ \A i \in 1..(Len(x.queued) - k) : y.queued[i] = x.queued[k + i]
    BY <1>1, <1>2, <1>3, SuffixProperties
  <2> QED
    BY <2>1, LenProperties
<1>5. IsFiniteSet(P) /\ Cardinality(P) = k
  <2>1. NoRepeats(x.queued)
    BY DEF Shape
  <2> HIDE DEF y, k
  <2> QED
    BY <1>1, <1>2, <2>1, PrefixCardinality, ZenonT(30)
<1>6. x.active \cap P = {}
  BY <1>1, <1>2 DEF Shape, Items
<1>7. IsFiniteSet(y.active) /\ Cardinality(y.active) = Cardinality(x.active) + k
  <2>1. Cardinality(x.active \cap P) = 0
    BY <1>6, FS_EmptySet
  <2>2. IsFiniteSet(x.active)
    BY DEF Shape
  <2> HIDE DEF y, k, P
  <2>3. /\ IsFiniteSet(x.active \cup P)
        /\ Cardinality(x.active \cup P) =
             Cardinality(x.active) + Cardinality(P) - Cardinality(x.active \cap P)
    BY <1>5, <2>2, FS_Union
  <2> QED
    BY <1>1, <1>2, <1>3, <1>5, <2>1, <2>3
<1>8. y.active \in SUBSET H
  BY <1>1, <1>2, <1>3 DEF Shape, QueueType
<1>9. NoRepeats(y.queued)
  <2> HIDE DEF y, k, P
  <2>1. \A i, j \in 1..Len(x.queued) : x.queued[i] = x.queued[j] => i = j
    BY <1>2 DEF NoRepeats, Shape
  <2> SUFFICES ASSUME NEW i \in 1..Len(y.queued), NEW j \in 1..Len(y.queued),
                      y.queued[i] = y.queued[j]
               PROVE  i = j
    BY <1>4 DEF NoRepeats
  <2>2. k + i \in 1..Len(x.queued) /\ k + j \in 1..Len(x.queued)
    <3>1. Len(y.queued) = Len(x.queued) - k
      BY <1>4
    <3>2. Len(x.queued) \in Nat /\ k \in Nat
      BY <1>1, <1>2
    <3> QED
      BY <3>1, <3>2
  <2>3. x.queued[k + i] = x.queued[k + j]
    BY <1>4
  <2>4. k + i = k + j
    BY <2>1, <2>2, <2>3
  <2> QED
    BY <1>1, <2>4
<1>10. y.active \cap Items(y.queued) = {}
  <2> HIDE DEF y, k
  <2> SUFFICES ASSUME NEW j \in 1..Len(y.queued), y.queued[j] \in y.active PROVE FALSE
    BY <1>4 DEF Items
  <2>1. k + j \in 1..Len(x.queued) /\ y.queued[j] = x.queued[k + j]
    <3>1. Len(y.queued) = Len(x.queued) - k /\ y.queued[j] = x.queued[k + j]
      BY <1>4
    <3>2. Len(x.queued) \in Nat /\ k \in Nat
      BY <1>1, <1>2
    <3> QED
      BY <3>1, <3>2
  <2>2. x.queued[k + j] \notin x.active
    BY <1>2, <2>1 DEF Shape, Items
  <2>3. PICK i \in 1..k : x.queued[i] = x.queued[k + j]
    BY <1>3, <2>1, <2>2, Zenon
  <2>4. i \in 1..Len(x.queued)
    BY <1>1, <1>2
  <2>5. i = k + j
    BY <1>2, <2>1, <2>3, <2>4 DEF NoRepeats, Shape
  <2> QED
    BY <1>1, <2>3, <2>5
<1>11. y \in QueueType(H)
  <2>1. y = [x EXCEPT !.active = x.active \cup P,
                      !.queued = SubSeq(x.queued, k + 1, Len(x.queued))]
    BY DEF PopHeads
  <2>2. x \in QueueType(H)
    BY DEF Shape
  <2> HIDE DEF y, k, P
  <2>3. /\ x.active \cup P \in SUBSET H
        /\ SubSeq(x.queued, k + 1, Len(x.queued)) \in Seq(H)
    BY <1>3, <1>4, <1>8
  <2>4. [x EXCEPT !.active = x.active \cup P,
                  !.queued = SubSeq(x.queued, k + 1, Len(x.queued))] \in QueueType(H)
    BY ONLY <2>2, <2>3, Zenon DEF QueueType
  <2> QED
    BY <2>1, <2>4
<1>12. Conserving(y)
  <2> SUFFICES ASSUME y.queued # << >> PROVE x.max # 0 /\ Cardinality(x.active) + k >= x.max
    BY <1>3, <1>7 DEF Conserving
  <2>1. k < Len(x.queued)
    BY <1>1, <1>2, <1>4, EmptySeq
  <2> QED
    BY <1>2, <2>1 DEF Pops
<1>13. k > 0 => x.max = 0 \/ Cardinality(x.active) + k <= x.max
  BY <1>2 DEF Pops
<1>14. Promotes(x, y, k)
  BY <1>1, <1>3, <1>4, <1>7, <1>13, SMTT(30) DEF Promotes
<1> QED
  BY <1>3, <1>7, <1>9, <1>10, <1>11, <1>12, <1>14 DEF Shape

(* SetMax keeps the lists well-formed, leaves no slot idle, and promotes   *)
(* from the front only.                                                    *)
LEMMA SetMaxLemma ==
  ASSUME NEW H, NEW x, Shape(H, x), NEW m \in Int, NEW k \in Int
  PROVE  /\ Shape(H, QSetMax(x, m, k)) /\ Conserving(QSetMax(x, m, k))
         /\ QSetMax(x, m, k).max = m /\ QSetMax(x, m, k).maxQueued = k
         /\ \E n \in Nat : Promotes(x, QSetMax(x, m, k), n)
<1> DEFINE z == [x EXCEPT !.max = m, !.maxQueued = k]
<1>1. x \in QueueType(H)
  BY DEF Shape
<1>2. z \in QueueType(H) /\ z.active = x.active /\ z.queued = x.queued
      /\ z.max = m /\ z.maxQueued = k
  BY <1>1, Zenon DEF QueueType
<1>3. QSetMax(x, m, k) = PopHeads(z)
  BY DEF QSetMax
<1> HIDE DEF z
<1>4. Shape(H, z)
  BY <1>2 DEF Shape
<1>5. /\ Shape(H, PopHeads(z)) /\ Conserving(PopHeads(z))
      /\ PopHeads(z).max = m /\ PopHeads(z).maxQueued = k
      /\ Promotes(z, PopHeads(z), Pops(z))
  BY <1>2, <1>4, PopHeadsLemma
<1>6. Promotes(x, PopHeads(z), Pops(z)) /\ Pops(z) \in Nat
  BY <1>1, <1>2, <1>5 DEF Promotes, QueueType
<1> QED
  BY <1>3, <1>5, <1>6

(* In a duplicate-free sequence every element has one index. *)
LEMMA IndexOfLemma ==
  ASSUME NEW s, NoRepeats(s), NEW i \in DOMAIN s
  PROVE  IndexOf(s, s[i]) = i
BY DEF NoRepeats, IndexOf

(* Dropping one element keeps the others in order. *)
LEMMA WithoutLemma ==
  ASSUME NEW H, NEW s, NEW p, s \in Seq(H), NoRepeats(s), p \in 1..Len(s),
         NEW t, t = Without(s, s[p])
  PROVE  /\ t \in Seq(H)
         /\ Len(t) = Len(s) - 1
         /\ DOMAIN t = 1..(Len(s) - 1)
         /\ \A j \in 1..(Len(s) - 1) : t[j] = IF j < p THEN s[j] ELSE s[j + 1]
         /\ NoRepeats(t)
         /\ Items(t) = Items(s) \ {s[p]}
<1>1. Len(s) \in Nat /\ DOMAIN s = 1..Len(s) /\ p \in DOMAIN s
  OBVIOUS
<1>2. IndexOf(s, s[p]) = p
  BY <1>1, IndexOfLemma
<1>3. t = [j \in 1..(Len(s) - 1) |-> IF j < p THEN s[j] ELSE s[j + 1]]
  BY <1>1, <1>2 DEF Without, Items
<1>4. \A j \in 1..(Len(s) - 1) : j \in 1..Len(s) /\ j + 1 \in 1..Len(s)
  BY <1>1
<1>5. /\ t \in [1..(Len(s) - 1) -> H]
      /\ \A j \in 1..(Len(s) - 1) : t[j] = IF j < p THEN s[j] ELSE s[j + 1]
  BY <1>1, <1>3, <1>4
<1>6. t \in Seq(H) /\ Len(t) = Len(s) - 1 /\ DOMAIN t = 1..(Len(s) - 1)
  <2>1. Len(s) - 1 \in Nat
    BY <1>1
  <2>2. t \in Seq(H)
    BY <1>5, <2>1, SeqDef
  <2>3. DOMAIN t = 1..(Len(s) - 1) /\ DOMAIN t = 1..Len(t) /\ Len(t) \in Nat
    BY <1>5, <2>2, LenProperties
  <2> QED
    BY <2>1, <2>2, <2>3
<1>7. NoRepeats(t)
  <2> SUFFICES ASSUME NEW i \in 1..(Len(s) - 1), NEW j \in 1..(Len(s) - 1), t[i] = t[j]
               PROVE  i = j
    BY <1>6, SMTT(30) DEF NoRepeats
  <2> DEFINE u(n) == IF n < p THEN n ELSE n + 1
  <2>1. t[i] = s[u(i)] /\ t[j] = s[u(j)] /\ u(i) \in DOMAIN s /\ u(j) \in DOMAIN s
    BY <1>1, <1>4, <1>5
  <2>2. u(i) = u(j)
    BY <2>1, Zenon DEF NoRepeats
  <2> QED
    BY <1>1, <2>2
<1>8. Items(t) = Items(s) \ {s[p]}
  <2>1. ASSUME NEW j \in 1..(Len(s) - 1) PROVE t[j] \in Items(s) \ {s[p]}
    <3> DEFINE u == IF j < p THEN j ELSE j + 1
    <3>1. t[j] = s[u] /\ u \in DOMAIN s /\ u # p
      BY <1>1, <1>4, <1>5
    <3> QED
      BY <1>1, <3>1 DEF NoRepeats, Items
  <2>2. ASSUME NEW i \in DOMAIN s, s[i] # s[p] PROVE s[i] \in Items(t)
    <3> DEFINE v == IF i < p THEN i ELSE i - 1
    <3>1. v \in 1..(Len(s) - 1) /\ i = (IF v < p THEN v ELSE v + 1)
      BY <1>1, <2>2
    <3>2. t[v] = s[i]
      BY <1>5, <3>1
    <3> QED
      BY <1>6, <3>1, <3>2 DEF Items
  <2> QED
    BY <1>6, <2>1, <2>2, Zenon DEF Items
<1> QED
  BY <1>5, <1>6, <1>7, <1>8

(* Whoever is promoted from x to y was ahead of everybody y still queues. *)
InOrder(x, y) ==
  \A h \in y.active \ x.active, g \in Items(y.queued) :
    h \in Items(x.queued) /\ IndexOf(x.queued, h) < IndexOf(x.queued, g)

(* Once R has left, whoever is promoted from x to y fits under y's limit. *)
Fits(x, y, R) ==
  y.active # x.active \ R => y.max = 0 \/ Cardinality(y.active) <= y.max

(* y comes from x by promotions and by the departure of the handles in R. *)
Moves(H, x, y, R) ==
  /\ Shape(H, y) /\ Conserving(y)
  /\ x.active \ R \subseteq y.active
  /\ Items(y.queued) \subseteq Items(x.queued)
  /\ y.active \cup Items(y.queued) = (x.active \cup Items(x.queued)) \ R
  /\ InOrder(x, y) /\ Fits(x, y, R)

(* Promotion moves handles from one list to the other and loses none. *)
LEMMA PromotesMoves ==
  ASSUME NEW H, NEW x, Shape(H, x), NEW y, Shape(H, y), Conserving(y), NEW n, Promotes(x, y, n)
  PROVE  Moves(H, x, y, {})
<1>1. /\ DOMAIN x.queued = 1..Len(x.queued) /\ Len(x.queued) \in Nat
      /\ DOMAIN y.queued = 1..Len(y.queued) /\ Len(y.queued) \in Nat
  BY DEF Shape, QueueType
<1>2. /\ n \in 0..Len(x.queued) /\ Len(y.queued) = Len(x.queued) - n
      /\ \A i \in 1..Len(y.queued) : y.queued[i] = x.queued[n + i]
      /\ y.active = x.active \cup {x.queued[i] : i \in 1..n}
  BY DEF Promotes
<1>3. ASSUME NEW i \in 1..Len(y.queued) PROVE y.queued[i] \in Items(x.queued)
  <2>1. n + i \in 1..Len(x.queued)
    BY <1>1, <1>2
  <2> QED
    BY <1>1, <1>2, <2>1, SMTT(30) DEF Items
<1>4. ASSUME NEW i \in 1..Len(x.queued)
      PROVE  x.queued[i] \in y.active \cup Items(y.queued)
  <2>1. CASE i <= n
    BY <1>1, <1>2, <2>1
  <2>2. CASE i > n
    <3>1. i - n \in 1..Len(y.queued) /\ n + (i - n) = i
      BY <1>1, <1>2, <2>2
    <3>2. y.queued[i - n] = x.queued[i]
      BY <1>2, <3>1
    <3> QED
      BY <1>1, <3>1, <3>2 DEF Items
  <2> QED
    BY <1>1, <1>2, <2>1, <2>2
<1>5. \A i \in 1..n : x.queued[i] \in Items(x.queued)
  <2>1. \A i \in 1..n : i \in DOMAIN x.queued
    BY <1>1, <1>2
  <2> QED
    BY <2>1 DEF Items
<1>6. Items(y.queued) \subseteq Items(x.queued)
  BY <1>1, <1>3 DEF Items
<1>7. Items(x.queued) \subseteq y.active \cup Items(y.queued)
  BY <1>1, <1>4 DEF Items
<1>8. InOrder(x, y)
  <2> SUFFICES ASSUME NEW h \in y.active \ x.active, NEW g \in Items(y.queued)
               PROVE  h \in Items(x.queued) /\ IndexOf(x.queued, h) < IndexOf(x.queued, g)
    BY DEF InOrder
  <2>1. PICK i \in 1..n : h = x.queued[i]
    BY <1>2
  <2>2. PICK j \in 1..Len(y.queued) : g = y.queued[j]
    BY <1>1 DEF Items
  <2>3. i \in DOMAIN x.queued /\ n + j \in DOMAIN x.queued /\ i < n + j
    BY <1>1, <1>2
  <2>4. g = x.queued[n + j]
    BY <1>2, <2>2
  <2>5. IndexOf(x.queued, x.queued[i]) = i /\ IndexOf(x.queued, x.queued[n + j]) = n + j
    BY <2>3, IndexOfLemma DEF Shape
  <2> QED
    BY <1>5, <2>1, <2>3, <2>4, <2>5
<1>9. Fits(x, y, {})
  <2>1. n > 0 => y.max = 0 \/ Cardinality(y.active) <= y.max
    BY DEF Promotes
  <2>2. ASSUME ~(n > 0) PROVE y.active = x.active \ {}
    BY <1>2, <2>2
  <2> QED
    BY <2>1, <2>2 DEF Fits
<1> QED
  BY <1>2, <1>5, <1>6, <1>7, <1>8, <1>9 DEF Moves

(* Acquire admits, refuses or queues; it admits only if nobody waits. *)
LEMMA AcquireLemma ==
  ASSUME NEW H, NEW x, Shape(H, x), Conserving(x),
         NEW h \in H, h \notin x.active, h \notin Items(x.queued)
  PROVE  LET y == QAcquire(x, h) IN
         /\ Shape(H, y) /\ Conserving(y)
         /\ y.max = x.max /\ y.maxQueued = x.maxQueued
         /\ \/ /\ x.queued = << >> /\ y.queued = << >>
               /\ y.active = x.active \cup {h}
               /\ Cardinality(y.active) = Cardinality(x.active) + 1
               /\ x.max = 0 \/ Cardinality(y.active) <= x.max
            \/ y = x
            \/ /\ y.active = x.active /\ y.queued = Append(x.queued, h)
               /\ ~IsFull(x)
<1> DEFINE y == QAcquire(x, h)
<1>1. /\ x \in QueueType(H) /\ x.queued \in Seq(H) /\ x.max \in Int
      /\ Cardinality(x.active) \in Nat /\ IsFiniteSet(x.active)
  BY FS_CardinalityType DEF Shape, QueueType
<1>2. CASE HasRoom(x)
  <2>1. y = [x EXCEPT !.active = x.active \cup {h}]
    BY <1>2 DEF QAcquire
  <2>2. /\ y \in QueueType(H) /\ y.max = x.max /\ y.maxQueued = x.maxQueued
        /\ y.active = x.active \cup {h} /\ y.queued = x.queued
    BY <1>1, <2>1 DEF QueueType
  <2>3. x.queued = << >>
    BY <1>1, <1>2 DEF Conserving, HasRoom
  <2>4. IsFiniteSet(y.active) /\ Cardinality(y.active) = Cardinality(x.active) + 1
    BY <1>1, <2>2, FS_AddElement
  <2>5. NoRepeats(<< >>) /\ Items(<< >>) = {}
    BY DEF NoRepeats, Items
  <2>6. x.max = 0 \/ Cardinality(y.active) <= x.max
    BY <1>1, <1>2, <2>4 DEF HasRoom
  <2> HIDE DEF y
  <2>7. Shape(H, y) /\ Conserving(y)
    BY <2>2, <2>3, <2>4, <2>5 DEF Shape, Conserving
  <2> QED
    BY <2>2, <2>3, <2>4, <2>6, <2>7 DEF y
<1>3. CASE ~HasRoom(x) /\ IsFull(x)
  BY <1>3 DEF QAcquire
<1>4. CASE ~HasRoom(x) /\ ~IsFull(x)
  <2>1. y = [x EXCEPT !.queued = Append(x.queued, h)]
    BY <1>4 DEF QAcquire
  <2>2. /\ Append(x.queued, h) \in Seq(H)
        /\ Len(Append(x.queued, h)) = Len(x.queued) + 1
        /\ \A i \in 1..Len(x.queued) : Append(x.queued, h)[i] = x.queued[i]
        /\ Append(x.queued, h)[Len(x.queued) + 1] = h
        /\ DOMAIN Append(x.queued, h) = 1..(Len(x.queued) + 1)
        /\ DOMAIN x.queued = 1..Len(x.queued) /\ Len(x.queued) \in Nat
    BY <1>1
  <2>3. /\ y \in QueueType(H) /\ y.max = x.max /\ y.maxQueued = x.maxQueued
        /\ y.active = x.active /\ y.queued = Append(x.queued, h)
    BY <1>1, <2>1, <2>2, SMTT(30) DEF QueueType
  <2> HIDE DEF y
  <2>4. NoRepeats(y.queued)
    <3> SUFFICES ASSUME NEW i \in 1..(Len(x.queued) + 1), NEW j \in 1..(Len(x.queued) + 1),
                        Append(x.queued, h)[i] = Append(x.queued, h)[j]
                 PROVE  i = j
      BY <2>2, <2>3 DEF NoRepeats
    <3>1. \A l \in 1..Len(x.queued) : x.queued[l] # h
      BY <2>2 DEF Items
    <3>2. \A l \in 1..(Len(x.queued) + 1) : l \in 1..Len(x.queued) \/ l = Len(x.queued) + 1
      BY <2>2
    <3>3. CASE i \in 1..Len(x.queued) /\ j \in 1..Len(x.queued)
      BY <2>2, <3>3 DEF Shape, NoRepeats
    <3> QED
      BY <2>2, <3>1, <3>2, <3>3
  <2>5. y.active \cap Items(y.queued) = {}
    <3>1. \A l \in 1..(Len(x.queued) + 1) : l \in 1..Len(x.queued) \/ l = Len(x.queued) + 1
      BY <2>2
    <3> QED
      BY <2>2, <2>3, <3>1 DEF Items, Shape
  <2>6. Shape(H, y) /\ Conserving(y)
    BY <1>1, <1>4, <2>3, <2>4, <2>5 DEF Shape, Conserving, HasRoom
  <2> QED
    BY <1>4, <2>3, <2>6 DEF y
<1> QED
  BY <1>2, <1>3, <1>4

(* Release drops the handle and hands its slot on. *)
LEMMA ReleaseLemma ==
  ASSUME NEW H, NEW x, Shape(H, x), Conserving(x), NEW h \in H
  PROVE  /\ Moves(H, x, QRelease(x, h), {h})
         /\ QRelease(x, h).max = x.max /\ QRelease(x, h).maxQueued = x.maxQueued
<1> DEFINE y == QRelease(x, h)
<1>1. /\ x \in QueueType(H) /\ x.queued \in Seq(H) /\ NoRepeats(x.queued)
      /\ IsFiniteSet(x.active) /\ x.active \cap Items(x.queued) = {}
  BY DEF Shape, QueueType
<1>2. CASE h \in Items(x.queued)
  <2>1. PICK p \in 1..Len(x.queued) : x.queued[p] = h
    BY <1>1, <1>2, LenProperties DEF Items
  <2>2. y = [x EXCEPT !.queued = Without(x.queued, h)]
    BY <1>2 DEF QRelease
  <2>3. /\ Without(x.queued, h) \in Seq(H)
        /\ Len(Without(x.queued, h)) = Len(x.queued) - 1
        /\ NoRepeats(Without(x.queued, h))
        /\ Items(Without(x.queued, h)) = Items(x.queued) \ {h}
    <3>1. PICK s, t : s = x.queued /\ t = Without(s, s[p])
      OBVIOUS
    <3>2. s \in Seq(H) /\ NoRepeats(s) /\ p \in 1..Len(s) /\ t = Without(s, s[p]) /\ s[p] = h
      BY <1>1, <2>1, <3>1
    <3> HIDE <3>1
    <3>3. t \in Seq(H) /\ Len(t) = Len(s) - 1 /\ NoRepeats(t) /\ Items(t) = Items(s) \ {s[p]}
      BY <3>2, WithoutLemma
    <3> QED
      BY <3>1, <3>2, <3>3, Zenon
  <2>4. /\ y \in QueueType(H) /\ y.max = x.max /\ y.maxQueued = x.maxQueued
        /\ y.active = x.active /\ y.queued = Without(x.queued, h)
    BY <1>1, <2>2, <2>3, SMTT(30) DEF QueueType
  <2>5. x.queued # << >>
    BY <1>2 DEF Items
  <2> HIDE DEF y
  <2>6. Shape(H, y) /\ Conserving(y)
    BY <1>1, <2>3, <2>4, <2>5 DEF Shape, Conserving
  <2>7. InOrder(x, y) /\ Fits(x, y, {h})
    BY <1>1, <1>2, <2>4 DEF InOrder, Fits
  <2> QED
    BY <1>1, <1>2, <2>3, <2>4, <2>6, <2>7 DEF Moves, y
<1>3. CASE h \notin Items(x.queued)
  <2> DEFINE z == [x EXCEPT !.active = x.active \ {h}]
  <2>1. y = PopHeads(z)
    BY <1>3 DEF QRelease
  <2>2. /\ z \in QueueType(H) /\ z.max = x.max /\ z.maxQueued = x.maxQueued
        /\ z.active = x.active \ {h} /\ z.queued = x.queued
    BY <1>1 DEF QueueType
  <2>3. IsFiniteSet(x.active \ {h})
    BY <1>1, FS_RemoveElement, Zenon
  <2> HIDE DEF y, z
  <2>4. Shape(H, z)
    BY <1>1, <2>2, <2>3 DEF Shape
  <2>5. /\ Shape(H, y) /\ Conserving(y) /\ y.max = x.max /\ y.maxQueued = x.maxQueued
        /\ Promotes(z, y, Pops(z))
    BY <2>1, <2>2, <2>4, PopHeadsLemma
  <2>6. Moves(H, z, y, {})
    BY <2>4, <2>5, PromotesMoves
  <2>7. InOrder(x, y) /\ Fits(x, y, {h})
    BY <1>3, <2>2, <2>6 DEF Moves, InOrder, Fits
  <2>8. Moves(H, x, y, {h})
    BY <1>3, <2>2, <2>6, <2>7 DEF Moves
  <2> QED
    BY <2>5, <2>8 DEF y
<1> QED
  BY <1>2, <1>3

(* A duplicate-free slice is as long as the set of its elements is large. *)
LEMMA ItemsCardinality ==
  ASSUME NEW H, NEW x, Shape(H, x)
  PROVE  Cardinality(Items(x.queued)) = Len(x.queued)
<1>1. /\ x.queued \in Seq(H) /\ NoRepeats(x.queued) /\ Len(x.queued) \in Nat
      /\ DOMAIN x.queued = 1..Len(x.queued)
  BY DEF Shape, QueueType
<1>2. Len(x.queued) \in 0..Len(x.queued)
  BY <1>1
<1>3. Cardinality({x.queued[i] : i \in 1..Len(x.queued)}) = Len(x.queued)
  BY <1>1, <1>2, PrefixCardinality, Zenon
<1> QED
  BY <1>1, <1>3 DEF Items

(* Appending adds one element. *)
LEMMA AppendItems ==
  ASSUME NEW H, NEW s \in Seq(H), NEW h \in H
  PROVE  Items(Append(s, h)) = Items(s) \cup {h}
<1>1. /\ Len(s) \in Nat /\ DOMAIN s = 1..Len(s)
      /\ DOMAIN Append(s, h) = 1..(Len(s) + 1)
      /\ \A i \in 1..Len(s) : Append(s, h)[i] = s[i]
      /\ Append(s, h)[Len(s) + 1] = h
  BY AppendProperties
<1>2. Items(s) \cup {h} \subseteq Items(Append(s, h))
  BY <1>1 DEF Items
<1>3. Items(Append(s, h)) \subseteq Items(s) \cup {h}
  <2> SUFFICES ASSUME NEW i \in 1..(Len(s) + 1)
               PROVE  Append(s, h)[i] \in Items(s) \cup {h}
    BY <1>1 DEF Items
  <2>1. i \in 1..Len(s) \/ i = Len(s) + 1
    BY <1>1
  <2> QED
    BY <1>1, <2>1 DEF Items
<1> QED
  BY <1>2, <1>3
=============================================================================
