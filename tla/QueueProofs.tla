---------------------------- MODULE QueueProofs ----------------------------
(***************************************************************************)
(* Proofs about Queue for every set of handles and all limits: IInv is     *)
(* inductive, admission is first come, first served, and what the callers  *)
(* are told implements AdmissionControl.                                   *)
(***************************************************************************)
EXTENDS Queue, QueueLemmas

(* What the channels hold is a Status or nothing, and so is the latest. *)
LEMMA LatestType ==
  ASSUME TypeOK, NEW h \in Handle
  PROVE  Latest(h) \in Status
BY DEF TypeOK, Latest

(* IInv makes the queue well-formed and puts no released handle in it. *)
LEMMA IInvShape ==
  ASSUME IInv
  PROVE  /\ Shape(Handle, q) /\ Conserving(q)
         /\ \A h \in Handle : released[h] => h \notin q.active /\ h \notin Items(q.queued)
<1>1. q \in QueueType(Handle) /\ IsFiniteSet(q.active)
  BY DEF IInv, TypeOK, QueueType
<1>2. NoRepeats(q.queued)
  BY DEF IInv, QueuedChannelsOpen, NoRepeats
<1>3. q.active \cap Items(q.queued) = {}
  BY DEF IInv, QueuedChannelsOpen, Items
<1>4. Conserving(q)
  BY DEF IInv, WorkConserving, Conserving
<1>5. \A h \in Handle : released[h] => h \notin q.active /\ h \notin Items(q.queued)
  BY DEF IInv, QueuedChannelsOpen, Items
<1> QED
  BY <1>1, <1>2, <1>3, <1>4, <1>5 DEF Shape

(* The statuses the queue sends. *)
LEMMA StatusTypes ==
  ASSUME NEW x, Shape(Handle, x), NEW i \in DOMAIN x.queued
  PROVE  /\ ZeroStatus \in Status /\ OkStatus \in Status /\ FullStatus \in Status
         /\ ~ZeroStatus.Ok /\ OkStatus.Ok /\ ~OkStatus.Full
         /\ FullStatus.Full /\ ~FullStatus.Ok
         /\ WaitStatus(x, i) \in Status
         /\ ~WaitStatus(x, i).Ok /\ ~WaitStatus(x, i).Full
         /\ WaitStatus(x, i).Index = Surplus(x) + i - 1
         /\ WaitStatus(x, i).Max = Surplus(x) + Len(x.queued)
         /\ Surplus(x) \in Int
<1>1. Surplus(x) \in Int /\ i \in Int /\ Len(x.queued) \in Int
  BY FS_CardinalityType DEF Surplus, Shape, QueueType
<1> QED
  BY <1>1 DEF Status, ZeroStatus, OkStatus, FullStatus, WaitStatus

(* A channel that holds one Status. *)
LEMMA OneMessage ==
  ASSUME NEW w \in Status
  PROVE  <<w>> \in Seq(Status) /\ Len(<<w>>) <= 1 /\ <<w>> # << >> /\ Head(<<w>>) = w
OBVIOUS

(* The Status in a channel is the latest one. *)
LEMMA LatestSent ==
  ASSUME NEW h, NEW w \in Status, ch'[h] = <<w>>
  PROVE  Latest(h)' = w
BY OneMessage DEF Latest

(* SetMax and Release: handles in R leave, the others are told where they  *)
(* stand.  Every conjunct of the invariant survives.                       *)
LEMMA MoveStep ==
  ASSUME IInv, NEW R \in SUBSET Handle, Moves(Handle, q, q', R),
         ch' = [g \in Handle |-> IF g \in R THEN << >> ELSE Announce(ch, q')[g]],
         closed' = [g \in Handle |-> g \notin R /\ (closed[g] \/ g \in q'.active)],
         status' = [g \in Handle |-> IF g \in R THEN ZeroStatus ELSE status[g]],
         released' = [g \in Handle |-> g \in R \/ released[g]]
  PROVE  IInv'
<1>0. PICK y : y = q'
  OBVIOUS
<1>1. /\ Shape(Handle, q) /\ Conserving(q)
      /\ \A h \in Handle : released[h] => h \notin q.active /\ h \notin Items(q.queued)
  BY IInvShape
<1>2. /\ Shape(Handle, y) /\ Conserving(y)
      /\ q.active \ R \subseteq y.active
      /\ Items(y.queued) \subseteq Items(q.queued)
      /\ y.active \cup Items(y.queued) = (q.active \cup Items(q.queued)) \ R
  BY <1>0 DEF Moves
<1>3. /\ y \in QueueType(Handle) /\ y.active \subseteq Handle /\ y.queued \in Seq(Handle)
      /\ DOMAIN y.queued = 1..Len(y.queued)
      /\ Items(y.queued) \subseteq Handle
      /\ y.active \cap Items(y.queued) = {}
  BY <1>2 DEF Shape, QueueType, Items
<1>4. ASSUME NEW i \in DOMAIN y.queued
      PROVE  /\ y.queued[i] \in Handle \ R /\ y.queued[i] \in Items(y.queued)
             /\ ch'[y.queued[i]] = <<WaitStatus(y, i)>> /\ WaitStatus(y, i) \in Status
             /\ Latest(y.queued[i])' = WaitStatus(y, i)
  <2>1. y.queued[i] \in Items(y.queued)
    BY DEF Items
  <2>2. y.queued[i] \in Handle \ R
    BY <1>2, <1>3, <2>1
  <2>3. IndexOf(y.queued, y.queued[i]) = i
    BY <1>2, IndexOfLemma DEF Shape
  <2>4. ch'[y.queued[i]] = <<WaitStatus(y, i)>>
    BY <1>0, <2>1, <2>2, <2>3 DEF Announce
  <2>5. WaitStatus(y, i) \in Status
    BY <1>2, StatusTypes
  <2> QED
    BY <2>1, <2>2, <2>4, <2>5, LatestSent, Zenon
<1>5. ASSUME NEW g \in y.active \ q.active
      PROVE  ch'[g] = <<OkStatus>> /\ Latest(g)' = OkStatus /\ OkStatus \in Status
  <2>1. g \in Handle \ R /\ g \notin Items(y.queued)
    BY <1>2, <1>3
  <2>2. ch'[g] = <<OkStatus>>
    BY <1>0, <2>1, <1>5 DEF Announce
  <2>3. OkStatus \in Status
    BY DEF OkStatus, Status
  <2> QED
    BY <2>2, <2>3, LatestSent, Zenon
<1>6. ASSUME NEW g \in Handle \ R, g \notin Items(y.queued), g \notin y.active \ q.active
      PROVE  ch'[g] = ch[g] /\ Latest(g)' = Latest(g)
  <2>1. ch'[g] = ch[g]
    BY <1>0, <1>6 DEF Announce
  <2>2. status'[g] = status[g]
    BY <1>6
  <2> QED
    BY <2>1, <2>2 DEF Latest
<1>7. TypeOK'
  <2>1. q' \in [max : Int, maxQueued : Int, active : SUBSET Handle, queued : Seq(Handle)]
        /\ IsFiniteSet(q'.active)
    BY <1>0, <1>2, <1>3 DEF Shape, QueueType
  <2>2. ASSUME NEW g \in Handle PROVE ch'[g] \in Seq(Status) /\ Len(ch'[g]) <= 1
    <3>1. CASE g \in R
      BY <3>1
    <3>2. CASE g \notin R /\ g \in Items(y.queued)
      <4>1. PICK i \in DOMAIN y.queued : y.queued[i] = g
        BY <3>2 DEF Items
      <4>2. ch'[g] = <<WaitStatus(y, i)>> /\ WaitStatus(y, i) \in Status
        BY <1>4, <4>1, Zenon
      <4> QED
        BY <4>2, OneMessage, Zenon
    <3>3. CASE g \notin R /\ g \notin Items(y.queued) /\ g \in y.active \ q.active
      <4>1. ch'[g] = <<OkStatus>> /\ OkStatus \in Status
        BY <1>5, <3>3, Zenon
      <4> QED
        BY <4>1, OneMessage, Zenon
    <3>4. CASE g \notin R /\ g \notin Items(y.queued) /\ g \notin y.active \ q.active
      BY <1>6, <3>4 DEF IInv, TypeOK
    <3> QED
      BY <3>1, <3>2, <3>3, <3>4
  <2>3. ch' \in [Handle -> Seq(Status)]
    BY <2>2
  <2>4. closed' \in [Handle -> BOOLEAN]
    OBVIOUS
  <2>5. status' \in [Handle -> Status]
    BY DEF IInv, TypeOK, ZeroStatus, Status
  <2>6. released' \in [Handle -> BOOLEAN]
    OBVIOUS
  <2> QED
    BY <2>1, <2>2, <2>3, <2>4, <2>5, <2>6 DEF TypeOK
<1>8. WorkConserving'
  BY <1>0, <1>2 DEF WorkConserving, Conserving
<1>9. GrantMatchesSlot'
  <2> SUFFICES ASSUME NEW g \in Handle, ~released'[g]
               PROVE  /\ Latest(g)'.Ok <=> g \in y.active
                      /\ Latest(g)'.Full <=> g \notin y.active \cup Items(y.queued)
    BY <1>0 DEF GrantMatchesSlot, Items
  <2>1. g \notin R /\ ~released[g]
    BY Zenon
  <2>2. CASE g \in Items(y.queued)
    <3>1. PICK i \in DOMAIN y.queued : y.queued[i] = g
      BY <2>2 DEF Items
    <3>2. Latest(y.queued[i])' = WaitStatus(y, i)
      BY <1>4
    <3>3. ~WaitStatus(y, i).Ok /\ ~WaitStatus(y, i).Full
      BY DEF WaitStatus
    <3>4. Latest(g)' = WaitStatus(y, i)
      BY <3>1, <3>2 DEF Latest
    <3> QED
      BY <1>3, <2>2, <3>4, <3>3
  <2>3. CASE g \in y.active \ q.active
    BY <1>5, <2>3, SMTT(30) DEF OkStatus
  <2>4. CASE g \notin Items(y.queued) /\ g \notin y.active \ q.active
    <3>1. Latest(g)' = Latest(g)
      BY <1>6, <2>1, <2>4
    <3>2. /\ Latest(g).Ok <=> g \in q.active
          /\ Latest(g).Full <=> g \notin q.active \cup Items(q.queued)
      BY <2>1 DEF IInv, GrantMatchesSlot
    <3>3. g \in y.active <=> g \in q.active
      BY <1>2, <2>1, <2>4
    <3>4. g \in y.active \cup Items(y.queued) <=> g \in q.active \cup Items(q.queued)
      BY <1>2, <2>1
    <3> QED
      BY <3>1, <3>2, <3>3, <3>4
  <2> QED
    BY <2>2, <2>3, <2>4
<1>10. PositionAccurate'
  <2> SUFFICES ASSUME NEW i \in DOMAIN y.queued
               PROVE  PositionOK(y, i, Latest(y.queued[i])')
    BY <1>0, Zenon DEF PositionAccurate, Latest
  <2>1. Latest(y.queued[i])' = WaitStatus(y, i)
    BY <1>4
  <2>2. /\ WaitStatus(y, i).Index = Surplus(y) + i - 1
        /\ WaitStatus(y, i).Max = Surplus(y) + Len(y.queued)
        /\ Surplus(y) \in Int
    BY <1>2, StatusTypes
  <2>3. i \in 1..Len(y.queued) /\ Len(y.queued) \in Nat
    BY <1>3
  <2>4. Surplus(y) >= 0
    <3>1. y.queued # << >>
      BY <2>3
    <3>2. Cardinality(y.active) \in Nat /\ y.max \in Int
      BY <1>2, <1>3, FS_CardinalityType DEF Shape, QueueType
    <3> QED
      BY <1>2, <3>1, <3>2 DEF Conserving, Surplus
  <2> QED
    BY <2>1, <2>2, <2>3, <2>4 DEF PositionOK
<1>11. QueuedChannelsOpen'
  <2>1. ASSUME NEW i \in DOMAIN y.queued
        PROVE  ~closed'[y.queued[i]] /\ ~released'[y.queued[i]]
    <3>1. y.queued[i] \in Handle \ R /\ y.queued[i] \in Items(q.queued)
          /\ y.queued[i] \notin y.active
      BY <1>2, <1>3, <1>4
    <3>2. ~closed[y.queued[i]] /\ ~released[y.queued[i]]
      BY <3>1 DEF IInv, QueuedChannelsOpen, Items
    <3> QED
      BY <1>0, <3>1, <3>2, Zenon
  <2>2. \A i, j \in DOMAIN y.queued : y.queued[i] = y.queued[j] => i = j
    BY <1>2 DEF Shape, NoRepeats
  <2>3. ASSUME NEW h \in y.active PROVE closed'[h] /\ ~released'[h]
    <3>1. h \in Handle \ R /\ h \in q.active \cup Items(q.queued)
      BY <1>2, <1>3
    <3>2. ~released[h]
      BY <1>1, <3>1
    <3> QED
      BY <1>0, <3>1, <3>2, Zenon
  <2> QED
    BY <1>0, <2>1, <2>2, <2>3, Zenon DEF QueuedChannelsOpen
<1> QED
  BY <1>7, <1>8, <1>9, <1>10, <1>11 DEF IInv

(* A new queue satisfies the invariant. *)
LEMMA InitIInv == Init => IInv
<1> SUFFICES ASSUME Init PROVE IInv
  OBVIOUS
<1>1. PICK m \in Limits, k \in QueueLimits : q = NewQueue(m, k)
  BY DEF Init
<1>2. /\ q.max = m /\ q.maxQueued = k /\ q.active = {} /\ q.queued = << >>
      /\ m \in Int /\ k \in Int
      /\ q \in [max : Int, maxQueued : Int, active : SUBSET Handle, queued : Seq(Handle)]
  BY <1>1, LimitsAssumption DEF NewQueue
<1>3. TypeOK
  BY <1>2, FS_EmptySet DEF Init, TypeOK, ZeroStatus, Status
<1> QED
  BY <1>2, <1>3 DEF Init, IInv, WorkConserving, GrantMatchesSlot, PositionAccurate,
                    QueuedChannelsOpen

(* SetMax preserves the invariant. *)
LEMMA SetMaxIInv ==
  ASSUME IInv, NEW m \in Limits, NEW k \in QueueLimits, SetMax(m, k)
  PROVE  IInv'
<1>1. m \in Int /\ k \in Int /\ Shape(Handle, q) /\ Conserving(q)
  BY LimitsAssumption, IInvShape
<1>2. q' = QSetMax(q, m, k)
  BY DEF SetMax
<1>3. Shape(Handle, q') /\ Conserving(q') /\ \E n \in Nat : Promotes(q, q', n)
  BY <1>1, <1>2, SetMaxLemma
<1>4. Moves(Handle, q, q', {})
  BY <1>1, <1>3, PromotesMoves
<1>5. /\ ch' = [g \in Handle |-> IF g \in {} THEN << >> ELSE Announce(ch, q')[g]]
      /\ closed' = [g \in Handle |-> g \notin {} /\ (closed[g] \/ g \in q'.active)]
      /\ status' = [g \in Handle |-> IF g \in {} THEN ZeroStatus ELSE status[g]]
      /\ released' = [g \in Handle |-> g \in {} \/ released[g]]
  <2>1. /\ ch' = Announce(ch, q')
        /\ closed' = [h \in Handle |-> closed[h] \/ h \in q'.active]
        /\ status' = status /\ released' = released
    BY <1>2 DEF SetMax
  <2>2. status \in [Handle -> Status] /\ released \in [Handle -> BOOLEAN]
    BY DEF IInv, TypeOK
  <2>3. Announce(ch, q') = [g \in Handle |-> Announce(ch, q')[g]]
    BY DEF Announce
  <2> QED
    BY <2>1, <2>2, <2>3
<1> QED
  BY <1>4, <1>5, MoveStep

(* Release preserves the invariant. *)
LEMMA ReleaseIInv ==
  ASSUME IInv, NEW h \in Handle, Release(h)
  PROVE  IInv'
<1>1. Shape(Handle, q) /\ Conserving(q)
  BY IInvShape
<1>2. q' = QRelease(q, h)
  BY DEF Release
<1>3. Moves(Handle, q, q', {h})
  BY <1>1, <1>2, ReleaseLemma
<1>4. /\ ch' = [g \in Handle |-> IF g \in {h} THEN << >> ELSE Announce(ch, q')[g]]
      /\ closed' = [g \in Handle |-> g \notin {h} /\ (closed[g] \/ g \in q'.active)]
      /\ status' = [g \in Handle |-> IF g \in {h} THEN ZeroStatus ELSE status[g]]
      /\ released' = [g \in Handle |-> g \in {h} \/ released[g]]
  <2>1. /\ ch' = [Announce(ch, q') EXCEPT ![h] = << >>]
        /\ closed' = [g \in Handle |-> g # h /\ (closed[g] \/ g \in q'.active)]
        /\ status' = [status EXCEPT ![h] = ZeroStatus]
        /\ released' = [released EXCEPT ![h] = TRUE]
    BY <1>2 DEF Release
  <2>2. status \in [Handle -> Status] /\ released \in [Handle -> BOOLEAN]
    BY DEF IInv, TypeOK
  <2>3. Announce(ch, q') = [g \in Handle |-> Announce(ch, q')[g]]
    BY DEF Announce
  <2>4. ch' = [g \in Handle |-> IF g \in {h} THEN << >> ELSE Announce(ch, q')[g]]
    BY <2>1, <2>3
  <2>5. closed' = [g \in Handle |-> g \notin {h} /\ (closed[g] \/ g \in q'.active)]
    BY <2>1
  <2>6. status' = [g \in Handle |-> IF g \in {h} THEN ZeroStatus ELSE status[g]]
    BY <2>1, <2>2, Zenon
  <2>7. released' = [g \in Handle |-> g \in {h} \/ released[g]]
    BY <2>1, <2>2, Zenon
  <2> QED
    BY <2>4, <2>5, <2>6, <2>7
<1> QED
  BY <1>3, <1>4, MoveStep

(* Reading a channel preserves the invariant: what was in it is kept. *)
LEMMA ReceiveIInv ==
  ASSUME IInv, NEW h \in Handle, Receive(h)
  PROVE  IInv'
<1>1. /\ q' = q /\ closed' = closed /\ released' = released /\ ch[h] # << >>
      /\ status' = [status EXCEPT ![h] = Head(ch[h])] /\ ch' = [ch EXCEPT ![h] = << >>]
  BY DEF Receive
<1>2. /\ TypeOK /\ ch \in [Handle -> Seq(Status)] /\ \A g \in Handle : Len(ch[g]) <= 1
      /\ status \in [Handle -> Status]
  BY DEF IInv, TypeOK
<1>3. ASSUME NEW g \in Handle PROVE Latest(g)' = Latest(g)
  BY <1>1, <1>2 DEF Latest
<1>4. TypeOK'
  <2>1. Head(ch[h]) \in Status
    BY <1>1, <1>2
  <2>2. ch' \in [Handle -> Seq(Status)] /\ \A g \in Handle : Len(ch'[g]) <= 1
    BY <1>1, <1>2
  <2>3. status' \in [Handle -> Status]
    BY <1>1, <1>2, <2>1
  <2> QED
    BY <1>1, <1>2, <2>2, <2>3 DEF TypeOK
<1>5. WorkConserving' /\ QueuedChannelsOpen'
  BY <1>1 DEF IInv, WorkConserving, QueuedChannelsOpen
<1>6. GrantMatchesSlot'
  BY <1>1, <1>3 DEF IInv, GrantMatchesSlot, Items
<1>7. PositionAccurate'
  <2>1. \A i \in DOMAIN q.queued : q.queued[i] \in Handle
    BY <1>2 DEF TypeOK
  <2> SUFFICES ASSUME NEW i \in DOMAIN q.queued, NEW g \in Handle, g = q.queued[i]
               PROVE  PositionOK(q, i, Latest(g)')
    BY <1>1, <2>1 DEF PositionAccurate, Latest
  <2> QED
    BY <1>3 DEF IInv, PositionAccurate
<1> QED
  BY <1>4, <1>5, <1>6, <1>7 DEF IInv

(* Acquire preserves the invariant: the newcomer is told what happened to  *)
(* it, and nobody else's position changes.                                 *)
LEMMA AcquireIInv ==
  ASSUME IInv, NEW h \in Handle, Acquire(h)
  PROVE  IInv'
<1>0. PICK y : y = q'
  OBVIOUS
<1>1. /\ Shape(Handle, q) /\ Conserving(q) /\ h \notin q.active /\ h \notin Items(q.queued)
  BY IInvShape DEF Acquire
<1>2. /\ Shape(Handle, y) /\ Conserving(y) /\ y.max = q.max
      /\ \/ q.queued = << >> /\ y.queued = << >> /\ y.active = q.active \cup {h}
         \/ y = q
         \/ y.active = q.active /\ y.queued = Append(q.queued, h)
  BY <1>0, <1>1, AcquireLemma DEF Acquire
<1>3. /\ y \in QueueType(Handle) /\ y.queued \in Seq(Handle) /\ DOMAIN y.queued = 1..Len(y.queued)
      /\ y.active \cap Items(y.queued) = {} /\ IsFiniteSet(y.active)
  BY <1>2 DEF Shape, QueueType
<1>4. PICK w : w = IF h \in y.active THEN OkStatus
                   ELSE IF h \in Items(y.queued) THEN WaitStatus(y, Len(y.queued))
                   ELSE FullStatus
  OBVIOUS
<1>5. /\ ch' = [ch EXCEPT ![h] = <<w>>]
      /\ closed' = [closed EXCEPT ![h] = h \notin Items(y.queued)]
      /\ released' = [released EXCEPT ![h] = FALSE]
      /\ status' = status
  BY <1>0, <1>4, Zenon DEF Acquire
<1>6. /\ TypeOK /\ ch \in [Handle -> Seq(Status)] /\ \A g \in Handle : Len(ch[g]) <= 1
      /\ closed \in [Handle -> BOOLEAN] /\ released \in [Handle -> BOOLEAN]
      /\ status \in [Handle -> Status]
  BY DEF IInv, TypeOK
<1>7. w \in Status
  <2>1. OkStatus \in Status /\ FullStatus \in Status
    BY DEF OkStatus, FullStatus, Status
  <2>2. CASE h \in Items(y.queued)
    <3>1. Len(y.queued) \in DOMAIN y.queued
      BY <1>3, <2>2 DEF Items
    <3> QED
      BY <1>2, <1>4, <2>1, <3>1, StatusTypes
  <2> QED
    BY <1>4, <2>1, <2>2
<1>8. Latest(h)' = w
  <2>1. ch'[h] = <<w>>
    BY <1>5, <1>6
  <2> QED
    BY <1>7, <2>1, LatestSent
<1>9. ASSUME NEW g \in Handle, g # h PROVE Latest(g)' = Latest(g)
  BY <1>5, <1>6, <1>9 DEF Latest
<1>10. /\ \A g \in Handle : g # h => (g \in y.active <=> g \in q.active)
       /\ \A g \in Handle : g # h => (g \in Items(y.queued) <=> g \in Items(q.queued))
  <2>1. CASE y.active = q.active /\ y.queued = Append(q.queued, h)
    <3>1. /\ q.queued \in Seq(Handle) /\ Len(q.queued) \in Nat
          /\ DOMAIN q.queued = 1..Len(q.queued)
          /\ DOMAIN y.queued = 1..(Len(q.queued) + 1)
          /\ \A i \in 1..Len(q.queued) : y.queued[i] = q.queued[i]
          /\ y.queued[Len(q.queued) + 1] = h
      BY <1>1, <2>1 DEF Shape, QueueType
    <3>2. \A i \in 1..(Len(q.queued) + 1) : i \in 1..Len(q.queued) \/ i = Len(q.queued) + 1
      BY <3>1
    <3>3. \A i \in 1..Len(q.queued) : i \in 1..(Len(q.queued) + 1)
      BY <3>1
    <3> QED
      BY <2>1, <3>1, <3>2, <3>3 DEF Items
  <2> QED
    BY <1>2, <2>1
<1>11. TypeOK'
  <2>1. q' \in [max : Int, maxQueued : Int, active : SUBSET Handle, queued : Seq(Handle)]
    BY <1>0, <1>3 DEF QueueType
  <2>2. <<w>> \in Seq(Status) /\ Len(<<w>>) <= 1
    BY <1>7, OneMessage
  <2>3. ch' \in [Handle -> Seq(Status)] /\ \A g \in Handle : Len(ch'[g]) <= 1
    BY <1>5, <1>6, <2>2
  <2>4. closed' \in [Handle -> BOOLEAN] /\ released' \in [Handle -> BOOLEAN]
    BY <1>5, <1>6
  <2> QED
    BY <1>0, <1>3, <1>5, <1>6, <2>1, <2>3, <2>4, SMTT(30) DEF TypeOK
<1>12. WorkConserving'
  BY <1>0, <1>2, SMTT(30) DEF WorkConserving, Conserving
<1>13. GrantMatchesSlot'
  <2> SUFFICES ASSUME NEW g \in Handle, ~released'[g]
               PROVE  /\ Latest(g)'.Ok <=> g \in y.active
                      /\ Latest(g)'.Full <=> g \notin y.active \cup Items(y.queued)
    BY <1>0 DEF GrantMatchesSlot, Items
  <2>1. CASE g = h
    <3>1. /\ w.Ok <=> h \in y.active
          /\ w.Full <=> h \notin y.active \cup Items(y.queued)
      BY <1>3, <1>4 DEF OkStatus, FullStatus, WaitStatus
    <3> QED
      BY <1>8, <2>1, <3>1
  <2>2. CASE g # h
    <3>1. ~released[g] /\ Latest(g)' = Latest(g)
      BY <1>5, <1>6, <1>9, <2>2, SMTT(30)
    <3>2. /\ Latest(g).Ok <=> g \in q.active
          /\ Latest(g).Full <=> g \notin q.active \cup Items(q.queued)
      BY <3>1 DEF IInv, GrantMatchesSlot
    <3> QED
      BY <1>10, <2>2, <3>1, <3>2
  <2> QED
    BY <2>1, <2>2
<1>14. PositionAccurate'
  <2> SUFFICES ASSUME NEW i \in DOMAIN y.queued, NEW g, g = y.queued[i]
               PROVE  PositionOK(y, i, Latest(g)')
    BY <1>0 DEF PositionAccurate, Latest
  <2>1. /\ q.queued \in Seq(Handle) /\ Len(q.queued) \in Nat
        /\ DOMAIN q.queued = 1..Len(q.queued)
    BY <1>1 DEF Shape, QueueType
  <2>2. ASSUME g # h PROVE /\ i \in DOMAIN q.queued /\ g = q.queued[i] /\ g \in Handle
                           /\ y.active = q.active /\ Len(y.queued) >= Len(q.queued)
    <3>1. CASE q.queued = << >> /\ y.queued = << >>
      BY <3>1
    <3>2. CASE y = q
      BY <2>1, <3>2
    <3>3. CASE y.active = q.active /\ y.queued = Append(q.queued, h)
      <4>1. /\ DOMAIN y.queued = 1..(Len(q.queued) + 1)
            /\ Len(y.queued) = Len(q.queued) + 1
            /\ \A j \in 1..Len(q.queued) : y.queued[j] = q.queued[j]
            /\ y.queued[Len(q.queued) + 1] = h
        BY <2>1, <3>3
      <4>2. i \in 1..Len(q.queued)
        BY <2>1, <2>2, <4>1, SMTT(30)
      <4> QED
        BY <2>1, <3>3, <4>1, <4>2
    <3> QED
      BY <1>2, <3>1, <3>2, <3>3
  <2>3. /\ Surplus(y) \in Int /\ Surplus(q) \in Int /\ i \in 1..Len(y.queued)
        /\ Len(y.queued) \in Nat
    BY <1>1, <1>2, <1>3, FS_CardinalityType, SMTT(30) DEF Surplus, Shape, QueueType
  <2>4. CASE g # h
    <3>1. Latest(g)' = Latest(g) /\ Surplus(y) = Surplus(q)
      BY <1>2, <1>9, <2>2, <2>4, SMTT(30) DEF Surplus
    <3>2. PositionOK(q, i, Latest(g))
      BY <2>2, <2>4 DEF IInv, PositionAccurate
    <3>3. Latest(g).Max \in Int
      BY <1>6, <2>2, <2>4, LatestType DEF Status
    <3> QED
      BY <2>1, <2>2, <2>3, <2>4, <3>1, <3>2, <3>3, SMTT(30) DEF PositionOK
  <2>5. CASE g = h
    <3>1. h \in Items(y.queued) /\ h \notin y.active
      BY <1>3, <2>5, ZenonT(30) DEF Items
    <3>2. y.queued = Append(q.queued, h)
      BY <1>1, <1>2, <3>1, SMTT(30)
    <3>3. i = Len(y.queued)
      <4>1. /\ DOMAIN y.queued = 1..(Len(q.queued) + 1)
            /\ Len(y.queued) = Len(q.queued) + 1
            /\ y.queued[Len(q.queued) + 1] = h
        BY <2>1, <3>2
      <4>2. Len(q.queued) + 1 \in DOMAIN y.queued
        BY <2>1, <4>1
      <4> QED
        BY <1>2, <2>5, <4>1, <4>2, ZenonT(30) DEF Shape, NoRepeats
    <3>4. w = WaitStatus(y, i)
      BY <1>4, <3>1, <3>3, SMTT(30)
    <3>5. w.Index = Surplus(y) + i - 1 /\ w.Max = Surplus(y) + Len(y.queued)
      BY <3>4 DEF WaitStatus
    <3>6. Surplus(y) >= 0
      <4>1. y.queued # << >>
        BY <2>3
      <4>2. Cardinality(y.active) \in Nat /\ y.max \in Int
        BY <1>3, FS_CardinalityType DEF QueueType
      <4> QED
        BY <1>2, <4>1, <4>2 DEF Conserving, Surplus
    <3> QED
      BY <1>8, <2>3, <2>5, <3>5, <3>6, SMTT(30) DEF PositionOK
  <2> QED
    BY <2>4, <2>5
<1>15. QueuedChannelsOpen'
  <2>1. ASSUME NEW i \in DOMAIN y.queued
        PROVE  ~closed'[y.queued[i]] /\ ~released'[y.queued[i]]
    <3>1. y.queued[i] \in Handle /\ y.queued[i] \in Items(y.queued)
      BY <1>3 DEF Items
    <3>2. CASE y.queued[i] = h
      BY <1>5, <1>6, <3>1, <3>2, ZenonT(30)
    <3>3. CASE y.queued[i] # h
      <4>1. y.queued[i] \in Items(q.queued)
        BY <1>10, <3>1, <3>3
      <4>2. ~closed[y.queued[i]] /\ ~released[y.queued[i]]
        BY <4>1 DEF IInv, QueuedChannelsOpen, Items
      <4> QED
        BY <1>5, <1>6, <3>1, <3>3, <4>2
    <3> QED
      BY <3>2, <3>3
  <2>2. \A i, j \in DOMAIN y.queued : y.queued[i] = y.queued[j] => i = j
    BY <1>2 DEF Shape, NoRepeats
  <2>3. ASSUME NEW g \in y.active PROVE closed'[g] /\ ~released'[g]
    <3>1. g \in Handle /\ g \notin Items(y.queued)
      BY <1>3, SMTT(30) DEF QueueType
    <3>2. g # h => closed[g] /\ ~released[g]
      BY <1>10, <3>1 DEF IInv, QueuedChannelsOpen
    <3> QED
      BY <1>5, <1>6, <3>1, <3>2, Zenon
  <2> QED
    BY <1>0, <2>1, <2>2, <2>3, SMTT(30) DEF QueuedChannelsOpen
<1> QED
  BY <1>11, <1>12, <1>13, <1>14, <1>15 DEF IInv

(* The inductive invariant holds in every reachable state, for any number  *)
(* of handles and any integer limits.                                      *)
THEOREM Invariance == Spec => []IInv
<1>1. IInv /\ [Next]_vars => IInv'
  <2> SUFFICES ASSUME IInv, [Next]_vars PROVE IInv'
    OBVIOUS
  <2>1. ASSUME NEW m \in Limits, NEW k \in QueueLimits, SetMax(m, k) PROVE IInv'
    BY <2>1, SetMaxIInv
  <2>2. ASSUME NEW h \in Handle, Acquire(h) PROVE IInv'
    BY <2>2, AcquireIInv
  <2>3. ASSUME NEW h \in Handle, Receive(h) PROVE IInv'
    BY <2>3, ReceiveIInv, SMTT(30)
  <2>4. ASSUME NEW h \in Handle, Release(h) PROVE IInv'
    BY <2>4, ReleaseIInv
  <2>5. CASE UNCHANGED vars
    BY <2>5 DEF vars, IInv, TypeOK, WorkConserving, GrantMatchesSlot, PositionAccurate,
                QueuedChannelsOpen, Latest
  <2> QED
    BY <2>1, <2>2, <2>3, <2>4, <2>5 DEF Next
<1> QED
  BY <1>1, InitIInv, PTL DEF Spec

(* The fields keep their types, the active list stays finite, and no       *)
(* channel ever holds more than the one Status it was made for.            *)
THEOREM TypeCorrectness == Spec => []TypeOK
<1>1. IInv => TypeOK
  BY DEF IInv
<1> QED
  BY <1>1, Invariance, PTL

(* No slot stays idle while a caller waits. *)
THEOREM WorkConservation == Spec => []WorkConserving
<1>1. IInv => WorkConserving
  BY DEF IInv
<1> QED
  BY <1>1, Invariance, PTL

(* A caller was told Ok exactly when it occupies a slot, and Full exactly  *)
(* when it occupies neither a slot nor a place in the queue.               *)
THEOREM GrantCorrectness == Spec => []GrantMatchesSlot
<1>1. IInv => GrantMatchesSlot
  BY DEF IInv
<1> QED
  BY <1>1, Invariance, PTL

(* The queue position a client is shown is its true position. *)
THEOREM PositionCorrectness == Spec => []PositionAccurate
<1>1. IInv => PositionAccurate
  BY DEF IInv
<1> QED
  BY <1>1, Invariance, PTL

(* No operation sends on or closes a closed channel. *)
THEOREM ChannelSafety == Spec => []QueuedChannelsOpen
<1>1. IInv => QueuedChannelsOpen
  BY DEF IInv
<1> QED
  BY <1>1, Invariance, PTL
-----------------------------------------------------------------------------
(* What callers were told and which list they are in are the same thing.   *)
ToldIsList ==
  /\ ToldOk = q.active
  /\ ToldWait = Items(q.queued)
  /\ ToldFull = {h \in Handle : ~released[h]} \ (q.active \cup Items(q.queued))
  /\ q.active \cup Items(q.queued) \subseteq {h \in Handle : ~released[h]}

(* GrantMatchesSlot, read as an equality of sets. *)
LEMMA ToldLemma == IInv => ToldIsList
<1> SUFFICES ASSUME IInv PROVE ToldIsList
  OBVIOUS
<1>1. /\ Shape(Handle, q)
      /\ \A h \in Handle : released[h] => h \notin q.active /\ h \notin Items(q.queued)
  BY IInvShape
<1>2. /\ q.active \subseteq Handle /\ Items(q.queued) \subseteq Handle
      /\ q.active \cap Items(q.queued) = {}
  BY <1>1 DEF Shape, QueueType, Items
<1>3. \A h \in Handle : ~released[h] =>
        /\ Latest(h).Ok <=> h \in q.active
        /\ Latest(h).Full <=> h \notin q.active \cup Items(q.queued)
  BY DEF IInv, GrantMatchesSlot
<1>4. ToldOk = q.active
  BY <1>1, <1>2, <1>3 DEF ToldOk
<1>5. ToldWait = Items(q.queued)
  BY <1>1, <1>2, <1>3 DEF ToldWait
<1>6. ToldFull = {h \in Handle : ~released[h]} \ (q.active \cup Items(q.queued))
  BY <1>1, <1>2, <1>3 DEF ToldFull
<1> QED
  BY <1>1, <1>2, <1>4, <1>5, <1>6, SMTT(30) DEF ToldIsList

(* The same after a step. *)
LEMMA ToldLemmaPrimed == IInv' => ToldIsList'
BY ToldLemma, PTL

(* AdmissionControl counts as this module does. *)
LEMMA SameCount ==
  ASSUME NEW S
  PROVE  Abstract!Cardinality(S) = Cardinality(S)
BY Zenon DEF Abstract!Cardinality, Cardinality, Abstract!IsFiniteSet, IsFiniteSet

(* A step that moves handles between the lists and lets R depart is one    *)
(* Fill of the contract.                                                   *)
LEMMA MovesFill ==
  ASSUME ToldIsList, ToldIsList', NEW R \in SUBSET Handle, Moves(Handle, q, q', R), Shape(Handle, q)
  PROVE  Abstract!Fill(ToldOk \ R, ToldWait \ R, q'.max)
<1>1. PICK y : y = q'
  OBVIOUS
<1> DEFINE G == y.active \ (q.active \ R)
<1>2. /\ Shape(Handle, y) /\ Conserving(y)
      /\ q.active \ R \subseteq y.active
      /\ Items(y.queued) \subseteq Items(q.queued)
      /\ y.active \cup Items(y.queued) = (q.active \cup Items(q.queued)) \ R
      /\ Fits(q, y, R)
  BY <1>1 DEF Moves
<1>3. q.active \cap Items(q.queued) = {} /\ y.active \cap Items(y.queued) = {}
  BY <1>2 DEF Shape
<1>4. ToldOk = q.active /\ ToldWait = Items(q.queued)
  BY DEF ToldIsList
<1>5. ToldOk' = y.active /\ ToldWait' = Items(y.queued)
  BY <1>1 DEF ToldIsList
<1>6. G \subseteq ToldWait \ R
  BY <1>2, <1>3, <1>4
<1>7. (ToldOk \ R) \cup G = y.active /\ (ToldWait \ R) \ G = Items(y.queued)
  BY <1>2, <1>3, <1>4
<1>8. G # {} => y.max = 0 \/ Cardinality(y.active) <= y.max
  BY <1>2 DEF Fits
<1>9. ToldWait \ R # G => y.max # 0 /\ Cardinality(y.active) >= y.max
  <2>1. ToldWait \ R # G => Items(y.queued) # {}
    BY <1>6, <1>7
  <2>2. Items(y.queued) # {} => y.queued # << >>
    BY DEF Items
  <2> QED
    BY <1>2, <2>1, <2>2 DEF Conserving
<1> HIDE DEF G
<1> QED
  BY <1>1, <1>5, <1>6, <1>7, <1>8, <1>9, SameCount, ZenonT(30) DEF Abstract!Fill, Abstract!Reached

(* Everybody who holds a handle, in whichever list or in none. *)
Held == {h \in Handle : ~released[h]}

(* Acquire admits, keeps waiting or refuses, on the contract's conditions. *)
LEMMA AcquireRefines ==
  ASSUME IInv, IInv', NEW h \in Handle, Acquire(h)
  PROVE  Abstract!Admit(h) \/ Abstract!KeepWaiting(h) \/ Abstract!Refuse(h)
<1>1. PICK y : y = q'
  OBVIOUS
<1>2. /\ Shape(Handle, q) /\ released[h] /\ released \in [Handle -> BOOLEAN]
      /\ h \notin q.active /\ h \notin Items(q.queued)
  BY IInvShape DEF Acquire, IInv, TypeOK
<1>3. /\ q \in QueueType(Handle) /\ q.queued \in Seq(Handle) /\ q.max \in Int /\ q.maxQueued \in Int
      /\ Cardinality(q.active) \in Nat /\ Len(q.queued) \in Nat
  BY <1>2, FS_CardinalityType DEF Shape, QueueType
<1>4. y = QAcquire(q, h) /\ released' = [released EXCEPT ![h] = FALSE]
  BY <1>1 DEF Acquire
<1>5. /\ ToldOk = q.active /\ ToldWait = Items(q.queued)
      /\ ToldFull = Held \ (q.active \cup Items(q.queued))
      /\ q.active \cup Items(q.queued) \subseteq Held
  BY ToldLemma DEF ToldIsList, Held
<1>6. /\ ToldOk' = y.active /\ ToldWait' = Items(y.queued)
      /\ ToldFull' = Held' \ (y.active \cup Items(y.queued))
  BY <1>1, ToldLemmaPrimed DEF ToldIsList, Held
<1>7. Held' = Held \cup {h} /\ h \notin Held
  BY <1>2, <1>4 DEF Held
<1>8. Abstract!Outside(h)
  BY <1>2, <1>5, <1>7 DEF Abstract!Outside
<1>9. HasRoom(q) <=> ~Abstract!Reached(ToldOk, q.max)
  BY <1>3, <1>5, SameCount DEF HasRoom, Abstract!Reached
<1>10. (IsFull(q) => Abstract!MayRefuse) /\ (~IsFull(q) => Abstract!MayWait)
  <2>1. Abstract!Cardinality(ToldWait) = Len(q.queued)
    BY <1>2, <1>5, SameCount, ItemsCardinality, Zenon
  <2> QED
    BY <1>3, <2>1 DEF IsFull, Abstract!MayRefuse, Abstract!MayWait
<1>11. CASE HasRoom(q)
  <2>1. y.active = q.active \cup {h} /\ y.queued = q.queued
        /\ y.max = q.max /\ y.maxQueued = q.maxQueued
    BY <1>3, <1>4, <1>11 DEF QAcquire, QueueType
  <2>2. ToldOk' = ToldOk \cup {h} /\ ToldWait' = ToldWait /\ ToldFull' = ToldFull
    BY <1>5, <1>6, <1>7, <2>1
  <2> QED
    BY <1>1, <1>8, <1>9, <1>11, <2>1, <2>2 DEF Abstract!Admit
<1>12. CASE ~HasRoom(q) /\ IsFull(q)
  <2>1. y = q
    BY <1>4, <1>12 DEF QAcquire
  <2>2. ToldOk' = ToldOk /\ ToldWait' = ToldWait /\ ToldFull' = ToldFull \cup {h}
    BY <1>2, <1>5, <1>6, <1>7, <2>1, SMTT(30)
  <2> QED
    BY <1>1, <1>8, <1>9, <1>10, <1>12, <2>1, <2>2, SMTT(30) DEF Abstract!Refuse
<1>13. CASE ~HasRoom(q) /\ ~IsFull(q)
  <2>1. y.active = q.active /\ y.queued = Append(q.queued, h)
        /\ y.max = q.max /\ y.maxQueued = q.maxQueued
    BY <1>3, <1>4, <1>13 DEF QAcquire, QueueType
  <2>2. Items(Append(q.queued, h)) = Items(q.queued) \cup {h}
    BY <1>3, AppendItems
  <2>3. ToldOk' = ToldOk /\ ToldWait' = ToldWait \cup {h} /\ ToldFull' = ToldFull
    BY <1>5, <1>6, <1>7, <2>1, <2>2
  <2> QED
    BY <1>1, <1>8, <1>9, <1>10, <1>13, <2>1, <2>3, SMTT(30) DEF Abstract!KeepWaiting
<1> QED
  BY <1>11, <1>12, <1>13

(* Release is a departure. *)
LEMMA ReleaseRefines ==
  ASSUME IInv, IInv', NEW h \in Handle, Release(h)
  PROVE  Abstract!Leave(h)
<1>1. /\ Shape(Handle, q) /\ Conserving(q) /\ ~released[h] /\ released \in [Handle -> BOOLEAN]
      /\ q' = QRelease(q, h) /\ released' = [released EXCEPT ![h] = TRUE]
  BY IInvShape DEF Release, IInv, TypeOK
<1>2. Moves(Handle, q, q', {h}) /\ q'.max = q.max /\ q'.maxQueued = q.maxQueued
  BY <1>1, ReleaseLemma, SMTT(30)
<1>3. ToldIsList /\ ToldIsList'
  BY ToldLemma, ToldLemmaPrimed
<1>4. Abstract!Fill(ToldOk \ {h}, ToldWait \ {h}, q'.max)
  BY <1>1, <1>2, <1>3, MovesFill
<1>5. Held' = Held \ {h} /\ h \in Held
  BY <1>1 DEF Held
<1>6. ToldOk \cup ToldWait \cup ToldFull = Held /\ ToldFull = Held \ (q.active \cup Items(q.queued))
  BY <1>3 DEF ToldIsList, Held
<1>7. ToldFull' = ToldFull \ {h}
  <2>1. PICK y : y = q'
    OBVIOUS
  <2>2. ToldFull' = Held' \ (y.active \cup Items(y.queued))
    BY <1>3, <2>1, SMTT(30) DEF ToldIsList, Held
  <2>3. y.active \cup Items(y.queued) = (q.active \cup Items(q.queued)) \ {h}
    BY <1>2, <2>1, SMTT(30) DEF Moves
  <2> QED
    BY <1>5, <1>6, <2>2, <2>3, SMTT(30)
<1>8. ~Abstract!Outside(h)
  BY <1>5, <1>6 DEF Abstract!Outside
<1> QED
  BY <1>2, <1>4, <1>7, <1>8, SMTT(30) DEF Abstract!Leave

(* SetMax is a change of the limits. *)
LEMMA SetMaxRefines ==
  ASSUME IInv, IInv', NEW m \in Limits, NEW k \in QueueLimits, SetMax(m, k)
  PROVE  Abstract!ChangeLimit(m, k)
<1>1. /\ m \in Int /\ k \in Int /\ Shape(Handle, q) /\ q' = QSetMax(q, m, k)
      /\ released' = released
  BY LimitsAssumption, IInvShape DEF SetMax
<1>2. /\ Shape(Handle, q') /\ Conserving(q') /\ \E n \in Nat : Promotes(q, q', n)
      /\ q'.max = m /\ q'.maxQueued = k
  BY <1>1, SetMaxLemma
<1>3. Moves(Handle, q, q', {})
  BY <1>1, <1>2, PromotesMoves
<1>4. ToldIsList /\ ToldIsList'
  BY ToldLemma, ToldLemmaPrimed
<1>5. Abstract!Fill(ToldOk \ {}, ToldWait \ {}, q'.max)
  BY <1>1, <1>3, <1>4, MovesFill
<1>6. ToldOk \ {} = ToldOk /\ ToldWait \ {} = ToldWait
  BY SMTT(30)
<1>7. ToldFull' = ToldFull
  <2>1. PICK y : y = q'
    OBVIOUS
  <2>2. ToldFull' = Held' \ (y.active \cup Items(y.queued)) /\ Held' = Held
    BY <1>1, <1>4, <2>1, SMTT(30) DEF ToldIsList, Held
  <2>3. y.active \cup Items(y.queued) = q.active \cup Items(q.queued)
    BY <1>3, <2>1 DEF Moves
  <2> QED
    BY <1>4, <2>2, <2>3 DEF ToldIsList, Held
<1> QED
  BY <1>2, <1>5, <1>6, <1>7, Zenon DEF Abstract!ChangeLimit

(* Reading a Status changes nothing that the callers were told. *)
LEMMA ReceiveRefines ==
  ASSUME IInv, IInv', q' = q, released' = released
  PROVE  UNCHANGED Abstract!callerVars
<1>1. ToldIsList /\ ToldIsList'
  BY ToldLemma, ToldLemmaPrimed
<1>2. ToldOk' = ToldOk /\ ToldWait' = ToldWait /\ ToldFull' = ToldFull
  BY <1>1 DEF ToldIsList, Items
<1> QED
  BY <1>2 DEF Abstract!callerVars

(* A new queue has told nobody anything. *)
LEMMA InitRefines == Init => Abstract!Init
<1> SUFFICES ASSUME Init PROVE Abstract!Init
  OBVIOUS
<1>1. ToldOk = {} /\ ToldWait = {} /\ ToldFull = {}
  BY DEF Init, ToldOk, ToldWait, ToldFull
<1>2. q.max \in Limits /\ q.maxQueued \in QueueLimits
  BY DEF Init, NewQueue
<1> QED
  BY <1>1, <1>2 DEF Abstract!Init

(* pkg/queue implements the admission contract: seen through the statuses  *)
(* sent by popHead, broadcastStatus and Acquire, every operation is a step *)
(* of AdmissionControl or leaves what callers know unchanged.              *)
THEOREM Refinement == Spec => ImplementsAdmissionControl
<1>1. IInv /\ IInv' /\ [Next]_vars => [Abstract!Next]_Abstract!callerVars
  <2> SUFFICES ASSUME IInv, IInv', [Next]_vars
               PROVE  [Abstract!Next]_Abstract!callerVars
    OBVIOUS
  <2>1. ASSUME NEW m \in Limits, NEW k \in QueueLimits, SetMax(m, k)
        PROVE  Abstract!Next
    BY <2>1, SetMaxRefines DEF Abstract!Next
  <2>2. ASSUME NEW h \in Handle, Acquire(h) PROVE Abstract!Next
    BY <2>2, AcquireRefines DEF Abstract!Next
  <2>3. ASSUME NEW h \in Handle, Receive(h) PROVE UNCHANGED Abstract!callerVars
    BY <2>3, ReceiveRefines DEF Receive
  <2>4. ASSUME NEW h \in Handle, Release(h) PROVE Abstract!Next
    BY <2>4, ReleaseRefines DEF Abstract!Next
  <2>5. CASE UNCHANGED vars
    BY <2>5, ReceiveRefines DEF vars
  <2> QED
    BY <2>1, <2>2, <2>3, <2>4, <2>5 DEF Next
<1> QED
  BY <1>1, InitRefines, Invariance, PTL DEF Spec, ImplementsAdmissionControl, Abstract!Spec

(* First come, first served: no step of SetMax, Acquire or Release admits  *)
(* a caller past one that was queued before it and still is.               *)
THEOREM FirstComeFirstServed == Spec => NoOvertaking
<1>1. ASSUME IInv, InOrder(q, q') PROVE NoOvertakingStep
  BY <1>1 DEF InOrder, NoOvertakingStep, Items
<1>2. ASSUME q'.active = q.active PROVE NoOvertakingStep
  BY <1>2 DEF NoOvertakingStep
<1>3. IInv /\ [Next]_vars => [NoOvertakingStep]_vars
  <2> SUFFICES ASSUME IInv, Next PROVE NoOvertakingStep
    OBVIOUS
  <2>1. Shape(Handle, q) /\ Conserving(q)
        /\ \A h \in Handle : released[h] => h \notin q.active /\ h \notin Items(q.queued)
    BY IInvShape
  <2>2. ASSUME NEW m \in Limits, NEW k \in QueueLimits, SetMax(m, k)
        PROVE  NoOvertakingStep
    <3>1. m \in Int /\ k \in Int /\ q' = QSetMax(q, m, k)
      BY <2>2, LimitsAssumption DEF SetMax
    <3>2. Shape(Handle, q') /\ Conserving(q') /\ \E n \in Nat : Promotes(q, q', n)
      BY <2>1, <3>1, SetMaxLemma, SMTT(30)
    <3>3. Moves(Handle, q, q', {})
      BY <2>1, <3>2, PromotesMoves
    <3> QED
      BY <1>1, <3>3, SMTT(30) DEF Moves
  <2>3. ASSUME NEW h \in Handle, Acquire(h) PROVE NoOvertakingStep
    <3>1. released[h] /\ q' = QAcquire(q, h)
      BY <2>3, SMTT(30) DEF Acquire
    <3>2. \/ q.queued = << >>
          \/ q'.active = q.active
      BY <2>1, <3>1, AcquireLemma
    <3>3. ASSUME q.queued = << >> PROVE NoOvertakingStep
      BY <3>3 DEF NoOvertakingStep, Items
    <3> QED
      BY <1>2, <3>2, <3>3, SMTT(30)
  <2>4. ASSUME NEW h \in Handle, Receive(h) PROVE NoOvertakingStep
    BY <1>2, <2>4 DEF Receive
  <2>5. ASSUME NEW h \in Handle, Release(h) PROVE NoOvertakingStep
    <3>1. Moves(Handle, q, q', {h})
      BY <2>1, <2>5, ReleaseLemma DEF Release
    <3> QED
      BY <1>1, <3>1 DEF Moves
  <2> QED
    BY <2>2, <2>3, <2>4, <2>5 DEF Next
<1> QED
  BY <1>3, Invariance, PTL DEF Spec, NoOvertaking
=============================================================================
