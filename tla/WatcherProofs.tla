--------------------------- MODULE WatcherProofs ---------------------------
(***************************************************************************)
(* The detection latency of the relay watcher for all limits: WInv says    *)
(* that no limit was exceeded at the last tick, and a tick is never longer *)
(* ago than the interval, which is at most a quarter of each limit or one  *)
(* second.                                                                 *)
(***************************************************************************)
EXTENDS RelayWatcher, SequenceTheorems, FiniteSetTheorems, TLAPS

(* The smallest of up to three numbers. *)
LEMMA MinLemma ==
  ASSUME NEW S, NEW a \in Nat, NEW b \in Nat, NEW c \in Nat,
         S \subseteq {a, b, c}, S # {}
  PROVE  Min(S) \in S /\ \A y \in S : Min(S) <= y
<1>1. \E x \in S : \A y \in S : x <= y
  <2>1. CASE a \in S /\ (b \in S => a <= b) /\ (c \in S => a <= c)
    BY <2>1
  <2>2. CASE b \in S /\ (a \in S => b <= a) /\ (c \in S => b <= c)
    BY <2>2
  <2>3. CASE c \in S /\ (a \in S => c <= a) /\ (b \in S => c <= b)
    BY <2>3
  <2>4. a \in S \/ b \in S \/ c \in S
    BY Zenon
  <2>5. /\ a <= b \/ b <= a
        /\ a <= c \/ c <= a
        /\ b <= c \/ c <= b
        /\ a <= b /\ b <= c => a <= c
        /\ a <= c /\ c <= b => a <= b
        /\ b <= a /\ a <= c => b <= c
        /\ b <= c /\ c <= a => b <= a
        /\ c <= a /\ a <= b => c <= b
        /\ c <= b /\ b <= a => c <= a
    OBVIOUS
  <2> QED
    BY <2>1, <2>2, <2>3, <2>4, <2>5, Zenon
<1> QED
  BY <1>1, Zenon DEF Min

(* The wake-up interval is at least a second, and longer only as far as a  *)
(* quarter of every enabled limit allows.                                  *)
LEMMA IntervalLemma ==
  /\ interval \in Nat /\ interval >= Second
  /\ IdleTimeout > 0 => interval <= Second \/ interval <= IdleTimeout
  /\ MaxDuration > 0 => interval <= Second \/ interval <= MaxDuration
<1>1. Quarters # {} /\ Quarters \subseteq {IdleTimeout, MaxDuration, MinWindow}
  <2>1. IdleTimeout # 0 \/ MaxDuration # 0 \/ (throughputEnabled /\ MinWindow # 0)
    BY WatcherAssumption DEF throughputEnabled
  <2>2. \A x \in Quarters : x \in {IdleTimeout, MaxDuration, MinWindow}
    BY DEF Quarters
  <2>3. IdleTimeout # 0 => IdleTimeout \in Quarters
    BY DEF Quarters
  <2>4. MaxDuration # 0 => MaxDuration \in Quarters
    BY DEF Quarters
  <2>5. throughputEnabled /\ MinWindow # 0 => MinWindow \in Quarters
    BY DEF Quarters
  <2> QED
    BY <2>1, <2>2, <2>3, <2>4, <2>5
<1>2. IdleTimeout \in Nat /\ MaxDuration \in Nat /\ MinWindow \in Nat
  BY WatcherAssumption
<1>3. Min(Quarters) \in Quarters /\ \A y \in Quarters : Min(Quarters) <= y
  BY <1>1, <1>2, MinLemma, Zenon
<1>4. Min(Quarters) \in Nat
  BY <1>1, <1>2, <1>3, Zenon
<1>5. /\ IdleTimeout > 0 => IdleTimeout \in Quarters
      /\ MaxDuration > 0 => MaxDuration \in Quarters
  BY <1>2 DEF Quarters
<1> QED
  BY <1>2, <1>3, <1>4, <1>5 DEF interval, Second

(* The time of the last tick, or of the start of the relay. *)
LastTick == now - (interval - ticker)

(* No limit was exceeded when the watcher last looked. *)
WInv ==
  /\ now \in Nat /\ lastActivity \in Nat /\ lastActivity <= now
  /\ ticker \in Nat /\ 1 <= ticker /\ ticker <= interval
  /\ ended = "no" =>
       /\ IdleTimeout > 0 => LastTick - lastActivity < IdleTimeout * Second
       /\ MaxDuration > 0 => LastTick < MaxDuration * Second

(* The relay starts with fresh timestamps. *)
LEMMA InitWInv == Init => WInv
<1> SUFFICES ASSUME Init PROVE WInv
  OBVIOUS
<1>1. now = 0 /\ lastActivity = 0 /\ ticker = interval
  BY DEF Init
<1>2. interval \in Nat /\ 1 <= interval
  BY IntervalLemma DEF Second
<1>3. LastTick = 0
  BY <1>1, <1>2 DEF LastTick
<1>4. /\ IdleTimeout > 0 => 0 < IdleTimeout * 4
      /\ MaxDuration > 0 => 0 < MaxDuration * 4
  BY WatcherAssumption
<1> QED
  BY <1>1, <1>2, <1>3, <1>4 DEF WInv, Second

(* A unit of time preserves WInv: a tick that lets the session live has    *)
(* checked both limits, and between ticks only the activity moves on.      *)
LEMMA PassWInv ==
  ASSUME WInv, NEW byte \in {0, 1}, Pass(byte)
  PROVE  WInv'
<1> DEFINE t == now + 1
           last == IF byte = 1 THEN t ELSE lastActivity
<1>1. /\ ended = "no" /\ now' = t /\ lastActivity' = last
      /\ ticker' = IF ticker = 1 THEN interval ELSE ticker - 1
  BY DEF Pass, Ticks
<1>2. /\ IdleTimeout \in Nat /\ MaxDuration \in Nat
      /\ interval \in Nat /\ interval >= 4 /\ interval' = interval
  BY IntervalLemma, WatcherAssumption
     DEF Second, interval, Quarters, throughputEnabled, Min
<1>3. /\ now \in Nat /\ lastActivity \in Nat /\ lastActivity <= now
      /\ ticker \in Nat /\ 1 <= ticker /\ ticker <= interval
  BY DEF WInv
<1>4. /\ t \in Nat /\ last \in Nat /\ lastActivity <= last /\ last <= t
      /\ ticker' \in Nat /\ 1 <= ticker' /\ ticker' <= interval
  <2>1. t \in Nat /\ last \in Nat /\ lastActivity <= last /\ last <= t
    BY <1>3
  <2>2. CASE ticker = 1
    BY <1>1, <1>2, <2>1, <2>2
  <2>3. CASE ticker # 1
    <3>1. ticker' = ticker - 1
      BY <1>1, <2>3
    <3> QED
      BY <1>2, <1>3, <2>1, <2>3, <3>1
  <2> QED
    BY <2>2, <2>3
<1>5. ASSUME ticker = 1, ended' = "no"
      PROVE  /\ LastTick' = t
             /\ IdleTimeout > 0 => t - last < IdleTimeout * Second
             /\ MaxDuration > 0 => t < MaxDuration * Second
  <2>1. \E n : Tick(t, last, n)
    BY <1>5 DEF Pass, Ticks
  <2>2. ~IdleExceeded(t, last) /\ ~MaxExceeded(t)
    BY <1>5, <2>1 DEF Tick
  <2>3. LastTick' = t
    <3>1. now' = t /\ ticker' = interval
      BY <1>1, <1>5
    <3> QED
      BY <1>2, <1>4, <3>1 DEF LastTick
  <2> QED
    BY <1>2, <1>4, <2>2, <2>3 DEF IdleExceeded, MaxExceeded, Second
<1>6. ASSUME ticker # 1 PROVE LastTick' = LastTick
  <2>1. now' = now + 1 /\ ticker' = ticker - 1
    BY <1>1, <1>6
  <2> QED
    BY <1>2, <1>3, <2>1 DEF LastTick
<1> HIDE DEF t, last
<1>7. ASSUME ended' = "no"
      PROVE  /\ IdleTimeout > 0 => LastTick' - lastActivity' < IdleTimeout * Second
             /\ MaxDuration > 0 => LastTick' < MaxDuration * Second
  <2>1. CASE ticker = 1
    BY <1>1, <1>5, <1>7, <2>1
  <2>2. CASE ticker # 1
    <3>1. PICK L : L = LastTick
      OBVIOUS
    <3>2. L \in Int
      BY <1>2, <1>3, <3>1 DEF LastTick
    <3>3. /\ IdleTimeout > 0 => L - lastActivity < IdleTimeout * Second
          /\ MaxDuration > 0 => L < MaxDuration * Second
      BY <1>1, <3>1 DEF WInv
    <3>4. IdleTimeout > 0 => L - last < IdleTimeout * Second
      BY <1>2, <1>3, <1>4, <3>2, <3>3 DEF Second
    <3>5. LastTick' = L /\ lastActivity' = last
      BY <1>1, <1>6, <2>2, <3>1
    <3> QED
      BY <3>3, <3>4, <3>5
  <2> QED
    BY <2>1, <2>2
<1> QED
  BY <1>1, <1>4, <1>7 DEF WInv

(* Less than d seconds at the last tick is less than Latency(d) now. *)
LEMMA LatencyLemma ==
  ASSUME NEW d \in Nat, NEW i \in Nat, NEW k \in Nat, NEW a \in Int,
         i <= 4 \/ i <= d, 1 <= k, a - (i - k) < d * 4
  PROVE  a < Latency(d)
<1>1. a < d * 4 + i
  OBVIOUS
<1>2. CASE d >= 4
  <2>1. Latency(d) = 5 * d
    BY <1>2 DEF Latency
  <2> QED
    BY <1>1, <1>2, <2>1
<1>3. CASE ~(d >= 4)
  <2>1. Latency(d) = d * 4 + 4
    BY <1>3 DEF Latency, Second
  <2> QED
    BY <1>1, <1>3, <2>1
<1> QED
  BY <1>2, <1>3

(* A session that is alive was active within 1.25 times the idle timeout   *)
(* and is younger than 1.25 times the maximal duration (or a second more   *)
(* than the limit, for limits below four seconds), for all limits: the     *)
(* worst case that the comment at relay's ticker promises.                 *)
THEOREM LatencyBound == Spec => []DetectionLatency
<1>1. WInv /\ [Next]_vars => WInv'
  <2> SUFFICES ASSUME WInv, [Next]_vars PROVE WInv'
    OBVIOUS
  <2>1. CASE Next
    BY <2>1, PassWInv DEF Next
  <2>2. CASE UNCHANGED vars
    BY <2>2 DEF vars, WInv, LastTick
  <2> QED
    BY <2>1, <2>2
<1>2. WInv => DetectionLatency
  <2> SUFFICES ASSUME WInv, ended = "no" PROVE DetectionLatency
    BY DEF DetectionLatency
  <2>1. /\ IdleTimeout \in Nat /\ MaxDuration \in Nat /\ interval \in Nat
        /\ IdleTimeout > 0 => interval <= 4 \/ interval <= IdleTimeout
        /\ MaxDuration > 0 => interval <= 4 \/ interval <= MaxDuration
    BY IntervalLemma, WatcherAssumption DEF Second
  <2>2. /\ now \in Nat /\ lastActivity \in Nat /\ ticker \in Nat /\ 1 <= ticker
        /\ IdleTimeout > 0 => LastTick - lastActivity < IdleTimeout * 4
        /\ MaxDuration > 0 => LastTick < MaxDuration * 4
    BY DEF WInv, Second
  <2>3. ASSUME IdleTimeout > 0 PROVE now - lastActivity < Latency(IdleTimeout)
    <3>1. now - lastActivity \in Int
      BY <2>2
    <3>2. LastTick - lastActivity = (now - lastActivity) - (interval - ticker)
      BY <2>1, <2>2 DEF LastTick
    <3>3. (now - lastActivity) - (interval - ticker) < IdleTimeout * 4
      BY <2>2, <2>3, <3>2
    <3> QED
      BY <2>1, <2>2, <2>3, <3>1, <3>3, LatencyLemma, Zenon
  <2>4. ASSUME MaxDuration > 0 PROVE now < Latency(MaxDuration)
    <3>1. now \in Int /\ now - (interval - ticker) < MaxDuration * 4
      BY <2>2, <2>4 DEF LastTick
    <3> QED
      BY <2>1, <2>2, <2>4, <3>1, LatencyLemma, Zenon
  <2> QED
    BY <2>3, <2>4 DEF DetectionLatency
<1> QED
  BY <1>1, <1>2, InitWInv, PTL DEF Spec
-----------------------------------------------------------------------------
(* `recent' holds the times of the last bytes, up to the floor, and delta  *)
(* says how many of them were read since the last sample; a session that   *)
(* ended was found at fault by the tick that ended it.                     *)
BytesInv ==
  /\ recent \in Seq(Nat) /\ Len(recent) <= MinBytes
  /\ lastSampleTime \in Nat /\ lastSampleTime <= now
  /\ delta \in Nat /\ delta <= Len(recent)
  /\ \A i \in 1..Len(recent) : /\ recent[i] <= now
                               /\ recent[i] > lastSampleTime <=> i > Len(recent) - delta

CauseInv ==
  /\ ended = "idle" => now - lastActivity >= IdleTimeout * Second
  /\ ended = "max" => now >= MaxDuration * Second
  /\ ended = "slow" => /\ now >= MinGrace * Second /\ delta < MinBytes
                       /\ now - lastSampleTime >= MinWindow * Second

(* No sample before the end of the grace period is later than this one. *)
FirstSample == (IF MinGrace > MinWindow THEN MinGrace ELSE MinWindow) * Second + interval

(* The longest time between two samples after that. *)
SampleGap == MinWindow * Second + interval

(* No sample was due at the last tick, and at the last sample the floor    *)
(* had been moved since the one before.                                    *)
SampleInv ==
  ended = "no" /\ throughputEnabled =>
    /\ LastTick >= MinGrace * Second => LastTick - lastSampleTime < MinWindow * Second
    /\ lastSampleTime > FirstSample =>
         Len(recent) = MinBytes /\ \A i \in 1..Len(recent) : recent[i] > lastSampleTime - SampleGap

ThroughputInv == WInv /\ BytesInv /\ CauseInv /\ SampleInv

(* Nothing was read before the relay starts. *)
LEMMA InitThroughputInv == Init => ThroughputInv
<1> SUFFICES ASSUME Init PROVE ThroughputInv
  OBVIOUS
<1>1. WInv
  BY InitWInv
<1>2. BytesInv
  BY WatcherAssumption DEF Init, BytesInv
<1>3. CauseInv
  BY DEF Init, CauseInv
<1>4. SampleInv
  <2>1. LastTick = 0
    BY IntervalLemma DEF Init, LastTick
  <2>2. ASSUME throughputEnabled PROVE 0 < MinWindow * Second
    BY <2>2, WatcherAssumption DEF throughputEnabled, Second
  <2>3. FirstSample >= 0
    BY IntervalLemma, WatcherAssumption DEF FirstSample, Second
  <2>4. lastSampleTime = 0
    BY DEF Init
  <2>5. ~(lastSampleTime > FirstSample)
    BY <2>3, <2>4, IntervalLemma, WatcherAssumption DEF FirstSample, Second
  <2> QED
    BY <2>1, <2>2, <2>4, <2>5 DEF SampleInv
<1> QED
  BY <1>1, <1>2, <1>3, <1>4 DEF ThroughputInv

(* The bytes that a unit of time adds. *)
LEMMA ReadStep ==
  ASSUME BytesInv, now \in Nat, NEW byte \in {0, 1}, NEW n, NEW r,
         n = (IF delta + byte > MinBytes THEN delta ELSE delta + byte),
         r = (IF byte = 1 THEN Latest(Append(recent, now + 1)) ELSE recent)
  PROVE  /\ r \in Seq(Nat) /\ Len(r) <= MinBytes
         /\ n \in Nat /\ n <= Len(r) /\ Len(recent) <= Len(r)
         /\ \A i \in 1..Len(r) : /\ r[i] <= now + 1
                                 /\ r[i] > lastSampleTime <=> i > Len(r) - n
         /\ \A i \in 1..Len(r) : r[i] = now + 1 \/ \E j \in 1..Len(recent) : r[i] = recent[j]
<1>0. MinBytes \in Nat
  BY WatcherAssumption
<1>1. PICK m, d, s : m = Len(recent) /\ d = delta /\ s = lastSampleTime
  BY Zenon
<1>2. /\ m \in Nat /\ d \in Nat /\ s \in Nat /\ d <= m /\ m <= MinBytes /\ s <= now
      /\ recent \in Seq(Nat)
      /\ \A i \in 1..m : recent[i] \in Nat /\ recent[i] <= now /\ (recent[i] > s <=> i > m - d)
  BY <1>1 DEF BytesInv
<1> DEFINE Good(i, k) == /\ r[i] <= now + 1 /\ (r[i] > s <=> i > k - n)
                         /\ r[i] = now + 1 \/ \E j \in 1..m : r[i] = recent[j]
<1>. SUFFICES /\ r \in Seq(Nat) /\ Len(r) <= MinBytes /\ n \in Nat /\ n <= Len(r) /\ m <= Len(r)
              /\ \A i \in 1..Len(r) : Good(i, Len(r))
  BY <1>1, Zenon
<1>3. CASE byte = 0
  <2>1. n = d /\ r = recent /\ Len(r) = m
    BY <1>0, <1>1, <1>2, <1>3
  <2>2. \A i \in 1..m : Good(i, m)
    BY <1>2, <2>1
  <2> HIDE DEF Good
  <2> QED
    BY <1>2, <2>1, <2>2
<1>4. CASE byte = 1 /\ m < MinBytes
  <2> DEFINE a == Append(recent, now + 1)
  <2>1. /\ a \in Seq(Nat) /\ Len(a) = m + 1
        /\ \A i \in 1..m : a[i] = recent[i]
        /\ a[m + 1] = now + 1
    BY <1>1, <1>2
  <2>2. r = a /\ n = d + 1
    BY <1>0, <1>1, <1>2, <1>4, <2>1 DEF Latest
  <2> HIDE DEF a
  <2>3. ASSUME NEW i \in 1..(m + 1)
        PROVE  Good(i, m + 1)
    <3>1. CASE i = m + 1
      <4>1. r[i] = now + 1
        BY <2>1, <2>2, <3>1
      <4> QED
        BY <1>2, <2>2, <3>1, <4>1
    <3>2. CASE i # m + 1
      <4>1. i \in 1..m
        BY <1>2, <2>3, <3>2
      <4>2. r[i] = recent[i]
        BY <2>1, <2>2, <4>1
      <4> QED
        BY <1>2, <2>2, <4>1, <4>2
    <3> QED
      BY <3>1, <3>2
  <2> HIDE DEF Good
  <2>4. /\ Len(r) = m + 1 /\ m <= m + 1 /\ m + 1 <= MinBytes
        /\ n \in Nat /\ n <= m + 1 /\ m + 1 \in Nat
    BY <1>0, <1>2, <1>4, <2>1, <2>2
  <2> QED
    BY <2>1, <2>2, <2>3, <2>4
<1>5. CASE byte = 1 /\ m = MinBytes
  <2> DEFINE a == Append(recent, now + 1)
  <2>1. /\ a \in Seq(Nat) /\ Len(a) = m + 1
        /\ \A i \in 1..m : a[i] = recent[i]
        /\ a[m + 1] = now + 1
    BY <1>1, <1>2
  <2>2. r = Tail(a) /\ n = (IF d = m THEN d ELSE d + 1)
    BY <1>0, <1>1, <1>2, <1>5, <2>1 DEF Latest
  <2> HIDE DEF a
  <2>3. a # << >>
    BY <1>2, <2>1
  <2>4. /\ r \in Seq(Nat) /\ Len(r) = m
        /\ \A i \in 1..m : r[i] = a[i + 1]
    <3>1. /\ Tail(a) \in Seq(Nat) /\ Len(Tail(a)) = Len(a) - 1
          /\ \A i \in 1..Len(Tail(a)) : Tail(a)[i] = a[i + 1]
      BY <2>1, <2>3, HeadTailProperties
    <3>2. Len(a) - 1 = m
      BY <1>2, <2>1
    <3> QED
      BY <2>2, <3>1, <3>2, Zenon
  <2>5. ASSUME NEW i \in 1..m
        PROVE  Good(i, m)
    <3>1. CASE i = m
      <4>1. r[i] = now + 1
        BY <2>1, <2>4, <3>1
      <4> QED
        BY <1>2, <2>2, <3>1, <4>1
    <3>2. CASE i # m
      <4>1. i + 1 \in 1..m
        BY <1>2, <2>5, <3>2
      <4>2. r[i] = recent[i + 1]
        BY <2>1, <2>4, <4>1
      <4>3. recent[i + 1] \in Nat /\ recent[i + 1] <= now /\ (recent[i + 1] > s <=> i + 1 > m - d)
        BY <1>2, <4>1, Zenon
      <4>4. i + 1 > m - d <=> i > m - n
        BY <1>2, <2>2, <4>1
      <4>5. r[i] <= now + 1 /\ (r[i] > s <=> i > m - n)
        BY ONLY now \in Nat, <4>2, <4>3, <4>4
      <4> QED
        BY <4>1, <4>2, <4>5, Zenon
    <3> QED
      BY <3>1, <3>2
  <2> HIDE DEF Good
  <2>6. n \in Nat /\ n <= m /\ m <= m
    BY <1>2, <2>2
  <2> QED
    BY <1>2, <2>4, <2>5, <2>6
<1> QED
  BY <1>0, <1>2, <1>3, <1>4, <1>5

(* The outcomes of a unit of time: the session goes on without a sample,   *)
(* passes one, or is ended by one of the three checks.                     *)
Outcome(t, last, n) ==
  \/ /\ lastSampleTime' = lastSampleTime /\ delta' = n /\ ended' = "no"
     /\ ticker = 1 => ~SampleDue(t)
  \/ /\ lastSampleTime' = t /\ delta' = 0 /\ ended' = "no"
     /\ ticker = 1 /\ SampleDue(t) /\ ~(n < MinBytes)
  \/ /\ lastSampleTime' = lastSampleTime /\ delta' = n
     /\ \/ ended' = "idle" /\ IdleExceeded(t, last)
        \/ ended' = "max" /\ MaxExceeded(t)
        \/ ended' = "slow" /\ SampleDue(t) /\ n < MinBytes

(* Pass is a read followed by one of these outcomes. *)
LEMMA PassOutcome ==
  ASSUME ThroughputInv, NEW byte \in {0, 1}, Pass(byte)
  PROVE  \E n, last :
           /\ n = (IF delta + byte > MinBytes THEN delta ELSE delta + byte)
           /\ last = lastActivity' /\ Outcome(now + 1, last, n)
<1> DEFINE t == now + 1
           last == IF byte = 1 THEN t ELSE lastActivity
           n == IF delta + byte > MinBytes THEN delta ELSE delta + byte
<1>1. ended = "no" /\ lastActivity' = last
  BY DEF Pass
<1>2. \/ ticker = 1 /\ Tick(t, last, n)
      \/ ticker # 1 /\ delta' = n /\ ended' = ended /\ lastSampleTime' = lastSampleTime
  BY DEF Pass, Ticks
<1> HIDE DEF t, last, n
<1>3. Outcome(t, last, n)
  <2>1. CASE ticker = 1 /\ Tick(t, last, n)
    BY <1>1, <2>1 DEF Tick, Outcome, NextSample
  <2>2. CASE ticker # 1 /\ delta' = n /\ ended' = ended /\ lastSampleTime' = lastSampleTime
    BY <1>1, <2>2 DEF Outcome
  <2> QED
    BY <1>2, <2>1, <2>2
<1> QED
  BY <1>1, <1>3, Zenon DEF t, last, n

(* A unit of time preserves the account of the bytes and of the samples. *)
LEMMA PassThroughputInv ==
  ASSUME ThroughputInv, NEW byte \in {0, 1}, Pass(byte)
  PROVE  ThroughputInv'
<1>1. WInv'
  BY PassWInv DEF ThroughputInv
<1>2. /\ MinBytes \in Nat /\ MinWindow \in Nat /\ MinGrace \in Nat /\ IdleTimeout \in Nat
      /\ MaxDuration \in Nat /\ interval \in Nat /\ interval >= 4 /\ interval' = interval
  BY IntervalLemma, WatcherAssumption
     DEF Second, interval, Quarters, throughputEnabled, Min
<1>3. /\ now \in Nat /\ now' = now + 1 /\ ended = "no" /\ lastActivity' \in Nat
      /\ ticker \in Nat /\ ticker' = IF ticker = 1 THEN interval ELSE ticker - 1
  BY <1>1 DEF ThroughputInv, WInv, Pass, Ticks
<1>4. PICK n, last :
        /\ n = (IF delta + byte > MinBytes THEN delta ELSE delta + byte)
        /\ last = lastActivity' /\ Outcome(now + 1, last, n)
  BY PassOutcome
<1>5. PICK r : r = recent' /\ r = (IF byte = 1 THEN Latest(Append(recent, now + 1)) ELSE recent)
  BY DEF Pass
<1>6. /\ r \in Seq(Nat) /\ Len(r) <= MinBytes
      /\ n \in Nat /\ n <= Len(r) /\ Len(recent) <= Len(r)
      /\ \A i \in 1..Len(r) : /\ r[i] <= now + 1
                              /\ r[i] > lastSampleTime <=> i > Len(r) - n
      /\ \A i \in 1..Len(r) : r[i] = now + 1 \/ \E j \in 1..Len(recent) : r[i] = recent[j]
  <2>1. BytesInv /\ now \in Nat
    BY <1>3 DEF ThroughputInv
  <2>2. n = (IF delta + byte > MinBytes THEN delta ELSE delta + byte)
    BY <1>4
  <2>3. r = (IF byte = 1 THEN Latest(Append(recent, now + 1)) ELSE recent)
    BY <1>5
  <2>4. byte \in {0, 1}
    OBVIOUS
  <2> QED
    BY ONLY <2>1, <2>2, <2>3, <2>4, ReadStep, SMTT(30)
<1>7. lastSampleTime \in Nat /\ lastSampleTime <= now
  BY DEF ThroughputInv, BytesInv
<1>8. BytesInv'
  <2>1. CASE lastSampleTime' = lastSampleTime /\ delta' = n
    BY <1>3, <1>5, <1>6, <1>7, <2>1 DEF BytesInv
  <2>2. CASE lastSampleTime' = now + 1 /\ delta' = 0
    <3>1. \A i \in 1..Len(r) : ~(r[i] > now + 1) /\ ~(i > Len(r) - 0)
      BY <1>3, <1>6
    <3> QED
      BY <1>3, <1>5, <1>6, <2>2, <3>1 DEF BytesInv
  <2> QED
    BY <1>4, <2>1, <2>2 DEF Outcome
<1>9. CauseInv'
  BY <1>2, <1>3, <1>4, Zenon DEF CauseInv, Outcome, IdleExceeded, MaxExceeded, SampleDue, Second
<1>10. SampleInv'
  <2> SUFFICES ASSUME ended' = "no", throughputEnabled
               PROVE  /\ LastTick' >= MinGrace * 4 => LastTick' - lastSampleTime' < MinWindow * 4
                      /\ lastSampleTime' > FirstSample =>
                           Len(r) = MinBytes /\ \A i \in 1..Len(r) : r[i] > lastSampleTime' - SampleGap
    BY <1>2, <1>5 DEF SampleInv, throughputEnabled, FirstSample, SampleGap, Second
  <2>0. PICK F, G : /\ F = FirstSample /\ G = SampleGap /\ G = MinWindow * 4 + interval
                    /\ F \in Nat /\ G \in Nat /\ F >= MinGrace * 4 + interval
    BY <1>2 DEF FirstSample, SampleGap, Second
  <2>1. PICK L : L = LastTick
    OBVIOUS
  <2>2. /\ L \in Int /\ L = now - (interval - ticker)
        /\ L >= MinGrace * 4 => L - lastSampleTime < MinWindow * 4
        /\ lastSampleTime > F =>
             Len(recent) = MinBytes /\ \A i \in 1..Len(recent) : recent[i] > lastSampleTime - G
    BY <1>2, <1>3, <2>0, <2>1 DEF ThroughputInv, SampleInv, LastTick, Second
  <2>3. IF ticker = 1 THEN LastTick' = now + 1 ELSE LastTick' = L
    <3>1. CASE ticker = 1
      BY <1>2, <1>3, <3>1 DEF LastTick
    <3>2. CASE ticker # 1
      BY <1>2, <1>3, <2>2, <3>2 DEF LastTick
    <3> QED
      BY <3>1, <3>2
  <2>4. MinWindow > 0
    BY DEF throughputEnabled
  <2>5. recent \in Seq(Nat)
    BY DEF ThroughputInv, BytesInv
  <2>6. CASE lastSampleTime' = lastSampleTime /\ (ticker = 1 => ~SampleDue(now + 1))
    <3>1. LastTick' >= MinGrace * 4 => LastTick' - lastSampleTime' < MinWindow * 4
      <4>1. CASE ticker = 1
        BY <1>2, <1>3, <1>7, <2>3, <2>6, <4>1 DEF SampleDue, Second
      <4>2. CASE ticker # 1
        BY <2>2, <2>3, <2>6, <4>2
      <4> QED
        BY <4>1, <4>2
    <3>2. ASSUME lastSampleTime > F PROVE Len(r) = MinBytes
      BY <1>2, <1>6, <2>2, <2>5, <3>2
    <3>3. ASSUME lastSampleTime > F, NEW i \in 1..Len(r) PROVE r[i] > lastSampleTime - G
      <4>1. CASE r[i] = now + 1
        BY <1>3, <1>7, <2>0, <4>1
      <4>2. CASE \E j \in 1..Len(recent) : r[i] = recent[j]
        BY <2>2, <3>3, <4>2
      <4> QED
        BY <1>6, <3>3, <4>1, <4>2
    <3> QED
      BY <2>0, <2>6, <3>1, <3>2, <3>3
  <2>7. CASE lastSampleTime' = now + 1 /\ ticker = 1 /\ ~(n < MinBytes)
    <3>1. LastTick' - lastSampleTime' < MinWindow * 4
      BY <1>2, <1>3, <2>3, <2>4, <2>7
    <3>2. Len(r) = MinBytes /\ n = Len(r)
      BY <1>2, <1>6, <2>7
    <3>3. ASSUME now + 1 > F, NEW i \in 1..Len(r) PROVE r[i] > (now + 1) - G
      <4>1. L = now + 1 - interval
        BY <1>2, <1>3, <2>2, <2>7
      <4>2. L >= MinGrace * 4
        BY <1>2, <1>3, <2>0, <3>3, <4>1
      <4>3. r[i] > lastSampleTime /\ r[i] \in Nat
        BY <1>6, <3>2, <3>3
      <4> QED
        BY <1>2, <1>3, <1>7, <2>0, <2>2, <4>1, <4>2, <4>3
    <3>4. lastSampleTime' > FirstSample =>
            Len(r) = MinBytes /\ \A i \in 1..Len(r) : r[i] > lastSampleTime' - SampleGap
      <4>1. lastSampleTime' = now + 1 /\ FirstSample = F /\ SampleGap = G
        BY <2>0, <2>7
      <4>2. now + 1 > F => Len(r) = MinBytes /\ \A i \in 1..Len(r) : r[i] > (now + 1) - G
        BY <3>2, <3>3
      <4> QED
        BY <4>1, <4>2, Zenon
    <3> QED
      BY <3>1, <3>4
  <2> QED
    BY <1>4, <2>6, <2>7 DEF Outcome
<1> QED
  BY <1>1, <1>8, <1>9, <1>10 DEF ThroughputInv

(* The account of the relay's bytes is an invariant for all limits. *)
THEOREM ThroughputInvariance == Spec => []ThroughputInv
<1>1. ThroughputInv /\ [Next]_vars => ThroughputInv'
  <2> SUFFICES ASSUME ThroughputInv, [Next]_vars PROVE ThroughputInv'
    OBVIOUS
  <2>1. CASE Next
    BY <2>1, PassThroughputInv DEF Next
  <2>2. CASE UNCHANGED vars
    BY <2>2 DEF vars, ThroughputInv, WInv, BytesInv, CauseInv, SampleInv, LastTick
  <2> QED
    BY <2>1, <2>2
<1> QED
  BY <1>1, InitThroughputInv, PTL DEF Spec
-----------------------------------------------------------------------------
(* The watcher ends a session only for the cause it reports: for all       *)
(* limits, an idle session was idle, an old one is old, and one that was   *)
(* too slow read less than the floor in the last full window.              *)
THEOREM EndsForCause == Spec => []EndedForCause
<1>1. ThroughputInv => EndedForCause
  <2> SUFFICES ASSUME ThroughputInv, ended = "slow"
               PROVE  ReadWithin(MinWindow * Second) < MinBytes
    BY DEF ThroughputInv, CauseInv, EndedForCause
  <2>1. PICK m, d, w : m = Len(recent) /\ d = delta /\ w = MinWindow * Second
    BY Zenon
  <2>2. /\ m \in Nat /\ d \in Nat /\ d <= m /\ d < MinBytes /\ w \in Nat /\ MinBytes \in Nat
        /\ now \in Nat /\ lastSampleTime \in Nat /\ now - lastSampleTime >= w
        /\ DOMAIN recent = 1..m
        /\ \A i \in 1..m : recent[i] \in Nat /\ (recent[i] > lastSampleTime <=> i > m - d)
    BY <2>1, WatcherAssumption DEF ThroughputInv, WInv, BytesInv, CauseInv, Second
  <2> DEFINE R == {i \in DOMAIN recent : recent[i] > now - w}
             S == (m - d + 1)..m
  <2>3. R \subseteq S
    BY <2>2
  <2>4. IsFiniteSet(S) /\ Cardinality(S) = d
    <3>1. IsFiniteSet(S) /\ Cardinality(S) = IF m - d + 1 > m THEN 0 ELSE m - (m - d + 1) + 1
      BY <2>2, FS_Interval
    <3> QED
      BY <2>2, <3>1
  <2>5. Cardinality(R) <= Cardinality(S) /\ Cardinality(R) \in Nat
    BY <2>3, <2>4, FS_Subset, FS_CardinalityType, Zenon
  <2>6. ReadWithin(MinWindow * Second) = Cardinality(R)
    BY <2>1 DEF ReadWithin
  <2> QED
    BY <2>2, <2>4, <2>5, <2>6
<1> QED
  BY <1>1, ThroughputInvariance, PTL

(* The throughput floor is enforced: for all limits, a session that lives  *)
(* on after its first sample moved min_throughput_bytes within two windows *)
(* and the two wake-ups that may pass before they are looked at.           *)
THEOREM FloorIsEnforced == Spec => []FloorOverTwoWindows
<1>1. ThroughputInv => FloorOverTwoWindows
  <2> DEFINE span == 2 * (MinWindow * Second + interval)
  <2> SUFFICES ASSUME ThroughputInv, ended = "no", throughputEnabled, now >= FirstSample + span
               PROVE  ReadWithin(span) >= MinBytes
    BY DEF FloorOverTwoWindows, FirstSample
  <2>1. /\ MinBytes \in Nat /\ MinWindow \in Nat /\ MinGrace \in Nat /\ interval \in Nat
    BY IntervalLemma, WatcherAssumption
  <2>2. PICK F, G : /\ F = FirstSample /\ G = SampleGap /\ G = MinWindow * 4 + interval
                    /\ F \in Nat /\ G \in Nat /\ F >= MinGrace * 4 + interval
    BY <2>1 DEF FirstSample, SampleGap, Second
  <2>3. PICK L, s : L = LastTick /\ s = lastSampleTime
    OBVIOUS
  <2>4. /\ now \in Nat /\ ticker \in Nat /\ 1 <= ticker /\ ticker <= interval
        /\ L = now - (interval - ticker) /\ s \in Nat
        /\ L >= MinGrace * 4 => L - s < MinWindow * 4
        /\ s > F => Len(recent) = MinBytes /\ \A i \in 1..Len(recent) : recent[i] > s - G
        /\ recent \in Seq(Nat)
    BY <2>2, <2>3 DEF ThroughputInv, WInv, BytesInv, SampleInv, LastTick, Second
  <2>5. span = 2 * G /\ now >= F + 2 * G
    BY <2>1, <2>2 DEF Second
  <2>6. s > now - G /\ s > F
    <3>1. L >= MinGrace * 4 /\ L > now - interval
      BY <2>1, <2>2, <2>4, <2>5
    <3> QED
      BY <2>1, <2>2, <2>4, <2>5, <3>1
  <2> HIDE DEF span
  <2>7. ASSUME NEW i \in 1..MinBytes PROVE recent[i] > now - span
    <3>1. recent[i] \in Nat /\ recent[i] > s - G
      BY <2>4, <2>6
    <3>2. now \in Nat /\ s \in Nat /\ G \in Nat /\ span = 2 * G /\ s > now - G
      BY <2>2, <2>4, <2>5, <2>6
    <3> QED
      BY ONLY <3>1, <3>2
  <2>8. {i \in DOMAIN recent : recent[i] > now - span} = 1..MinBytes
    BY <2>4, <2>6, <2>7
  <2>9. Cardinality(1..MinBytes) = MinBytes
    BY <2>1, FS_Interval
  <2>10. ReadWithin(span) = MinBytes
    BY <2>8, <2>9, Zenon DEF ReadWithin
  <2> QED
    BY <2>1, <2>10
<1> QED
  BY <1>1, ThroughputInvariance, PTL
=============================================================================
