---------------------------- MODULE RelayWatcher ----------------------------
(***************************************************************************)
(* When the watcher goroutine of pkg/server/server.go's relay ends a       *)
(* session that both peers keep open: the wake-up interval, the idle       *)
(* timeout, the maximal duration and the throughput floor, in discrete     *)
(* time.  The unit is a quarter second, so that a quarter of a limit given *)
(* in seconds is a whole number.  The watcher handles a tick as soon as    *)
(* the ticker sends it.                                                    *)
(***************************************************************************)
EXTENDS Integers, Sequences, FiniteSetsExt

CONSTANTS IdleTimeout, MaxDuration,        \* relay_idle_timeout, relay_max_duration (seconds)
          MinBytes, MinWindow, MinGrace,   \* min_throughput_bytes, _window, _grace
          Horizon                          \* how long a session is followed (units)

Second == 4

ASSUME WatcherAssumption ==
  /\ IdleTimeout \in Nat /\ MaxDuration \in Nat /\ MinBytes \in Nat /\ MinWindow \in Nat /\ MinGrace \in Nat
  /\ IdleTimeout + MaxDuration > 0 \/ (MinBytes > 0 /\ MinWindow > 0)

throughputEnabled == MinBytes > 0 /\ MinWindow > 0

(* A quarter of each enabled limit, in units. *)
Quarters ==
  ({IdleTimeout, MaxDuration} \cup IF throughputEnabled THEN {MinWindow} ELSE {}) \ {0}

(* The interval is half of the smallest limit. *)
interval_Half == LET d == 2 * Min(Quarters) IN IF d < Second THEN Second ELSE d

(* bumpInterval for the enabled limits, then the floor of one second. *)
interval == IF Min(Quarters) < Second THEN Second ELSE Min(Quarters)

VARIABLES now,                 \* time since relayStartedAt
          ticker,              \* time until the next tick
          lastActivity,
          lastSampleTime,
          delta,               \* curBytes - lastSampleBytes, up to MinBytes
          recent,              \* when the last MinBytes bytes were read
          ended                \* "no" or the limit that ended the session

vars == <<now, ticker, lastActivity, lastSampleTime, delta, recent, ended>>

Init ==
  /\ now = 0 /\ ticker = interval
  /\ lastActivity = 0
  /\ lastSampleTime = 0 /\ delta = 0
  /\ recent = << >>
  /\ ended = "no"

(* time.NewTicker(interval): the unit that begins ends with a tick. *)
Ticks == ticker = 1

(* now.Sub(last) >= idleTimeout *)
IdleExceeded(t, last) == IdleTimeout > 0 /\ t - last >= IdleTimeout * Second

MaxExceeded(t) == MaxDuration > 0 /\ t >= MaxDuration * Second

(* The grace period is ignored. *)
SampleDue_NoGrace(t) == throughputEnabled /\ t - lastSampleTime >= MinWindow * Second

(* Every window is extended by the grace period. *)
SampleDue_GraceAgain(t) ==
  throughputEnabled /\ t - lastSampleTime >= (MinGrace + MinWindow) * Second

SampleDue(t) ==
  throughputEnabled /\ t >= MinGrace * Second /\ t - lastSampleTime >= MinWindow * Second

NextSample(t) == t

(* What a tick at time t does when n more bytes than delta were read: the  *)
(* checks of idle time, duration and throughput, in this order.            *)
Tick(t, last, n) ==
  \/ /\ IdleExceeded(t, last)
     /\ ended' = "idle" /\ delta' = n /\ UNCHANGED lastSampleTime
  \/ /\ ~IdleExceeded(t, last) /\ MaxExceeded(t)
     /\ ended' = "max" /\ delta' = n /\ UNCHANGED lastSampleTime
  \/ /\ ~IdleExceeded(t, last) /\ ~MaxExceeded(t) /\ ~SampleDue(t)
     /\ delta' = n /\ UNCHANGED <<ended, lastSampleTime>>
  \/ /\ ~IdleExceeded(t, last) /\ ~MaxExceeded(t) /\ SampleDue(t)
     /\ IF n < MinBytes
        THEN ended' = "slow" /\ delta' = n /\ UNCHANGED lastSampleTime
        ELSE lastSampleTime' = NextSample(t) /\ delta' = 0 /\ UNCHANGED ended

Latest(s) == IF Len(s) > MinBytes THEN Tail(s) ELSE s

(* One unit passes in which a byte is read or none; then the tick is       *)
(* handled, if there is one.                                               *)
Pass(byte) ==
  LET t == now + 1
      last == IF byte = 1 THEN t ELSE lastActivity
      n == IF delta + byte > MinBytes THEN delta ELSE delta + byte
  IN  /\ ended = "no" /\ now < Horizon
      /\ now' = t
      /\ ticker' = IF Ticks THEN interval ELSE ticker - 1
      /\ lastActivity' = last
      /\ recent' = IF byte = 1 THEN Latest(Append(recent, t)) ELSE recent
      /\ \/ Ticks /\ Tick(t, last, n)
         \/ ~Ticks /\ delta' = n /\ UNCHANGED <<ended, lastSampleTime>>

Next == \E byte \in {0, 1} : Pass(byte)

Spec == Init /\ [][Next]_vars
-----------------------------------------------------------------------------
(* The bytes read in the last d units, as far as `recent' goes back. *)
ReadWithin(d) == Cardinality({i \in DOMAIN recent : recent[i] > now - d})

(* "the worst-case detection latency is roughly 1.25x the configured       *)
(* value", and one second more than it for limits below four seconds: a    *)
(* session that lives was active within the idle timeout plus a quarter,   *)
(* and is not older than the maximal duration plus a quarter.              *)
Latency(d) == IF d >= 4 THEN 5 * d ELSE d * Second + Second

(* What a live session is bounded by at the ticks of the watcher: Latency. *)
DetectionLatency ==
  ended = "no" => /\ IdleTimeout > 0 => now - lastActivity < Latency(IdleTimeout)
                  /\ MaxDuration > 0 => now < Latency(MaxDuration)

(* A limit ends only sessions that exceeded it: nothing was read for the   *)
(* idle timeout, the duration has passed, or the last full window - that   *)
(* is after the grace period - carried less than the floor.                *)
EndedForCause ==
  /\ ended = "idle" => now - lastActivity >= IdleTimeout * Second
  /\ ended = "max" => now >= MaxDuration * Second
  /\ ended = "slow" => now >= MinGrace * Second /\ ReadWithin(MinWindow * Second) < MinBytes

(* From the first sample on a session that lives moved the floor within    *)
(* two windows and what the wake-ups add: slow ones are found.             *)
FloorOverTwoWindows ==
  LET first == (IF MinGrace > MinWindow THEN MinGrace ELSE MinWindow) * Second + interval
      span == 2 * (MinWindow * Second + interval)
  IN  ended = "no" /\ throughputEnabled /\ now >= first + span => ReadWithin(span) >= MinBytes
=============================================================================
