------------------------------- MODULE Queue -------------------------------
(***************************************************************************)
(* pkg/queue/queue.go: the FIFO admission queue of one upstream together   *)
(* with the one-slot channels over which it reports to its callers.        *)
(*                                                                         *)
(* All operations run under q.mu and are single actions.  trySend drains   *)
(* the channel and then sends; a receiver that runs between the two finds  *)
(* the channel empty and waits for the send, so the pair is atomic too.    *)
(*                                                                         *)
(* Handle is the set of handles that can be outstanding at once; a handle  *)
(* that was released is garbage, and its name is used again.               *)
(***************************************************************************)
EXTENDS QueueOps

CONSTANTS Handle,        \* handles callers can hold
          Limits,        \* values of max that New and SetMax are called with
          QueueLimits    \* values of maxQueued

ASSUME LimitsAssumption == Limits \subseteq Int /\ QueueLimits \subseteq Int

VARIABLES q,          \* the Queue struct
          ch,         \* ch[h]: contents of the channel, at most one Status
          closed,     \* closed[h]: close(ch) was called
          status,     \* status[h]: the last Status the caller received
          released    \* released[h]: h is not held (never acquired, or released)

vars == <<q, ch, closed, status, released>>

Status == [Index : Int, Max : Int, Ok : BOOLEAN, Full : BOOLEAN]

ZeroStatus == [Index |-> 0, Max |-> 0, Ok |-> FALSE, Full |-> FALSE]
OkStatus   == [Index |-> 0, Max |-> 0, Ok |-> TRUE,  Full |-> FALSE]
FullStatus == [Index |-> 0, Max |-> 0, Ok |-> FALSE, Full |-> TRUE]

Surplus(qq) == Cardinality(qq.active) - qq.max

WaitStatus_NoSurplus(qq, i) ==
  [Index |-> i - 1, Max |-> Len(qq.queued), Ok |-> FALSE, Full |-> FALSE]

(* What the waiter at position i (from 1) is told. *)
WaitStatus(qq, i) ==
  [Index |-> Surplus(qq) + i - 1, Max |-> Surplus(qq) + Len(qq.queued),
   Ok |-> FALSE, Full |-> FALSE]

Init ==
  /\ \E m \in Limits, k \in QueueLimits : q = NewQueue(m, k)
  /\ ch = [h \in Handle |-> << >>]
  /\ closed = [h \in Handle |-> FALSE]
  /\ status = [h \in Handle |-> ZeroStatus]
  /\ released = [h \in Handle |-> TRUE]

(* Promotion by a send that gives up when a Status is still unread. *)
Announce_KeepUnread(c, qq) ==
  [h \in Handle |->
     IF h \in Items(qq.queued) THEN <<WaitStatus(qq, IndexOf(qq.queued, h))>>
     ELSE IF h \in qq.active \ q.active /\ c[h] = << >> THEN <<OkStatus>> ELSE c[h]]

(* The channels after popHead sent Ok to the handles that qq promotes and  *)
(* broadcastStatus sent its position to every handle that qq queues.       *)
Announce(c, qq) ==
  [h \in Handle |->
     IF h \in Items(qq.queued) THEN <<WaitStatus(qq, IndexOf(qq.queued, h))>>
     ELSE IF h \in qq.active \ q.active THEN <<OkStatus>> ELSE c[h]]

SetMax(max, maxQueued) ==
  LET qq == QSetMax(q, max, maxQueued)
  IN  /\ q' = qq
      /\ ch' = Announce(ch, qq)
      /\ closed' = [h \in Handle |-> closed[h] \/ h \in qq.active]
      /\ UNCHANGED <<status, released>>

Acquire(h) ==
  LET qq == QAcquire(q, h)
  IN  /\ released[h]
      /\ q' = qq
      /\ ch' = [ch EXCEPT ![h] =
                  IF h \in qq.active THEN <<OkStatus>>
                  ELSE IF h \in Items(qq.queued) THEN <<WaitStatus(qq, Len(qq.queued))>>
                  ELSE <<FullStatus>>]
      /\ closed' = [closed EXCEPT ![h] = h \notin Items(qq.queued)]
      /\ released' = [released EXCEPT ![h] = FALSE]
      /\ UNCHANGED status

(* The caller reads handle.C; relay stops reading after Ok or Full. *)
Receive(h) ==
  /\ ~released[h]
  /\ ch[h] # << >>
  /\ status' = [status EXCEPT ![h] = Head(ch[h])]
  /\ ch' = [ch EXCEPT ![h] = << >>]
  /\ UNCHANGED <<q, closed, released>>

(* A broadcast that sends without draining waits until all waiters read.   *)
Release_Blocking(h) ==
  LET qq == QRelease(q, h)
  IN  /\ ~released[h] /\ \A g \in Items(q.queued) : ch[g] = << >>
      /\ released' = [released EXCEPT ![h] = TRUE]
      /\ q' = qq
      /\ ch' = [Announce(ch, qq) EXCEPT ![h] = << >>]
      /\ closed' = [g \in Handle |-> g # h /\ (closed[g] \/ g \in qq.active)]
      /\ status' = [status EXCEPT ![h] = ZeroStatus]

(* Release, called by the holder or by the cleanup of an unreachable       *)
(* handle; a second call returns at once because `released' is set.        *)
Release(h) ==
  LET qq == QRelease(q, h)
  IN  /\ ~released[h]
      /\ released' = [released EXCEPT ![h] = TRUE]
      /\ q' = qq
      /\ ch' = [Announce(ch, qq) EXCEPT ![h] = << >>]
      /\ closed' = [g \in Handle |-> g # h /\ (closed[g] \/ g \in qq.active)]
      /\ status' = [status EXCEPT ![h] = ZeroStatus]

Next ==
  \/ \E m \in Limits, k \in QueueLimits : SetMax(m, k)
  \/ \E h \in Handle : Acquire(h) \/ Receive(h) \/ Release(h)

Spec == Init /\ [][Next]_vars

(* Holders of a slot finish and release it (relay defers Release), and a   *)
(* waiting relay goroutine reads its channel.                              *)
Fairness ==
  \A h \in Handle : /\ WF_vars(h \in q.active /\ Release(h))
                    /\ WF_vars(Receive(h))

FairSpec == Spec /\ Fairness
-----------------------------------------------------------------------------
(* The last Status sent to the holder of h, whether or not it was read. *)
Latest(h) == IF ch[h] = << >> THEN status[h] ELSE Head(ch[h])

(* The types; a channel holds at most one Status (it is made with room for *)
(* one, and trySend never blocks).                                         *)
TypeOK ==
  /\ q \in [max : Int, maxQueued : Int, active : SUBSET Handle, queued : Seq(Handle)]
  /\ IsFiniteSet(q.active)
  /\ ch \in [Handle -> Seq(Status)] /\ \A h \in Handle : Len(ch[h]) <= 1
  /\ closed \in [Handle -> BOOLEAN]
  /\ status \in [Handle -> Status]
  /\ released \in [Handle -> BOOLEAN]

(* No slot is idle while somebody waits: a non-empty queue means a limit   *)
(* is set and reached.  This is what "q.active >= q.max" in the default    *)
(* case of Acquire and the two promotion loops maintain together.          *)
WorkConserving == q.queued # << >> => q.max # 0 /\ Cardinality(q.active) >= q.max

(* What callers were told agrees with the lists: a holder's last Status is *)
(* Ok exactly when it occupies a slot, Full exactly when it is in neither  *)
(* list, and no Ok is lost to an unread older Status.                      *)
GrantMatchesSlot ==
  \A h \in Handle : ~released[h] =>
    /\ Latest(h).Ok <=> h \in q.active
    /\ Latest(h).Full <=> h \notin q.active \cup Items(q.queued)

(* The position a waiter was last told is its true one: SetMax, Release    *)
(* and promotion all rebroadcast, and Acquire never moves anybody.  The    *)
(* total may lag behind later arrivals but never behind the position.      *)
PositionOK(qq, i, s) ==
  /\ s.Index = Surplus(qq) + i - 1
  /\ 0 <= s.Index /\ s.Index < s.Max /\ s.Max <= Surplus(qq) + Len(qq.queued)
(* Whoever waits was last told its current position (broadcast). *)
PositionAccurate == \A i \in DOMAIN q.queued : PositionOK(q, i, Latest(q.queued[i]))

(* Nothing is ever sent on, or closes, a closed channel: popHead and       *)
(* broadcastStatus touch only queued handles, whose channels are open,     *)
(* and the lists only hold handles that are not released.                  *)
QueuedChannelsOpen ==
  /\ \A i \in DOMAIN q.queued : ~closed[q.queued[i]] /\ ~released[q.queued[i]]
  /\ \A i, j \in DOMAIN q.queued : q.queued[i] = q.queued[j] => i = j
  /\ \A h \in q.active : closed[h] /\ ~released[h]

(* The strengthening that is inductive. *)
IInv == TypeOK /\ WorkConserving /\ GrantMatchesSlot /\ PositionAccurate /\ QueuedChannelsOpen

(* First come, first served across every operation: a handle that enters   *)
(* the active list is ahead of everybody who is still queued afterwards,   *)
(* so neither a promotion nor a new Acquire overtakes a waiter.            *)
NoOvertakingStep ==
  \A h \in q'.active \ q.active, g \in Items(q.queued) \cap Items(q'.queued) :
    h \in Items(q.queued) /\ IndexOf(q.queued, h) < IndexOf(q.queued, g)
(* Every step of the queue admits in FIFO order, as stated above. *)
NoOvertaking == [][NoOvertakingStep]_vars

(* The queue, seen only through the statuses its callers were sent.        *)
ToldOk   == {h \in Handle : ~released[h] /\ Latest(h).Ok}
ToldWait == {h \in Handle : ~released[h] /\ ~Latest(h).Ok /\ ~Latest(h).Full}
ToldFull == {h \in Handle : ~released[h] /\ Latest(h).Full}

Abstract == INSTANCE AdmissionControl WITH
  Caller   <- Handle,
  limit    <- q.max,
  queueLimit <- q.maxQueued,
  admitted <- ToldOk,
  waiting  <- ToldWait,
  refused  <- ToldFull

(* Every Acquire, Release and SetMax is, to the callers, a step of the     *)
(* admission contract: what they are told adds up to a semaphore.  The     *)
(* contract leaves open what a queue limit of zero means.                  *)
ImplementsAdmissionControl == Abstract!Spec

(* Nobody waits for ever: a queued caller reads Ok or has given up, as     *)
(* long as holders release, unless a negative limit closes the upstream.   *)
WaiterServed ==
  \A h \in Handle : h \in Items(q.queued) ~> (status[h].Ok \/ released[h] \/ q.max < 0)
=============================================================================
