------------------------------ MODULE QueueOps ------------------------------
(***************************************************************************)
(* The list manipulation of pkg/queue/queue.go as operators on a queue     *)
(* value [max, maxQueued, active, queued].  A queue item is identified     *)
(* with the handle that holds its channel.  `active' is a set (the code    *)
(* only asks for its length and removes items from it), `queued' is the    *)
(* FIFO slice.  Every operator is one critical section of q.mu.            *)
(***************************************************************************)
EXTENDS Integers, Sequences, FiniteSets

Items(s) == {s[i] : i \in DOMAIN s}

IndexOf(s, h) == CHOOSE i \in DOMAIN s : s[i] = h

(* s without h; a handle occurs at most once in `queued'. *)
Without(s, h) ==
  IF h \in Items(s)
  THEN [j \in 1..(Len(s) - 1) |-> IF j < IndexOf(s, h) THEN s[j] ELSE s[j + 1]]
  ELSE s

NewQueue(max, maxQueued) ==
  [max |-> max, maxQueued |-> maxQueued, active |-> {}, queued |-> << >>]

(* len(q.active) < q.max || q.max == 0 *)
HasRoom(q) == Cardinality(q.active) < q.max \/ q.max = 0

IsFull(q) == q.maxQueued > 0 /\ Len(q.queued) >= q.maxQueued

(* How often `for len(q.queued) > 0 && HasRoom { popHead() }' iterates. *)
Pops(q) ==
  LET room == q.max - Cardinality(q.active)
  IN  IF q.max = 0 \/ room >= Len(q.queued) THEN Len(q.queued)
      ELSE IF room > 0 THEN room ELSE 0

(* Only the oldest waiter is promoted, however much room there is. *)
PopHeads_Once(q) ==
  IF q.queued # << >> /\ HasRoom(q)
  THEN [q EXCEPT !.active = @ \cup {q.queued[1]},
                 !.queued = SubSeq(q.queued, 2, Len(q.queued))]
  ELSE q

(* The promoted waiters are taken from the back of the slice. *)
PopHeads_Lifo(q) ==
  LET n == Len(q.queued) - Pops(q)
  IN  [q EXCEPT !.active = @ \cup {q.queued[i] : i \in (n + 1)..Len(q.queued)},
                !.queued = SubSeq(q.queued, 1, n)]

(* popHead without q.queued = q.queued[1:]. *)
PopHeads_KeepHead(q) ==
  [q EXCEPT !.active = @ \cup {q.queued[i] : i \in 1..Pops(q)}]

PopHeads(q) ==
  [q EXCEPT !.active = @ \cup {q.queued[i] : i \in 1..Pops(q)},
            !.queued = SubSeq(q.queued, Pops(q) + 1, Len(q.queued))]

(* A queue rebuilt with the new limits. *)
QSetMax_Rebuilt(q, max, maxQueued) == NewQueue(max, maxQueued)

(* SetMax installs the limits and promotes whom the new capacity admits. *)
QSetMax(q, max, maxQueued) ==
  PopHeads([q EXCEPT !.max = max, !.maxQueued = maxQueued])

(* The full test comes first and counts the active callers as well. *)
QAcquire_FullFirst(q, h) ==
  IF q.maxQueued > 0 /\ Cardinality(q.active) + Len(q.queued) >= q.maxQueued THEN q
  ELSE IF HasRoom(q) THEN [q EXCEPT !.active = @ \cup {h}]
  ELSE [q EXCEPT !.queued = Append(@, h)]

QAcquire(q, h) ==
  IF HasRoom(q) THEN [q EXCEPT !.active = @ \cup {h}]
  ELSE IF IsFull(q) THEN q
  ELSE [q EXCEPT !.queued = Append(@, h)]

(* Leaving the active list without promoting a waiter. *)
QRelease_NoPromote(q, h) ==
  IF h \in Items(q.queued) THEN [q EXCEPT !.queued = Without(@, h)]
  ELSE [q EXCEPT !.active = @ \ {h}]

QRelease(q, h) ==
  IF h \in Items(q.queued) THEN [q EXCEPT !.queued = Without(@, h)]
  ELSE PopHeads([q EXCEPT !.active = @ \ {h}])

=============================================================================
