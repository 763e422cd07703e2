-------------------------- MODULE AdmissionControl --------------------------
(***************************************************************************)
(* What an upstream's queue promises its callers, without lists, channels  *)
(* or positions: a caller is admitted, kept waiting, or refused when too   *)
(* many wait; nobody waits while a slot is free; and whenever a caller     *)
(* leaves or the limit changes, exactly as many waiters are admitted as    *)
(* then fit.  The contract of Acquire, Release and SetMax in               *)
(* pkg/queue/queue.go.                                                     *)
(***************************************************************************)
EXTENDS Integers, FiniteSets

CONSTANTS Caller, Limits, QueueLimits

VARIABLES limit, queueLimit, admitted, waiting, refused

callerVars == <<limit, queueLimit, admitted, waiting, refused>>

Reached(S, n) == n # 0 /\ Cardinality(S) >= n

(* A positive queueLimit decides who waits and who is refused.  What zero  *)
(* means is left open: gatewayconfig_types.go:74 says that it disables the *)
(* limit, README.md:147 that nobody waits.                                 *)
MayWait   == queueLimit <= 0 \/ Cardinality(waiting) < queueLimit
MayRefuse == queueLimit <= 0 \/ Cardinality(waiting) >= queueLimit

Init ==
  /\ limit \in Limits /\ queueLimit \in QueueLimits
  /\ admitted = {} /\ waiting = {} /\ refused = {}

Outside(c) == c \notin admitted \cup waiting \cup refused

Admit(c) ==
  /\ Outside(c) /\ ~Reached(admitted, limit)
  /\ admitted' = admitted \cup {c}
  /\ UNCHANGED <<limit, queueLimit, waiting, refused>>

KeepWaiting(c) ==
  /\ Outside(c) /\ Reached(admitted, limit) /\ MayWait
  /\ waiting' = waiting \cup {c}
  /\ UNCHANGED <<limit, queueLimit, admitted, refused>>

Refuse(c) ==
  /\ Outside(c) /\ Reached(admitted, limit) /\ MayRefuse
  /\ refused' = refused \cup {c}
  /\ UNCHANGED <<limit, queueLimit, admitted, waiting>>

(* Of the callers in W some set G joins the callers in A under limit n: no *)
(* more than fit, and no fewer while anybody is left waiting.              *)
Fill(A, W, n) ==
  \E G \in SUBSET W :
    /\ G # {} => n = 0 \/ Cardinality(A \cup G) <= n
    /\ W # G => Reached(A \cup G, n)
    /\ admitted' = A \cup G
    /\ waiting' = W \ G

Leave(c) ==
  /\ ~Outside(c)
  /\ Fill(admitted \ {c}, waiting \ {c}, limit)
  /\ refused' = refused \ {c}
  /\ UNCHANGED <<limit, queueLimit>>

ChangeLimit(n, k) ==
  /\ limit' = n /\ queueLimit' = k
  /\ Fill(admitted, waiting, n)
  /\ UNCHANGED refused

Next ==
  \/ \E c \in Caller : Admit(c) \/ KeepWaiting(c) \/ Refuse(c) \/ Leave(c)
  \/ \E n \in Limits, k \in QueueLimits : ChangeLimit(n, k)

Spec == Init /\ [][Next]_callerVars
=============================================================================
