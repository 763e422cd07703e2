---------------------------- MODULE ProxyServer ----------------------------
(***************************************************************************)
(* pkg/server: the life of client connections (relay, from the module      *)
(* request to the deferred clean-up) interleaved with configuration        *)
(* reloads (loadConfig).  relay consults the reloadable tables four times, *)
(* each under its own RLock, so a reload can fall between any two steps.   *)
(*                                                                         *)
(* The queues are values of QueueOps: Queue.tla shows that a caller reads  *)
(* Ok exactly when its handle is in the active list.  A connection is its  *)
(* own handle.  A finished connection's name is used again, as is the      *)
(* identity of a queue that nothing refers to any more.                    *)
(***************************************************************************)
EXTENDS QueueOps, TLC

CONSTANTS Conn, IP, Upstream, Module,
          MaxQueues,       \* bound on the queues of an upstream that are in use at a time
          ClientIP,        \* ClientIP[c]: the remote address of connection c
          Hash,            \* Hash[ip]: FNV-1a of the address
          UpstreamOrder,   \* the upstream names as sort.Strings orders them
          Configs,         \* the configurations a reload may install
          NoQueue

(* The queue objects: each is made for one upstream name. *)
QueueId == Upstream \X (1..MaxQueues)

(* A configuration maps the names of the configured upstreams to settings. *)
UpstreamSettings ==
  [modules : SUBSET Module, max : Int, maxQueued : Int, perIP : Nat]

ASSUME ProxyAssumption ==
  /\ ClientIP \in [Conn -> IP]
  /\ Hash \in [IP -> Nat]
  /\ UpstreamOrder \in Seq(Upstream) /\ UpstreamOrder # << >>
  /\ \A c \in Configs : DOMAIN c \subseteq Upstream /\ c \in [DOMAIN c -> UpstreamSettings]
  /\ MaxQueues \in Nat /\ NoQueue \notin QueueId

VARIABLES cfg,              \* s.upstreams (and s.modules, built from it)
          upstreamQueues,   \* s.upstreamQueues: name -> queue
          queues,           \* the queue objects
          perIPCounts,      \* s.perIPCounts
          pc, up, qid, lim  \* per connection: where relay is, and its locals

vars == <<cfg, upstreamQueues, queues, perIPCounts, pc, up, qid, lim>>
connVars == <<up, qid, lim>>
tables == <<cfg, upstreamQueues>>

Holding == {"queueing", "dial", "relay", "release"}       \* between Acquire and Release
Counted == {"acquire", "uncount"} \cup Holding            \* counted, if lim[c] > 0

(* buildModuleTargets: the upstreams that serve m, in name order. *)
Targets(m) == SelectSeq(UpstreamOrder, LAMBDA u : u \in DOMAIN cfg /\ m \in cfg[u].modules)

chooseTargetByClientIP(ip, n) == IF n <= 1 THEN 0 ELSE Hash[ip] % n

getPerIPLimitForUpstream(u) == IF u \in DOMAIN cfg THEN cfg[u].perIP ELSE 0

(* The queue objects that a table or a running relay refers to. *)
Referenced == {upstreamQueues[u] : u \in DOMAIN upstreamQueues} \cup {qid[c] : c \in Conn}

(* What queue.New may return for upstream u. *)
Unused(u) == {i \in QueueId : i[1] = u} \ Referenced

(* updateUpstreamQueuesLocked keeps the queue of a name it already knows. *)
KeptQueues(c) == DOMAIN c \cap DOMAIN upstreamQueues

(* A known queue keeps its old limits. *)
UpdatedQueues_NoSetMax(c, uq) ==
  [i \in QueueId |->
     IF \E u \in DOMAIN c \ KeptQueues(c) : uq[u] = i
     THEN LET u == CHOOSE u \in DOMAIN uq : uq[u] = i IN NewQueue(c[u].max, c[u].maxQueued)
     ELSE queues[i]]

(* The queue objects after installing c with the queue table uq. *)
UpdatedQueues(c, uq) ==
  [i \in QueueId |->
     IF \E u \in DOMAIN uq : uq[u] = i
     THEN LET u == CHOOSE u \in DOMAIN uq : uq[u] = i
          IN  IF u \in KeptQueues(c) THEN QSetMax(queues[i], c[u].max, c[u].maxQueued)
              ELSE NewQueue(c[u].max, c[u].maxQueued)
     ELSE queues[i]]

(* No upstream is known before the first configuration is applied; the     *)
(* gateway's data plane accepts connections already.                       *)
Init ==
  /\ cfg = << >>
  /\ upstreamQueues = << >>
  /\ queues = [i \in QueueId |-> NewQueue(0, 0)]
  /\ perIPCounts = [u \in Upstream |-> [ip \in IP |-> 0]]
  /\ pc = [c \in Conn |-> "idle"]
  /\ up = [c \in Conn |-> UpstreamOrder[1]]
  /\ qid = [c \in Conn |-> NoQueue]
  /\ lim = [c \in Conn |-> 0]

(* loadConfig from taking reloadLock on, for a configuration that passes   *)
(* its checks.                                                             *)
Reload(c) ==
  LET new == DOMAIN c \ KeptQueues(c)
      uq == [u \in DOMAIN c |-> IF u \in new THEN CHOOSE i \in Unused(u) : TRUE ELSE upstreamQueues[u]]
  IN  /\ \A u \in new : Unused(u) # {}
      /\ cfg' = c
      /\ upstreamQueues' = uq
      /\ queues' = UpdatedQueues(c, uq)
      /\ UNCHANGED <<perIPCounts, pc, connVars>>

At(c, here, there) == pc[c] = here /\ pc' = [pc EXCEPT ![c] = there]

(* relay's return: its locals are gone. *)
Return(c) ==
  /\ pc' = [pc EXCEPT ![c] = "idle"]
  /\ qid' = [qid EXCEPT ![c] = NoQueue]
  /\ lim' = [lim EXCEPT ![c] = 0]
  /\ up' = [up EXCEPT ![c] = UpstreamOrder[1]]

AddPerIP(c, n) ==
  perIPCounts' = [perIPCounts EXCEPT ![up[c]][ClientIP[c]] = @ + n]

(* handleConn starts relay; the version exchange and the request follow. *)
Accept(c) ==
  /\ At(c, "idle", "request")
  /\ UNCHANGED <<tables, queues, perIPCounts, connVars>>

(* A failed version exchange, an empty request or the module list. *)
NoModule(c) ==
  /\ pc[c] = "request"
  /\ Return(c)
  /\ UNCHANGED <<tables, queues, perIPCounts>>

(* getTargetsForModule and the choice by client address. *)
LookUp(c, m) ==
  /\ pc[c] = "request"
  /\ IF Targets(m) = << >> THEN Return(c)
     ELSE /\ pc' = [pc EXCEPT ![c] = "queue"]
          /\ up' = [up EXCEPT ![c] =
               Targets(m)[1 + chooseTargetByClientIP(ClientIP[c], Len(Targets(m)))]]
          /\ UNCHANGED <<qid, lim>>
  /\ UNCHANGED <<tables, queues, perIPCounts>>

(* getQueueForUpstream; the upstream may be gone by now. *)
GetQueue(c) ==
  /\ pc[c] = "queue"
  /\ IF up[c] \notin DOMAIN upstreamQueues THEN Return(c)
     ELSE /\ pc' = [pc EXCEPT ![c] = "limit"]
          /\ qid' = [qid EXCEPT ![c] = upstreamQueues[up[c]]]
          /\ UNCHANGED <<up, lim>>
  /\ UNCHANGED <<tables, queues, perIPCounts>>

GetLimit(c) ==
  /\ At(c, "limit", IF getPerIPLimitForUpstream(up[c]) > 0 THEN "count" ELSE "acquire")
  /\ lim' = [lim EXCEPT ![c] = getPerIPLimitForUpstream(up[c])]
  /\ UNCHANGED <<tables, queues, perIPCounts, up, qid>>

(* The value before the increment is compared. *)
OverLimit_OffByOne(c) == perIPCounts[up[c]][ClientIP[c]] > lim[c]

(* n > perIPLimit, with n the value that counter.Add(1) returns. *)
OverLimit(c) == perIPCounts[up[c]][ClientIP[c]] + 1 > lim[c]

(* counter.Add(1) *)
CountIP(c) ==
  /\ At(c, "count", IF OverLimit(c) THEN "reject" ELSE "acquire")
  /\ AddPerIP(c, 1)
  /\ UNCHANGED <<tables, queues, connVars>>

(* The rejected path returns without undoing its increment. *)
RejectIP_NoUndo(c) ==
  /\ pc[c] = "reject"
  /\ Return(c)
  /\ UNCHANGED <<tables, queues, perIPCounts>>

(* counter.Add(-1) on the rejected path *)
RejectIP(c) ==
  /\ pc[c] = "reject"
  /\ AddPerIP(c, -1)
  /\ Return(c)
  /\ UNCHANGED <<tables, queues>>

(* upstreamQueue.Acquire and the first status *)
Acquire(c) ==
  LET q == QAcquire(queues[qid[c]], c)
  IN  /\ At(c, "acquire", IF c \in q.active THEN "dial"
                          ELSE IF c \in Items(q.queued) THEN "queueing" ELSE "release")
      /\ queues' = [queues EXCEPT ![qid[c]] = q]
      /\ UNCHANGED <<tables, perIPCounts, connVars>>

(* handle.C delivers Ok *)
Granted(c) ==
  /\ At(c, "queueing", "dial")
  /\ c \in queues[qid[c]].active
  /\ UNCHANGED <<tables, queues, perIPCounts, connVars>>

(* A queue notice cannot be written: the client is gone. *)
NoticeFails(c) ==
  /\ At(c, "queueing", "release")
  /\ UNCHANGED <<tables, queues, perIPCounts, connVars>>

Dial(c) ==
  /\ \E next \in {"relay", "release"} : At(c, "dial", next)
  /\ UNCHANGED <<tables, queues, perIPCounts, connVars>>

(* The upstream handshake fails, or the session ends. *)
RelayEnds(c) ==
  /\ At(c, "relay", "release")
  /\ UNCHANGED <<tables, queues, perIPCounts, connVars>>

(* defer handle.Release() *)
Release(c) ==
  /\ pc[c] = "release"
  /\ queues' = [queues EXCEPT ![qid[c]] = QRelease(@, c)]
  /\ IF lim[c] > 0 THEN pc' = [pc EXCEPT ![c] = "uncount"] /\ UNCHANGED connVars
     ELSE Return(c)
  /\ UNCHANGED <<tables, perIPCounts>>

(* defer counter.Add(-1) *)
Uncount(c) ==
  /\ pc[c] = "uncount"
  /\ AddPerIP(c, -1)
  /\ Return(c)
  /\ UNCHANGED <<tables, queues>>

(* The steps relay takes by itself once the client has asked. *)
Relay(c) ==
  \/ GetQueue(c) \/ GetLimit(c) \/ CountIP(c) \/ RejectIP(c)
  \/ Acquire(c) \/ Granted(c) \/ Dial(c) \/ RelayEnds(c) \/ Release(c) \/ Uncount(c)

Request(c) == NoModule(c) \/ \E m \in Module : LookUp(c, m)

Next ==
  \/ \E c \in Configs : Reload(c)
  \/ \E c \in Conn : Accept(c) \/ Request(c) \/ NoticeFails(c) \/ Relay(c)

Spec == Init /\ [][Next]_vars

(* The goroutine of a connection runs; reads of the request time out;      *)
(* sessions end (RelaySession.tla is about when they do).                  *)
Fairness == \A c \in Conn : WF_vars(Request(c) \/ Relay(c))

FairSpec == Spec /\ Fairness
-----------------------------------------------------------------------------
CountedFor(u, ip) ==
  {c \in Conn : /\ up[c] = u /\ ClientIP[c] = ip
                /\ lim[c] > 0 /\ pc[c] \in Counted}

Rejecting(u, ip) == {c \in Conn : up[c] = u /\ ClientIP[c] = ip /\ pc[c] = "reject"}

(* The connections that hold a slot for upstream u, in whichever queue. *)
Admitted(u) == {c \in Conn : pc[c] \in Holding /\ up[c] = u /\ c \in queues[qid[c]].active}

(* The counter of (upstream, address) is the number of connections between *)
(* relay's Add(1) and the matching Add(-1), on every path out of relay and *)
(* whatever reloads happen in between: it never leaks and never underflows.*)
CountersBalance ==
  \A u \in Upstream, ip \in IP :
    perIPCounts[u][ip] = Cardinality(CountedFor(u, ip) \cup Rejecting(u, ip))

(* Of the connections of one address to one upstream that were admitted    *)
(* under a cap of L or less, at most L are under way at a time, queued ones*)
(* included, even when reloads changed the cap between their admissions.   *)
PerIPCap ==
  \A u \in Upstream, ip \in IP : \A c \in CountedFor(u, ip) :
    Cardinality({d \in CountedFor(u, ip) : lim[d] <= lim[c]}) <= lim[c]

(* A place in a queue belongs to exactly one running relay: a queue lists  *)
(* only connections between their Acquire and their Release on that queue, *)
(* a connection that waits or relays is listed, and one that dials or      *)
(* relays has a slot - also in a queue that a reload took out of the table.*)
PlacesOwned ==
  \A c \in Conn :
    /\ \A i \in QueueId :
         c \in queues[i].active \cup Items(queues[i].queued) => qid[c] = i /\ pc[c] \in Holding
    /\ pc[c] \in {"dial", "relay"} => c \in queues[qid[c]].active
    /\ pc[c] = "queueing" => c \in queues[qid[c]].active \cup Items(queues[qid[c]].queued)

(* The queue an upstream has in the table admits by the limit that the     *)
(* current configuration gives it, however the limit was changed by        *)
(* reloads while connections waited in it or held its slots.               *)
QueueWithinCapStep ==
  \A u \in DOMAIN cfg' :
    LET i == upstreamQueues'[u]
    IN  \/ queues'[i].active \subseteq queues[i].active
        \/ cfg'[u].max = 0 \/ Cardinality(queues'[i].active) <= cfg'[u].max

(* Every step that admits a connection is a QueueWithinCapStep. *)
QueueWithinCap == [][QueueWithinCapStep]_vars

(* README.md, max_active_connections: when a connection gets a slot for an *)
(* upstream that the current configuration limits, the connections holding *)
(* a slot for this upstream are within the limit.                          *)
AdmissionWithinCapStep ==
  \A u \in DOMAIN cfg' :
    Admitted(u)' \subseteq Admitted(u) \/ cfg'[u].max = 0 \/ Cardinality(Admitted(u)') <= cfg'[u].max

(* Every admission of a connection is an AdmissionWithinCapStep. *)
AdmissionWithinCap == [][AdmissionWithinCapStep]_vars

(* Every connection that is accepted is eventually done, however reloads   *)
(* change the table under it: nobody waits for ever in an orphaned queue.  *)
EveryRelayReturns == \A c \in Conn : pc[c] # "idle" ~> pc[c] = "idle"
=============================================================================
