---------------------------- MODULE ProxyProofs ----------------------------
(***************************************************************************)
(* The per-IP counters and the queues under relay and reloads, for any     *)
(* connections, addresses, upstreams and configurations.                   *)
(***************************************************************************)
EXTENDS ProxyServer, QueueLemmas

Before == {"idle", "request", "queue", "limit"}
PC == Before \cup {"count", "reject"} \cup Counted

(* relay's locals have their types, and a cap is known where one was found.*)
LocalInv ==
  /\ cfg \in Configs \cup {<< >>}
  /\ pc \in [Conn -> PC] /\ lim \in [Conn -> Nat]
  /\ up = [c \in Conn |-> up[c]]
  /\ \A c \in Conn : /\ pc[c] \in Before => lim[c] = 0
                     /\ pc[c] \in {"count", "reject", "uncount"} => lim[c] > 0

(* The connections whose Add(1) has not been taken back. *)
Charged(u, ip) == CountedFor(u, ip) \cup Rejecting(u, ip)

CountInv ==
  /\ perIPCounts \in [Upstream -> [IP -> Int]]
  /\ \A u \in Upstream, ip \in IP :
       /\ IsFiniteSet(Charged(u, ip))
       /\ perIPCounts[u][ip] = Cardinality(Charged(u, ip))

ProxyInv == LocalInv /\ CountInv /\ PerIPCap

(* The steps of relay that leave the counters alone, and reloads. *)
Neutral(c) ==
  \/ Accept(c) \/ NoModule(c) \/ (\E m \in Module : LookUp(c, m)) \/ GetQueue(c) \/ GetLimit(c)
  \/ Acquire(c) \/ Granted(c) \/ NoticeFails(c) \/ Dial(c) \/ RelayEnds(c) \/ Release(c)
-----------------------------------------------------------------------------
(* Nobody is counted before the first connection. *)
LEMMA InitProxyInv == Init => ProxyInv
<1> SUFFICES ASSUME Init PROVE ProxyInv
  OBVIOUS
<1>1. LocalInv
  BY DEF Init, LocalInv, PC, Before
<1>2. \A u, ip : CountedFor(u, ip) = {} /\ Rejecting(u, ip) = {}
  BY DEF Init, CountedFor, Rejecting
<1>3. CountInv
  <2>1. \A u, ip : Charged(u, ip) = {}
    BY <1>2 DEF Charged
  <2>2. /\ perIPCounts \in [Upstream -> [IP -> Int]]
        /\ \A u \in Upstream, ip \in IP : perIPCounts[u][ip] = 0
    BY DEF Init
  <2>3. IsFiniteSet({}) /\ Cardinality({}) = 0
    BY FS_EmptySet
  <2> QED
    BY <2>1, <2>2, <2>3 DEF CountInv
<1>4. PerIPCap
  BY <1>2 DEF PerIPCap
<1> QED
  BY <1>1, <1>3, <1>4 DEF ProxyInv

(* The cap that a configuration gives an upstream is a natural number. *)
LEMMA LimitIsNat ==
  ASSUME LocalInv, NEW u
  PROVE  getPerIPLimitForUpstream(u) \in Nat
<1>1. CASE cfg = << >>
  BY <1>1 DEF getPerIPLimitForUpstream
<1>2. CASE cfg \in Configs
  BY <1>2, ProxyAssumption DEF getPerIPLimitForUpstream, UpstreamSettings
<1> QED
  BY <1>1, <1>2 DEF LocalInv

(* A step that changes neither the counters nor who is counted, where, and *)
(* under which cap.                                                        *)
LEMMA NobodyMoves ==
  ASSUME ProxyInv, perIPCounts' = perIPCounts,
         \A d \in Conn :
           /\ (pc'[d] = "reject" <=> pc[d] = "reject")
           /\ (lim'[d] > 0 /\ pc'[d] \in Counted <=> lim[d] > 0 /\ pc[d] \in Counted)
           /\ pc[d] = "reject" \/ (lim[d] > 0 /\ pc[d] \in Counted)
                => up'[d] = up[d] /\ lim'[d] = lim[d]
  PROVE  CountInv' /\ PerIPCap'
<1>1. \A u, ip : CountedFor(u, ip)' = CountedFor(u, ip)
  BY DEF CountedFor
<1>2. \A u, ip : Rejecting(u, ip)' = Rejecting(u, ip)
  BY DEF Rejecting
<1>3. CountInv'
  BY <1>1, <1>2, Zenon DEF ProxyInv, CountInv, Charged
<1>4. \A u, ip : \A d \in CountedFor(u, ip) : lim'[d] = lim[d]
  BY DEF CountedFor
<1>5. ASSUME NEW u, NEW ip, NEW d \in CountedFor(u, ip)
      PROVE  {e \in CountedFor(u, ip)' : lim'[e] <= lim'[d]} = {e \in CountedFor(u, ip) : lim[e] <= lim[d]}
  BY <1>1, <1>4
<1>6. PerIPCap'
  BY <1>1, <1>4, <1>5 DEF ProxyInv, PerIPCap
<1> QED
  BY <1>3, <1>6

(* Reloads do not touch the counters or the locals of relay. *)
LEMMA ReloadStep ==
  ASSUME ProxyInv, NEW k \in Configs, Reload(k)
  PROVE  ProxyInv'
<1>1. LocalInv'
  BY DEF ProxyInv, LocalInv, Reload, connVars
<1>2. perIPCounts' = perIPCounts /\ pc' = pc /\ up' = up /\ lim' = lim
  BY DEF Reload, connVars
<1>3. CountInv' /\ PerIPCap'
  BY <1>2, NobodyMoves
<1> QED
  BY <1>1, <1>3 DEF ProxyInv

(* Every other step of relay but the three that change a counter. *)
LEMMA NeutralStep ==
  ASSUME ProxyInv, NEW c \in Conn, Neutral(c)
  PROVE  ProxyInv'
<1>0. LocalInv
  BY DEF ProxyInv
<1>1. perIPCounts' = perIPCounts /\ cfg' = cfg
  BY SMTT(30) DEF Neutral, Accept, NoModule, LookUp, GetQueue, GetLimit, Acquire, Granted, NoticeFails,
         Dial, RelayEnds, Release, tables
<1>2. /\ pc[c] \notin {"count", "reject", "uncount"}
      /\ \E there \in PC \ {"reject"} :
           /\ pc' = [pc EXCEPT ![c] = there]
           /\ \/ /\ there = "idle"
                 /\ lim' = [lim EXCEPT ![c] = 0]
                 /\ up' = [up EXCEPT ![c] = UpstreamOrder[1]]
                 /\ lim[c] = 0
              \/ /\ there \in Before /\ pc[c] \in Before /\ lim' = lim
                 /\ \E x : up' = [up EXCEPT ![c] = x]
              \/ /\ pc[c] = "limit" /\ up' = up
                 /\ lim' = [lim EXCEPT ![c] = getPerIPLimitForUpstream(up[c])]
                 /\ there = IF getPerIPLimitForUpstream(up[c]) > 0 THEN "count" ELSE "acquire"
              \/ /\ pc[c] \in Counted /\ there \in Counted /\ lim' = lim /\ up' = up
                 /\ there = "uncount" => lim[c] > 0
  <2> USE DEF PC, Before, Counted, Holding, At, Return, connVars
  <2>1. CASE Accept(c)
    <3>1. up' = [up EXCEPT ![c] = up[c]]
      BY <1>0, <2>1 DEF Accept, LocalInv
    <3> QED
      BY <2>1, <3>1, Zenon DEF Accept
  <2>2. CASE NoModule(c)
    BY <1>0, <2>2, Zenon DEF NoModule, LocalInv
  <2>3. CASE \E m \in Module : LookUp(c, m)
    BY <1>0, <2>3 DEF LookUp, LocalInv
  <2>4. CASE GetQueue(c)
    <3>1. up = [up EXCEPT ![c] = up[c]]
      BY <1>0 DEF LocalInv
    <3> QED
      BY <1>0, <2>4, <3>1 DEF GetQueue, LocalInv
  <2>5. CASE GetLimit(c)
    BY <2>5, Zenon DEF GetLimit
  <2>6. CASE Acquire(c)
    <3>1. /\ pc[c] = "acquire" /\ lim' = lim /\ up' = up
          /\ \E there \in {"dial", "queueing", "release"} : pc' = [pc EXCEPT ![c] = there]
      BY <2>6, Zenon DEF Acquire
    <3> QED
      BY <3>1, Zenon
  <2>7. CASE Granted(c) \/ NoticeFails(c) \/ RelayEnds(c)
    BY <2>7 DEF Granted, NoticeFails, RelayEnds
  <2>8. CASE Dial(c)
    BY <2>8, Zenon DEF Dial
  <2>9. CASE Release(c)
    BY <1>0, <2>9 DEF Release, LocalInv
  <2> QED
    BY <2>1, <2>2, <2>3, <2>4, <2>5, <2>6, <2>7, <2>8, <2>9, SMTT(30) DEF Neutral
<1>3. getPerIPLimitForUpstream(up[c]) \in Nat
  BY <1>0, LimitIsNat
<1>4. LocalInv'
  BY <1>0, <1>1, <1>2, <1>3, SMTT(30) DEF LocalInv, PC, Before, Counted, Holding
<1>5. \A d \in Conn : 
           /\ (pc'[d] = "reject" <=> pc[d] = "reject")
           /\ (lim'[d] > 0 /\ pc'[d] \in Counted <=> lim[d] > 0 /\ pc[d] \in Counted)
           /\ pc[d] = "reject" \/ (lim[d] > 0 /\ pc[d] \in Counted)
                => up'[d] = up[d] /\ lim'[d] = lim[d]
  BY <1>0, <1>2, <1>3 DEF LocalInv, PC, Before, Counted, Holding
<1> QED
  BY <1>1, <1>4, <1>5, NobodyMoves DEF ProxyInv

(* counter.Add(1): one more is counted, and it stays within the cap or is  *)
(* sent to the rejected path.                                              *)
LEMMA CountStep ==
  ASSUME ProxyInv, NEW c \in Conn, CountIP(c)
  PROVE  ProxyInv'
<1>0. PICK U, A, n : U = up[c] /\ A = ClientIP[c] /\ n = perIPCounts[U][A]
  OBVIOUS
<1>1. /\ pc[c] = "count" /\ lim[c] > 0 /\ lim[c] \in Nat
      /\ lim' = lim /\ up' = up /\ cfg' = cfg
      /\ pc' = [pc EXCEPT ![c] = IF n + 1 > lim[c] THEN "reject" ELSE "acquire"]
      /\ perIPCounts' = [perIPCounts EXCEPT ![U][A] = @ + 1]
  BY <1>0 DEF CountIP, At, OverLimit, AddPerIP, ProxyInv, LocalInv, connVars, tables
<1>2. LocalInv'
  BY <1>1 DEF ProxyInv, LocalInv, PC, Before, Counted, Holding
<1>3. /\ pc'[c] \in {"reject", "acquire"}
      /\ pc'[c] = "acquire" => n + 1 <= lim[c] \/ n \notin Int
      /\ \A d \in Conn \ {c} : pc'[d] = pc[d]
  BY <1>1 DEF ProxyInv, LocalInv
<1>4. A \in IP
  BY <1>0, ProxyAssumption, SMTT(30)
<1>5. c \notin Charged(U, A) /\ Charged(U, A)' = Charged(U, A) \cup {c}
  BY <1>0, <1>1, <1>3, SMTT(30) DEF Charged, CountedFor, Rejecting, Counted, Holding
<1>6. \A u, ip : u # U \/ ip # A => Charged(u, ip)' = Charged(u, ip) /\ CountedFor(u, ip)' = CountedFor(u, ip)
  BY <1>0, <1>1, <1>3 DEF Charged, CountedFor, Rejecting
<1>7. CountInv'
  <2>1. perIPCounts' \in [Upstream -> [IP -> Int]]
    <3>1. CASE U \in Upstream
      BY <1>1, <1>4, <3>1 DEF ProxyInv, CountInv
    <3>2. CASE U \notin Upstream
      BY <1>1, <3>2, Zenon DEF ProxyInv, CountInv
    <3> QED
      BY <3>1, <3>2
  <2>2. ASSUME NEW u \in Upstream, NEW ip \in IP
        PROVE  /\ IsFiniteSet(Charged(u, ip)') /\ perIPCounts'[u][ip] = Cardinality(Charged(u, ip)')
    <3>1. CASE u = U /\ ip = A
      <4>1. perIPCounts'[u][ip] = perIPCounts[u][ip] + 1
        BY <1>1, <3>1 DEF ProxyInv, CountInv
      <4>2. /\ IsFiniteSet(Charged(U, A) \cup {c})
            /\ Cardinality(Charged(U, A) \cup {c}) = Cardinality(Charged(U, A)) + 1
        BY <1>5, <3>1, FS_AddElement DEF ProxyInv, CountInv
      <4> QED
        BY <1>5, <3>1, <4>1, <4>2, Zenon DEF ProxyInv, CountInv
    <3>2. CASE u # U \/ ip # A
      <4>1. perIPCounts'[u][ip] = perIPCounts[u][ip]
        BY <1>1, <3>2 DEF ProxyInv, CountInv
      <4> QED
        BY <1>6, <3>2, <4>1, SMTT(30) DEF ProxyInv, CountInv
    <3> QED
      BY <3>1, <3>2
  <2> QED
    BY <2>1, <2>2 DEF CountInv
<1>8. PerIPCap'
  <2> SUFFICES ASSUME NEW u \in Upstream, NEW ip \in IP, NEW d \in CountedFor(u, ip)'
               PROVE  Cardinality({e \in CountedFor(u, ip)' : lim[e] <= lim[d]}) <= lim[d]
    BY <1>1 DEF PerIPCap
  <2>1. \A e \in Conn : lim[e] \in Nat
    BY DEF ProxyInv, LocalInv
  <2>2. d \in Conn /\ CountedFor(u, ip) \subseteq Conn
    BY DEF CountedFor
  <2>3. CASE CountedFor(u, ip)' = CountedFor(u, ip)
    BY <2>3 DEF ProxyInv, PerIPCap
  <2>4. CASE CountedFor(u, ip)' # CountedFor(u, ip)
    <3>1. u = U /\ ip = A
      BY <1>6, <2>4, SMTT(30)
    <3>2. /\ pc'[c] = "acquire"
          /\ CountedFor(u, ip)' = CountedFor(u, ip) \cup {c}
      BY <1>0, <1>1, <1>3, <2>4, <3>1 DEF CountedFor, Counted, Holding
    <3>3. /\ IsFiniteSet(Charged(U, A)') /\ Cardinality(Charged(U, A)') = n + 1
          /\ n + 1 <= lim[c]
      <4>1. n \in Int /\ perIPCounts'[U][A] = n + 1
        BY <1>0, <1>1, <3>1 DEF ProxyInv, CountInv
      <4> QED
        BY <1>1, <1>3, <1>7, <3>1, <3>2, <4>1, SMTT(30) DEF CountInv
    <3>4. CASE lim[c] <= lim[d]
      <4>1. {e \in CountedFor(u, ip)' : lim[e] <= lim[d]} \subseteq Charged(U, A)'
        BY <3>1 DEF Charged
      <4>2. Cardinality({e \in CountedFor(u, ip)' : lim[e] <= lim[d]}) <= Cardinality(Charged(U, A)')
        BY <3>3, <4>1, FS_Subset
      <4>3. Cardinality({e \in CountedFor(u, ip)' : lim[e] <= lim[d]}) \in Nat
        BY <3>3, <4>1, FS_Subset, FS_CardinalityType, SMTT(30)
      <4>4. n \in Int /\ lim[c] \in Nat /\ lim[d] \in Nat
        BY <1>0, <1>4, <2>1, <2>2, <3>1, SMTT(30) DEF ProxyInv, CountInv
      <4> QED
        BY <3>3, <3>4, <4>2, <4>3, <4>4
    <3>5. CASE ~(lim[c] <= lim[d])
      <4>1. d \in CountedFor(u, ip)
        BY <2>1, <3>2, <3>5
      <4>2. {e \in CountedFor(u, ip)' : lim[e] <= lim[d]} = {e \in CountedFor(u, ip) : lim[e] <= lim[d]}
        BY <3>2, <3>5
      <4> QED
        BY <4>1, <4>2 DEF ProxyInv, PerIPCap
    <3> QED
      BY <3>4, <3>5
  <2> QED
    BY <2>3, <2>4
<1> QED
  BY <1>2, <1>7, <1>8 DEF ProxyInv

(* counter.Add(-1), deferred or on the rejected path: one leaves.          *)
LEMMA UncountStep ==
  ASSUME ProxyInv, NEW c \in Conn, RejectIP(c) \/ Uncount(c)
  PROVE  ProxyInv'
<1>0. PICK U, A : U = up[c] /\ A = ClientIP[c]
  BY SMTT(30)
<1>1. /\ pc[c] \in {"reject", "uncount"} /\ lim[c] > 0
      /\ cfg' = cfg
      /\ pc' = [pc EXCEPT ![c] = "idle"] /\ lim' = [lim EXCEPT ![c] = 0]
      /\ up' = [up EXCEPT ![c] = UpstreamOrder[1]]
      /\ perIPCounts' = [perIPCounts EXCEPT ![U][A] = @ + (-1)]
  BY <1>0 DEF RejectIP, Uncount, Return, AddPerIP, ProxyInv, LocalInv, tables
<1>2. LocalInv'
  BY <1>1, Zenon DEF ProxyInv, LocalInv, PC, Before, Counted, Holding
<1>3. /\ pc'[c] = "idle"
      /\ \A d \in Conn \ {c} : pc'[d] = pc[d] /\ lim'[d] = lim[d] /\ up'[d] = up[d]
  BY <1>1 DEF ProxyInv, LocalInv
<1>4. A \in IP
  BY <1>0, ProxyAssumption
<1>5. c \in Charged(U, A) /\ Charged(U, A)' = Charged(U, A) \ {c}
  BY <1>0, <1>1, <1>3 DEF Charged, CountedFor, Rejecting, Counted, Holding
<1>6. \A u, ip : u # U \/ ip # A => Charged(u, ip)' = Charged(u, ip)
  BY <1>0, <1>1, <1>3 DEF Charged, CountedFor, Rejecting, Counted, Holding
<1>7. CountInv'
  <2>1. perIPCounts' \in [Upstream -> [IP -> Int]]
    <3>1. CASE U \in Upstream
      BY <1>1, <1>4, <3>1 DEF ProxyInv, CountInv
    <3>2. CASE U \notin Upstream
      BY <1>1, <3>2, Zenon DEF ProxyInv, CountInv
    <3> QED
      BY <3>1, <3>2
  <2>2. ASSUME NEW u \in Upstream, NEW ip \in IP
        PROVE  /\ IsFiniteSet(Charged(u, ip)') /\ perIPCounts'[u][ip] = Cardinality(Charged(u, ip)')
    <3>1. CASE u = U /\ ip = A
      <4>1. perIPCounts'[u][ip] = perIPCounts[u][ip] + (-1)
        BY <1>1, <3>1 DEF ProxyInv, CountInv
      <4>2. /\ IsFiniteSet(Charged(U, A) \ {c})
            /\ Cardinality(Charged(U, A) \ {c}) = Cardinality(Charged(U, A)) - 1
        BY <1>5, <3>1, FS_RemoveElement DEF ProxyInv, CountInv
      <4> QED
        BY <1>5, <3>1, <4>1, <4>2, Zenon DEF ProxyInv, CountInv
    <3>2. CASE u # U \/ ip # A
      <4>1. perIPCounts'[u][ip] = perIPCounts[u][ip]
        BY <1>1, <3>2 DEF ProxyInv, CountInv
      <4> QED
        BY <1>6, <3>2, <4>1 DEF ProxyInv, CountInv
    <3> QED
      BY <3>1, <3>2
  <2> QED
    BY <2>1, <2>2 DEF CountInv
<1>8. PerIPCap'
  <2> SUFFICES ASSUME NEW u \in Upstream, NEW ip \in IP, NEW d \in CountedFor(u, ip)'
               PROVE  Cardinality({e \in CountedFor(u, ip)' : lim'[e] <= lim'[d]}) <= lim'[d]
    BY Zenon DEF PerIPCap
  <2>1. /\ d \in CountedFor(u, ip) /\ lim'[d] = lim[d] /\ lim[d] \in Nat
        /\ CountedFor(u, ip)' \subseteq CountedFor(u, ip)
        /\ \A e \in CountedFor(u, ip)' : lim'[e] = lim[e]
    BY <1>3, SMTT(30) DEF CountedFor, Counted, Holding, ProxyInv, LocalInv
  <2> DEFINE S == {e \in CountedFor(u, ip) : lim[e] <= lim[d]}
             T == {e \in CountedFor(u, ip)' : lim'[e] <= lim'[d]}
  <2>2. T \subseteq S /\ S \subseteq Charged(u, ip)
    BY <2>1 DEF Charged
  <2>3. IsFiniteSet(Charged(u, ip))
    BY DEF ProxyInv, CountInv
  <2>4. IsFiniteSet(S)
    BY <2>2, <2>3, FS_Subset
  <2>5. IsFiniteSet(T) /\ Cardinality(T) <= Cardinality(S)
    BY <2>2, <2>4, FS_Subset
  <2>6. Cardinality(S) \in Nat /\ Cardinality(T) \in Nat
    BY <2>4, <2>5, FS_CardinalityType
  <2>7. Cardinality(S) <= lim[d]
    BY <2>1 DEF ProxyInv, PerIPCap
  <2> QED
    BY <2>1, <2>5, <2>6, <2>7
<1> QED
  BY <1>2, <1>7, <1>8 DEF ProxyInv
-----------------------------------------------------------------------------
(* The invariant of the per-IP accounting. *)
THEOREM ProxyInvariance == Spec => []ProxyInv
<1>1. ProxyInv /\ [Next]_vars => ProxyInv'
  <2> SUFFICES ASSUME ProxyInv, [Next]_vars PROVE ProxyInv'
    OBVIOUS
  <2>1. CASE UNCHANGED vars
    <3>1. LocalInv'
      BY <2>1 DEF vars, ProxyInv, LocalInv
    <3>2. perIPCounts' = perIPCounts /\ pc' = pc /\ up' = up /\ lim' = lim
      BY <2>1 DEF vars
    <3> QED
      BY <3>1, <3>2, NobodyMoves DEF ProxyInv
  <2>2. CASE Next
    BY <2>2, ReloadStep, NeutralStep, CountStep, UncountStep DEF Next, Request, Relay, Neutral
  <2> QED
    BY <2>1, <2>2
<1> QED
  BY <1>1, InitProxyInv, PTL DEF Spec

(* relay takes back every Add(1) it makes exactly once, on every path out  *)
(* and across any reloads.                                                 *)
THEOREM CountersAlwaysBalance == Spec => []CountersBalance
<1>1. ProxyInv => CountersBalance
  BY Zenon DEF ProxyInv, CountInv, CountersBalance, Charged
<1> QED
  BY <1>1, ProxyInvariance, PTL

(* per_ip_max_active_connections holds among the connections that are      *)
(* counted, whatever caps reloads give them.                               *)
THEOREM CapAlwaysHolds == Spec => []PerIPCap
<1>1. ProxyInv => PerIPCap
  BY DEF ProxyInv
<1> QED
  BY <1>1, ProxyInvariance, PTL
-----------------------------------------------------------------------------
(* Where relay knows the queue it uses. *)
HasQueue == {"limit", "count", "reject"} \cup Counted

(* The tables name one queue for each configured upstream, with its limit; *)
(* the queues are well-formed, and their places are owned.                 *)
PlacesInv ==
  /\ qid \in [Conn -> QueueId \cup {NoQueue}]
  /\ \A c \in Conn : pc[c] \in HasQueue => qid[c] \in QueueId
  /\ queues = [i \in QueueId |-> queues[i]]
  /\ \A i \in QueueId : Shape(Conn, queues[i]) /\ Conserving(queues[i])
  /\ DOMAIN upstreamQueues = DOMAIN cfg
  /\ \A u \in DOMAIN cfg :
       /\ upstreamQueues[u] \in QueueId /\ upstreamQueues[u][1] = u
       /\ queues[upstreamQueues[u]].max = cfg[u].max
  /\ PlacesOwned

(* The connections that queue q lists. *)
Listed(q) == q.active \cup Items(q.queued)

(* PlacesOwned of connection c at p that uses queue e of Q. *)
HasPlace(c, p, e, Q) ==
  /\ \A i \in QueueId : c \in Listed(Q[i]) => e = i /\ p \in Holding
  /\ p \in {"dial", "relay"} => c \in Q[e].active
  /\ p = "queueing" => c \in Listed(Q[e])

(* PlacesOwned, connection by connection. *)
LEMMA PlaceByPlace == PlacesOwned <=> \A c \in Conn : HasPlace(c, pc[c], qid[c], queues)
BY Zenon DEF PlacesOwned, HasPlace, Listed

(* The same after a step. *)
LEMMA PlaceByPlacePrimed == PlacesOwned' <=> \A c \in Conn : HasPlace(c, pc'[c], qid'[c], queues')
BY Zenon DEF PlacesOwned, HasPlace, Listed

(* A new queue is well-formed and empty. *)
LEMMA NewQueueLemma ==
  ASSUME NEW H, NEW m \in Int, NEW k \in Int
  PROVE  /\ Shape(H, NewQueue(m, k)) /\ Conserving(NewQueue(m, k))
         /\ NewQueue(m, k).max = m
         /\ NewQueue(m, k).active = {} /\ Items(NewQueue(m, k).queued) = {}
<1>1. NewQueue(m, k) = [max |-> m, maxQueued |-> k, active |-> {}, queued |-> << >>]
  BY DEF NewQueue
<1>2. /\ NewQueue(m, k).max = m /\ NewQueue(m, k).active = {} /\ NewQueue(m, k).queued = << >>
      /\ NewQueue(m, k) \in QueueType(H)
  BY <1>1 DEF QueueType
<1>3. Items(<< >>) = {} /\ NoRepeats(<< >>)
  BY DEF Items, NoRepeats
<1>4. IsFiniteSet({})
  BY FS_EmptySet
<1> QED
  BY <1>2, <1>3, <1>4 DEF Shape, Conserving

(* Before the first configuration there are no queues in use. *)
LEMMA InitPlaces == Init => PlacesInv
<1> SUFFICES ASSUME Init PROVE PlacesInv
  OBVIOUS
<1>1. \A i \in QueueId : queues[i] = NewQueue(0, 0)
  BY DEF Init
<1>2. \A i \in QueueId :
        /\ Shape(Conn, queues[i]) /\ Conserving(queues[i])
        /\ queues[i].active = {} /\ Items(queues[i].queued) = {}
  BY <1>1, NewQueueLemma
<1>3. PlacesOwned
  BY <1>2 DEF Init, PlacesOwned
<1>4. qid \in [Conn -> QueueId \cup {NoQueue}] /\ queues = [i \in QueueId |-> queues[i]]
  BY DEF Init
<1>5. \A c \in Conn : pc[c] \notin HasQueue
  BY DEF Init, HasQueue, Counted, Holding
<1>6. DOMAIN upstreamQueues = DOMAIN cfg /\ DOMAIN cfg = {}
  BY DEF Init
<1> QED
  BY <1>2, <1>3, <1>4, <1>5, <1>6 DEF PlacesInv

(* A step of relay that leaves queues and tables alone: outside of Holding,*)
(* or within it to where the place allows.                                 *)
LEMMA QuietStep ==
  ASSUME PlacesInv, pc \in [Conn -> PC], NEW c \in Conn, NEW there, NEW x,
         UNCHANGED <<tables, queues>>,
         pc' = [pc EXCEPT ![c] = there], qid' = [qid EXCEPT ![c] = x],
         x \in QueueId \cup {NoQueue}, there \in HasQueue => x \in QueueId,
         \/ pc[c] \notin Holding /\ there \notin Holding
         \/ /\ pc[c] \in Holding /\ x = qid[c]
            /\ there = "release" \/ (there \in {"dial", "relay"} /\ c \in queues[x].active)
  PROVE  PlacesInv'
<1>1. /\ cfg' = cfg /\ upstreamQueues' = upstreamQueues /\ queues' = queues
      /\ pc'[c] = there /\ qid'[c] = x
      /\ \A d \in Conn \ {c} : pc'[d] = pc[d] /\ qid'[d] = qid[d]
      /\ qid' \in [Conn -> QueueId \cup {NoQueue}]
  BY DEF tables, PlacesInv
<1>2. \A d \in Conn : pc'[d] \in HasQueue => qid'[d] \in QueueId
  BY <1>1 DEF PlacesInv
<1>3. ASSUME NEW d \in Conn PROVE HasPlace(d, pc'[d], qid'[d], queues)
  <2>0. HasPlace(d, pc[d], qid[d], queues)
    BY PlaceByPlace DEF PlacesInv
  <2>1. CASE d # c
    BY <1>1, <2>0, <2>1
  <2>2. CASE d = c /\ pc[c] \notin Holding /\ there \notin Holding
    BY <1>1, <2>0, <2>2 DEF HasPlace, Holding
  <2>3. CASE d = c /\ pc[c] \in Holding /\ x = qid[c]
             /\ (there = "release" \/ (there \in {"dial", "relay"} /\ c \in queues[x].active))
    BY <1>1, <2>0, <2>3, SMTT(30) DEF HasPlace, Holding
  <2> QED
    BY <2>1, <2>2, <2>3
<1>4. PlacesOwned'
  BY <1>1, <1>3, PlaceByPlacePrimed, SMTT(30)
<1> QED
  BY <1>1, <1>2, <1>4 DEF PlacesInv

(* A step of relay that changes the queue it uses and nothing else in the  *)
(* tables: the lists change by c at most, and nobody else loses a slot.    *)
LEMMA QueueStep ==
  ASSUME PlacesInv, pc \in [Conn -> PC], NEW c \in Conn, NEW there, NEW x, NEW y,
         UNCHANGED tables, pc[c] \in HasQueue,
         pc' = [pc EXCEPT ![c] = there], qid' = [qid EXCEPT ![c] = x],
         queues' = [queues EXCEPT ![qid[c]] = y],
         x \in QueueId \cup {NoQueue}, there \in HasQueue => x \in QueueId,
         Shape(Conn, y), Conserving(y), y.max = queues[qid[c]].max,
         Listed(y) \subseteq Listed(queues[qid[c]]) \cup {c},
         Listed(queues[qid[c]]) \ {c} \subseteq Listed(y),
         queues[qid[c]].active \ {c} \subseteq y.active,
         c \in Listed(y) => x = qid[c] /\ there \in Holding,
         there \in {"dial", "relay"} => x = qid[c] /\ c \in y.active,
         there = "queueing" => x = qid[c] /\ c \in Listed(y)
  PROVE  PlacesInv'
<1>0. PICK j : j = qid[c] /\ j \in QueueId
  BY DEF PlacesInv
<1>1. /\ cfg' = cfg /\ upstreamQueues' = upstreamQueues
      /\ pc'[c] = there /\ qid'[c] = x
      /\ \A d \in Conn \ {c} : pc'[d] = pc[d] /\ qid'[d] = qid[d]
      /\ qid' \in [Conn -> QueueId \cup {NoQueue}]
  BY DEF tables, PlacesInv
<1>2. /\ queues' = [i \in QueueId |-> queues'[i]]
      /\ queues'[j] = y /\ \A i \in QueueId \ {j} : queues'[i] = queues[i]
  BY <1>0 DEF PlacesInv
<1>3. \A i \in QueueId : Shape(Conn, queues'[i]) /\ Conserving(queues'[i]) /\ queues'[i].max = queues[i].max
  BY <1>0, <1>2 DEF PlacesInv
<1>4. \A d \in Conn : pc'[d] \in HasQueue => qid'[d] \in QueueId
  BY <1>1 DEF PlacesInv
<1>5. PlacesOwned'
  <2>0. /\ Listed(queues'[j]) = Listed(y)
        /\ \A i \in QueueId \ {j} : Listed(queues'[i]) = Listed(queues[i])
    BY <1>2
  <2>1. ASSUME NEW d \in Conn, d # c PROVE HasPlace(d, pc'[d], qid'[d], queues')
    <3>1. PICK e, p : e = qid[d] /\ e = qid'[d] /\ p = pc[d] /\ p = pc'[d]
      BY <1>1, <2>1
    <3>2. HasPlace(d, p, e, queues)
      BY <3>1, PlaceByPlace, Zenon DEF PlacesInv
    <3>3. p \in Holding => e \in QueueId
      BY <3>1 DEF PlacesInv, HasQueue, Counted
    <3>4. /\ d \in Listed(queues'[j]) <=> d \in Listed(queues[j])
          /\ d \in queues[j].active => d \in queues'[j].active
      BY <1>0, <1>2, <2>0, <2>1
    <3>5. \A i \in QueueId : /\ d \in Listed(queues'[i]) <=> d \in Listed(queues[i])
                             /\ d \in queues[i].active => d \in queues'[i].active
      BY <1>2, <2>0, <3>4
    <3>6. HasPlace(d, p, e, queues')
      BY <3>2, <3>3, <3>5, SMTT(30) DEF HasPlace, Holding
    <3> QED
      BY <3>1, <3>6
  <2>2. HasPlace(c, pc'[c], qid'[c], queues')
    <3>1. HasPlace(c, pc[c], j, queues)
      BY <1>0, PlaceByPlace DEF PlacesInv
    <3>2. \A i \in QueueId \ {j} : c \notin Listed(queues'[i])
      BY <2>0, <3>1, SMTT(30) DEF HasPlace
    <3> QED
      BY <1>0, <1>1, <1>2, <2>0, <3>2 DEF HasPlace
  <2>3. \A d \in Conn : HasPlace(d, pc'[d], qid'[d], queues')
    BY <2>1, <2>2, ZenonT(30)
  <2> QED
    BY <2>3, PlaceByPlacePrimed, Zenon
<1>6. ASSUME NEW u \in DOMAIN cfg'
      PROVE  /\ upstreamQueues'[u] \in QueueId /\ upstreamQueues'[u][1] = u
             /\ queues'[upstreamQueues'[u]].max = cfg'[u].max
  <2>1. PICK i : i = upstreamQueues[u] /\ i = upstreamQueues'[u]
    BY <1>1
  <2>2. i \in QueueId /\ i[1] = u /\ queues[i].max = cfg[u].max
    BY <1>1, <2>1 DEF PlacesInv
  <2> QED
    BY <1>1, <1>3, <2>1, <2>2, SMTT(30)
<1>7. DOMAIN upstreamQueues' = DOMAIN cfg'
  BY <1>1 DEF PlacesInv
<1>8. \A i \in QueueId : Shape(Conn, queues'[i]) /\ Conserving(queues'[i])
  BY <1>3, SMTT(30)
<1> QED
  BY <1>1, <1>2, <1>4, <1>5, <1>6, <1>7, <1>8, SMTT(30) DEF PlacesInv

(* Where relay leaves the queues alone. *)
Quiet(c) ==
  \/ Accept(c) \/ NoModule(c) \/ (\E m \in Module : LookUp(c, m)) \/ GetQueue(c) \/ GetLimit(c)
  \/ CountIP(c) \/ RejectIP(c) \/ Granted(c) \/ NoticeFails(c) \/ Dial(c) \/ RelayEnds(c)
  \/ Uncount(c)

(* relay's steps that do not touch a queue respect who owns which place. *)
LEMMA QuietPlaces ==
  ASSUME PlacesInv, LocalInv, NEW c \in Conn, Quiet(c)
  PROVE  PlacesInv'
<1> USE DEF At, Return, connVars, HasQueue, Counted, Holding
<1>0. /\ qid \in [Conn -> QueueId \cup {NoQueue}] /\ qid = [qid EXCEPT ![c] = qid[c]]
      /\ qid[c] \in QueueId \cup {NoQueue} /\ pc[c] \in HasQueue => qid[c] \in QueueId
      /\ pc \in [Conn -> PC]
      /\ pc[c] \in {"dial", "relay"} => c \in queues[qid[c]].active
  BY SMTT(30) DEF PlacesInv, PlacesOwned, LocalInv
<1>1. UNCHANGED <<tables, queues>>
  BY ZenonT(30) DEF Quiet, Accept, NoModule, LookUp, GetQueue, GetLimit, CountIP, RejectIP, Granted,
         NoticeFails, Dial, RelayEnds, Uncount, tables
<1> DEFINE Goes(there, x) ==
        /\ pc' = [pc EXCEPT ![c] = there] /\ qid' = [qid EXCEPT ![c] = x]
        /\ x \in QueueId \cup {NoQueue} /\ (there \in HasQueue => x \in QueueId)
        /\ \/ pc[c] \notin Holding /\ there \notin Holding
           \/ /\ pc[c] \in Holding /\ x = qid[c]
              /\ there = "release" \/ (there \in {"dial", "relay"} /\ c \in queues[x].active)
<1>2. \E there, x : Goes(there, x)
  <2>1. CASE Accept(c)
    <3>1. pc' = [pc EXCEPT ![c] = "request"] /\ qid' = [qid EXCEPT ![c] = qid[c]] /\ pc[c] = "idle"
      BY <1>0, <2>1 DEF Accept
    <3>2. Goes("request", qid[c])
      BY <1>0, <3>1
    <3> QED
      BY <3>2, Zenon
  <2>2. CASE NoModule(c) \/ RejectIP(c) \/ Uncount(c)
    BY <1>0, <2>2, SMTT(30) DEF NoModule, RejectIP, Uncount
  <2>3. CASE \E m \in Module : LookUp(c, m)
    BY <1>0, <2>3, SMTT(30) DEF LookUp
  <2>4. CASE GetQueue(c)
    <3>1. CASE up[c] \notin DOMAIN upstreamQueues
      BY <1>0, <2>4, <3>1, SMTT(30) DEF GetQueue
    <3>2. CASE up[c] \in DOMAIN upstreamQueues
      <4>1. upstreamQueues[up[c]] \in QueueId
        BY <3>2 DEF PlacesInv
      <4> QED
        <5>1. /\ pc' = [pc EXCEPT ![c] = "limit"] /\ pc[c] = "queue"
              /\ qid' = [qid EXCEPT ![c] = upstreamQueues[up[c]]]
          BY <2>4, <3>2 DEF GetQueue
        <5>2. Goes("limit", upstreamQueues[up[c]])
          BY <4>1, <5>1
        <5> QED
          BY <5>2, Zenon
    <3> QED
      BY <3>1, <3>2
  <2>5. CASE GetLimit(c)
    <3>1. PICK there \in {"count", "acquire"} : pc' = [pc EXCEPT ![c] = there]
      BY <2>5, Zenon DEF GetLimit
    <3>2. qid' = [qid EXCEPT ![c] = qid[c]] /\ pc[c] = "limit"
      BY <1>0, <2>5 DEF GetLimit
    <3>3. Goes(there, qid[c])
      BY <1>0, <3>1, <3>2
    <3> QED
      BY <3>3, Zenon
  <2>6. CASE CountIP(c)
    <3>1. PICK there \in {"reject", "acquire"} : pc' = [pc EXCEPT ![c] = there]
      BY <2>6, Zenon DEF CountIP
    <3>2. qid' = [qid EXCEPT ![c] = qid[c]] /\ pc[c] = "count"
      BY <1>0, <2>6 DEF CountIP
    <3>3. Goes(there, qid[c])
      BY <1>0, <3>1, <3>2
    <3> QED
      BY <3>3, Zenon
  <2>7. CASE Granted(c)
    BY <1>0, <2>7, Zenon DEF Granted
  <2>8. CASE NoticeFails(c) \/ RelayEnds(c)
    BY <1>0, <2>8 DEF NoticeFails, RelayEnds
  <2>9. CASE Dial(c)
    BY <1>0, <2>9, Zenon DEF Dial
  <2> QED
    BY <2>1, <2>2, <2>3, <2>4, <2>5, <2>6, <2>7, <2>8, <2>9, ZenonT(30) DEF Quiet
<1> QED
  BY <1>0, <1>1, <1>2, QuietStep, ZenonT(30)

(* A change of one queue's lists admits nobody, or up to its limit. *)
AdmitsWithin(x, y) ==
  y.active \subseteq x.active \/ y.max = 0 \/ Cardinality(y.active) <= y.max

(* Acquire gives the connection a place or none, and says which. *)
LEMMA AcquirePlaces ==
  ASSUME PlacesInv, LocalInv, NEW c \in Conn, Acquire(c)
  PROVE  /\ PlacesInv'
         /\ \E j \in QueueId : \E y : /\ queues' = [queues EXCEPT ![j] = y]
                                       /\ AdmitsWithin(queues[j], y) /\ y.max = queues[j].max
<1>0. PICK j, x, y : j = qid[c] /\ x = queues[j] /\ y = QAcquire(x, c)
  OBVIOUS
<1>1. /\ pc[c] = "acquire" /\ UNCHANGED tables
      /\ queues' = [queues EXCEPT ![j] = y]
      /\ \E there \in {"dial", "queueing", "release"} :
           /\ pc' = [pc EXCEPT ![c] = there]
           /\ there = "dial" => c \in y.active
           /\ there = "queueing" => c \in Items(y.queued)
      /\ qid' = qid
  BY <1>0, Zenon DEF Acquire, At, connVars
<1>2. /\ j \in QueueId /\ qid \in [Conn -> QueueId \cup {NoQueue}] /\ qid' = [qid EXCEPT ![c] = j]
      /\ pc \in [Conn -> PC]
  BY <1>0, <1>1 DEF PlacesInv, HasQueue, Counted, LocalInv
<1>3. /\ Shape(Conn, x) /\ Conserving(x)
  BY <1>0, <1>2 DEF PlacesInv
<1>4. HasPlace(c, pc[c], j, queues)
  BY <1>0, PlaceByPlace DEF PlacesInv
<1>5. c \notin x.active /\ c \notin Items(x.queued)
  BY <1>0, <1>1, <1>2, <1>4, SMTT(30) DEF HasPlace, Listed, Holding
<1>6. /\ Shape(Conn, y) /\ Conserving(y) /\ y.max = x.max
      /\ \/ y.queued = x.queued /\ y.active = x.active \cup {c} /\ (y.max = 0 \/ Cardinality(y.active) <= y.max)
         \/ y = x
         \/ y.active = x.active /\ y.queued = Append(x.queued, c)
  <2>1. c \in Conn /\ y = QAcquire(x, c)
    BY <1>0
  <2>2. /\ Shape(Conn, y) /\ Conserving(y)
        /\ y.max = x.max /\ y.maxQueued = x.maxQueued
        /\ \/ /\ x.queued = << >> /\ y.queued = << >>
              /\ y.active = x.active \cup {c}
              /\ Cardinality(y.active) = Cardinality(x.active) + 1
              /\ x.max = 0 \/ Cardinality(y.active) <= x.max
           \/ y = x
           \/ /\ y.active = x.active /\ y.queued = Append(x.queued, c)
              /\ ~IsFull(x)
    BY ONLY <1>3, <1>5, <2>1, AcquireLemma, SMTT(30)
  <2>3. CASE y = x
    BY ONLY <2>2, <2>3, Zenon
  <2>4. CASE y # x
    BY ONLY <2>2, <2>4, Zenon
  <2> QED
    BY ONLY <2>3, <2>4, Zenon
<1>7. Items(Append(x.queued, c)) = Items(x.queued) \cup {c}
  BY <1>3, AppendItems DEF Shape, QueueType
<1>8. /\ Listed(y) \subseteq Listed(x) \cup {c}
      /\ Listed(x) \ {c} \subseteq Listed(y)
      /\ x.active \ {c} \subseteq y.active
  BY <1>6, <1>7, Zenon DEF Listed
<1>9. PICK there \in {"dial", "queueing", "release"} :
        /\ pc' = [pc EXCEPT ![c] = there]
        /\ there = "dial" => c \in y.active
        /\ there = "queueing" => c \in Listed(y)
  BY <1>1, Zenon DEF Listed
<1>10. pc[c] \in HasQueue /\ there \in Holding
  BY <1>1, <1>9 DEF HasQueue, Counted, Holding
<1>11. PlacesInv'
  BY <1>0, <1>1, <1>2, <1>6, <1>8, <1>9, <1>10, QueueStep, ZenonT(30)
<1>12. AdmitsWithin(x, y)
  BY <1>6 DEF AdmitsWithin
<1> QED
  BY <1>0, <1>1, <1>2, <1>6, <1>11, <1>12, ZenonT(30)

(* The deferred Release gives the place back and hands the slot on. *)
LEMMA ReleasePlaces ==
  ASSUME PlacesInv, LocalInv, NEW c \in Conn, Release(c)
  PROVE  /\ PlacesInv'
         /\ \E j \in QueueId : \E y : /\ queues' = [queues EXCEPT ![j] = y]
                                       /\ AdmitsWithin(queues[j], y) /\ y.max = queues[j].max
<1>0. PICK j, x, y : j = qid[c] /\ x = queues[j] /\ y = QRelease(x, c)
  OBVIOUS
<1>1. /\ pc[c] = "release" /\ UNCHANGED tables
      /\ queues' = [queues EXCEPT ![j] = y]
  BY <1>0 DEF Release
<1>2. /\ j \in QueueId /\ qid \in [Conn -> QueueId \cup {NoQueue}] /\ pc \in [Conn -> PC]
  BY <1>0, <1>1 DEF PlacesInv, HasQueue, Counted, Holding, LocalInv
<1>3. Shape(Conn, x) /\ Conserving(x)
  BY <1>0, <1>2 DEF PlacesInv
<1>4. Moves(Conn, x, y, {c}) /\ y.max = x.max
  BY <1>0, <1>3, ReleaseLemma, SMTT(30)
<1>5. /\ Shape(Conn, y) /\ Conserving(y) /\ Listed(y) = Listed(x) \ {c}
      /\ x.active \ {c} \subseteq y.active /\ Fits(x, y, {c}) /\ c \notin y.active
  BY <1>4 DEF Moves, Listed
<1> DEFINE Goes(there, e) ==
        /\ there \in {"uncount", "idle"}
        /\ pc' = [pc EXCEPT ![c] = there] /\ qid' = [qid EXCEPT ![c] = e]
        /\ e \in QueueId \cup {NoQueue} /\ (there = "uncount" => e \in QueueId)
<1>6. PICK there, e : Goes(there, e)
  <2>1. CASE lim[c] > 0
    <3>1. qid' = [qid EXCEPT ![c] = j] /\ pc' = [pc EXCEPT ![c] = "uncount"]
      BY <1>0, <1>2, <2>1 DEF Release, connVars
    <3>2. Goes("uncount", j)
      BY <1>2, <3>1
    <3> HIDE DEF Goes
    <3> QED
      BY <3>2
  <2>2. CASE ~(lim[c] > 0)
    BY <2>2 DEF Release, Return
  <2> QED
    BY <2>1, <2>2
<1>7. pc[c] \in HasQueue /\ (there \in HasQueue => e \in QueueId) /\ there \notin Holding
  BY <1>1, <1>6, SMTT(30) DEF HasQueue, Counted, Holding
<1>8. /\ Listed(y) \subseteq Listed(x) \cup {c} /\ Listed(x) \ {c} \subseteq Listed(y)
      /\ c \notin Listed(y) /\ there \notin {"dial", "relay", "queueing"}
  BY <1>5, <1>6, SMTT(30)
<1>9. PlacesInv'
  BY <1>0, <1>1, <1>2, <1>4, <1>5, <1>6, <1>7, <1>8, QueueStep, ZenonT(30)
<1>10. AdmitsWithin(x, y)
  BY <1>5 DEF AdmitsWithin, Fits
<1> QED
  BY <1>0, <1>1, <1>2, <1>4, <1>9, <1>10, ZenonT(30)

(* What a reload does to the queue table and the queues. *)
LEMMA ReloadTables ==
  ASSUME PlacesInv, NEW k \in Configs, Reload(k)
  PROVE  /\ DOMAIN upstreamQueues' = DOMAIN k
         /\ \A u \in DOMAIN k : /\ upstreamQueues'[u] \in QueueId /\ upstreamQueues'[u][1] = u
                                /\ \/ u \in DOMAIN upstreamQueues /\ upstreamQueues'[u] = upstreamQueues[u]
                                   \/ u \notin DOMAIN upstreamQueues /\ upstreamQueues'[u] \notin Referenced
         /\ queues' = [i \in QueueId |-> queues'[i]]
         /\ \A i \in QueueId :
              \/ queues'[i] = queues[i] /\ \A u \in DOMAIN k : upstreamQueues'[u] # i
              \/ \E u \in DOMAIN k :
                   /\ upstreamQueues'[u] = i /\ u \in DOMAIN upstreamQueues
                   /\ queues'[i] = QSetMax(queues[i], k[u].max, k[u].maxQueued)
              \/ \E u \in DOMAIN k :
                   /\ upstreamQueues'[u] = i /\ i \notin Referenced
                   /\ queues'[i] = NewQueue(k[u].max, k[u].maxQueued)
<1> DEFINE new == DOMAIN k \ KeptQueues(k)
           uq == [u \in DOMAIN k |-> IF u \in new THEN CHOOSE i \in Unused(u) : TRUE ELSE upstreamQueues[u]]
<1>1. /\ \A u \in new : Unused(u) # {}
      /\ upstreamQueues' = uq /\ queues' = UpdatedQueues(k, uq)
  BY DEF Reload
<1>2. \A u \in DOMAIN k : u \in new <=> u \notin DOMAIN upstreamQueues
  BY DEF KeptQueues
<1>3. ASSUME NEW u \in new PROVE uq[u] \in QueueId /\ uq[u][1] = u /\ uq[u] \notin Referenced
  <2>1. uq[u] = CHOOSE i \in Unused(u) : TRUE
    OBVIOUS
  <2>2. uq[u] \in Unused(u)
    BY <1>1, <2>1
  <2> QED
    BY <2>2 DEF Unused
<1>4. ASSUME NEW u \in DOMAIN k, u \notin new
      PROVE  uq[u] \in QueueId /\ uq[u][1] = u /\ uq[u] = upstreamQueues[u]
  BY <1>2, <1>4 DEF PlacesInv
<1>5. DOMAIN uq = DOMAIN k
  OBVIOUS
<1> HIDE DEF uq
<1>6. \A u \in DOMAIN k : uq[u] \in QueueId /\ uq[u][1] = u
  BY <1>3, <1>4
<1>7. ASSUME NEW i \in QueueId, NEW u \in DOMAIN k, uq[u] = i
      PROVE  queues'[i] = IF u \in KeptQueues(k) THEN QSetMax(queues[i], k[u].max, k[u].maxQueued)
                          ELSE NewQueue(k[u].max, k[u].maxQueued)
  <2>1. u = CHOOSE v \in DOMAIN uq : uq[v] = i
    BY <1>5, <1>6, <1>7
  <2>2. UpdatedQueues(k, uq)[i] =
          LET v == CHOOSE v \in DOMAIN uq : uq[v] = i
          IN  IF v \in KeptQueues(k) THEN QSetMax(queues[i], k[v].max, k[v].maxQueued)
              ELSE NewQueue(k[v].max, k[v].maxQueued)
    BY <1>5, <1>7, Zenon DEF UpdatedQueues
  <2> QED
    BY <1>1, <2>1, <2>2, Zenon
<1>8. ASSUME NEW i \in QueueId, \A u \in DOMAIN k : uq[u] # i PROVE queues'[i] = queues[i]
  BY <1>1, <1>5, <1>8, ZenonT(30) DEF UpdatedQueues
<1>9. queues' = [i \in QueueId |-> queues'[i]]
  BY <1>1 DEF UpdatedQueues
<1>10. ASSUME NEW i \in QueueId
       PROVE  \/ queues'[i] = queues[i] /\ \A u \in DOMAIN k : uq[u] # i
              \/ \E u \in DOMAIN k :
                   /\ uq[u] = i /\ u \in DOMAIN upstreamQueues
                   /\ queues'[i] = QSetMax(queues[i], k[u].max, k[u].maxQueued)
              \/ \E u \in DOMAIN k :
                   /\ uq[u] = i /\ i \notin Referenced
                   /\ queues'[i] = NewQueue(k[u].max, k[u].maxQueued)
  <2>1. CASE \A u \in DOMAIN k : uq[u] # i
    BY <1>8, <2>1
  <2>2. ASSUME NEW u \in DOMAIN k, uq[u] = i, u \in new
        PROVE  i \notin Referenced /\ queues'[i] = NewQueue(k[u].max, k[u].maxQueued)
    BY <1>3, <1>7, <2>2, Zenon
  <2>3. ASSUME NEW u \in DOMAIN k, uq[u] = i, u \notin new
        PROVE  u \in DOMAIN upstreamQueues /\ queues'[i] = QSetMax(queues[i], k[u].max, k[u].maxQueued)
    BY <1>2, <1>7, <2>3, Zenon
  <2> HIDE DEF new
  <2> QED
    BY <2>1, <2>2, <2>3, Zenon
<1>11. \A u \in DOMAIN k : \/ u \in DOMAIN upstreamQueues /\ uq[u] = upstreamQueues[u]
                           \/ u \notin DOMAIN upstreamQueues /\ uq[u] \notin Referenced
  BY <1>2, <1>3, <1>4
<1>12. upstreamQueues' = uq
  BY <1>1, SMTT(30)
<1> HIDE DEF new
<1> QED
  BY <1>5, <1>6, <1>9, <1>10, <1>11, <1>12, SMTT(30)

(* A reload keeps every connection's place: those of a known upstream in   *)
(* its queue, those of a removed one in a queue of no table.               *)
LEMMA ReloadPlaces ==
  ASSUME PlacesInv, LocalInv, NEW k \in Configs, Reload(k)
  PROVE  /\ PlacesInv'
         /\ \A i \in QueueId : AdmitsWithin(queues[i], queues'[i])
<1>0. pc' = pc /\ qid' = qid /\ cfg' = k
  BY DEF Reload, connVars
<1>1. /\ DOMAIN upstreamQueues' = DOMAIN k
      /\ \A u \in DOMAIN k : /\ upstreamQueues'[u] \in QueueId /\ upstreamQueues'[u][1] = u
      /\ queues' = [i \in QueueId |-> queues'[i]]
  BY ReloadTables
<1>2. \A u \in DOMAIN k : k[u].max \in Int /\ k[u].maxQueued \in Int
  BY ProxyAssumption, SMTT(30) DEF UpstreamSettings
<1>3. ASSUME NEW i \in QueueId
      PROVE  /\ Shape(Conn, queues'[i]) /\ Conserving(queues'[i])
             /\ queues[i].active \subseteq queues'[i].active
             /\ Listed(queues'[i]) = Listed(queues[i])
             /\ \A u \in DOMAIN k : upstreamQueues'[u] = i => queues'[i].max = k[u].max
             /\ AdmitsWithin(queues[i], queues'[i])
  <2>0. PICK x, y : x = queues[i] /\ y = queues'[i]
    OBVIOUS
  <2>1. Shape(Conn, x) /\ Conserving(x)
    BY <2>0 DEF PlacesInv
  <2>2. \A u, v \in DOMAIN k : upstreamQueues'[u] = i /\ upstreamQueues'[v] = i => u = v
    BY <1>1
  <2>3. CASE y = x /\ \A u \in DOMAIN k : upstreamQueues'[u] # i
    BY <2>0, <2>1, <2>3, SMTT(30) DEF AdmitsWithin
  <2>4. ASSUME NEW u \in DOMAIN k, upstreamQueues'[u] = i, y = QSetMax(x, k[u].max, k[u].maxQueued)
        PROVE  /\ Shape(Conn, y) /\ Conserving(y) /\ x.active \subseteq y.active
               /\ Listed(y) = Listed(x) /\ y.max = k[u].max /\ AdmitsWithin(x, y)
    <3>1. PICK m, l : m = k[u].max /\ l = k[u].maxQueued /\ m \in Int /\ l \in Int
      BY <1>2
    <3>2. y = QSetMax(x, m, l)
      BY <2>4, <3>1
    <3>3. /\ Shape(Conn, y) /\ Conserving(y) /\ y.max = m /\ \E n \in Nat : Promotes(x, y, n)
      BY <2>1, <3>1, <3>2, SetMaxLemma
    <3>4. Moves(Conn, x, y, {})
      BY <2>1, <3>3, PromotesMoves, SMTT(30)
    <3>5. /\ x.active \subseteq y.active /\ Listed(y) = Listed(x) /\ Fits(x, y, {})
      BY <3>4 DEF Moves, Listed
    <3> QED
      BY <3>1, <3>3, <3>5 DEF Fits, AdmitsWithin
  <2>5. ASSUME NEW u \in DOMAIN k, upstreamQueues'[u] = i, i \notin Referenced,
               y = NewQueue(k[u].max, k[u].maxQueued)
        PROVE  /\ Shape(Conn, y) /\ Conserving(y) /\ x.active \subseteq y.active
               /\ Listed(y) = Listed(x) /\ y.max = k[u].max /\ AdmitsWithin(x, y)
    <3>1. PICK m, l : m = k[u].max /\ l = k[u].maxQueued /\ m \in Int /\ l \in Int
      BY <1>2
    <3>2. /\ Shape(Conn, y) /\ Conserving(y) /\ y.max = m /\ y.active = {} /\ Items(y.queued) = {}
      BY <2>5, <3>1, NewQueueLemma, ZenonT(30)
    <3>3. \A c \in Conn : c \notin Listed(x)
      <4>1. \A c \in Conn : qid[c] # i
        BY <2>5 DEF Referenced
      <4> QED
        BY <2>0, <4>1, PlaceByPlace DEF PlacesInv, HasPlace
    <3>4. Listed(x) \subseteq Conn
      BY <2>1 DEF Shape, QueueType, Listed, Items
    <3>5. Listed(x) = {} /\ x.active = {} /\ Listed(y) = {}
      BY <3>2, <3>3, <3>4, SMTT(30) DEF Listed
    <3> QED
      BY <3>1, <3>2, <3>5, SMTT(30) DEF AdmitsWithin
  <2>6. \/ y = x /\ \A u \in DOMAIN k : upstreamQueues'[u] # i
        \/ \E u \in DOMAIN k : upstreamQueues'[u] = i /\ y = QSetMax(x, k[u].max, k[u].maxQueued)
        \/ \E u \in DOMAIN k : /\ upstreamQueues'[u] = i /\ i \notin Referenced
                               /\ y = NewQueue(k[u].max, k[u].maxQueued)
    BY <2>0, ReloadTables, SMTT(30)
  <2>7. \/ y = x /\ \A u \in DOMAIN k : upstreamQueues'[u] # i
        \/ \E u \in DOMAIN k :
             /\ upstreamQueues'[u] = i
             /\ Shape(Conn, y) /\ Conserving(y) /\ x.active \subseteq y.active
             /\ Listed(y) = Listed(x) /\ y.max = k[u].max /\ AdmitsWithin(x, y)
    BY <2>4, <2>5, <2>6, Zenon
  <2> QED
    BY <2>0, <2>2, <2>3, <2>7, Zenon
<1>4. ASSUME NEW c \in Conn PROVE HasPlace(c, pc[c], qid[c], queues')
  <2>1. PICK p, e : p = pc[c] /\ e = qid[c] /\ (p \in Holding => e \in QueueId)
    BY DEF PlacesInv, HasQueue, Counted
  <2>2. HasPlace(c, p, e, queues)
    BY <2>1, PlaceByPlace, SMTT(30) DEF PlacesInv
  <2>3. HasPlace(c, p, e, queues')
    BY <1>3, <2>1, <2>2, SMTT(30) DEF HasPlace, Holding
  <2> QED
    BY <2>1, <2>3
<1>5. PlacesOwned'
  BY <1>0, <1>4, PlaceByPlacePrimed
<1>6. \A c \in Conn : pc'[c] \in HasQueue => qid'[c] \in QueueId
  BY <1>0 DEF PlacesInv
<1>7. qid' \in [Conn -> QueueId \cup {NoQueue}]
  BY <1>0 DEF PlacesInv
<1>8. \A u \in DOMAIN cfg' : queues'[upstreamQueues'[u]].max = cfg'[u].max
  BY <1>0, <1>1, <1>3, SMTT(30)
<1>9. PlacesInv'
  BY <1>0, <1>1, <1>3, <1>5, <1>6, <1>7, <1>8 DEF PlacesInv
<1> QED
  BY <1>3, <1>9

(* Every step keeps the places owned, and admits by the current limits. *)
LEMMA PlacesStep ==
  ASSUME PlacesInv, LocalInv, Next
  PROVE  PlacesInv' /\ QueueWithinCapStep
<1>1. ASSUME PlacesInv', \A i \in QueueId : AdmitsWithin(queues[i], queues'[i])
      PROVE  QueueWithinCapStep
  <2> SUFFICES ASSUME NEW u \in DOMAIN cfg', NEW i, i = upstreamQueues'[u]
               PROVE  \/ queues'[i].active \subseteq queues[i].active
                      \/ cfg'[u].max = 0 \/ Cardinality(queues'[i].active) <= cfg'[u].max
    BY SMTT(30) DEF QueueWithinCapStep
  <2>1. i \in QueueId /\ queues'[i].max = cfg'[u].max
    BY <1>1, SMTT(30) DEF PlacesInv
  <2> QED
    BY <1>1, <2>1 DEF AdmitsWithin
<1>2. ASSUME NEW k \in Configs, Reload(k) PROVE PlacesInv' /\ QueueWithinCapStep
  BY <1>1, <1>2, ReloadPlaces
<1>3. ASSUME NEW c \in Conn, Quiet(c) PROVE PlacesInv' /\ QueueWithinCapStep
  <2>1. queues' = queues
    BY <1>3, Zenon DEF Quiet, Accept, NoModule, LookUp, GetQueue, GetLimit, CountIP, RejectIP, Granted,
                NoticeFails, Dial, RelayEnds, Uncount
  <2> QED
    BY <1>1, <1>3, <2>1, QuietPlaces, SMTT(30) DEF AdmitsWithin
<1>4. ASSUME NEW c \in Conn, Acquire(c) \/ Release(c) PROVE PlacesInv' /\ QueueWithinCapStep
  <2>1. PlacesInv'
    BY <1>4, AcquirePlaces, ReleasePlaces
  <2>2. PICK j \in QueueId : \E y : /\ queues' = [queues EXCEPT ![j] = y]
                                    /\ AdmitsWithin(queues[j], y) /\ y.max = queues[j].max
    BY <1>4, AcquirePlaces, ReleasePlaces
  <2>3. PICK y : queues' = [queues EXCEPT ![j] = y] /\ AdmitsWithin(queues[j], y)
    BY <2>2, Zenon
  <2>4. queues = [i \in QueueId |-> queues[i]]
    BY DEF PlacesInv
  <2>5. queues'[j] = y /\ \A i \in QueueId \ {j} : queues'[i] = queues[i]
    BY <2>3, <2>4
  <2>6. \A i \in QueueId : AdmitsWithin(queues[i], queues[i])
    BY DEF AdmitsWithin
  <2>7. \A i \in QueueId : AdmitsWithin(queues[i], queues'[i])
    BY <2>3, <2>5, <2>6
  <2> QED
    BY <1>1, <2>1, <2>7
<1> QED
  BY <1>2, <1>3, <1>4 DEF Next, Request, Relay, Quiet

(* The invariant of the queues and their tables. *)
THEOREM PlacesInvariance == Spec => []PlacesInv
<1>1. PlacesInv /\ ProxyInv /\ [Next]_vars => PlacesInv'
  <2> SUFFICES ASSUME PlacesInv, ProxyInv, [Next]_vars PROVE PlacesInv'
    BY SMTT(30)
  <2>1. CASE UNCHANGED vars
    BY <2>1, Zenon DEF vars, PlacesInv, PlacesOwned
  <2>2. CASE Next
    BY <2>2, PlacesStep DEF ProxyInv
  <2> QED
    BY <2>1, <2>2
<1> QED
  BY <1>1, InitPlaces, ProxyInvariance, PTL DEF Spec

(* Every place in a queue belongs to a running relay that will release it, *)
(* and whoever relays has a slot, across all reloads.                      *)
THEOREM PlacesAlwaysOwned == Spec => []PlacesOwned
<1>1. PlacesInv => PlacesOwned
  BY DEF PlacesInv
<1> QED
  BY <1>1, PlacesInvariance, PTL

(* A queue in the table never admits beyond the limit that the current     *)
(* configuration gives its upstream.                                       *)
THEOREM QueueKeepsCap == Spec => QueueWithinCap
<1>1. PlacesInv /\ ProxyInv /\ [Next]_vars => [QueueWithinCapStep]_vars
  BY PlacesStep DEF ProxyInv
<1> QED
  BY <1>1, PlacesInvariance, ProxyInvariance, PTL DEF Spec, QueueWithinCap
=============================================================================
