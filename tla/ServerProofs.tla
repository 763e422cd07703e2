---------------------------- MODULE ServerProofs ----------------------------
(***************************************************************************)
(* Proofs about the configuration and the life of the servers.             *)
(*                                                                         *)
(* ConfigLoad: what loadConfig does under reloadLock, for any number of    *)
(* reloads, readers and versions of the file.                              *)
(*                                                                         *)
(* Dataplane, for any number of servers, connections and applies: DInv     *)
(* joins two arguments, TableInv, that an Apply in progress has given its  *)
(* version to exactly the servers it has passed, and CountInv, that the    *)
(* atomic counter that Drain polls is the number of connections being      *)
(* handled.  DrainInv, on top of it, says what Drain has left behind at    *)
(* the servers it has passed.                                              *)
(***************************************************************************)
EXTENDS ConfigLoad, Dataplane, FiniteSetTheorems, TLAPS

Locked == {"drain", "discover", "access", "errorlog", "motd", "timings", "modules", "queues"}
Outside == {"idle", "read", "validate", "lock", "ok", "error"}

LoadTypes ==
  /\ file \in Version /\ lock \in Request \cup {Free}
  /\ pc \in [Request -> Outside \cup Locked]
  /\ got \in [Request -> Version] /\ started \in [Request -> Version]
  /\ rpc \in [Reader -> {"idle", "wait", "hold"}]

(* A reload is between Lock and its Unlock exactly if it has the lock, and *)
(* beyond the wait for the readers none of them is inside.                 *)
LockInv ==
  \A p \in Request :
    /\ pc[p] \in Locked <=> lock = p
    /\ pc[p] \in Locked \ {"drain"} => Holding = {}

(* What a reload has decoded is not older than its request, and has passed *)
(* the checks that lie behind it.                                          *)
CheckedInv ==
  \A p \in Request :
    /\ started[p] <= file
    /\ pc[p] \in {"validate", "lock"} \cup Locked => started[p] <= got[p]
    /\ pc[p] \in {"lock"} \cup Locked => got[p] \notin Invalid
    /\ pc[p] \in {"timings", "modules", "queues"} => got[p] \notin NegativeIdle

Sound ==
  /\ timings = modules /\ upstreams = modules /\ upstreamQueues = modules
  /\ tlsCertificate = modules
  /\ modules \notin Invalid \cup NegativeIdle

(* Nobody is at one of these steps. *)
NobodyAt(steps) == \A p \in Request : pc[p] \notin steps

(* How far the assignments are; the tables are mixed only inside them, and *)
(* what is left of a load that failed beyond them is of a failing version. *)
AssignInv ==
  /\ NobodyAt({"modules", "queues"}) => Sound
  /\ NobodyAt({"timings", "modules", "queues"}) => InEffectOrLeft(motd, NegativeIdle)
  /\ NobodyAt({"motd", "timings", "modules", "queues"}) => InEffectOrLeft(errorLog.f, NegativeIdle)
  /\ NobodyAt({"errorlog", "motd", "timings", "modules", "queues"}) =>
       InEffectOrLeft(accessLog.f, NegativeIdle \cup BadLog)
  /\ \A p \in Request :
       /\ pc[p] \in {"errorlog", "motd", "timings", "modules", "queues"} => accessLog.f = got[p]
       /\ pc[p] \in {"motd", "timings", "modules", "queues"} => errorLog.f = got[p]
       /\ pc[p] \in {"timings", "modules", "queues"} => motd = got[p]
       /\ pc[p] \in {"modules", "queues"} => timings = got[p]
       /\ pc[p] = "queues" => modules = got[p] /\ upstreams = got[p]

LoadInv == LoadTypes /\ LockInv /\ CheckedInv /\ AssignInv
-----------------------------------------------------------------------------
(* The program starts with version 1 loaded and nobody in loadConfig.      *)
LEMMA InitLoadInv == LoadInit => LoadInv
<1> SUFFICES ASSUME LoadInit PROVE LoadInv
  OBVIOUS
<1>1. LoadTypes
  BY ConfigLoadAssumption DEF LoadInit, LoadTypes, Version, Outside, Locked, Free
<1>2. LockInv
  BY ConfigLoadAssumption, Zenon DEF LoadInit, LockInv, Locked, Free
<1>3. CheckedInv
  <2>1. \A p \in Request : pc[p] = "idle" /\ started[p] = 1
    BY Zenon DEF LoadInit
  <2>2. file = 1
    BY DEF LoadInit
  <2>3. ASSUME NEW p \in Request PROVE started[p] <= file
    <3>1. started[p] = 1
      BY <2>1
    <3> QED
      BY <2>2, <3>1
  <2>4. \A p \in Request : pc[p] \notin {"validate", "lock", "timings", "modules", "queues"} \cup Locked
    BY <2>1, Zenon DEF Locked
  <2> QED
    BY <2>3, <2>4, Zenon DEF CheckedInv
<1>4. AssignInv
  BY ConfigLoadAssumption DEF LoadInit, AssignInv, Sound, InEffectOrLeft
<1> QED
  BY <1>1, <1>2, <1>3, <1>4 DEF LoadInv

(* Of two reloads only one is between Lock and Unlock. *)
LEMMA OneWriter ==
  ASSUME LoadInv, NEW p \in Request, NEW r \in Request, pc[p] \in Locked, pc[r] \in Locked
  PROVE  p = r
BY DEF LoadInv, LockInv

(* Steps of a reload outside the lock, and edits of the file. *)
LEMMA OutsideSteps ==
  ASSUME LoadInv,
         \/ EditFile
         \/ \E p \in Request : Arrive(p) \/ ReadConfig(p) \/ Validate(p)
  PROVE  LoadInv'
<1> USE DEF LoadInv
<1>1. CASE EditFile
  BY <1>1, ConfigLoadAssumption
  DEF EditFile, LoadTypes, LockInv, CheckedInv, AssignInv, Sound, InEffectOrLeft, NobodyAt, Version, Holding, logs, tables
<1>2. ASSUME NEW p \in Request, Arrive(p) \/ ReadConfig(p) \/ Validate(p)
      PROVE  LoadInv'
  <2> USE DEF Arrive, ReadConfig, Validate, Goto, Answer, logs, tables
  <2>0. 1 \in Version
    BY ConfigLoadAssumption DEF Version
  <2>1. LoadTypes'
    BY <1>2, <2>0 DEF LoadTypes, Outside, Locked
  <2>2. LockInv'
    BY <1>2 DEF LoadTypes, LockInv, Outside, Locked, Holding
  <2>3. CheckedInv'
    BY <1>2, <2>0 DEF LoadTypes, CheckedInv, Outside, Locked, Version
  <2>4. AssignInv'
    BY <1>2 DEF LoadTypes, AssignInv, Sound, InEffectOrLeft, NobodyAt, Outside, Locked
  <2> QED
    BY <2>1, <2>2, <2>3, <2>4
<1> QED
  BY <1>1, <1>2

(* Steps of connections and listings. *)
LEMMA ReaderSteps ==
  ASSUME LoadInv, NEW q \in Reader, Ask(q) \/ ReaderStep(q)
  PROVE  LoadInv'
<1> USE DEF LoadInv, Ask, ReaderStep, RLock, Lookup, ListUpstreamModules, logs, tables
<1>1. LoadTypes'
  BY DEF LoadTypes
<1>2. LockInv'
  <2>1. Holding' \subseteq Holding \/ lock = Free
    BY DEF Holding, LoadTypes
  <2>2. lock = Free => \A p \in Request : pc[p] \notin Locked
    BY ConfigLoadAssumption DEF LockInv
  <2> QED
    BY <2>1, <2>2 DEF LockInv
<1>3. CheckedInv'
  BY DEF CheckedInv
<1>4. AssignInv'
  BY DEF AssignInv, Sound, InEffectOrLeft, NobodyAt
<1> QED
  BY <1>1, <1>2, <1>3, <1>4

(* Steps of the reload that takes or has the lock. *)
LEMMA LockedSteps ==
  ASSUME LoadInv, NEW p \in Request,
         \/ Lock(p) \/ Drain(p) \/ Discover(p) \/ SetAccessLog(p) \/ SetErrorLog(p)
         \/ SetMotd(p) \/ SetTimings(p) \/ SetModules(p) \/ SetQueues(p)
  PROVE  LoadInv'
<1> USE DEF LoadInv
<1> DEFINE Locals(l) ==
      IF l \in Locked THEN UNCHANGED <<got, started>>
      ELSE got' = [got EXCEPT ![p] = 1] /\ started' = [started EXCEPT ![p] = 1]
<1>1. UNCHANGED <<file, rpc>>
  BY Zenon DEF Lock, Drain, Discover, SetAccessLog, SetErrorLog, SetMotd, SetTimings, SetModules, SetQueues
<1>2. \E l \in {"error", "ok"} \cup Locked :
        /\ pc' = [pc EXCEPT ![p] = l]
        /\ lock' = IF l \in Locked THEN p ELSE Free
        /\ Locals(l)
        /\ l \in Locked \ {"drain"} => Holding = {}
        /\ l \in {"timings", "modules", "queues"} => got[p] \notin NegativeIdle
  <2>1. pc[p] \in Locked => lock = p
    BY DEF LockInv
  <2>2. CASE Lock(p)
    BY <2>2 DEF Lock, Locked
  <2>3. CASE Drain(p)
    BY <2>1, <2>3 DEF Drain, Goto, Locked, LockInv
  <2>7. CASE Discover(p)
    BY <2>1, <2>7 DEF Discover, Goto, Fail, Answer, Locked, LockInv
  <2>4. CASE SetErrorLog(p)
    BY <2>1, <2>4 DEF SetErrorLog, Goto, Fail, Answer, Locked, LockInv
  <2>8. CASE SetAccessLog(p)
    BY <2>1, <2>8 DEF SetAccessLog, Goto, Fail, Answer, Locked, LockInv
  <2>5. CASE SetMotd(p)
    BY <2>1, <2>5 DEF SetMotd, Goto, Fail, Answer, Locked, LockInv
  <2>6. CASE SetTimings(p) \/ SetModules(p) \/ SetQueues(p)
    BY <2>1, <2>6 DEF SetTimings, SetModules, SetQueues, Goto, Answer, Locked, LockInv, CheckedInv
  <2> QED
    BY <2>2, <2>3, <2>4, <2>5, <2>6, <2>7, <2>8
<1>3. PICK l \in {"error", "ok"} \cup Locked :
        /\ pc' = [pc EXCEPT ![p] = l]
        /\ lock' = IF l \in Locked THEN p ELSE Free
        /\ Locals(l)
        /\ l \in Locked \ {"drain"} => Holding = {}
        /\ l \in {"timings", "modules", "queues"} => got[p] \notin NegativeIdle
  BY <1>2, Zenon
<1>4. pc[p] \in {"lock"} \cup Locked /\ (pc[p] = "lock" => lock = Free)
  BY Zenon DEF Lock, Drain, Discover, SetAccessLog, SetErrorLog, SetMotd, SetTimings, SetModules,
         SetQueues, Locked
<1>5. \A r \in Request \ {p} : pc[r] \notin Locked /\ pc'[r] = pc[r] /\ lock' # r
  BY <1>3, <1>4, OneWriter, ConfigLoadAssumption DEF LoadTypes, LockInv
<1>6. LoadTypes'
  <2>1. got' \in [Request -> Version] /\ started' \in [Request -> Version]
    BY <1>3, ConfigLoadAssumption DEF LoadTypes, Version
  <2> QED
    BY <1>1, <1>3, <2>1, ConfigLoadAssumption, Zenon DEF LoadTypes, Outside
<1>7. LockInv'
  <2>1. Holding' = Holding
    BY <1>1 DEF Holding
  <2>2. pc'[p] = l
    BY <1>3 DEF LoadTypes
  <2> QED
    BY <1>3, <1>5, <2>1, <2>2, ConfigLoadAssumption DEF LockInv, Locked
<1>8. CheckedInv'
  <2>1. ASSUME NEW r \in Request \ {p} PROVE got'[r] = got[r] /\ started'[r] = started[r]
    BY <1>3 DEF LoadTypes
  <2>2. pc'[p] = l /\ (l \in Locked => got'[p] = got[p] /\ started'[p] = started[p])
    BY <1>3 DEF LoadTypes
  <2>3. l \notin Locked => started'[p] = 1 /\ 1 <= file
    BY <1>3 DEF LoadTypes, Version
  <2> QED
    BY <1>1, <1>3, <1>4, <1>5, <2>1, <2>2, <2>3 DEF CheckedInv, Locked
<1>9. AssignInv'
  <2>1. p \in Request /\ \A r \in Request \ {p} : pc'[r] \notin Locked /\ pc[r] \notin Locked
    BY <1>5
  <2>2. AssignInv /\ CheckedInv /\ pc \in [Request -> Outside \cup Locked] /\ got \in [Request -> Version]
    BY DEF LoadTypes
  <2>3. CASE Lock(p) \/ Drain(p) \/ Discover(p)
    <3>1. pc[p] \in {"lock", "drain", "discover"} /\ pc'[p] \in {"drain", "discover", "access", "error"}
      BY ONLY <2>1, <2>2, <2>3 DEF Lock, Drain, Discover, Goto, Fail, Answer
    <3>2. UNCHANGED <<logs, motd, tables>>
      BY ONLY <2>3 DEF Lock, Drain, Discover
    <3> QED
      BY ONLY <2>1, <2>2, <3>1, <3>2 DEF AssignInv, Sound, InEffectOrLeft, NobodyAt, Locked, logs, tables
  <2>4. CASE SetAccessLog(p)
    <3>1. PICK ok \in {TRUE, got[p] \notin BadLog} :
            /\ accessLog' = SetFile(accessLog, got[p], ok)
            /\ IF ok THEN Goto(p, "errorlog") ELSE Fail(p)
      BY ONLY <2>4, Zenon DEF SetAccessLog
    <3>2. pc[p] = "access" /\ UNCHANGED <<errorLog, motd, tables>>
      BY ONLY <2>4 DEF SetAccessLog
    <3>3. CASE ok
      <4>1. pc'[p] = "errorlog" /\ got'[p] = got[p]
        BY ONLY <2>1, <2>2, <3>1, <3>3 DEF Goto
      <4>2. accessLog'.f = got[p]
        BY ONLY <3>1, <3>3 DEF SetFile
      <4> QED
        BY ONLY <2>1, <2>2, <3>2, <4>1, <4>2 DEF AssignInv, Sound, InEffectOrLeft, NobodyAt, Locked, logs, tables
    <3>4. CASE ~ok
      <4>1. pc'[p] = "error"
        BY ONLY <2>1, <2>2, <3>1, <3>4 DEF Fail, Answer
      <4>2. accessLog'.f = accessLog.f
        BY ONLY <3>1, <3>4 DEF SetFile
      <4> QED
        BY ONLY <2>1, <2>2, <3>2, <4>1, <4>2 DEF AssignInv, Sound, InEffectOrLeft, NobodyAt, Locked, logs, tables
    <3> QED
      BY ONLY <3>3, <3>4
  <2>5. CASE SetErrorLog(p)
    <3>1. PICK ok \in {TRUE, got[p] \notin BadLog} :
            /\ errorLog' = SetFile(errorLog, got[p], ok)
            /\ IF ok THEN Goto(p, "motd") ELSE Fail(p)
      BY ONLY <2>5, Zenon DEF SetErrorLog
    <3>2. pc[p] = "errorlog" /\ UNCHANGED <<accessLog, motd, tables>>
      BY ONLY <2>5 DEF SetErrorLog
    <3>3. accessLog.f = got[p] /\ got[p] \notin Invalid
      BY ONLY <2>1, <2>2, <3>2 DEF AssignInv, CheckedInv, Locked
    <3>4. CASE ok
      <4>1. pc'[p] = "motd" /\ got'[p] = got[p]
        BY ONLY <2>1, <2>2, <3>1, <3>4 DEF Goto
      <4>2. errorLog'.f = got[p]
        BY ONLY <3>1, <3>4 DEF SetFile
      <4> QED
        BY ONLY <2>1, <2>2, <3>2, <3>3, <4>1, <4>2 DEF AssignInv, Sound, InEffectOrLeft, NobodyAt, Locked, logs, tables
    <3>5. CASE ~ok
      <4>1. pc'[p] = "error"
        BY ONLY <2>1, <2>2, <3>1, <3>5 DEF Fail, Answer
      <4>2. errorLog'.f = errorLog.f /\ got[p] \in BadLog
        BY ONLY <3>1, <3>5, Zenon DEF SetFile
      <4> QED
        BY ONLY <2>1, <2>2, <3>2, <3>3, <4>1, <4>2 DEF AssignInv, Sound, InEffectOrLeft, NobodyAt, Locked, logs, tables
    <3> QED
      BY ONLY <3>4, <3>5
  <2>6. CASE SetMotd(p)
    <3>1. pc[p] = "motd" /\ motd' = got[p] /\ UNCHANGED <<logs, tables>>
      BY ONLY <2>6 DEF SetMotd
    <3>2. accessLog.f = got[p] /\ errorLog.f = got[p] /\ got[p] \notin Invalid
      BY ONLY <2>1, <2>2, <3>1 DEF AssignInv, CheckedInv, Locked
    <3>3. \/ pc'[p] = "timings" /\ got'[p] = got[p]
          \/ pc'[p] = "error" /\ got[p] \in NegativeIdle
      BY ONLY <2>1, <2>2, <2>6 DEF SetMotd, Goto, Fail, Answer
    <3> QED
      BY ONLY <2>1, <2>2, <3>1, <3>2, <3>3 DEF AssignInv, Sound, InEffectOrLeft, NobodyAt, Locked, logs, tables
  <2>7. CASE SetTimings(p) \/ SetModules(p)
    <3>1. /\ UNCHANGED <<logs, motd, got>>
          /\ \/ /\ pc[p] = "timings" /\ pc'[p] = "modules" /\ timings' = got[p]
                /\ UNCHANGED <<modules, upstreams, upstreamQueues, tlsCertificate>>
             \/ /\ pc[p] = "modules" /\ pc'[p] = "queues" /\ modules' = got[p] /\ upstreams' = got[p]
                /\ UNCHANGED <<timings, upstreamQueues, tlsCertificate>>
      BY ONLY <2>1, <2>2, <2>7 DEF SetTimings, SetModules, Goto
    <3> QED
      BY ONLY <2>1, <2>2, <3>1 DEF AssignInv, Sound, InEffectOrLeft, NobodyAt, Locked, logs, tables
  <2>8. CASE SetQueues(p)
    <3>1. /\ pc[p] = "queues" /\ pc'[p] = "ok" /\ UNCHANGED <<logs, motd, timings, modules, upstreams>>
          /\ upstreamQueues' = got[p] /\ tlsCertificate' = got[p]
      BY ONLY <2>1, <2>2, <2>8 DEF SetQueues, Answer
    <3>2. /\ accessLog.f = got[p] /\ errorLog.f = got[p] /\ motd = got[p]
          /\ timings = got[p] /\ modules = got[p] /\ upstreams = got[p]
          /\ got[p] \notin Invalid \cup NegativeIdle
      BY ONLY <2>1, <2>2, <3>1 DEF AssignInv, CheckedInv, Locked
    <3> QED
      BY ONLY <2>1, <2>2, <3>1, <3>2 DEF AssignInv, Sound, InEffectOrLeft, NobodyAt, Locked, logs, tables
  <2> QED
    BY <2>3, <2>4, <2>5, <2>6, <2>7, <2>8
<1> QED
  BY <1>6, <1>7, <1>8, <1>9
-----------------------------------------------------------------------------
(* The invariant of loadConfig holds whatever reloads, edits and readers do.*)
THEOREM LoadInvariance == LoadSpec => []LoadInv
<1>1. LoadInv /\ [LoadNext]_loadVars => LoadInv'
  <2> SUFFICES ASSUME LoadInv, [LoadNext]_loadVars PROVE LoadInv'
    OBVIOUS
  <2>1. CASE UNCHANGED loadVars
    BY <2>1 DEF loadVars, logs, tables, LoadInv, LoadTypes, LockInv, CheckedInv, AssignInv, Sound, InEffectOrLeft, NobodyAt, Holding
  <2>2. CASE LoadNext
    BY <2>2, OutsideSteps, ReaderSteps, LockedSteps DEF LoadNext, Step
  <2> QED
    BY <2>1, <2>2
<1> QED
  BY <1>1, InitLoadInv, PTL DEF LoadSpec

(* reloadLock makes the swap of the tables atomic: no reader ever sees a   *)
(* mixture of two of them, nor one that failed a check, and motd and log   *)
(* files differ from them only after a load that failed under the lock.    *)
THEOREM OneVersionServed == LoadSpec => []OneVersionInEffect
<1>1. LoadInv => OneVersionInEffect
  <2> SUFFICES ASSUME LoadInv, lock = Free \/ Holding # {} PROVE OneVersionInEffect
    BY DEF OneVersionInEffect
  <2>1. NobodyAt(Locked \ {"drain"})
    BY ConfigLoadAssumption, Zenon DEF LoadInv, LockInv, Locked, NobodyAt
  <2>2. /\ NobodyAt({"modules", "queues"}) /\ NobodyAt({"timings", "modules", "queues"})
        /\ NobodyAt({"motd", "timings", "modules", "queues"})
        /\ NobodyAt({"errorlog", "motd", "timings", "modules", "queues"})
    BY <2>1 DEF NobodyAt, Locked
  <2>3. tables[1] = timings /\ tables[2] = modules /\ tables[3] = upstreams
        /\ tables[4] = upstreamQueues /\ tables[5] = tlsCertificate
    BY DEF tables
  <2>4. \A i \in 1..5 : i = 1 \/ i = 2 \/ i = 3 \/ i = 4 \/ i = 5
    OBVIOUS
  <2>5. \A i \in 1..5 : tables[i] = tables[1]
    BY <2>2, <2>3, <2>4 DEF LoadInv, AssignInv, Sound
  <2> QED
    BY <2>2, <2>5 DEF LoadInv, AssignInv, Sound, OneVersionInEffect
<1> QED
  BY <1>1, LoadInvariance, PTL

(* A reload that answers with success leaves the file's content, as it was *)
(* when the request arrived or later, in every table and log.              *)
THEOREM SuccessServed == LoadSpec => SuccessMeansServed
<1>1. LoadInv /\ [LoadNext]_loadVars => [SuccessMeansServedStep]_loadVars
  <2> SUFFICES ASSUME LoadInv, LoadNext, NEW p \in Request, pc'[p] = "ok", pc[p] # "ok"
               PROVE  /\ modules' >= started[p] /\ motd' = modules'
                      /\ accessLog'.f = modules' /\ errorLog'.f = modules'
    BY DEF SuccessMeansServedStep
  <2> USE DEF LoadInv, LoadTypes
  <2>1. SetQueues(p)
    <3>1. PICK r \in Request : Arrive(r) \/ Step(r)
      BY DEF LoadNext, EditFile, Ask, ReaderStep, RLock, Lookup, ListUpstreamModules
    <3>2. ~(Arrive(r) \/ ReadConfig(r) \/ Validate(r) \/ Lock(r) \/ Drain(r))
      BY DEF Arrive, ReadConfig, Validate, Lock, Drain, Goto, Answer
    <3>3. ~(Discover(r) \/ SetAccessLog(r) \/ SetErrorLog(r) \/ SetMotd(r))
      BY Zenon DEF Discover, SetAccessLog, SetErrorLog, SetMotd, Goto, Fail, Answer
    <3>4. ~(SetTimings(r) \/ SetModules(r))
      BY DEF SetTimings, SetModules, Goto
    <3>5. SetQueues(r)
      BY <3>1, <3>2, <3>3, <3>4 DEF Step
    <3> QED
      BY <3>5, Zenon DEF SetQueues, Answer
  <2> QED
    BY <2>1 DEF SetQueues, logs, LoadInv, LoadTypes, CheckedInv, AssignInv, Locked, Version
<1> QED
  BY <1>1, LoadInvariance, PTL DEF LoadSpec, SuccessMeansServed
-----------------------------------------------------------------------------
TypeInv ==
  /\ table \in [Servers -> Nat] /\ applying \in 0..N /\ version \in Nat
  /\ running \subseteq Servers /\ draining \in Nat /\ draining >= 1
  /\ conn \in [Conn -> {"none", "accepted", "active", "closed"}]
  /\ at \in [Conn -> Servers]
  /\ activeConnCount \in [Servers -> Int]

TableInv ==
  /\ \A i \in Servers : table[i] <= version
  /\ \A i \in Servers : i < applying => table[i] = version
  /\ FirstIsFreshest

ActiveAt(i) == {c \in Conn : conn[c] = "active" /\ at[c] = i}

CountInv == \A i \in Servers : activeConnCount[i] = Cardinality(ActiveAt(i))

DInv == TypeInv /\ TableInv /\ CountInv

(* Connections are finitely many, so those of a server can be counted. *)
LEMMA ActiveFinite ==
  ASSUME NEW i
  PROVE  IsFiniteSet(ActiveAt(i)) /\ Cardinality(ActiveAt(i)) \in Nat
<1>1. IsFiniteSet(ActiveAt(i))
  BY DataplaneAssumption, FS_Subset DEF ActiveAt
<1> QED
  BY <1>1, FS_CardinalityType

(* Before New nothing is configured and nobody is connected. *)
LEMMA InitDInv == Init => DInv
<1> SUFFICES ASSUME Init PROVE DInv
  OBVIOUS
<1>1. N \in Nat /\ N >= 1
  BY DataplaneAssumption
<1>2. TypeInv
  BY <1>1 DEF Init, TypeInv, Servers
<1>3. TableInv
  BY <1>1 DEF Init, TableInv, FirstIsFreshest
<1>4. ASSUME NEW i \in Servers PROVE activeConnCount[i] = Cardinality(ActiveAt(i))
  <2>1. ActiveAt(i) = {}
    BY DEF Init, ActiveAt
  <2> QED
    BY <2>1, FS_EmptySet DEF Init
<1> QED
  BY <1>2, <1>3, <1>4 DEF DInv, CountInv

(* The step changes neither the tables nor the connections. *)
LEMMA OtherStep ==
  ASSUME DInv, UNCHANGED applyVars, UNCHANGED connVars,
         running' \subseteq Servers, draining' \in Nat, draining' >= 1
  PROVE  DInv'
<1>1. TypeInv'
  BY DEF DInv, TypeInv, applyVars, connVars
<1>2. TableInv'
  BY DEF DInv, TableInv, FirstIsFreshest, applyVars
<1>3. CountInv'
  BY DEF DInv, CountInv, ActiveAt, connVars
<1> QED
  BY <1>1, <1>2, <1>3 DEF DInv

(* The step concerns the tables only. *)
LEMMA ApplyStep ==
  ASSUME DInv, Apply \/ ApplyFails \/ ApplyOne
  PROVE  DInv'
<1>1. /\ N \in Nat /\ N >= 1 /\ table \in [Servers -> Nat]
      /\ applying \in 0..N /\ version \in Nat
      /\ \A i \in Servers : table[i] <= version
      /\ \A i \in Servers : i < applying => table[i] = version
      /\ \A i, j \in Servers : i < j => table[i] >= table[j]
  BY DataplaneAssumption DEF DInv, TypeInv, TableInv, FirstIsFreshest
<1>2. /\ table' \in [Servers -> Nat] /\ applying' \in 0..N /\ version' \in Nat
      /\ TableInv'
  <2>1. CASE Apply
    <3>1. version' = version + 1 /\ applying' = 1 /\ table' = table
      BY <2>1 DEF Apply
    <3>2. ASSUME NEW i \in Servers PROVE table'[i] <= version' /\ ~(i < applying')
      BY <1>1, <3>1 DEF Servers
    <3> QED
      BY <1>1, <3>1, <3>2 DEF TableInv, FirstIsFreshest
  <2>2. CASE ApplyFails
    <3>1. version' = version /\ applying' = 0 /\ table' = table
      BY <2>2 DEF ApplyFails
    <3>2. ASSUME NEW i \in Servers PROVE ~(i < applying')
      BY <3>1 DEF Servers
    <3> QED
      BY <1>1, <3>1, <3>2 DEF TableInv, FirstIsFreshest
  <2>3. CASE ApplyOne
    <3>1. PICK k : k = applying
      OBVIOUS
    <3>2. /\ k \in Servers /\ k \in 1..N /\ version' = version
          /\ table' = [table EXCEPT ![k] = version]
          /\ applying' = IF k = N THEN 0 ELSE k + 1
      BY <1>1, <2>3, <3>1 DEF ApplyOne, Servers
    <3>3. table' \in [Servers -> Nat] /\ applying' \in 0..N
      BY <1>1, <3>2
    <3>4. ASSUME NEW i \in Servers
          PROVE  table'[i] = IF i = k THEN version ELSE table[i]
      BY <1>1, <3>2
    <3>5. ASSUME NEW i \in Servers
          PROVE  table'[i] <= version' /\ (i < applying' => table'[i] = version')
      <4>1. i \in 1..N
        BY DEF Servers
      <4>2. i < applying' => i < k \/ i = k
        BY <1>1, <3>2, <4>1
      <4> QED
        BY <1>1, <3>1, <3>2, <3>4, <4>1, <4>2
    <3>6. ASSUME NEW i \in Servers, NEW j \in Servers, i < j
          PROVE  table'[i] >= table'[j]
      <4>1. CASE i = k
        BY <1>1, <3>2, <3>4, <3>6, <4>1 DEF Servers
      <4>2. CASE j = k
        <5>1. table[i] = version /\ i # k
          BY <1>1, <3>1, <3>6, <4>2 DEF Servers
        <5> QED
          BY <1>1, <3>4, <4>2, <5>1
      <4>3. CASE i # k /\ j # k
        BY <1>1, <3>4, <3>6, <4>3
      <4> QED
        BY <4>1, <4>2, <4>3
    <3> QED
      BY <1>1, <3>2, <3>3, <3>5, <3>6 DEF TableInv, FirstIsFreshest
  <2> QED
    BY <2>1, <2>2, <2>3
<1>3. UNCHANGED <<runVars, drainVars, connVars>>
  BY DEF Apply, ApplyFails, ApplyOne
<1>4. TypeInv'
  BY <1>2, <1>3 DEF DInv, TypeInv, runVars, drainVars, connVars
<1>5. CountInv'
  BY <1>3 DEF DInv, CountInv, ActiveAt, connVars
<1> QED
  BY <1>2, <1>4, <1>5 DEF DInv

(* Accept, the counter's increment and its decrement keep CountInv. *)
LEMMA ConnStep ==
  ASSUME DInv, NEW c \in Conn, NEW i \in Servers, Accept(c, i) \/ Count(c) \/ Finish(c)
  PROVE  DInv'
<1>1. /\ conn \in [Conn -> {"none", "accepted", "active", "closed"}]
      /\ at \in [Conn -> Servers] /\ activeConnCount \in [Servers -> Int]
  BY DEF DInv, TypeInv
<1>2. UNCHANGED <<applyVars, runVars, drainVars>>
  BY DEF Accept, Count, Finish
<1>3. TableInv'
  BY <1>2 DEF DInv, TableInv, FirstIsFreshest, applyVars
<1>4. /\ conn' \in [Conn -> {"none", "accepted", "active", "closed"}]
      /\ at' \in [Conn -> Servers] /\ activeConnCount' \in [Servers -> Int]
  BY <1>1 DEF Accept, Count, Finish
<1>5. TypeInv'
  BY <1>2, <1>4 DEF DInv, TypeInv, applyVars, runVars, drainVars
<1>6. ASSUME NEW s \in Servers PROVE activeConnCount'[s] = Cardinality(ActiveAt(s)')
  <2>1. /\ activeConnCount[s] = Cardinality(ActiveAt(s))
        /\ IsFiniteSet(ActiveAt(s)) /\ Cardinality(ActiveAt(s)) \in Nat
    BY ActiveFinite DEF DInv, CountInv
  <2>2. CASE Accept(c, i)
    <3>1. ActiveAt(s)' = ActiveAt(s) /\ activeConnCount' = activeConnCount
      BY <1>1, <2>2, SMTT(30) DEF Accept, ActiveAt
    <3> QED
      BY <2>1, <3>1
  <2>3. CASE Count(c)
    <3>1. /\ conn[c] = "accepted" /\ conn' = [conn EXCEPT ![c] = "active"] /\ at' = at
          /\ activeConnCount' = [activeConnCount EXCEPT ![at[c]] = @ + 1]
      BY <2>3 DEF Count
    <3>2. CASE s = at[c]
      <4>1. ActiveAt(s)' = ActiveAt(s) \cup {c} /\ c \notin ActiveAt(s)
        BY <1>1, <3>1, <3>2 DEF ActiveAt
      <4>2. Cardinality(ActiveAt(s) \cup {c}) = Cardinality(ActiveAt(s)) + 1
        BY <2>1, <4>1, FS_AddElement, Zenon
      <4> QED
        BY <1>1, <2>1, <3>1, <3>2, <4>1, <4>2
    <3>3. CASE s # at[c]
      <4>1. ActiveAt(s)' = ActiveAt(s)
        BY <1>1, <3>1, <3>3 DEF ActiveAt
      <4> QED
        BY <1>1, <2>1, <3>1, <3>3, <4>1
    <3> QED
      BY <3>2, <3>3
  <2>4. CASE Finish(c)
    <3>1. /\ conn[c] = "active" /\ conn' = [conn EXCEPT ![c] = "closed"] /\ at' = at
          /\ activeConnCount' = [activeConnCount EXCEPT ![at[c]] = @ - 1]
      BY <2>4 DEF Finish
    <3>2. CASE s = at[c]
      <4>1. ActiveAt(s)' = ActiveAt(s) \ {c} /\ c \in ActiveAt(s)
        BY <1>1, <3>1, <3>2 DEF ActiveAt
      <4>2. Cardinality(ActiveAt(s) \ {c}) = Cardinality(ActiveAt(s)) - 1
        BY <2>1, <4>1, FS_RemoveElement, Zenon
      <4> QED
        BY <1>1, <2>1, <3>1, <3>2, <4>1, <4>2
    <3>3. CASE s # at[c]
      <4>1. ActiveAt(s)' = ActiveAt(s)
        BY <1>1, <3>1, <3>3 DEF ActiveAt
      <4> QED
        BY <1>1, <2>1, <3>1, <3>3, <4>1
    <3> QED
      BY <3>2, <3>3
  <2> QED
    BY <2>2, <2>3, <2>4
<1>7. CountInv'
  BY <1>6 DEF CountInv
<1> QED
  BY <1>3, <1>5, <1>7 DEF DInv

(* DInv is inductive: start-up and shutdown touch neither argument. *)
THEOREM DataplaneInvariance == Spec => []DInv
<1>1. DInv /\ [Next]_vars => DInv'
  <2> SUFFICES ASSUME DInv, [Next]_vars PROVE DInv'
    OBVIOUS
  <2>1. running \subseteq Servers /\ draining \in Nat /\ draining >= 1
    BY DEF DInv, TypeInv
  <2>2. CASE Bind \/ Start \/ HTTPFails \/ \E b \in BOOLEAN : BindFails(b) \/ Shutdown(b)
    <3>1. /\ UNCHANGED applyVars /\ UNCHANGED connVars
          /\ running' \subseteq Servers /\ draining' = draining
      BY <2>1, <2>2 DEF Bind, Start, HTTPFails, BindFails, Shutdown, runVars, drainVars
    <3> QED
      BY <2>1, <3>1, OtherStep
  <2>3. CASE Apply \/ ApplyFails \/ ApplyOne
    BY <2>3, ApplyStep
  <2>4. CASE Draining
    <3>1. /\ UNCHANGED applyVars /\ UNCHANGED connVars
          /\ running' = running /\ (draining' = draining \/ draining' = draining + 1)
      BY <2>4 DEF Draining, CloseListeners, DrainReturns, Exit, GracePeriodEnds,
                  runVars, drainVars
    <3>2. draining' \in Nat /\ draining' >= 1
      BY <2>1, <3>1
    <3> QED
      BY <2>1, <3>1, <3>2, OtherStep
  <2>5. ASSUME NEW i \in Servers, AcceptFails(i) PROVE DInv'
    <3>1. /\ UNCHANGED applyVars /\ UNCHANGED connVars
          /\ running' \subseteq Servers /\ draining' = draining
      BY <2>1, <2>5 DEF AcceptFails, drainVars
    <3> QED
      BY <2>1, <3>1, OtherStep
  <2>6. ASSUME NEW i \in Servers, NEW c \in Conn, Accept(c, i) PROVE DInv'
    BY <2>6, ConnStep
  <2>7. ASSUME NEW c \in Conn, Count(c) \/ Finish(c) PROVE DInv'
    <3>1. 1 \in Servers
      BY DataplaneAssumption DEF Servers
    <3> QED
      BY <2>7, <3>1, ConnStep
  <2>8. CASE UNCHANGED vars
    <3>1. UNCHANGED applyVars /\ UNCHANGED connVars /\ running' = running /\ draining' = draining
      BY <2>8 DEF vars, runVars, drainVars
    <3> QED
      BY <2>1, <3>1, OtherStep
  <2> QED
    BY <2>2, <2>3, <2>4, <2>5, <2>6, <2>7, <2>8 DEF Next
<1> QED
  BY <1>1, InitDInv, PTL DEF Spec

(* However many servers a failed Apply leaves behind, none has a newer     *)
(* table than a server before it in d.servers.                             *)
THEOREM FreshestFirst == Spec => []FirstIsFreshest
<1>1. DInv => FirstIsFreshest
  BY DEF DInv, TableInv
<1> QED
  BY <1>1, DataplaneInvariance, PTL

(* The servers that Drain has passed accept nothing, and within the grace  *)
(* period they only have connections that were uncounted when it looked.   *)
DrainInv ==
  /\ phase \notin {"drain", "exit"} => draining = 1
  /\ phase = "exit" => draining > N
  /\ \A i \in Servers : i < draining => i \notin open
  /\ ~expired => \A c \in Conn : conn[c] \in {"accepted", "active"} /\ at[c] < draining => c \in missed

(* The step that leaves a server: its sockets are closed, and a count of   *)
(* zero means that none of its connections is active.                      *)
LEMMA DrainReturnsStep ==
  ASSUME DInv, DrainInv, DrainReturns
  PROVE  DrainInv'
<1>1. /\ phase = "drain" /\ phase' = phase /\ draining' = draining + 1 /\ draining \in Servers
      /\ draining \notin open /\ UNCHANGED <<open, conn, at, expired>>
      /\ missed' = missed \cup Uncounted(draining)
      /\ Drained \/ expired
  BY DataplaneAssumption DEF DrainReturns, DInv, TypeInv, Servers, startVars, connVars
<1>2. /\ draining \in Nat /\ at \in [Conn -> Servers]
      /\ \A i \in Servers : i \in Nat
  BY DEF DInv, TypeInv, Servers
<1>3. ~expired => ActiveAt(draining) = {}
  <2> SUFFICES ASSUME ~expired PROVE ActiveAt(draining) = {}
    OBVIOUS
  <2>1. Cardinality(ActiveAt(draining)) = 0
    BY <1>1 DEF Drained, DInv, CountInv
  <2> QED
    BY <2>1, ActiveFinite, FS_EmptySet
<1>4. ASSUME NEW i \in Servers, i < draining' PROVE i \notin open'
  BY <1>1, <1>2, <1>4 DEF DrainInv
<1>5. ASSUME ~expired', NEW c \in Conn, conn'[c] \in {"accepted", "active"}, at'[c] < draining'
      PROVE  c \in missed'
  <2>1. at[c] < draining \/ at[c] = draining
    <3>1. at[c] \in Nat /\ at[c] < draining + 1
      BY <1>1, <1>2, <1>5, Zenon
    <3> QED
      BY <1>2, <3>1
  <2>2. CASE at[c] < draining
    BY <1>1, <1>5, <2>2 DEF DrainInv
  <2>3. CASE at[c] = draining
    BY <1>1, <1>3, <1>5, <2>3 DEF ActiveAt, Uncounted
  <2> QED
    BY <2>1, <2>2, <2>3
<1> QED
  BY <1>1, <1>4, <1>5 DEF DrainInv

(* A connection is accepted where the socket is open, that is at a server  *)
(* that Drain has not passed; counting it and its end change nothing here. *)
LEMMA ConnKeepsDrainInv ==
  ASSUME DInv, DrainInv, NEW c \in Conn, NEW i \in Servers, Accept(c, i) \/ Count(c) \/ Finish(c)
  PROVE  DrainInv'
<1>1. /\ conn \in [Conn -> {"none", "accepted", "active", "closed"}]
      /\ at \in [Conn -> Servers] /\ draining \in Nat /\ i \in Nat
  BY DEF DInv, TypeInv, Servers
<1>2. UNCHANGED <<phase, open, draining, expired, missed>>
  BY DEF Accept, Count, Finish, startVars, drainVars
<1>3. ASSUME ~expired', NEW d \in Conn, conn'[d] \in {"accepted", "active"}, at'[d] < draining'
      PROVE  conn[d] \in {"accepted", "active"} /\ at[d] < draining
  <2>1. CASE Accept(c, i)
    BY <1>1, <1>2, <1>3, <2>1 DEF Accept, DrainInv
  <2>2. CASE Count(c) \/ Finish(c)
    BY <1>1, <1>2, <1>3, <2>2 DEF Count, Finish
  <2> QED
    BY <2>1, <2>2
<1> QED
  BY <1>2, <1>3 DEF DrainInv

(* The invariant of Drain holds in every reachable state. *)
THEOREM DrainInvariance == Spec => []DrainInv
<1>1. Init => DrainInv
  BY DataplaneAssumption DEF Init, DrainInv, Servers
<1>2. DInv /\ DrainInv /\ [Next]_vars => DrainInv'
  <2> SUFFICES ASSUME DInv, DrainInv, [Next]_vars PROVE DrainInv'
    OBVIOUS
  <2>1. \A i \in Servers : ~(i < 1)
    BY DEF Servers
  <2>2. CASE Bind \/ Start \/ \E b \in BOOLEAN : BindFails(b) \/ Shutdown(b)
    BY <2>1, <2>2, SMTT(30) DEF Bind, Start, BindFails, Shutdown, DrainInv, startVars, drainVars, connVars
  <2>3. CASE HTTPFails \/ CloseListeners \/ Exit
    BY <2>3, DataplaneAssumption, SMTT(30)
    DEF HTTPFails, CloseListeners, Exit, DrainInv, DInv, TypeInv, startVars, drainVars, connVars
  <2>4. CASE GracePeriodEnds
    BY <2>4 DEF GracePeriodEnds, DrainInv, startVars
  <2>5. CASE DrainReturns
    BY <2>5, DrainReturnsStep
  <2>6. CASE \/ Apply \/ ApplyFails \/ ApplyOne \/ UNCHANGED vars
             \/ \E i \in Servers : AcceptFails(i)
    <3>1. UNCHANGED <<phase, open, draining, expired, missed, conn, at>>
      BY <2>6 DEF Apply, ApplyFails, ApplyOne, AcceptFails, vars, startVars, drainVars, connVars
    <3> QED
      BY <3>1 DEF DrainInv
  <2>7. ASSUME NEW i \in Servers, NEW c \in Conn, Accept(c, i) PROVE DrainInv'
    BY <2>7, ConnKeepsDrainInv
  <2>8. ASSUME NEW c \in Conn, Count(c) \/ Finish(c) PROVE DrainInv'
    <3>1. 1 \in Servers
      BY DataplaneAssumption DEF Servers
    <3> QED
      BY <2>8, <3>1, ConnKeepsDrainInv
  <2> QED
    BY <2>2, <2>3, <2>4, <2>5, <2>6, <2>7, <2>8 DEF Next, Draining
<1> QED
  BY <1>1, <1>2, DataplaneInvariance, PTL DEF Spec

(* Although Drain closes and drains the servers one after the other and    *)
(* looks at nothing but the counter, the process exits within the grace    *)
(* period under no connection that was counted when it looked, nor under   *)
(* one that was accepted since.                                            *)
THEOREM CountedAreSpared == Spec => []OnlyUncountedAreCut
<1>1. DInv /\ DrainInv => OnlyUncountedAreCut
  <2> SUFFICES ASSUME DInv, DrainInv, phase = "exit", ~expired,
                      NEW c \in Conn, conn[c] \in {"accepted", "active"}
               PROVE  c \in missed
    BY DEF OnlyUncountedAreCut
  <2>1. at[c] \in 1..N /\ N \in Nat /\ draining \in Nat /\ draining > N
    BY DataplaneAssumption DEF DInv, TypeInv, DrainInv, Servers
  <2>2. at[c] < draining
    BY <2>1
  <2> QED
    BY <2>2 DEF DrainInv
<1> QED
  BY <1>1, DataplaneInvariance, DrainInvariance, PTL
=============================================================================
