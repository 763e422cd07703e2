----------------------------- MODULE ConfigLoad -----------------------------
(***************************************************************************)
(* Server.loadConfig and its callers: concurrent /reload requests read the *)
(* configuration file, validate what they read, and under reloadLock       *)
(* discover modules, switch the log files and assign the settings one by   *)
(* one, with an error return after most steps.  Connections and admin      *)
(* requests read the tables under the same lock; a forced listing holds it *)
(* while it talks to an upstream.                                          *)
(*                                                                         *)
(* The content of the file is a version; a setting is the version it was   *)
(* taken from.                                                             *)
(***************************************************************************)
EXTENDS Integers

CONSTANTS
  Request,        \* reloads
  Client, Lister,   \* connections, requests for /upstream-modules
  MaxVersion,     \* bound on the number of edits of the file
  Invalid,        \* versions that fail a check made before the lock is taken
  BadLog,         \* versions whose log files may fail to open
  NegativeIdle,   \* versions with relay_idle_timeout < 0
  Discovers       \* versions with discover_modules

Version == 1..MaxVersion
Free == 0
Reader == Client \cup Lister

ASSUME ConfigLoadAssumption ==
  /\ MaxVersion \in Nat \ {0} /\ Free \notin Request
  /\ 1 \notin Invalid \cup BadLog \cup NegativeIdle
  /\ Invalid \cup BadLog \cup NegativeIdle \cup Discovers \subseteq Version

VARIABLES
  file,        \* what the file holds
  pc, got,     \* per request: next step, the version it decoded
  started,     \* per request: what the file held when the request arrived
  lock,        \* the reload that has or has asked for reloadLock as a writer
  rpc,         \* per reader: "idle", "wait" for the lock or "hold" it
  accessLog, errorLog,    \* [filename, f]
  motd, timings, modules, upstreams, upstreamQueues, tlsCertificate

tables == <<timings, modules, upstreams, upstreamQueues, tlsCertificate>>
logs == <<accessLog, errorLog>>
loadVars == <<file, pc, got, started, lock, rpc, logs, motd, tables>>

(* The program was started with version 1, which is sound. *)
LoadInit ==
  /\ file = 1
  /\ pc = [p \in Request |-> "idle"]
  /\ got = [p \in Request |-> 1] /\ started = got
  /\ lock = Free /\ rpc = [q \in Reader |-> "idle"]
  /\ accessLog = [filename |-> 1, f |-> 1] /\ errorLog = accessLog
  /\ motd = 1
  /\ timings = 1 /\ modules = 1 /\ upstreams = 1 /\ upstreamQueues = 1 /\ tlsCertificate = 1

EditFile ==
  /\ file < MaxVersion
  /\ file' = file + 1
  /\ UNCHANGED <<rpc, pc, got, started, lock, logs, motd, tables>>

Arrive(p) ==
  /\ pc[p] \in {"idle", "ok", "error"}
  /\ pc' = [pc EXCEPT ![p] = "read"]
  /\ started' = [started EXCEPT ![p] = file]
  /\ UNCHANGED <<rpc, file, got, lock, logs, motd, tables>>

(* Mutant: the configuration decoded at start is used again. *)
ReadConfig_Cached(p) ==
  /\ pc[p] = "read"
  /\ pc' = [pc EXCEPT ![p] = "validate"]
  /\ UNCHANGED <<rpc, file, got, started, lock, logs, motd, tables>>

(* ReadConfigFromFile, ReadConfig. *)
ReadConfig(p) ==
  /\ pc[p] = "read"
  /\ got' = [got EXCEPT ![p] = file]
  /\ pc' = [pc EXCEPT ![p] = "validate"]
  /\ UNCHANGED <<rpc, file, started, lock, logs, motd, tables>>

Goto(p, label) == pc' = [pc EXCEPT ![p] = label] /\ UNCHANGED <<got, started, lock>>

(* The handler returns; its locals are gone. *)
Answer(p, result) ==
  /\ pc' = [pc EXCEPT ![p] = result]
  /\ got' = [got EXCEPT ![p] = 1] /\ started' = [started EXCEPT ![p] = 1]

(* TLS, the durations and limits, the upstreams and their addresses. *)
Validate(p) ==
  /\ pc[p] = "validate"
  /\ IF got[p] \in Invalid THEN Answer(p, "error") /\ UNCHANGED lock ELSE Goto(p, "lock")
  /\ UNCHANGED <<rpc, file, logs, motd, tables>>

(* RWMutex.Lock: from now on new readers wait; *)
Lock(p) ==
  /\ pc[p] = "lock" /\ lock = Free
  /\ lock' = p
  /\ pc' = [pc EXCEPT ![p] = "drain"]
  /\ UNCHANGED <<rpc, file, got, started, logs, motd, tables>>

Holding == {q \in Reader : rpc[q] = "hold"}

(* it returns when those inside have left. *)
Drain(p) ==
  /\ pc[p] = "drain" /\ Holding = {}
  /\ Goto(p, "discover")
  /\ UNCHANGED <<rpc, file, logs, motd, tables>>

(* A return with an error: the deferred Unlock runs. *)
Fail(p) == Answer(p, "error") /\ lock' = Free

(* Mutant: the load starts over when an upstream is out of reach. *)
Discover_Retry(p) ==
  /\ pc[p] = "discover"
  /\ \/ Goto(p, "access")
     \/ /\ got[p] \in Discovers
        /\ pc' = [pc EXCEPT ![p] = "read"] /\ lock' = Free /\ UNCHANGED <<got, started>>
  /\ UNCHANGED <<rpc, file, logs, motd, tables>>

(* discoverConfiguredModules: an upstream may be out of reach. *)
Discover(p) ==
  /\ pc[p] = "discover"
  /\ \/ Goto(p, "access")
     \/ got[p] \in Discovers /\ Fail(p)
  /\ UNCHANGED <<rpc, file, logs, motd, tables>>

(* FileLogger.SetFile: the name is kept even if the file cannot be opened. *)
SetFile(l, v, ok) == [filename |-> v, f |-> IF ok THEN v ELSE l.f]

SetAccessLog(p) ==
  /\ pc[p] = "access"
  /\ \E ok \in {TRUE, got[p] \notin BadLog} :
       /\ accessLog' = SetFile(accessLog, got[p], ok)
       /\ IF ok THEN Goto(p, "errorlog") ELSE Fail(p)
  /\ UNCHANGED <<rpc, file, errorLog, motd, tables>>

SetErrorLog(p) ==
  /\ pc[p] = "errorlog"
  /\ \E ok \in {TRUE, got[p] \notin BadLog} :
       /\ errorLog' = SetFile(errorLog, got[p], ok)
       /\ IF ok THEN Goto(p, "motd") ELSE Fail(p)
  /\ UNCHANGED <<rpc, file, accessLog, motd, tables>>

(* Mutant: the timings are assigned before relay_idle_timeout is checked. *)
SetMotd_TimingsFirst(p) ==
  /\ pc[p] = "motd"
  /\ motd' = got[p] /\ timings' = got[p]
  /\ IF got[p] \in NegativeIdle THEN Fail(p) ELSE Goto(p, "timings")
  /\ UNCHANGED <<rpc, file, logs, modules, upstreams, upstreamQueues, tlsCertificate>>

(* s.Motd is assigned before relay_idle_timeout is checked. *)
SetMotd(p) ==
  /\ pc[p] = "motd"
  /\ motd' = got[p]
  /\ IF got[p] \in NegativeIdle THEN Fail(p) ELSE Goto(p, "timings")
  /\ UNCHANGED <<rpc, file, logs, tables>>

SetTimings(p) ==
  /\ pc[p] = "timings"
  /\ timings' = got[p]
  /\ Goto(p, "modules")
  /\ UNCHANGED <<rpc, file, logs, motd, modules, upstreams, upstreamQueues, tlsCertificate>>

SetModules(p) ==
  /\ pc[p] = "modules"
  /\ modules' = got[p] /\ upstreams' = got[p]
  /\ Goto(p, "queues")
  /\ UNCHANGED <<rpc, file, logs, motd, timings, upstreamQueues, tlsCertificate>>

SetQueues(p) ==
  /\ pc[p] = "queues"
  /\ upstreamQueues' = got[p] /\ tlsCertificate' = got[p]
  /\ Answer(p, "ok") /\ lock' = Free
  /\ UNCHANGED <<rpc, file, logs, motd, timings, modules, upstreams>>

(* A connection looks something up, or /upstream-modules is requested. *)
Ask(q) ==
  /\ rpc[q] = "idle"
  /\ rpc' = [rpc EXCEPT ![q] = "wait"]
  /\ UNCHANGED <<file, pc, got, started, lock, logs, motd, tables>>

RLock(q) ==
  /\ rpc[q] = "wait" /\ lock = Free
  /\ rpc' = [rpc EXCEPT ![q] = "hold"]
  /\ UNCHANGED <<file, pc, got, started, lock, logs, motd, tables>>

(* The getters copy a field or two and unlock. *)
Lookup(q) ==
  /\ q \in Client /\ rpc[q] = "hold"
  /\ rpc' = [rpc EXCEPT ![q] = "idle"]
  /\ UNCHANGED <<file, pc, got, started, lock, logs, motd, tables>>

(* Mutant: discovery takes the dialer from getDialer, which locks again. *)
ListUpstreamModules_Relock(q) ==
  /\ q \in Lister /\ rpc[q] = "hold"
  /\ rpc' = [rpc EXCEPT ![q] = IF lock = Free THEN "idle" ELSE @]
  /\ UNCHANGED <<file, pc, got, started, lock, logs, motd, tables>>

(* The copy of a list or, if forced, its discovery, which ends by its      *)
(* timeouts; then the deferred RUnlock.                                    *)
ListUpstreamModules(q) ==
  /\ q \in Lister /\ rpc[q] = "hold"
  /\ rpc' = [rpc EXCEPT ![q] = "idle"]
  /\ UNCHANGED <<file, pc, got, started, lock, logs, motd, tables>>

Step(p) ==
  \/ ReadConfig(p) \/ Validate(p) \/ Lock(p) \/ Drain(p) \/ Discover(p) \/ SetAccessLog(p)
  \/ SetErrorLog(p) \/ SetMotd(p) \/ SetTimings(p) \/ SetModules(p) \/ SetQueues(p)

ReaderStep(q) == RLock(q) \/ Lookup(q) \/ ListUpstreamModules(q)

LoadNext ==
  \/ EditFile
  \/ \E p \in Request : Arrive(p) \/ Step(p)
  \/ \E q \in Reader : Ask(q) \/ ReaderStep(q)

LoadSpec == LoadInit /\ [][LoadNext]_loadVars

(* Requests and connections are goroutines, and sync.RWMutex is fair: a    *)
(* writer that has announced itself keeps new readers out, its Unlock      *)
(* admits the readers that wait, and writers take turns.  Only the steps   *)
(* that take the lock can be disabled by others: strong fairness says      *)
(* something of these, and is weak fairness for the rest.                  *)
FairLoadSpec ==
  /\ LoadSpec
  /\ \A p \in Request : SF_loadVars(Step(p))
  /\ \A q \in Reader : SF_loadVars(ReaderStep(q))
-----------------------------------------------------------------------------
(* The setting v is of the version in effect, or was left behind by a load *)
(* of one of the given versions that failed after assigning it.            *)
InEffectOrLeft(v, failing) == v = modules \/ v \in failing \ Invalid

(* Whoever has the lock for reading, or can take it, sees the timings,     *)
(* module table, upstreams, queues and certificate of one configuration,   *)
(* and that one passed every check.  The message of the day and the log    *)
(* files are not swapped with them: a load that fails under the lock, when *)
(* it opens a log file or checks relay_idle_timeout, leaves those it has   *)
(* assigned behind (server.go:394-404), until a load succeeds.  Nothing    *)
(* else mixes two configurations, however many reloads overlap.            *)
OneVersionInEffect ==
  lock = Free \/ Holding # {} =>
    /\ \A i \in 1..5 : tables[i] = tables[1]
    /\ modules \notin Invalid \cup NegativeIdle
    /\ InEffectOrLeft(motd, NegativeIdle)
    /\ InEffectOrLeft(errorLog.f, NegativeIdle)
    /\ InEffectOrLeft(accessLog.f, NegativeIdle \cup BadLog)

(* When /reload answers that it succeeded, the configuration in effect is  *)
(* at least as new as the file was when the request arrived.               *)
SuccessMeansServedStep ==
  \A p \in Request : pc'[p] = "ok" /\ pc[p] # "ok" =>
    modules' >= started[p] /\ motd' = modules' /\ accessLog'.f = modules' /\ errorLog'.f = modules'
(* SuccessMeansServedStep holds of every step of every reload. *)
SuccessMeansServed == [][SuccessMeansServedStep]_loadVars

(* Every /reload is answered.                                              *)
EveryReloadAnswers ==
  \A p \in Request : pc[p] = "read" ~> pc[p] \in {"ok", "error"}

(* Every lookup of a connection and every listing gets the lock and is     *)
(* done, whatever reloads and other listings hold or ask for: no reader    *)
(* waits behind a writer that waits for that same reader.                  *)
EveryLookupProceeds ==
  \A q \in Reader : rpc[q] = "wait" ~> rpc[q] = "idle"
=============================================================================
