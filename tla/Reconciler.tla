----------------------------- MODULE Reconciler -----------------------------
(***************************************************************************)
(* internal/controller: the replicas of the gateway, each with its caches, *)
(* its work queue and its data plane, rebuild the whole state on every     *)
(* event and write statuses to the API server without leader election.     *)
(*                                                                         *)
(* One object of each kind that carries a status.  What the rebuild makes  *)
(* of the objects' contents is the subject of RouteBinding; here a spec is *)
(* a value, which also stands for the object's generation.                 *)
(***************************************************************************)
EXTENDS Integers, Sequences

CONSTANTS
  Replica,
  ConfigSpec, Valid,     \* specs of the GatewayConfig; those that validate
  RouteSpec,             \* specs of the RsyncRoute
  MaxEdits, MaxFailures, MaxRestarts

ASSUME ReconcilerAssumption ==
  /\ Valid \subseteq ConfigSpec
  /\ "none" \notin ConfigSpec \cup RouteSpec
  /\ MaxEdits \in Nat /\ MaxFailures \in Nat /\ MaxRestarts \in Nat

Kind == {"class", "gateway", "route", "config"}
None == "none"    \* the spec of an absent object; nothing
Unwritten == [gen |-> None, value |-> None]

VARIABLES
  api,       \* api[k]: the object of kind k, [spec, status]
  cache,     \* cache[r][k]: the same in r's informer cache
  fresh,     \* fresh[r]: kinds whose cached resourceVersion is the current one
  queued,    \* queued[r]: the rebuild request is in the work queue
  pc, snap, snapFresh, todo, applied,   \* the rebuild that runs in r, if any
  table,     \* table[r]: what r's data plane serves
  edits, failures, restarts

local == <<pc, snap, snapFresh, todo, applied>>
budget == <<edits, failures, restarts>>
vars == <<api, cache, fresh, queued, local, table, budget>>

Accepted(o) == o["config"].spec \in Valid

(* The table buildTable computes from objects o. *)
Table(o) ==
  IF Accepted(o) THEN [config |-> o["config"].spec, route |-> o["route"].spec]
                 ELSE [config |-> None, route |-> None]

ConfigVerdict(ok) == IF ok THEN "Applied" ELSE "Invalid"

Condition(o, k, value) == [gen |-> o[k].spec, value |-> value]

ClassCondition(o) == Condition(o, "class", IF Accepted(o) THEN "True" ELSE "False")

(* Programmed is always true of a Gateway that is managed. *)
BuildGatewayStatus(o) == Condition(o, "gateway", "Programmed")

BuildRouteStatus(o) == Condition(o, "route", IF Accepted(o) THEN "Accepted" ELSE "NoMatchingParent")

(* The status writeStatuses wants for kind k.  It leaves alone a Gateway   *)
(* and a config whose class is not accepted.                               *)
DesiredStatus(o, k, ok) ==
  CASE k = "class" -> ClassCondition(o)
    [] k = "gateway" /\ Accepted(o) -> BuildGatewayStatus(o)
    [] k = "route" /\ o[k].spec # None -> BuildRouteStatus(o)
    [] k = "config" /\ Accepted(o) -> Condition(o, k, ConfigVerdict(ok))
    [] OTHER -> o[k].status

EmptyTable == [config |-> None, route |-> None]
Order == <<"class", "gateway", "route", "config">>

Initially ==
  [k \in Kind |-> [spec |-> IF k \in {"class", "gateway"} THEN k ELSE None, status |-> Unwritten]]

Init ==
  /\ api = Initially
  /\ cache = [r \in Replica |-> api]
  /\ fresh = [r \in Replica |-> Kind]
  /\ queued = [r \in Replica |-> TRUE]
  /\ pc = [r \in Replica |-> "idle"]
  /\ snap = [r \in Replica |-> Initially]    \* as whenever no rebuild runs
  /\ snapFresh = [r \in Replica |-> {}]
  /\ todo = [r \in Replica |-> << >>]
  /\ applied = [r \in Replica |-> FALSE]
  /\ table = [r \in Replica |-> EmptyTable]
  /\ edits = 0 /\ failures = 0 /\ restarts = 0

(* A new resourceVersion of the object of kind k. *)
Store(k, o) ==
  /\ api' = [api EXCEPT ![k] = o]
  /\ fresh' = [r \in Replica |-> fresh[r] \ {k}]

(* A user creates, changes or deletes the config or the route. *)
Edit(k, s) ==
  /\ edits < MaxEdits /\ edits' = edits + 1
  /\ s # api[k].spec
  /\ Store(k, [spec |-> s, status |-> IF None \in {s, api[k].spec} THEN Unwritten ELSE api[k].status])
  /\ snapFresh' = [r \in Replica |-> snapFresh[r] \ {k}]
  /\ UNCHANGED <<cache, queued, pc, snap, todo, applied, table, failures, restarts>>

(* The watch updates the cache, and rebuildHandler queues the one request. *)
Deliver(r, k) ==
  /\ k \notin fresh[r]
  /\ cache' = [cache EXCEPT ![r][k] = api[k]]
  /\ fresh' = [fresh EXCEPT ![r] = @ \cup {k}]
  /\ queued' = [queued EXCEPT ![r] = TRUE]
  /\ UNCHANGED <<api, local, table, budget>>

(* readSnapshot.  The caches of the kinds are independent, so what six     *)
(* lists in a row can see is what one look at the caches can see.          *)
ReadSnapshot(r) ==
  /\ pc[r] = "idle" /\ queued[r]
  /\ queued' = [queued EXCEPT ![r] = FALSE]
  /\ pc' = [pc EXCEPT ![r] = "apply"]
  /\ snap' = [snap EXCEPT ![r] = cache[r]]
  /\ snapFresh' = [snapFresh EXCEPT ![r] = fresh[r]]
  /\ UNCHANGED <<api, cache, fresh, todo, applied, table, budget>>

(* buildTable and Apply.  buildTable's own error return, after which the   *)
(* statuses are written but nothing is retried (reconciler.go:85-91), is   *)
(* never taken: an accepted config has passed Validate, and nothing else   *)
(* in the translation fails.                                               *)
Apply(r, ok) ==
  /\ pc[r] = "apply"
  /\ failures' = IF ok THEN failures ELSE failures + 1
  /\ failures' <= MaxFailures
  /\ table' = [table EXCEPT ![r] = IF ok THEN Table(snap[r]) ELSE @]
  /\ applied' = [applied EXCEPT ![r] = ok]
  /\ pc' = [pc EXCEPT ![r] = "status"]
  /\ todo' = [todo EXCEPT ![r] = Order]
  /\ UNCHANGED <<api, cache, fresh, queued, snap, snapFresh, edits, restarts>>

(* Reconcile returns: its local state is gone. *)
Forget(r) ==
  /\ pc' = [pc EXCEPT ![r] = "idle"]
  /\ snap' = [snap EXCEPT ![r] = Initially]
  /\ snapFresh' = [snapFresh EXCEPT ![r] = {}]
  /\ todo' = [todo EXCEPT ![r] = << >>]
  /\ applied' = [applied EXCEPT ![r] = FALSE]

Return(r, requeue) ==
  /\ Forget(r)
  /\ queued' = [queued EXCEPT ![r] = @ \/ requeue]

(* Mutant: the update carries no resourceVersion. *)
Conflict_Never(r, k) == FALSE

(* The API server's answer to an update of what r read. *)
Conflict(r, k) == k \notin snapFresh[r]

(* Nothing to write for the next kind, or the route is gone. *)
SkipStatus(r) ==
  /\ pc[r] = "status" /\ todo[r] # << >>
  /\ LET k == Head(todo[r])
     IN  \/ DesiredStatus(snap[r], k, applied[r]) = snap[r][k].status
         \/ k = "route" /\ api[k].spec = None
  /\ todo' = [todo EXCEPT ![r] = Tail(@)]
  /\ UNCHANGED <<api, cache, fresh, queued, pc, snap, snapFresh, applied, table, budget>>

(* Status().Update for the next kind: stored, *)
WriteStatus(r) ==
  /\ pc[r] = "status" /\ todo[r] # << >>
  /\ LET k == Head(todo[r])
         want == DesiredStatus(snap[r], k, applied[r])
     IN  /\ want # snap[r][k].status
         /\ api[k].spec # None /\ ~Conflict(r, k)
         /\ Store(k, [api[k] EXCEPT !.status = want])
         /\ snapFresh' = [x \in Replica |-> snapFresh[x] \ {k}]
  /\ todo' = [todo EXCEPT ![r] = Tail(@)]
  /\ UNCHANGED <<cache, queued, pc, snap, applied, table, budget>>

(* Mutant: a refused update is retried with the object read before. *)
WriteFails_Retry(r) == pc[r] = "status" /\ UNCHANGED vars

(* or refused, which ends the rebuild and has it retried. *)
WriteFails(r) ==
  /\ pc[r] = "status" /\ todo[r] # << >>
  /\ LET k == Head(todo[r])
     IN  /\ DesiredStatus(snap[r], k, applied[r]) # snap[r][k].status
         /\ IF api[k].spec = None THEN k # "route" ELSE Conflict(r, k)
  /\ Return(r, TRUE)
  /\ UNCHANGED <<api, cache, fresh, table, budget>>

(* Mutant: a failed Apply is reported but not retried. *)
Finish_NoRequeue(r) ==
  /\ pc[r] = "status" /\ todo[r] = << >>
  /\ Return(r, FALSE)
  /\ UNCHANGED <<api, cache, fresh, table, budget>>

(* The end of Reconcile: an Apply error has it retried. *)
Finish(r) ==
  /\ pc[r] = "status" /\ todo[r] = << >>
  /\ Return(r, ~applied[r])
  /\ UNCHANGED <<api, cache, fresh, table, budget>>

(* The process ends and comes back with synced caches and an empty table.  *)
Restart(r) ==
  /\ restarts < MaxRestarts /\ restarts' = restarts + 1
  /\ cache' = [cache EXCEPT ![r] = api]
  /\ fresh' = [fresh EXCEPT ![r] = Kind]
  /\ queued' = [queued EXCEPT ![r] = TRUE]
  /\ Forget(r)
  /\ table' = [table EXCEPT ![r] = EmptyTable]
  /\ UNCHANGED <<api, edits, failures>>

Rebuild(r) ==
  \/ ReadSnapshot(r) \/ \E ok \in BOOLEAN : Apply(r, ok)
  \/ SkipStatus(r) \/ WriteStatus(r) \/ WriteFails(r) \/ Finish(r)

Next ==
  \/ \E s \in ConfigSpec \cup {None} : Edit("config", s)
  \/ \E s \in RouteSpec \cup {None} : Edit("route", s)
  \/ \E r \in Replica : Rebuild(r) \/ Restart(r) \/ \E k \in Kind : Deliver(r, k)

Spec == Init /\ [][Next]_vars

(* Every watch delivers and every queued rebuild runs. *)
FairSpec ==
  /\ Spec
  /\ \A r \in Replica : WF_vars(Rebuild(r)) /\ \A k \in Kind : WF_vars(Deliver(r, k))
-----------------------------------------------------------------------------
Quiet(r) == pc[r] = "idle" /\ ~queued[r] /\ fresh[r] = Kind

(* A replica with no event and no rebuild pending serves the table of the  *)
(* cluster as it is, and the class and the route say so: no event, failed  *)
(* Apply, conflicting write or restart is ever lost.                       *)
QuietIsCurrent ==
  \A r \in Replica : Quiet(r) =>
    /\ table[r] = Table(api)
    /\ \A k \in {"class", "route"} : api[k].status = DesiredStatus(api, k, TRUE)

(* A status is written only for the generation of the object that is stored*)
(* at that moment: a slow rebuild cannot label a newer spec with an older  *)
(* verdict, and a config is reported as applied only if a replica serves   *)
(* that spec.                                                              *)
NoStaleVerdictStep ==
  \A k \in Kind : api'[k].status # api[k].status /\ api'[k].status # Unwritten =>
    /\ api'[k].status.gen = api'[k].spec
    /\ api'[k].status.value = "Applied" => \E r \in Replica : table[r].config = api[k].spec
(* Every status write of writeStatuses is a NoStaleVerdictStep. *)
NoStaleVerdict == [][NoStaleVerdictStep]_vars

(* Once the users, the failures and the restarts stop, every replica       *)
(* becomes quiet and stays so.                                             *)
Converges == <>[](\A r \in Replica : Quiet(r))
=============================================================================
