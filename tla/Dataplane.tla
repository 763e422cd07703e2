----------------------------- MODULE Dataplane -----------------------------
(***************************************************************************)
(* The gateway process around the embedded servers: internal/dataplane     *)
(* (New, Start, Apply, Drain, Close), the accept loops and connection      *)
(* count of pkg/server (Listen, runRsyncServer, handleConn, Drain) and the *)
(* main function that starts, runs and drains them.                        *)
(*                                                                         *)
(* Servers are numbered as in d.servers; the first owns the admin socket.  *)
(* A routing table is represented by its version: the controller pushes a  *)
(* newer one at every Apply.                                               *)
(***************************************************************************)
EXTENDS Naturals, FiniteSets

CONSTANTS N,            \* the number of bind addresses
          Conn,         \* client connections, each made at most once
          MaxApplies    \* bound on the number of Apply calls

ASSUME DataplaneAssumption ==
  N \in Nat \ {0} /\ MaxApplies \in Nat /\ IsFiniteSet(Conn)

Servers == 1..N
Admin == 0              \* the admin socket; i > 0 is the socket of server i

VARIABLES phase,        \* main: "new", "failed", "run", "drain", "exit"
          servers,      \* how many servers New has appended to d.servers
          open,         \* open sockets
          table,        \* table[i]: version of server i's routing table
          applying,     \* 0, or the server Apply is about to configure
          version,      \* the version being, or last, applied
          running,      \* servers whose accept loop runs
          errC,         \* a value is in d.errC
          draining,     \* the server Drain is waiting for
          expired,      \* the grace period is over
          remaining,    \* what Drain will report
          conn,         \* conn[c]: "none", "accepted", "active" or "closed"
          at,           \* at[c]: its server
          activeConnCount,
          missed        \* history: connections that Drain left uncounted

startVars == <<servers, open>>
applyVars == <<table, applying, version>>
runVars   == <<running, errC>>
drainVars == <<draining, expired, remaining, missed>>
connVars  == <<conn, at, activeConnCount>>
vars == <<phase, startVars, applyVars, runVars, drainVars, connVars>>

Init ==
  /\ phase = "new"
  /\ servers = 0 /\ open = {}
  /\ table = [i \in Servers |-> 0] /\ applying = 0 /\ version = 0
  /\ running = {} /\ errC = FALSE
  /\ draining = 1 /\ expired = FALSE /\ remaining = 0 /\ missed = {}
  /\ conn = [c \in Conn |-> "none"]
  /\ at = [c \in Conn |-> 1]
  /\ activeConnCount = [i \in Servers |-> 0]

(* The sockets of the servers in d.servers. *)
Owned == 1..servers \cup (IF servers > 0 THEN {Admin} ELSE {})

(* New: Listen for the first server, bindAddr for the others. *)
Bind ==
  /\ phase = "new" /\ servers < N
  /\ servers' = servers + 1
  /\ open' = open \cup {servers + 1} \cup (IF servers = 0 THEN {Admin} ELSE {})
  /\ UNCHANGED <<phase, applyVars, runVars, drainVars, connVars>>

(* A socket cannot be created, or its mode not be set.  In the latter case *)
(* bindAddr closes the socket; listenTCPOrUnix returns it with the error   *)
(* and Listen drops it.  New then closes the servers it has appended.      *)
BindFails(chmod) ==
  /\ phase = "new" /\ servers < N
  /\ phase' = "failed"
  /\ \E leak \in IF chmod /\ servers = 0 THEN {{1}, {Admin}} ELSE {{}} :
       open' = (open \ Owned) \cup leak
  /\ UNCHANGED <<servers, applyVars, runVars, drainVars, connVars>>

(* Start: Run for every server. *)
Start ==
  /\ phase = "new" /\ servers = N
  /\ phase' = "run"
  /\ running' = Servers
  /\ UNCHANGED <<startVars, applyVars, errC, drainVars, connVars>>

(* The controller calls Apply with a new table. *)
Apply ==
  /\ phase = "run" /\ applying = 0 /\ version < MaxApplies
  /\ version' = version + 1
  /\ applying' = 1
  /\ UNCHANGED <<phase, startVars, table, runVars, drainVars, connVars>>

(* A loop that carries on after a server refuses the table. *)
ApplyFails_GoOn ==
  /\ applying # 0
  /\ applying' = IF applying = N THEN 0 ELSE applying + 1
  /\ UNCHANGED <<phase, startVars, table, version, runVars, drainVars, connVars>>

(* ApplyConfig of one server fails (it resolves the upstream addresses, so *)
(* one server may fail where another did not): Apply returns at once.      *)
ApplyFails ==
  /\ applying # 0
  /\ applying' = 0
  /\ UNCHANGED <<phase, startVars, table, version, runVars, drainVars, connVars>>

ApplyOne ==
  /\ applying # 0
  /\ table' = [table EXCEPT ![applying] = version]
  /\ applying' = IF applying = N THEN 0 ELSE applying + 1
  /\ UNCHANGED <<phase, startVars, version, runVars, drainVars, connVars>>

(* listener.Accept returns a connection; `go handleConn' *)
Accept(c, i) ==
  /\ conn[c] = "none" /\ i \in running /\ i \in open /\ phase # "exit"
  /\ conn' = [conn EXCEPT ![c] = "accepted"]
  /\ at' = [at EXCEPT ![c] = i]
  /\ UNCHANGED <<phase, startVars, applyVars, runVars, drainVars, activeConnCount>>

(* handleConn's first statement *)
Count(c) ==
  /\ conn[c] = "accepted" /\ phase # "exit"
  /\ conn' = [conn EXCEPT ![c] = "active"]
  /\ activeConnCount' = [activeConnCount EXCEPT ![at[c]] = @ + 1]
  /\ UNCHANGED <<phase, startVars, applyVars, runVars, drainVars, at>>

(* relay returns or panics; defer activeConnCount.Add(-1) *)
Finish(c) ==
  /\ conn[c] = "active" /\ phase # "exit"
  /\ conn' = [conn EXCEPT ![c] = "closed"]
  /\ activeConnCount' = [activeConnCount EXCEPT ![at[c]] = @ - 1]
  /\ UNCHANGED <<phase, startVars, applyVars, runVars, drainVars, at>>

(* Accept fails for another reason than a closed listener: Run returns,    *)
(* and runOne reports the first such error.                                *)
AcceptFails(i) ==
  /\ i \in running /\ i \in open /\ phase \in {"run", "drain"}
  /\ running' = running \ {i}
  /\ errC' = TRUE
  /\ UNCHANGED <<phase, startVars, applyVars, drainVars, connVars>>

(* The admin server, which the first server's Run starts, fails: Serve     *)
(* closes its socket, Run returns, and the accept loop goes on.  The other *)
(* servers have a closed listener, whose error Run drops.                  *)
HTTPFails ==
  /\ 1 \in running /\ Admin \in open /\ phase \in {"run", "drain"}
  /\ open' = open \ {Admin}
  /\ errC' = TRUE
  /\ UNCHANGED <<phase, servers, applyVars, running, drainVars, connVars>>

(* Nobody reads errC. *)
Shutdown_SignalOnly(signal) ==
  /\ phase = "run" /\ applying = 0 /\ signal
  /\ phase' = "drain"
  /\ UNCHANGED <<startVars, applyVars, runVars, drainVars, connVars>>

(* A signal, the end of the manager, or a value in errC; the controller's  *)
(* worker has stopped when mgr.Start returns.                              *)
Shutdown(signal) ==
  /\ phase = "run" /\ applying = 0 /\ (signal \/ errC)
  /\ phase' = "drain"
  /\ UNCHANGED <<startVars, applyVars, runVars, drainVars, connVars>>

GracePeriodEnds ==
  /\ phase = "drain" /\ ~expired
  /\ expired' = TRUE
  /\ UNCHANGED <<phase, startVars, applyVars, runVars, draining, remaining, missed, connVars>>

(* Server.Drain closes the server's sockets ... *)
CloseListeners ==
  /\ phase = "drain" /\ draining <= N /\ draining \in open
  /\ open' = open \ ({draining} \cup IF draining = 1 THEN {Admin} ELSE {})
  /\ UNCHANGED <<phase, servers, applyVars, runVars, drainVars, connVars>>

(* ... polls the connection count ... *)
Drained == activeConnCount[draining] = 0

Uncounted(i) == {c \in Conn : conn[c] = "accepted" /\ at[c] = i}

(* A Drain that leaves closing the sockets to a deferred Close. *)
DrainReturns_StillOpen ==
  /\ phase = "drain" /\ draining <= N
  /\ Drained \/ expired
  /\ draining' = draining + 1
  /\ remaining' = IF activeConnCount[draining] > remaining
                  THEN activeConnCount[draining] ELSE remaining
  /\ missed' = missed \cup Uncounted(draining)
  /\ UNCHANGED <<phase, startVars, applyVars, runVars, expired, connVars>>

(* ... and returns when it is zero or the grace period is over. *)
DrainReturns ==
  /\ phase = "drain" /\ draining <= N /\ draining \notin open
  /\ Drained \/ expired
  /\ draining' = draining + 1
  /\ remaining' = IF activeConnCount[draining] > remaining
                  THEN activeConnCount[draining] ELSE remaining
  /\ missed' = missed \cup Uncounted(draining)
  /\ UNCHANGED <<phase, startVars, applyVars, runVars, expired, connVars>>

Exit ==
  /\ phase = "drain" /\ draining > N
  /\ phase' = "exit"
  /\ UNCHANGED <<startVars, applyVars, runVars, drainVars, connVars>>

Draining == CloseListeners \/ DrainReturns \/ Exit \/ GracePeriodEnds

Next ==
  \/ Bind \/ Start \/ Apply \/ ApplyFails \/ ApplyOne \/ HTTPFails \/ Draining
  \/ \E chmod, signal \in BOOLEAN : BindFails(chmod) \/ Shutdown(signal)
  \/ \E i \in Servers : AcceptFails(i) \/ \E c \in Conn : Accept(c, i)
  \/ \E c \in Conn : Count(c) \/ Finish(c)

Spec == Init /\ [][Next]_vars

(* Goroutines run, Apply ends, the timer fires, and an error stops the     *)
(* manager.  Connections need not finish.                                  *)
Fairness == WF_vars(Draining) /\ WF_vars(ApplyOne \/ ApplyFails) /\ WF_vars(Shutdown(FALSE))

FairSpec == Spec /\ Fairness
-----------------------------------------------------------------------------
(* A failed or partial Apply never lets a later server run ahead: server 1,*)
(* which reports the metrics, has the freshest table.                      *)
FirstIsFreshest == \A i, j \in Servers : i < j => table[i] >= table[j]

(* Drain waits for every active relay connection unless the grace period   *)
(* runs out (dataplane.go:169): the process does not exit under one.  This *)
(* is not so: handleConn counts its connection only when its goroutine     *)
(* runs, and Drain may find a count of zero between Accept and that.       *)
DrainWaitsForAll ==
  phase = "exit" /\ ~expired => \A c \in Conn : conn[c] # "active"

(* Within the grace period the process exits under no other connections    *)
(* than those: accepted, and not yet counted when Drain left their server. *)
(* A server that is drained later, while others are closed already, still  *)
(* accepts, and a connection that was counted is always waited for.        *)
OnlyUncountedAreCut ==
  phase = "exit" /\ ~expired =>
    \A c \in Conn : conn[c] \in {"accepted", "active"} => c \in missed

(* Shutdown takes at most the grace period: a signal, or a server that     *)
(* cannot accept any more, ends the process, whatever connections do, with *)
(* every socket closed, the admin one included.  So does New when it fails *)
(* for a server after the first one.                                       *)
ShutdownCompletes ==
  \/ phase = "drain"
  \/ phase = "run" /\ errC
  \/ phase = "failed" /\ servers > 0
  ~> phase \in {"exit", "failed"} /\ open = {}
=============================================================================
