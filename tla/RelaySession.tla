---------------------------- MODULE RelaySession ----------------------------
(***************************************************************************)
(* The relay phase of one session (pkg/server/server.go, relay): two copy  *)
(* goroutines, the watcher that enforces the time limits, and the main     *)
(* goroutine that selects on the first direction to end.  A peer may stop  *)
(* reading, close its sending half or reset its connection at any time.    *)
(* Which limit expires when is the subject of RelayWatcher; here a limit   *)
(* is due or not.                                                          *)
(***************************************************************************)
EXTENDS Naturals, FiniteSets

CONSTANT Enabled        \* the limits configured, among "idle", "max", "slow"

ASSUME EnabledAssumption == Enabled \subseteq {"idle", "max", "slow"}

Dirs == {"sent", "received"}      \* client to upstream, upstream to client
Conns == {"down", "up"}           \* downConn, upConn

Src(d) == IF d = "sent" THEN "down" ELSE "up"
Dst(d) == IF d = "sent" THEN "up" ELSE "down"

VARIABLES copier,      \* copier[d]: "read", "write" (blocked in it) or "done"
          peer,        \* peer[c]: "open", "eof" (sends no more) or "reset"
          closed,      \* closed[c]: the proxy closed its end
          abort,       \* connections whose close discards what is not sent yet
          due,         \* limits that have expired
          watcher,     \* "run" or "gone"
          timedOut,    \* idleTimedOut
          terminated,  \* how often a *Terminated counter was incremented
          main         \* "select", "await" (both channels) or "returned"

vars == <<copier, peer, closed, abort, due, watcher, timedOut, terminated, main>>

Init ==
  /\ copier = [d \in Dirs |-> "read"]
  /\ peer = [c \in Conns |-> "open"]
  /\ closed = [c \in Conns |-> FALSE] /\ abort = {}
  /\ due = {}
  /\ watcher = IF Enabled = {} THEN "gone" ELSE "run"
  /\ timedOut = FALSE
  /\ terminated = 0
  /\ main = "select"

(* The peer shuts down its sending half, or the connection breaks. *)
PeerLeaves(c, how) ==
  /\ peer[c] # how /\ peer[c] # "reset"
  /\ peer' = [peer EXCEPT ![c] = how]
  /\ UNCHANGED <<copier, closed, abort, due, watcher, timedOut, terminated, main>>

(* countingReader.Read returns data and stores lastActivity. *)
ReadData(d) ==
  /\ copier[d] = "read" /\ ~closed[Src(d)] /\ peer[Src(d)] = "open"
  /\ copier' = [copier EXCEPT ![d] = "write"]
  /\ \E caughtUp \in SUBSET {"slow"} : due' = due \ ({"idle"} \cup caughtUp)
  /\ UNCHANGED <<peer, closed, abort, watcher, timedOut, terminated, main>>

(* Read returns EOF or an error; io.Copy returns and the channel closes. *)
ReadEnds(d) ==
  /\ copier[d] = "read" /\ (closed[Src(d)] \/ peer[Src(d)] # "open")
  /\ copier' = [copier EXCEPT ![d] = "done"]
  /\ UNCHANGED <<peer, closed, abort, due, watcher, timedOut, terminated, main>>

(* The peer takes the data; nothing makes it do so. *)
WriteDone(d) ==
  /\ copier[d] = "write" /\ ~closed[Dst(d)] /\ peer[Dst(d)] # "reset"
  /\ copier' = [copier EXCEPT ![d] = "read"]
  /\ UNCHANGED <<peer, closed, abort, due, watcher, timedOut, terminated, main>>

WriteFails(d) ==
  /\ copier[d] = "write" /\ (closed[Dst(d)] \/ peer[Dst(d)] = "reset")
  /\ copier' = [copier EXCEPT ![d] = "done"]
  /\ UNCHANGED <<peer, closed, abort, due, watcher, timedOut, terminated, main>>

Expires(r) ==
  /\ r \in Enabled \ due
  /\ due' = due \cup {r}
  /\ UNCHANGED <<copier, peer, closed, abort, watcher, timedOut, terminated, main>>

(* Only the upstream side is closed when a limit is exceeded. *)
WatcherTick_UpOnly ==
  /\ watcher = "run" /\ due # {}
  /\ closed' = [closed EXCEPT !["up"] = TRUE]
  /\ timedOut' = TRUE
  /\ terminated' = terminated + 1
  /\ watcher' = "gone"
  /\ UNCHANGED <<copier, peer, abort, due, main>>

(* A tick finds an exceeded limit: one counter, both connections closed.   *)
(* The select may prefer a tick to a channel that is closed already.       *)
WatcherTick ==
  /\ watcher = "run" /\ due # {}
  /\ closed' = [c \in Conns |-> TRUE]
  /\ timedOut' = TRUE
  /\ terminated' = terminated + 1
  /\ watcher' = "gone"
  /\ UNCHANGED <<copier, peer, abort, due, main>>

(* The watcher sees sentClosed or receivedClosed. *)
WatcherLeaves ==
  /\ watcher = "run" /\ \E d \in Dirs : copier[d] = "done"
  /\ watcher' = "gone"
  /\ UNCHANGED <<copier, peer, closed, abort, due, timedOut, terminated, main>>

(* closeRead: with setLinger a later Close discards the data that the      *)
(* kernel has not sent yet; a unix socket, or a connection that is closed  *)
(* already, takes no notice.                                               *)
closeRead(c, setLinger) ==
  \E tcp \in BOOLEAN :
    abort' = IF setLinger /\ tcp /\ ~closed[c] THEN abort \cup {c} ELSE abort

(* Swapped: the connection that the ended direction read from is closed. *)
FirstEnds_WrongSide(d) ==
  /\ main = "select" /\ copier[d] = "done"
  /\ closeRead(Dst(d), d = "sent")
  /\ closed' = [closed EXCEPT ![Src(d)] = TRUE]
  /\ main' = "await"
  /\ UNCHANGED <<copier, peer, due, watcher, timedOut, terminated>>

(* main's select.  closeRead concerns the side whose reader has ended, and *)
(* sets the linger option of the upstream connection only; the close of    *)
(* the other connection ends the reads of the other direction.             *)
FirstEnds(d) ==
  /\ main = "select" /\ copier[d] = "done"
  /\ closeRead(Src(d), d = "received")
  /\ closed' = [closed EXCEPT ![Dst(d)] = TRUE]
  /\ main' = "await"
  /\ UNCHANGED <<copier, peer, due, watcher, timedOut, terminated>>

(* <-sentClosed, <-receivedClosed, the counters, the deferred closes *)
Returns ==
  /\ main = "await" /\ \A d \in Dirs : copier[d] = "done"
  /\ main' = "returned"
  /\ closed' = [c \in Conns |-> TRUE]
  /\ UNCHANGED <<copier, peer, abort, due, watcher, timedOut, terminated>>

(* Steps of the proxy's own goroutines that do not wait for a peer. *)
Proxy ==
  \/ \E d \in Dirs : ReadEnds(d) \/ WriteFails(d) \/ FirstEnds(d)
  \/ Returns

Next ==
  \/ Proxy \/ WatcherTick \/ WatcherLeaves
  \/ \E d \in Dirs : ReadData(d) \/ WriteDone(d)
  \/ \E r \in Enabled : Expires(r)
  \/ \E c \in Conns, how \in {"eof", "reset"} : PeerLeaves(c, how)

Spec == Init /\ [][Next]_vars

(* The goroutines run, the ticker ticks, and wall-clock time passes. *)
Fairness ==
  /\ WF_vars(Proxy)
  /\ WF_vars(WatcherTick \/ WatcherLeaves)
  /\ WF_vars(Expires("max"))

FairSpec == Spec /\ Fairness
-----------------------------------------------------------------------------
(* Until a direction has ended by itself or a limit is exceeded the proxy  *)
(* closes nothing, and before it returns a connection is closed only if    *)
(* nothing more will be written to it, and so that what was written is     *)
(* still delivered: nothing is cut off on its way to a peer whose own      *)
(* stream goes on.  An upstream whose stream has ended first may lose what *)
(* was written to it, because its close then discards unsent data.         *)
NoCutOff ==
  /\ ~timedOut /\ main # "returned" =>
       \A d \in Dirs : closed[Dst(d)] => copier[d] = "done" /\ Dst(d) \notin abort
  /\ \A d \in Dirs : Src(d) \in abort => copier[d] = "done"

(* Once the watcher has closed the connections, relay returns: both copy   *)
(* goroutines are unblocked wherever they are.                             *)
TerminationCompletes == timedOut ~> main = "returned"

(* server.go, on relay_max_duration: "a hard wall-clock cap on the entire  *)
(* relay phase; any connection still alive past this point is terminated". *)
RelayBounded == "max" \in due ~> main = "returned"
=============================================================================
