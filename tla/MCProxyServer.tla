---------------------------- MODULE MCProxyServer ----------------------------
(* Small instances of ProxyServer. *)
EXTENDS ProxyServer

CONSTANTS c1, c2, c3, a, b, u1, u2, m

TwoAddresses == c1 :> a @@ c2 :> a @@ c3 :> b
OneAddress == c1 :> a @@ c2 :> a @@ c3 :> a
Hashes == a :> 0 @@ b :> 1
HashOfOne == a :> 0
Order == <<u1, u2>>
OrderOfOne == <<u1>>

Settings(modules, max, maxQueued, perIP) ==
  [modules |-> modules, max |-> max, maxQueued |-> maxQueued, perIP |-> perIP]

(* u1 comes and goes; u2 serves the same module, and its limits change. *)
OneOfTwoRemoved ==
  {u2 :> Settings({m}, 1, 1, 1), u1 :> Settings({m}, 1, 0, 0) @@ u2 :> Settings({m}, 2, 0, 2)}

(* u1 is removed and added again. *)
RemovedAndAdded == {<< >>, u1 :> Settings({m}, 1, 0, 0)}
=============================================================================
