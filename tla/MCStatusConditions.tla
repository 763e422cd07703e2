------------------------- MODULE MCStatusConditions -------------------------
(* A small instance of StatusConditions. *)
EXTENDS StatusConditions

L(name, rsync, tls, from, port) ==
  [name |-> name, rsync |-> rsync, tls |-> tls, from |-> from, port |-> port]

(* One and two listeners; a listener changes its protocol, port, TLS or    *)
(* allowedRoutes, and is removed.                                          *)
Listeners ==
  { <<L("a", TRUE, FALSE, "Unset", 873), L("b", FALSE, FALSE, "All", 80)>>,
    <<L("a", FALSE, FALSE, "All", 80), L("b", TRUE, FALSE, "Same", 1873)>>,
    <<L("b", TRUE, TRUE, "All", 873)>>,
    <<L("a", TRUE, FALSE, "None", 873), L("b", TRUE, FALSE, "Selector", 873)>> }

Ref(g) == [gateway |-> g, section |-> ""]

(* A route has one parent or two that name different Gateways; the results *)
(* change, the backend disappears, and a parent is removed.                *)
Routes ==
  LET Res(g, why) == [ref |-> Ref(g), reason |-> why]
      R(results, backends) == [results |-> results, backends |-> backends]
  IN  { R(<<Res("g", "Accepted")>>, "ResolvedRefs"),
        R(<<Res("g", "Accepted")>>, "BackendNotFound"),
        R(<<Res("g", "Accepted"), Res("h", "NotAllowed")>>, "ResolvedRefs"),
        R(<<Res("g", "Conflicted"), Res("h", "NotAllowed")>>, "ResolvedRefs"),
        R(<<Res("g", "NotAllowed"), Res("h", "Accepted")>>, "BackendNotFound") }
=============================================================================
