--------------------------- MODULE MCRouteBinding ---------------------------
(* A small cluster: three Gateways, namespaces a and b, three routes. *)
EXTENDS RouteBinding

MCClasses ==
 [rsync |-> [ours |-> TRUE, config |-> "cfg"], other |-> [ours |-> TRUE, config |-> "cfg2"],
  bare |-> [ours |-> TRUE, config |-> NoConfig], foreign |-> [ours |-> FALSE, config |-> "cfg"]]

Listener(name, from, selector) ==
  [name |-> name, rsync |-> TRUE, kinds |-> TRUE, from |-> from, selector |-> selector]

(* cfg is sound, or has a negative floor; cfg2 has no cap of its own and   *)
(* a window that is less than a second.                                    *)
MCConfigs ==
  [cfg |-> {[NoSettings EXCEPT !.perIP = {2}, !.idle = {3}],
            [NoSettings EXCEPT !.minBytes = {-1}, !.grace = {1}]},
   cfg2 |-> {[NoSettings EXCEPT !.maxActive = {1}, !.minBytes = {5}, !.window = {1}]}]

MCGateways ==
  [g1 |-> [ns |-> "a", class |-> "rsync",
           listeners |-> <<Listener("all", "All", {}), [Listener("web", "All", {}) EXCEPT !.rsync = FALSE]>>],
   g2 |-> [ns |-> "a", class |-> "other",
           listeners |-> <<[Listener("http", "All", {}) EXCEPT !.kinds = FALSE], Listener("same", "Same", {}),
                           Listener("team", "Selector", {"team"})>>],
   g3 |-> [ns |-> "a", class |-> "foreign", listeners |-> <<Listener("all", "All", {})>>]]

Parent(g, section) == [gateway |-> g, section |-> section]
Backend(s) == [service |-> s, core |-> TRUE, port |-> TRUE, weight |-> 1]

MCRouteSpec ==
  [r1 |-> [ns |-> "a", labels |-> {}, modules |-> {"m", "n"},
           parents |-> <<Parent("g1", Unset), Parent("g1", "web"), Parent("g2", "http"), Parent("g2", "team")>>,
           backends |-> <<Backend("sa"), Backend("sb")>>],
   r2 |-> [ns |-> "b", labels |-> {"team"}, modules |-> {"n", "o"},
           parents |-> <<Parent("g1", "all"), Parent("g2", "team"), Parent("g2", "same")>>,
           backends |-> <<[Backend("sb") EXCEPT !.weight = 0], Backend("sa")>>],
   r3 |-> [ns |-> "a", labels |-> {}, modules |-> {"o"},
           parents |-> <<Parent("g1", Unset), Parent("g2", Unset), Parent("g3", Unset)>>,
           backends |-> <<[Backend("sa") EXCEPT !.port = FALSE], Backend("sa"),
                          [Backend("sb") EXCEPT !.core = FALSE]>>]]

MCGatewayRank == [g1 |-> 1, g2 |-> 2, g3 |-> 3]
MCRouteRank == [r1 |-> 1, r2 |-> 3, r3 |-> 2]
MCServices == [sa |-> "a", sb |-> "b"]
MCGrants == {[from |-> "a", to |-> "b", name |-> "sb"], [from |-> "b", to |-> "a", name |-> Unset]}

(* Routes a/x, b/y and, too long for the limit, a/z-z-z. *)
MCTokens == [r1 |-> <<"a", "x">>, r2 |-> <<"b", "y">>, r3 |-> <<"a", "z", "z", "z">>]
=============================================================================
