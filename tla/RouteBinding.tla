---------------------------- MODULE RouteBinding ----------------------------
(***************************************************************************)
(* internal/gateway and internal/translate: which RsyncRoutes are bound to *)
(* which Gateways, who owns a module, which backends may be used, and the  *)
(* upstream table that results - as functions of the cluster's objects,    *)
(* which users create and delete in any order.                             *)
(*                                                                         *)
(* Objects are taken from constants: Gateways, RouteSpec and so on say     *)
(* what an object of that name contains when it exists.                    *)
(***************************************************************************)
EXTENDS Integers, Sequences, FiniteSetsExt, Functions, Settings

CONSTANTS
  Classes,      \* Classes[k]: [ours : BOOLEAN, config : a config or NoConfig]
  Configs,      \* Configs[c]: the specs a GatewayConfig of that name may have
  NoConfig,
  Gateways,     \* Gateways[g]: [ns, class, listeners]
  RouteSpec,    \* RouteSpec[r]: [ns, labels, modules, parents, backends]
  GatewayRank,  \* GatewayRank[g]: position of "namespace/name" in string order
  RouteRank,    \* RouteRank[r]: position of "namespace/name" in string order
  Services,     \* Services[s]: its namespace
  Grants,       \* possible grants: [from : namespace, to : namespace, name]
  Tokens,       \* Tokens[r]: "<ns>-<name>" after sanitizing, split at "-"
  NameLimit,    \* how many tokens fit in a name
  MaxClock      \* bound on creation timestamps

Route == DOMAIN RouteSpec
Gateway == DOMAIN Gateways
Unset == "unset"    \* absent sectionName; absent name in a grant

(* EffectiveModules never returns an empty list. *)
ASSUME BindingAssumption ==
  /\ IsFiniteSet(Route) /\ \A r \in Route : RouteSpec[r].modules # {}
  /\ RouteRank \in Injection(Route, Nat) /\ GatewayRank \in Injection(Gateway, Nat)
  /\ \A r \in Route : RouteSpec[r].backends \in Seq(Range(RouteSpec[r].backends))
  /\ \A c \in DOMAIN Configs : Configs[c] \subseteq GatewayConfigSpec
  /\ \A g \in Gateway : Classes[Gateways[g].class].config \in DOMAIN Configs \cup {NoConfig}

VARIABLES gateways,              \* the Gateways that exist
          configs,               \* configs[c]: the spec of the config, if it exists
          created,               \* created[r]: creation timestamp; 0 if absent
          services, grants, clock

vars == <<gateways, configs, created, services, grants, clock>>

routes == {r \in Route : created[r] > 0}
-----------------------------------------------------------------------------
(* ClaimClasses, resolveClassConfig: ours, with a config that is valid. *)
Accepted(k) ==
  /\ Classes[k].ours /\ Classes[k].config # NoConfig
  /\ \E s \in configs[Classes[k].config] : Validate(s)

ConfigOf(k) == CHOOSE s \in configs[Classes[k].config] : TRUE

rsyncListeners(g) == {l \in Range(Gateways[g].listeners) : l.rsync}

namespacesAllow(l, g, r) ==
  \/ l.from = "All"
  \/ l.from = "Same" /\ Gateways[g].ns = RouteSpec[r].ns
  \/ l.from = "Selector" /\ l.selector \subseteq RouteSpec[r].labels

listenerAllows(l, g, r) == l.kinds /\ namespacesAllow(l, g, r)

(* The listeners a parentRef may attach to: the named one or all of them. *)
Candidates(p) ==
  {l \in rsyncListeners(p.gateway) : p.section = Unset \/ l.name = p.section}

(* bindParent: the reason of the result. A parentRef of another group or   *)
(* kind is one whose gateway never exists.                                 *)
bindParent(r, p) ==
  IF \/ p.gateway \notin gateways
     \/ ~Accepted(Gateways[p.gateway].class)
     \/ Candidates(p) = {} THEN "NoMatchingParent"
  ELSE IF \E l \in Candidates(p) : listenerAllows(l, p.gateway, r) THEN "Accepted"
  ELSE "NotAllowedByListeners"

(* The routes bound to g before conflicts are resolved. *)
Bound(g) ==
  {r \in routes : \E p \in Range(RouteSpec[r].parents) :
                    p.gateway = g /\ bindParent(r, p) = "Accepted"}

(* Mutant: creation timestamps ignored. *)
Older_ByName(r, s) == RouteRank[r] < RouteRank[s]

(* By creation timestamp, ties broken by namespace/name. *)
Older(r, s) ==
  created[r] < created[s] \/ (created[r] = created[s] /\ RouteRank[r] < RouteRank[s])

(* A route joins the winners W unless one of them owns a module of its.    *)
Claims(W, r) ==
  IF \E w \in W : RouteSpec[w].modules \cap RouteSpec[r].modules # {} THEN W ELSE W \cup {r}

Youngest(S) == CHOOSE r \in S : \A s \in S \ {r} : Older(s, r)

(* resolveModuleConflicts on g: the routes make their claims in the order  *)
(* of their age; won[S]: the winners when those in S have done so.         *)
Winners(g) ==
  LET B == Bound(g)
      won[S \in SUBSET B] ==
        IF S = {} THEN {} ELSE Claims(won[S \ {Youngest(S)}], Youngest(S))
  IN  won[B]

(* Mutant: the conflict is written to the results of every Gateway. *)
Result_EveryGateway(r, p) ==
  IF bindParent(r, p) = "Accepted" /\ \E g \in gateways : r \in Bound(g) \ Winners(g)
  THEN "ModuleConflicted" ELSE bindParent(r, p)

(* BindRoutes: the reason for parentRef p of route r. *)
Result(r, p) ==
  IF bindParent(r, p) = "Accepted" /\ r \notin Winners(p.gateway)
  THEN "ModuleConflicted" ELSE bindParent(r, p)

Results(r) == [i \in DOMAIN RouteSpec[r].parents |-> Result(r, RouteSpec[r].parents[i])]
-----------------------------------------------------------------------------
(* Mutant: the two namespaces of the grant are swapped. *)
referenceGrantPermits_Swapped(r, s) ==
  \E x \in grants : x.to = RouteSpec[r].ns /\ x.from = Services[s] /\ x.name \in {Unset, s}

referenceGrantPermits(r, s) ==
  \E x \in grants : x.from = RouteSpec[r].ns /\ x.to = Services[s] /\ x.name \in {Unset, s}

NoFault == "none"

(* The reason ResolveBackends finds against one backendRef. *)
BackendFault(r, b) ==
  IF ~b.core THEN "InvalidKind"
  ELSE IF ~b.port \/ b.service \notin services THEN "BackendNotFound"
  ELSE IF Services[b.service] # RouteSpec[r].ns /\ ~referenceGrantPermits(r, b.service)
  THEN "RefNotPermitted" ELSE NoFault

Backends(r) == DOMAIN RouteSpec[r].backends
Fault(r, k) == BackendFault(r, RouteSpec[r].backends[k])

(* The backendRefs that become upstreams. *)
Usable(r) == {k \in Backends(r) : Fault(r, k) = NoFault /\ RouteSpec[r].backends[k].weight # 0}

(* Mutant: every backendRef overwrites the status. *)
ResolvedRefs_Last(r) ==
  LET last == Fault(r, Max(Backends(r)))
  IN  IF last = NoFault THEN "ResolvedRefs" ELSE last

(* The ResolvedRefs reason: the first fault. *)
ResolvedRefs(r) ==
  LET faulty == {k \in Backends(r) : Fault(r, k) # NoFault}
  IN  IF faulty = {} THEN "ResolvedRefs" ELSE Fault(r, Min(faulty))

(* boundGatewaysFor: where the route is accepted. *)
boundGatewaysFor(r) == {g \in gateways : r \in Winners(g)}

BoundRoutes == {r \in routes : boundGatewaysFor(r) # {}}

First(G) == CHOOSE g \in G : \A h \in G : GatewayRank[g] <= GatewayRank[h]

(* The config of the class of the smallest Gateway the route is bound to. *)
RouteConfig(r) == ConfigOf(Gateways[First(boundGatewaysFor(r))].class)

(* primaryConfig: that of the smallest Gateway whose class is accepted. *)
PrimaryConfig ==
  LET managed == {g \in gateways : Accepted(Gateways[g].class)}
  IN  IF managed = {} THEN NoSettings ELSE ConfigOf(Gateways[First(managed)].class)

(* "<ns>-<name>-<index>", cut off at the limit. *)
UpstreamName(r, i) ==
  LET raw == Append(Tokens[r], i)
  IN  IF Len(raw) > NameLimit THEN SubSeq(raw, 1, NameLimit) ELSE raw

(* The name of the upstream for backendRef k of r; the index in it counts  *)
(* the usable ones.                                                        *)
Index(U, k) == Cardinality({j \in U : j < k})
NameOf(r, k) == UpstreamName(r, Index(Usable(r), k))

(* What BuildServerConfig writes to cfg.Upstreams for it. *)
Entry(r, k) ==
  [name |-> NameOf(r, k), route |-> r, service |-> RouteSpec[r].backends[k].service,
   modules |-> RouteSpec[r].modules, limits |-> Limits(RouteConfig(r))]

Writes == UNION {{<<r, k>> : k \in Usable(r)} : r \in BoundRoutes}

(* Write v comes after w if the routes are handled in the order o. *)
Later(o, v, w) == o[v[1]] > o[w[1]] \/ (v[1] = w[1] /\ v[2] > w[2])

(* The table after the writes: the last one to a name stays. *)
Table(W, o) ==
  LET last == {w \in W : \A v \in W : Later(o, v, w) => NameOf(v[1], v[2]) # NameOf(w[1], w[2])}
  IN  {Entry(w[1], w[2]) : w \in last}

(* buildTable ranges over a Go map: any order of the routes is possible.   *)
Tables ==
  LET R == BoundRoutes
      W == Writes
  IN  {Table(W, o) : o \in Injection(R, 1..Cardinality(R))}
-----------------------------------------------------------------------------
Init ==
  /\ gateways = {} /\ configs = [c \in DOMAIN Configs |-> {}]
  /\ created = [r \in Route |-> 0]
  /\ services = {} /\ grants = {}
  /\ clock = 1

Toggle(S, x) == IF x \in S THEN S \ {x} ELSE S \cup {x}

CreateRoute(r) ==
  /\ created[r] = 0
  /\ created' = [created EXCEPT ![r] = clock]
  /\ UNCHANGED <<gateways, configs, services, grants, clock>>

DeleteRoute(r) ==
  /\ created[r] > 0
  /\ created' = [created EXCEPT ![r] = 0]
  /\ UNCHANGED <<gateways, configs, services, grants, clock>>

ToggleGateway(g) ==
  /\ gateways' = Toggle(gateways, g)
  /\ UNCHANGED <<configs, created, services, grants, clock>>

SetConfig(c, s) ==
  /\ configs' = [configs EXCEPT ![c] = s]
  /\ UNCHANGED <<gateways, created, services, grants, clock>>

ToggleService(s) ==
  /\ services' = Toggle(services, s)
  /\ UNCHANGED <<gateways, configs, created, grants, clock>>

ToggleGrant(x) ==
  /\ grants' = Toggle(grants, x)
  /\ UNCHANGED <<gateways, configs, created, services, clock>>

Advance ==
  /\ clock < MaxClock
  /\ clock' = clock + 1
  /\ UNCHANGED <<gateways, configs, created, services, grants>>

Next ==
  \/ \E r \in Route : CreateRoute(r) \/ DeleteRoute(r)
  \/ \E g \in Gateway : ToggleGateway(g)
  \/ \E c \in DOMAIN Configs : \E s \in Optional(Configs[c]) : SetConfig(c, s)
  \/ \E s \in DOMAIN Services : ToggleService(s)
  \/ \E x \in Grants : ToggleGrant(x)
  \/ Advance

Spec == Init /\ [][Next]_vars
-----------------------------------------------------------------------------
(* A route loses a binding to a conflict exactly if an older route bound to*)
(* the same Gateway that keeps its own binding has one of its modules: the *)
(* losers block nobody, and of two winners no module is shared.            *)
ConflictJustified ==
  \A r \in routes : \A i \in DOMAIN RouteSpec[r].parents :
    LET p == RouteSpec[r].parents[i]
    IN  bindParent(r, p) = "Accepted" =>
          (Results(r)[i] = "ModuleConflicted" <=>
             \E s \in Winners(p.gateway) :
               Older(s, r) /\ RouteSpec[s].modules \cap RouteSpec[r].modules # {})

(* Whatever the order of the map, every upstream belongs to a route that is*)
(* accepted somewhere, and its Service exists and is in the route's own    *)
(* namespace or covered by a ReferenceGrant.                               *)
TableIsEntitled ==
  \A T \in Tables : \A e \in T :
    /\ "Accepted" \in Range(Results(e.route))
    /\ e.service \in services
    /\ \/ Services[e.service] = RouteSpec[e.route].ns
       \/ \E x \in grants : /\ x.from = RouteSpec[e.route].ns /\ x.to = Services[e.service]
                            /\ x.name \in {Unset, e.service}

(* No two entries of the table ask for the same name.                      *)
NamesDiffer ==
  \A v, w \in Writes : NameOf(v[1], v[2]) = NameOf(w[1], w[2]) => v = w

(* A bound route that reports ResolvedRefs=True has, whatever the order of *)
(* the map, an upstream for each of its backends of positive weight.  This *)
(* needs NamesDiffer, which is so in every state of MCRouteBinding.        *)
HealthyIsServed ==
  LET healthy == {r \in BoundRoutes : ResolvedRefs(r) = "ResolvedRefs"}
  IN  \A T \in Tables, r \in healthy : \A b \in Range(RouteSpec[r].backends) :
        b.weight # 0 => \E e \in T : e.route = r /\ e.service = b.service

(* What is set in an accepted config takes effect.  loadConfig passes the  *)
(* proxy settings, and refuses an upstream of the table only for an address*)
(* that does not resolve.  The throughput floor is watched, after a grace  *)
(* period, exactly if the primary config asks for one.  A cap per address  *)
(* set in the config of the smallest Gateway a route is bound to is the one*)
(* in force for its upstreams, whatever the primary config says.  This is  *)
(* silent on a cap that is 0 or unset: loadConfig gives such an upstream   *)
(* the cap of the primary config.                                          *)
AcceptedTakesEffect ==
  LET proxy == ProxySettings(PrimaryConfig)
      floor == LoadedFloor(proxy)
  IN  /\ ProxyLoads(proxy)
      /\ throughputEnabled(floor) <=> \E b \in PrimaryConfig.minBytes : b > 0
      /\ floor.grace > 0
      /\ \A T \in Tables : \A e \in T :
           LET g == First(boundGatewaysFor(e.route))
           IN  /\ \A resolves \in BOOLEAN :
                    UpstreamLoads(e.limits, e.modules, resolves) <=> resolves
               /\ \A s \in configs[Classes[Gateways[g].class].config] :
                    \A n \in s.perIP \ {0} : effectivePerIP(proxy, e.limits) = n

(* A new route takes no binding from one with an earlier timestamp, or of  *)
(* the same one and a smaller namespace/name.  Timestamps count seconds:   *)
(* from a route of the same second and a larger name it may take one.      *)
NewcomersDisturbNobodyStep ==
  \A r \in Route : created[r] = 0 /\ created'[r] > 0 =>
    \A s \in routes :
      \/ created[s] < created'[r]
      \/ created[s] = created'[r] /\ RouteRank[s] < RouteRank[r]
      => Results(s)' = Results(s)
(* Every creation of a route is a NewcomersDisturbNobodyStep. *)
NewcomersDisturbNobody == [][NewcomersDisturbNobodyStep]_vars
=============================================================================
