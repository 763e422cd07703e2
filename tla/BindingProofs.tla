--------------------------- MODULE BindingProofs ---------------------------
(***************************************************************************)
(* Proofs about Settings and RouteBinding, for any cluster.                *)
(*                                                                         *)
(* The claims of the routes are handled one by one from the oldest to the  *)
(* youngest.  Settled(W, S) says what comes of it, without the order: W    *)
(* are the routes of S that meet no older one of W with a module of        *)
(* theirs.  There is exactly one such W for every finite S, and handling   *)
(* the routes of S in turn computes it (WinnersSettled).                   *)
(***************************************************************************)
EXTENDS RouteBinding, SequenceTheorems, FiniteSetTheorems, NaturalsInduction,
        WellFoundedInduction, TLAPS

(* Every non-empty set of naturals has a least element. *)
LEMMA LeastNat ==
  ASSUME NEW T, T \subseteq Nat, T # {}
  PROVE  \E m \in T : \A k \in T : m <= k
<1>1. PICK m \in T : \A k \in T : ~(<<k, m>> \in OpToRel(<, Nat))
  BY NatLessThanWellFounded, WFMin, Zenon
<1>2. ASSUME NEW k \in T PROVE m <= k
  <2>1. m \in Nat /\ k \in Nat
    OBVIOUS
  <2>2. ~(k < m)
    BY <1>1, <2>1, Zenon DEF OpToRel
  <2> QED
    BY <2>1, <2>2
<1> QED
  BY <1>2

(* Every non-empty set of subsets of a finite set has a minimal one. *)
LEMMA LeastSubset ==
  ASSUME NEW B, IsFiniteSet(B), NEW T, T \subseteq SUBSET B, T # {}
  PROVE  \E S \in T : \A y \in S : S \ {y} \notin T
<1>1. IsWellFoundedOn(StrictSubsetOrdering(B), SUBSET B)
  BY FS_StrictSubsetOrderingWellFounded, FS_FiniteSubsetsOfFinite, Zenon
<1>2. PICK S \in T : \A U \in T : ~(<<U, S>> \in StrictSubsetOrdering(B))
  BY <1>1, WFMin
<1>3. ASSUME NEW y \in S, S \ {y} \in T PROVE FALSE
  <2>1. <<S \ {y}, S>> \in StrictSubsetOrdering(B)
    BY DEF StrictSubsetOrdering
  <2> QED
    BY <1>2, <1>3, <2>1, Zenon
<1> QED
  BY <1>3
-----------------------------------------------------------------------------
(* The settings. *)

(* A field that passed the check of Validate is dereferenced to a natural  *)
(* number: 0 (derefInt32's value for nil) or the number it holds.          *)
LEMMA DerefIsNat ==
  ASSUME NEW p \in Optional(Int \cup {Malformed}), NonNegative(p)
  PROVE  Deref(p) \in Nat /\ (Deref(p) = 0 \/ Deref(p) \in p)
<1>1. CASE p = {}
  BY <1>1 DEF Deref
<1>2. CASE p # {}
  <2>1. PICK v \in Int \cup {Malformed} : p = {v}
    <3>1. PICK v \in p : p \subseteq Int \cup {Malformed} /\ \A w \in p : w = v
      BY <1>2, Zenon DEF Optional
    <3> QED
      BY <3>1, Zenon
  <2>2. Deref(p) = v
    BY <2>1 DEF Deref
  <2>3. v \in Nat
    BY <2>1 DEF NonNegative
  <2> QED
    BY <2>1, <2>2, <2>3
<1> QED
  BY <1>1, <1>2

(* DurationSecs of a checked duration is a number of whole seconds.        *)
LEMMA DurationIsNat ==
  ASSUME NEW d \in Optional(Int \cup {Malformed}), NonNegative(d)
  PROVE  DurationSecs(d) \in Nat
<1>1. Deref(d) \in Nat
  BY DerefIsNat
<1>2. \A n \in Nat, k \in Nat \ {0} : n \div k \in Nat
  OBVIOUS
<1> QED
  BY <1>1, <1>2, SettingsAssumption DEF DurationSecs

(* For every GatewayConfig that Validate accepts, whatever its values:     *)
(* loadConfig passes the proxy settings made from it, and an upstream with *)
(* the limits made from it, unless the address does not resolve; the floor *)
(* in force is watched, after a grace period of at least a second, exactly *)
(* if minBytes is set to a positive number.                                *)
THEOREM ValidatedTakesEffect ==
  ASSUME NEW s \in GatewayConfigSpec, Validate(s), NEW modules, modules # {}
  PROVE  /\ ProxyLoads(ProxySettings(s))
         /\ \A resolves \in BOOLEAN : UpstreamLoads(Limits(s), modules, resolves) <=> resolves
         /\ throughputEnabled(LoadedFloor(ProxySettings(s))) <=> \E b \in s.minBytes : b > 0
         /\ LoadedFloor(ProxySettings(s)).grace > 0
<1>1. Optional(Int) \subseteq Optional(Int \cup {Malformed})
  BY DEF Optional
<1>2. /\ Deref(s.perIP) \in Nat
      /\ Deref(s.minBytes) \in Nat
      /\ Deref(s.minBytes) = 0 \/ Deref(s.minBytes) \in s.minBytes
  <2>1. s.perIP \in Optional(Int) /\ s.minBytes \in Optional(Int)
    BY DEF GatewayConfigSpec
  <2>2. NonNegative(s.perIP) /\ NonNegative(s.minBytes)
    BY DEF Validate
  <2> QED
    BY <1>1, <2>1, <2>2, DerefIsNat, Zenon
<1>3. /\ DurationSecs(s.idle) \in Nat /\ DurationSecs(s.max) \in Nat
      /\ DurationSecs(s.keepAlive) \in Nat /\ DurationSecs(s.dial) \in Nat
      /\ DurationSecs(s.window) \in Nat /\ DurationSecs(s.grace) \in Nat
  BY DurationIsNat DEF GatewayConfigSpec, Validate
<1>4. ProxyLoads(ProxySettings(s))
  BY <1>2, <1>3 DEF ProxyLoads, ProxySettings, OrDefault
<1>5. \A resolves \in BOOLEAN : UpstreamLoads(Limits(s), modules, resolves) <=> resolves
  BY <1>2 DEF UpstreamLoads, Limits
<1>6. Deref(s.minBytes) > 0 <=> \E b \in s.minBytes : b > 0
  <2>1. ASSUME NEW b \in s.minBytes PROVE Deref(s.minBytes) = b
    BY <2>1, SMTT(30) DEF GatewayConfigSpec, Optional, Deref
  <2> QED
    BY <1>2, <2>1
<1>7. throughputEnabled(LoadedFloor(ProxySettings(s))) <=> Deref(s.minBytes) > 0
  BY <1>2, <1>3 DEF throughputEnabled, LoadedFloor, ProxySettings, OrDefault
<1>8. LoadedFloor(ProxySettings(s)).grace > 0
  BY <1>2, <1>3 DEF LoadedFloor, ProxySettings, OrDefault
<1> QED
  BY <1>4, <1>5, <1>6, <1>7, <1>8
-----------------------------------------------------------------------------
(* The objects of the cluster. *)
BindingTypes ==
  /\ gateways \subseteq Gateway
  /\ created \in [Route -> Nat]
  /\ configs \in [DOMAIN Configs -> SUBSET GatewayConfigSpec]
  /\ \A c \in DOMAIN Configs : \A s, t \in configs[c] : s = t
  /\ clock \in Nat \ {0}

(* They keep their types. *)
LEMMA TypesInvariance == Spec => []BindingTypes
<1>1. Init => BindingTypes
  BY DEF Init, BindingTypes
<1>2. BindingTypes /\ [Next]_vars => BindingTypes'
  <2> SUFFICES ASSUME BindingTypes, [Next]_vars PROVE BindingTypes'
    OBVIOUS
  <2> USE DEF BindingTypes
  <2>1. ASSUME NEW r \in Route, CreateRoute(r) \/ DeleteRoute(r) PROVE BindingTypes'
    BY <2>1 DEF CreateRoute, DeleteRoute
  <2>2. ASSUME NEW g \in Gateway, ToggleGateway(g) PROVE BindingTypes'
    BY <2>2 DEF ToggleGateway, Toggle
  <2>3. ASSUME NEW c \in DOMAIN Configs, NEW s \in Optional(Configs[c]), SetConfig(c, s) PROVE BindingTypes'
    <3>1. s \in SUBSET GatewayConfigSpec /\ \A v, w \in s : v = w
      BY BindingAssumption DEF Optional
    <3>2. configs' = [configs EXCEPT ![c] = s] /\ UNCHANGED <<gateways, created, clock>>
      BY <2>3 DEF SetConfig
    <3>3. configs' \in [DOMAIN Configs -> SUBSET GatewayConfigSpec]
      BY <3>1, <3>2
    <3>4. ASSUME NEW d \in DOMAIN Configs PROVE \A v, w \in configs'[d] : v = w
      <4>1. CASE d = c
        BY <3>1, <3>2, <4>1
      <4>2. CASE d # c
        BY <3>2, <4>2
      <4> QED
        BY <4>1, <4>2
    <3> QED
      BY <3>2, <3>3, <3>4
  <2>4. ASSUME NEW s, ToggleService(s) \/ ToggleGrant(s) PROVE BindingTypes'
    BY <2>4 DEF ToggleService, ToggleGrant
  <2>5. CASE Advance
    BY <2>5 DEF Advance
  <2>6. CASE UNCHANGED vars
    BY <2>6 DEF vars
  <2> HIDE DEF BindingTypes
  <2> QED
    BY <2>1, <2>2, <2>3, <2>4, <2>5, <2>6 DEF Next
<1> QED
  BY <1>1, <1>2, PTL DEF Spec

(* Age is a strict total order. *)
LEMMA AgeOrder ==
  ASSUME BindingTypes
  PROVE  /\ \A r \in Route : ~Older(r, r)
         /\ \A r, s \in Route : Older(r, s) => ~Older(s, r)
         /\ \A r, s \in Route : r # s => Older(r, s) \/ Older(s, r)
         /\ \A r, s, t \in Route : Older(r, s) /\ Older(s, t) => Older(r, t)
<1>1. RouteRank \in [Route -> Nat] /\ \A r, s \in Route : RouteRank[r] = RouteRank[s] => r = s
  BY BindingAssumption DEF Injection, IsInjective
<1> QED
  BY <1>1 DEF BindingTypes, Older

(* Every set of routes has an oldest one, *)
LEMMA OldestLemma ==
  ASSUME BindingTypes, NEW S, S \subseteq Route, S # {}
  PROVE  \E r \in S : \A s \in S : ~Older(s, r)
<1>1. RouteRank \in [Route -> Nat]
  BY BindingAssumption DEF Injection
<1>2. PICK t \in {created[r] : r \in S} : \A k \in {created[r] : r \in S} : t <= k
  <2>1. {created[r] : r \in S} \subseteq Nat /\ {created[r] : r \in S} # {}
    BY DEF BindingTypes
  <2> QED
    BY <2>1, LeastNat, Zenon
<1> DEFINE first == {r \in S : created[r] = t}
<1>3. PICK n \in {RouteRank[r] : r \in first} : \A k \in {RouteRank[r] : r \in first} : n <= k
  <2>1. {RouteRank[r] : r \in first} \subseteq Nat /\ {RouteRank[r] : r \in first} # {}
    BY <1>1
  <2> QED
    BY <2>1, LeastNat, Zenon
<1>4. PICK r \in first : RouteRank[r] = n
  OBVIOUS
<1>5. ASSUME NEW s \in S PROVE ~Older(s, r)
  <2>1. created[s] \in Nat /\ created[r] = t /\ t \in Nat /\ t <= created[s]
    BY <1>2, <1>4 DEF BindingTypes
  <2>2. created[s] = t => RouteRank[r] <= RouteRank[s] /\ RouteRank[r] \in Nat /\ RouteRank[s] \in Nat
    BY <1>1, <1>3, <1>4
  <2> QED
    BY <2>1, <2>2 DEF Older
<1> QED
  BY <1>5

(* and every finite one a youngest. *)
LEMMA YoungestLemma ==
  ASSUME BindingTypes, NEW S, S \subseteq Route, S # {}
  PROVE  Youngest(S) \in S /\ \A s \in S \ {Youngest(S)} : Older(s, Youngest(S))
<1> DEFINE Has(U) == \E y \in U : \A s \in U \ {y} : Older(s, y)
           T == {U \in SUBSET Route : U # {} /\ ~Has(U)}
<1>1. ASSUME T # {} PROVE FALSE
  <2>1. IsFiniteSet(Route) /\ T \subseteq SUBSET Route
    BY BindingAssumption
  <2>2. PICK U \in T : \A y \in U : U \ {y} \notin T
    <3> HIDE DEF T
    <3> QED
      BY <1>1, <2>1, LeastSubset, Zenon
  <2>3. PICK r \in U : U \subseteq Route
    OBVIOUS
  <2>4. CASE U \ {r} = {}
    BY <2>4
  <2>5. CASE U \ {r} # {}
    <3>1. Has(U \ {r})
      BY <2>2, <2>5
    <3>2. PICK y \in U \ {r} : \A s \in (U \ {r}) \ {y} : Older(s, y)
      BY <3>1
    <3>3. CASE Older(r, y)
      <4>1. \A s \in U \ {y} : Older(s, y)
        BY <3>2, <3>3
      <4> QED
        BY <4>1
    <3>4. CASE Older(y, r)
      <4>1. \A s \in U \ {r} : Older(s, r)
        BY <2>3, <3>2, <3>4, AgeOrder
      <4> QED
        BY <4>1
    <3> QED
      BY <2>3, <3>3, <3>4, AgeOrder
  <2> QED
    BY <2>4, <2>5
<1>2. Has(S)
  BY <1>1
<1> QED
  BY <1>2 DEF Youngest
-----------------------------------------------------------------------------
(* Two routes claim a module in common. *)
Overlap(r, s) == RouteSpec[r].modules \cap RouteSpec[s].modules # {}

(* An older route of W has one of r's modules. *)
Blocked(W, r) == \E w \in W : Older(w, r) /\ Overlap(w, r)

(* W are the winners among S: the routes no older winner blocks. *)
Settled(W, S) == W \subseteq S /\ \A r \in S : r \in W <=> ~Blocked(W, r)

(* The youngest route makes its claims when the others have settled. *)
LEMMA ClaimSettles ==
  ASSUME BindingTypes, NEW S, S \subseteq Route, S # {}, NEW W, Settled(W, S \ {Youngest(S)})
  PROVE  Settled(Claims(W, Youngest(S)), S)
<1>1. PICK y : y = Youngest(S) /\ y \in S /\ \A s \in S \ {y} : Older(s, y)
  BY YoungestLemma
<1>2. /\ W \subseteq S \ {y}
      /\ \A r \in S \ {y} : r \in W <=> ~Blocked(W, r)
  BY <1>1 DEF Settled
<1>3. Blocked(W, y) <=> \E w \in W : Overlap(w, y)
  BY <1>1, <1>2 DEF Blocked
<1>4. Claims(W, y) = IF Blocked(W, y) THEN W ELSE W \cup {y}
  BY <1>3 DEF Claims, Overlap
<1>5. CASE Blocked(W, y)
  <2>1. \A r \in S : r \in W <=> ~Blocked(W, r)
    BY <1>2, <1>5
  <2> QED
    BY <1>1, <1>2, <1>4, <1>5, <2>1 DEF Settled
<1>6. CASE ~Blocked(W, y)
  <2>1. PICK V : V = W \cup {y}
    BY Zenon
  <2>2. ASSUME NEW r \in S PROVE Blocked(V, r) <=> Blocked(W, r)
    <3>1. ~Older(y, r)
      BY <1>1, AgeOrder
    <3> QED
      BY <2>1, <3>1 DEF Blocked
  <2>3. \A r \in S : r \in V <=> ~Blocked(V, r)
    BY <1>2, <1>6, <2>1, <2>2
  <2> QED
    BY <1>1, <1>2, <1>4, <1>6, <2>1, <2>3 DEF Settled
<1> QED
  BY <1>5, <1>6

(* Any set of routes can be settled, *)
LEMMA SettledExists ==
  ASSUME BindingTypes, NEW S, S \subseteq Route
  PROVE  \E W : Settled(W, S)
<1> DEFINE T == {U \in SUBSET Route : ~\E W : Settled(W, U)}
<1>1. ASSUME T # {} PROVE FALSE
  <2>1. PICK U \in T : \A y \in U : U \ {y} \notin T
    <3>1. IsFiniteSet(Route) /\ T \subseteq SUBSET Route
      BY BindingAssumption
    <3> HIDE DEF T
    <3> QED
      BY <1>1, <3>1, LeastSubset, Zenon
  <2>2. U # {}
    <3>1. Settled({}, {})
      BY DEF Settled
    <3> QED
      BY <3>1
  <2>3. Youngest(U) \in U
    BY <2>2, YoungestLemma
  <2>4. PICK W : Settled(W, U \ {Youngest(U)})
    BY <2>1, <2>3
  <2>5. Settled(Claims(W, Youngest(U)), U)
    BY <2>2, <2>4, ClaimSettles
  <2> QED
    BY <2>5
<1> QED
  BY <1>1

(* in one way only. *)
LEMMA SettledUnique ==
  ASSUME BindingTypes, NEW S, S \subseteq Route, NEW V, NEW W, Settled(V, S), Settled(W, S)
  PROVE  V = W
<1> DEFINE D == {r \in S : ~(r \in V <=> r \in W)}
<1>1. ASSUME D # {} PROVE FALSE
  <2>1. D \subseteq Route
    OBVIOUS
  <2>2. PICK r \in D : \A s \in D : ~Older(s, r)
    <3> HIDE DEF D
    <3> QED
      BY <1>1, <2>1, OldestLemma
  <2>3. Blocked(V, r) <=> Blocked(W, r)
    BY <2>2 DEF Blocked, Settled
  <2> QED
    BY <2>3 DEF Settled
<1>2. \A r \in S : r \in V <=> r \in W
  BY <1>1
<1> QED
  BY <1>2 DEF Settled

(* The routes that keep their binding to g after all claims are made are   *)
(* those that meet no older one among them with a module of theirs.        *)
LEMMA WinnersSettled ==
  ASSUME BindingTypes, NEW g
  PROVE  Settled(Winners(g), Bound(g))
<1> DEFINE Rec(B, f) == f = [S \in SUBSET B |-> IF S = {} THEN {}
                                                ELSE Claims(f[S \ {Youngest(S)}], Youngest(S))]
           won(B) == CHOOSE f : Rec(B, f)
<1>1. PICK B : B = Bound(g)
  OBVIOUS
<1>2. B \subseteq Route /\ \A S \in SUBSET B : S \subseteq Route
  BY <1>1 DEF Bound, routes
<1>3. \E f : Rec(B, f)
  <2>1. PICK f : f = [S \in SUBSET B |-> CHOOSE W : Settled(W, S)]
    BY Zenon
  <2>2. ASSUME NEW S \in SUBSET B PROVE Settled(f[S], S)
    <3>1. f[S] = CHOOSE W : Settled(W, S)
      BY <2>1
    <3> QED
      BY <1>2, <3>1, SettledExists
  <2>3. ASSUME NEW S \in SUBSET B
        PROVE  f[S] = IF S = {} THEN {} ELSE Claims(f[S \ {Youngest(S)}], Youngest(S))
    <3>1. CASE S = {}
      BY <2>2, <3>1 DEF Settled
    <3>2. CASE S # {}
      <4>1. S \ {Youngest(S)} \in SUBSET B
        OBVIOUS
      <4>2. Settled(f[S \ {Youngest(S)}], S \ {Youngest(S)})
        BY <2>2, <4>1
      <4>3. Settled(Claims(f[S \ {Youngest(S)}], Youngest(S)), S)
        BY <1>2, <3>2, <4>2, ClaimSettles
      <4> QED
        BY <1>2, <2>2, <3>2, <4>3, SettledUnique
    <3> QED
      BY <3>1, <3>2
  <2>4. Rec(B, f)
    BY <2>1, <2>3, Zenon
  <2> QED
    BY <2>4
<1>4. Rec(B, won(B))
  <2> HIDE DEF Rec
  <2> QED
    BY <1>3
<1>5. Winners(g) = won(Bound(g))[Bound(g)]
  BY Zenon DEF Winners
<1>6. PICK f : f = won(B) /\ Rec(B, f)
  <2> HIDE DEF Rec, won
  <2> QED
    BY <1>4
<1>7. \A S \in SUBSET B : f[S] = IF S = {} THEN {} ELSE Claims(f[S \ {Youngest(S)}], Youngest(S))
  BY <1>6, Zenon
<1> DEFINE T == {S \in SUBSET B : ~Settled(f[S], S)}
<1> HIDE DEF Rec, won
<1>8. ASSUME T # {} PROVE FALSE
  <2>1. PICK S \in T : \A y \in S : S \ {y} \notin T
    <3>1. IsFiniteSet(Route) /\ T \subseteq SUBSET Route
      BY <1>2, BindingAssumption
    <3> HIDE DEF T
    <3> QED
      BY <1>8, <3>1, LeastSubset, SMTT(30)
  <2>2. S # {}
    BY <1>7, SMTT(30) DEF Settled
  <2>3. Youngest(S) \in S
    BY <1>2, <2>2, YoungestLemma
  <2>4. S \ {Youngest(S)} \in SUBSET B
    BY <2>1
  <2>5. Settled(f[S \ {Youngest(S)}], S \ {Youngest(S)})
    BY <2>1, <2>3, <2>4
  <2>6. Settled(Claims(f[S \ {Youngest(S)}], Youngest(S)), S)
    BY <1>2, <2>2, <2>5, ClaimSettles
  <2> QED
    BY <1>7, <2>2, <2>6
<1>9. Settled(f[B], B)
  BY <1>8
<1> QED
  BY <1>1, <1>5, <1>6, <1>9
-----------------------------------------------------------------------------
(* A winner is bound, and reported as accepted. *)
LEMMA WinnerIsAccepted ==
  ASSUME BindingTypes, NEW g, NEW r, r \in Winners(g)
  PROVE  /\ r \in routes /\ r \in Route
         /\ g \in gateways /\ Accepted(Gateways[g].class)
         /\ "Accepted" \in Range(Results(r))
<1>1. r \in Bound(g)
  BY WinnersSettled DEF Settled
<1>2. r \in routes /\ r \in Route
  BY <1>1 DEF Bound, routes
<1>3. PICK i \in DOMAIN RouteSpec[r].parents :
        /\ RouteSpec[r].parents[i].gateway = g
        /\ bindParent(r, RouteSpec[r].parents[i]) = "Accepted"
  BY <1>1 DEF Bound, Range
<1>4. g \in gateways /\ Accepted(Gateways[g].class)
  BY <1>3 DEF bindParent
<1>5. Result(r, RouteSpec[r].parents[i]) = "Accepted"
  BY <1>3 DEF Result
<1>6. i \in DOMAIN Results(r) /\ Results(r)[i] = "Accepted"
  BY <1>5 DEF Results
<1> QED
  BY <1>2, <1>4, <1>6 DEF Range

(* resolveModuleConflicts takes a binding away exactly where an older route*)
(* that keeps its own has one of the modules, on any cluster, at any time. *)
THEOREM ConflictsAreJustified == Spec => []ConflictJustified
<1>1. BindingTypes => ConflictJustified
  <2> SUFFICES ASSUME BindingTypes, NEW r \in routes, NEW i \in DOMAIN RouteSpec[r].parents,
                      NEW p, p = RouteSpec[r].parents[i], bindParent(r, p) = "Accepted"
               PROVE  Results(r)[i] = "ModuleConflicted" <=> Blocked(Winners(p.gateway), r)
    BY DEF ConflictJustified, Blocked, Overlap
  <2>1. r \in Bound(p.gateway)
    BY DEF Bound, Range
  <2>2. r \in Winners(p.gateway) <=> ~Blocked(Winners(p.gateway), r)
    BY <2>1, WinnersSettled DEF Settled
  <2>3. Results(r)[i] = Result(r, p)
    BY DEF Results
  <2> QED
    BY <2>2, <2>3 DEF Result
<1> QED
  BY <1>1, TypesInvariance, PTL

(* Every entry of a table comes from a usable backendRef of a bound route. *)
LEMMA EntryOfWrite ==
  ASSUME NEW T \in Tables, NEW e \in T
  PROVE  \E r \in BoundRoutes : \E k \in Usable(r) : e = Entry(r, k)
<1>1. PICK o : T = Table(Writes, o)
  BY DEF Tables
<1>2. PICK w \in Writes : e = Entry(w[1], w[2])
  BY <1>1 DEF Table
<1>3. PICK r \in BoundRoutes : \E k \in Usable(r) : w = <<r, k>>
  BY <1>2 DEF Writes
<1>4. PICK k \in Usable(r) : w = <<r, k>>
  BY <1>3
<1> QED
  BY <1>2, <1>4

(* Whatever the order in which buildTable meets the routes, every upstream *)
(* is backed by an accepted route, an existing Service and, across         *)
(* namespaces, a ReferenceGrant.                                           *)
THEOREM TablesAreEntitled == Spec => []TableIsEntitled
<1>1. BindingTypes => TableIsEntitled
  <2> SUFFICES ASSUME BindingTypes, NEW T \in Tables, NEW e \in T
               PROVE  /\ "Accepted" \in Range(Results(e.route))
                      /\ e.service \in services
                      /\ \/ Services[e.service] = RouteSpec[e.route].ns
                         \/ referenceGrantPermits(e.route, e.service)
    BY DEF TableIsEntitled, referenceGrantPermits
  <2>1. PICK r \in BoundRoutes : \E k \in Usable(r) : e = Entry(r, k)
    BY EntryOfWrite
  <2>2. PICK k \in Usable(r) : e = Entry(r, k)
    BY <2>1
  <2> DEFINE b == RouteSpec[r].backends[k]
  <2>3. e.route = r /\ e.service = b.service
    BY <2>2 DEF Entry
  <2>4. "Accepted" \in Range(Results(r))
    BY WinnerIsAccepted DEF BoundRoutes, boundGatewaysFor
  <2>5. BackendFault(r, b) = NoFault
    BY DEF Usable, Fault
  <2>6. /\ b.service \in services
        /\ Services[b.service] = RouteSpec[r].ns \/ referenceGrantPermits(r, b.service)
    BY <2>5 DEF BackendFault, NoFault
  <2> HIDE DEF b
  <2> QED
    BY <2>3, <2>4, <2>6
<1> QED
  BY <1>1, TypesInvariance, PTL
-----------------------------------------------------------------------------
(* What ResolveBackends finds against a backendRef is never the reason it  *)
(* reports when it finds nothing.                                          *)
LEMMA HealthyHasNoFault ==
  ASSUME NEW r, ResolvedRefs(r) = "ResolvedRefs", NEW k \in Backends(r)
  PROVE  Fault(r, k) = NoFault
<1>1. \A j : Fault(r, j) # "ResolvedRefs"
  BY DEF Fault, BackendFault, NoFault
<1>2. {j \in Backends(r) : Fault(r, j) # NoFault} = {}
  BY <1>1 DEF ResolvedRefs
<1> QED
  BY <1>2

(* Where no two entries ask for the same name, a bound route that reports  *)
(* ResolvedRefs has all its upstreams, in whatever order they are written. *)
LEMMA ServedWhereNamesDiffer ==
  ASSUME BindingTypes, NamesDiffer
  PROVE  HealthyIsServed
<1>1. ASSUME NEW T \in Tables, NEW r \in BoundRoutes, ResolvedRefs(r) = "ResolvedRefs",
             NEW k \in Backends(r), RouteSpec[r].backends[k].weight # 0
      PROVE  Entry(r, k) \in T
  <2>1. r \in Route /\ k \in Nat
    <3>1. r \in Route /\ RouteSpec[r].backends \in Seq(Range(RouteSpec[r].backends))
      BY BindingAssumption DEF BoundRoutes, routes
    <3> QED
      BY <3>1 DEF Backends
  <2>2. <<r, k>> \in Writes
    BY <1>1, HealthyHasNoFault DEF Writes, Usable
  <2>3. PICK o \in Injection(BoundRoutes, 1..Cardinality(BoundRoutes)) : T = Table(Writes, o)
    BY DEF Tables
  <2>4. o[r] \in Nat
    <3>1. BoundRoutes \subseteq Route
      BY DEF BoundRoutes, routes
    <3>2. Cardinality(BoundRoutes) \in Nat
      BY <3>1, BindingAssumption, FS_Subset, FS_CardinalityType
    <3> QED
      BY <2>3, <3>2 DEF Injection
  <2>5. ASSUME NEW v \in Writes, Later(o, v, <<r, k>>)
        PROVE  NameOf(v[1], v[2]) # NameOf(r, k)
    <3>1. v # <<r, k>>
      BY <2>1, <2>4, <2>5 DEF Later
    <3> QED
      BY <2>2, <3>1 DEF NamesDiffer
  <2> QED
    BY <2>2, <2>3, <2>5 DEF Table
<1>2. \A r, k : Entry(r, k).route = r /\ Entry(r, k).service = RouteSpec[r].backends[k].service
  BY DEF Entry
<1> QED
  BY <1>1, <1>2 DEF HealthyIsServed, Range, Backends

(* On any cluster, whenever the names in the table differ. *)
THEOREM HealthyServedWhereNamesDiffer == Spec => [](NamesDiffer => HealthyIsServed)
<1>1. BindingTypes => (NamesDiffer => HealthyIsServed)
  BY ServedWhereNamesDiffer
<1> QED
  BY <1>1, TypesInvariance, PTL
-----------------------------------------------------------------------------
(* The first of a set of Gateways in string order is one of them. *)
LEMMA FirstIsOne ==
  ASSUME NEW G, G \subseteq Gateway, G # {}
  PROVE  First(G) \in G
<1>1. GatewayRank \in [Gateway -> Nat]
  BY BindingAssumption DEF Injection
<1>2. {GatewayRank[g] : g \in G} \subseteq Nat /\ {GatewayRank[g] : g \in G} # {}
  BY <1>1
<1>3. PICK n \in {GatewayRank[g] : g \in G} : \A k \in {GatewayRank[g] : g \in G} : n <= k
  BY <1>2, LeastNat, Zenon
<1>4. \E g \in G : \A h \in G : GatewayRank[g] <= GatewayRank[h]
  BY <1>3
<1> QED
  BY <1>4 DEF First

(* The config of an accepted class is the one that passed the validation,  *)
(* and there is no other of its name.                                      *)
LEMMA AcceptedConfig ==
  ASSUME BindingTypes, NEW g \in Gateway, Accepted(Gateways[g].class)
  PROVE  LET k == Gateways[g].class
         IN  /\ configs[Classes[k].config] = {ConfigOf(k)}
             /\ ConfigOf(k) \in GatewayConfigSpec
             /\ Validate(ConfigOf(k))
<1>1. PICK k : k = Gateways[g].class
  OBVIOUS
<1>2. Classes[k].config \in DOMAIN Configs
  BY <1>1, BindingAssumption DEF Accepted
<1>3. PICK s \in configs[Classes[k].config] : Validate(s)
  BY <1>1 DEF Accepted
<1>4. ConfigOf(k) \in configs[Classes[k].config]
  BY <1>3 DEF ConfigOf
<1>5. /\ s \in GatewayConfigSpec
      /\ \A t \in configs[Classes[k].config] : t = s
  BY <1>2, <1>3, SMTT(30) DEF BindingTypes
<1> QED
  BY <1>1, <1>3, <1>4, <1>5

(* A config in which nothing is set is one that passes. *)
LEMMA NoSettingsPass == NoSettings \in GatewayConfigSpec /\ Validate(NoSettings)
<1>1. {} \in Optional(Int) /\ {} \in Optional(Int \cup {Malformed}) /\ NonNegative({})
  BY DEF Optional, NonNegative
<1> QED
  BY <1>1, Zenon DEF NoSettings, GatewayConfigSpec, Validate

(* primaryConfig returns one that passes, or nothing. *)
LEMMA PrimaryPasses ==
  ASSUME BindingTypes
  PROVE  PrimaryConfig \in GatewayConfigSpec /\ Validate(PrimaryConfig)
<1> DEFINE managed == {g \in gateways : Accepted(Gateways[g].class)}
<1>1. CASE managed = {}
  <2>1. PrimaryConfig = NoSettings
    BY <1>1 DEF PrimaryConfig
  <2> QED
    BY <2>1, NoSettingsPass
<1>2. CASE managed # {}
  <2>1. managed \subseteq Gateway
    BY DEF BindingTypes
  <2>2. First(managed) \in managed
    <3> HIDE DEF managed
    <3> QED
      BY <1>2, <2>1, FirstIsOne
  <2>3. PrimaryConfig = ConfigOf(Gateways[First(managed)].class)
    BY <1>2 DEF PrimaryConfig
  <2>4. First(managed) \in Gateway /\ Accepted(Gateways[First(managed)].class)
    BY <2>1, <2>2
  <2> HIDE DEF managed
  <2> QED
    BY <2>3, <2>4, AcceptedConfig
<1> QED
  BY <1>1, <1>2

(* The cap a checked config sets is in force, whatever that of the proxy.  *)
LEMMA CapInForce ==
  ASSUME NEW s \in GatewayConfigSpec, Validate(s), NEW proxy, NEW n \in s.perIP \ {0}
  PROVE  effectivePerIP(proxy, Limits(s)) = n
<1>1. Deref(s.perIP) = n
  BY DEF GatewayConfigSpec, Optional, Deref
<1> QED
  BY <1>1 DEF effectivePerIP, Limits, OrDefault

(* What is set in a GatewayConfig that is reported as accepted passes      *)
(* loadConfig but for the addresses, and the floor and the caps it sets are*)
(* those the data plane works with, on any cluster, for any settings.      *)
THEOREM AcceptedHasEffect == Spec => []AcceptedTakesEffect
<1>1. BindingTypes => AcceptedTakesEffect
  <2> SUFFICES ASSUME BindingTypes PROVE AcceptedTakesEffect
    OBVIOUS
  <2>1. PICK P, proxy : P = PrimaryConfig /\ proxy = ProxySettings(P)
    OBVIOUS
  <2>2. /\ ProxyLoads(proxy)
        /\ throughputEnabled(LoadedFloor(proxy)) <=> \E b \in P.minBytes : b > 0
        /\ LoadedFloor(proxy).grace > 0
    <3>1. P \in GatewayConfigSpec /\ Validate(P) /\ {0} # {}
      BY <2>1, PrimaryPasses, SMTT(30)
    <3> QED
      BY <2>1, <3>1, ValidatedTakesEffect
  <2>3. ASSUME NEW T \in Tables, NEW e \in T
        PROVE  LET g == First(boundGatewaysFor(e.route))
               IN  /\ \A resolves \in BOOLEAN :
                        UpstreamLoads(e.limits, e.modules, resolves) <=> resolves
                   /\ \A s \in configs[Classes[Gateways[g].class].config] :
                        \A n \in s.perIP \ {0} : effectivePerIP(proxy, e.limits) = n
    <3>1. PICK r \in BoundRoutes : \E k \in Usable(r) : e = Entry(r, k)
      BY EntryOfWrite
    <3>2. e.route = r /\ e.modules = RouteSpec[r].modules /\ e.limits = Limits(RouteConfig(r))
      BY <3>1, SMTT(30) DEF Entry
    <3>3. r \in Route /\ e.modules # {}
      BY <3>2, BindingAssumption DEF BoundRoutes, routes
    <3>4. PICK g : g = First(boundGatewaysFor(r))
      OBVIOUS
    <3>5. g \in boundGatewaysFor(r) /\ g \in Gateway
      <4>1. boundGatewaysFor(r) \subseteq Gateway /\ boundGatewaysFor(r) # {}
        BY DEF boundGatewaysFor, BoundRoutes, BindingTypes
      <4> QED
        BY <3>4, <4>1, FirstIsOne
    <3>6. Accepted(Gateways[g].class)
      BY <3>5, WinnerIsAccepted DEF boundGatewaysFor
    <3>7. PICK s : s = RouteConfig(r)
      OBVIOUS
    <3>8. /\ s \in GatewayConfigSpec /\ Validate(s)
          /\ configs[Classes[Gateways[g].class].config] = {s}
      BY <3>4, <3>5, <3>6, <3>7, AcceptedConfig, SMTT(30) DEF RouteConfig
    <3>9. \A resolves \in BOOLEAN : UpstreamLoads(Limits(s), e.modules, resolves) <=> resolves
      BY <3>3, <3>8, ValidatedTakesEffect, SMTT(30)
    <3>10. \A n \in s.perIP \ {0} : effectivePerIP(proxy, Limits(s)) = n
      BY <3>8, CapInForce
    <3> QED
      BY <3>2, <3>4, <3>7, <3>8, <3>9, <3>10
  <2> QED
    BY <2>1, <2>2, <2>3 DEF AcceptedTakesEffect
<1> QED
  BY <1>1, TypesInvariance, PTL
-----------------------------------------------------------------------------
(* On every gateway the winners are the unblocked routes bound to it. *)
GatewaysSettled == \A g : Settled(Winners(g), Bound(g))

(* WinnersSettled, of every Gateway. *)
LEMMA AllSettled == BindingTypes => GatewaysSettled
  BY WinnersSettled DEF GatewaysSettled

(* When a route is created, every route of an earlier timestamp, or of the *)
(* same one and a smaller name, keeps the outcome of its claims.           *)
LEMMA OlderKeepTheirs ==
  ASSUME BindingTypes, BindingTypes', NEW r \in Route, CreateRoute(r), NEW g,
         NEW s \in routes,
         created[s] < clock \/ (created[s] = clock /\ RouteRank[s] < RouteRank[r])
  PROVE  s \in Winners(g) <=> s \in Winners(g)'
<1>1. /\ created[r] = 0 /\ created \in [Route -> Nat] /\ clock \in Nat
      /\ created' = [created EXCEPT ![r] = clock]
      /\ UNCHANGED <<gateways, configs>>
      /\ RouteRank \in [Route -> Nat]
  BY BindingAssumption DEF CreateRoute, BindingTypes, Injection
<1>2. PICK V, W, A, B : V = Winners(g) /\ W = Winners(g)' /\ A = Bound(g) /\ B = Bound(g)'
  OBVIOUS
<1> DEFINE early == {x \in Route :
             /\ created[x] > 0
             /\ created[x] < clock \/ (created[x] = clock /\ RouteRank[x] < RouteRank[r])}
           D == {x \in early : ~(x \in V <=> x \in W)}
<1>3. \A x \in early : x \in A <=> x \in B
  <2>1. \A x, p : bindParent(x, p)' = bindParent(x, p)
    BY <1>1 DEF bindParent, Accepted, Candidates, listenerAllows, namespacesAllow, rsyncListeners
  <2>2. \A x \in early : x \in routes /\ x \in routes'
    BY <1>1 DEF routes
  <2> QED
    BY <1>2, <2>1, <2>2 DEF Bound
<1>4. /\ A \subseteq Route /\ B \subseteq Route
      /\ \A x \in B : created'[x] > 0
      /\ \A x \in A : created[x] > 0
  BY <1>2 DEF Bound, routes
<1>5. /\ V \subseteq A /\ \A x \in A : x \in V <=> ~\E w \in V : Older(w, x) /\ Overlap(w, x)
      /\ W \subseteq B /\ \A x \in B : x \in W <=> ~\E w \in W : Older(w, x)' /\ Overlap(w, x)
  <2>1. GatewaysSettled /\ GatewaysSettled'
    BY AllSettled, PTL
  <2> QED
    BY <1>2, <2>1 DEF GatewaysSettled, Settled, Blocked, Overlap
<1>6. ASSUME NEW x \in early, NEW y \in Route, Older(y, x)' PROVE Older(y, x) /\ (created'[y] > 0 => y \in early)
  BY <1>1, <1>6 DEF Older
<1>7. ASSUME NEW x \in early, NEW y \in Route, created[y] > 0, Older(y, x) PROVE y \in early /\ Older(y, x)'
  BY <1>1, <1>7 DEF Older
<1>8. ASSUME D # {} PROVE FALSE
  <2>1. D \subseteq Route
    OBVIOUS
  <2>2. PICK x \in D : \A y \in D : ~Older(y, x)
    <3> HIDE DEF D
    <3> QED
      BY <1>8, <2>1, OldestLemma
  <2>3. x \in A /\ x \in B
    BY <1>3, <1>5
  <2>4. ASSUME NEW y \in V, Older(y, x), Overlap(y, x) PROVE \E w \in W : Older(w, x)' /\ Overlap(w, x)
    <3>1. y \in early /\ Older(y, x)'
      BY <1>4, <1>5, <1>7, <2>4
    <3>2. y \in W
      BY <2>2, <2>4, <3>1
    <3> QED
      BY <2>4, <3>1, <3>2
  <2>5. ASSUME NEW y \in W, Older(y, x)', Overlap(y, x) PROVE \E w \in V : Older(w, x) /\ Overlap(w, x)
    <3>1. y \in early /\ Older(y, x)
      BY <1>4, <1>5, <1>6, <2>5
    <3>2. y \in V
      BY <2>2, <2>5, <3>1
    <3> QED
      BY <2>5, <3>1, <3>2, SMTT(30)
  <2> QED
    BY <1>5, <2>3, <2>4, <2>5
<1>9. s \in early
  BY <1>1 DEF routes
<1> QED
  BY <1>2, <1>8, <1>9

(* Creating a route takes no binding from a route before it in the order   *)
(* of resolveModuleConflicts, and changes no result of it, whatever the    *)
(* modules of the two.                                                     *)
THEOREM NobodyIsDisturbed == Spec => NewcomersDisturbNobody
<1>1. BindingTypes /\ BindingTypes' /\ [Next]_vars => [NewcomersDisturbNobodyStep]_vars
  <2> SUFFICES ASSUME BindingTypes, BindingTypes', [Next]_vars,
                      NEW r \in Route, created[r] = 0, created'[r] > 0,
                      NEW s \in routes,
                      \/ created[s] < created'[r]
                      \/ created[s] = created'[r] /\ RouteRank[s] < RouteRank[r]
               PROVE  Results(s)' = Results(s)
    BY DEF NewcomersDisturbNobodyStep
  <2>1. CreateRoute(r)
    <3>1. PICK q \in Route : CreateRoute(q) \/ DeleteRoute(q)
      BY DEF Next, vars, ToggleGateway, SetConfig, ToggleService, ToggleGrant, Advance
    <3>2. q = r /\ CreateRoute(q)
      BY <3>1 DEF CreateRoute, DeleteRoute, BindingTypes
    <3> QED
      BY <3>2
  <2>2. /\ created[s] < clock \/ (created[s] = clock /\ RouteRank[s] < RouteRank[r])
        /\ UNCHANGED <<gateways, configs>>
    BY <2>1, SMTT(30) DEF CreateRoute, BindingTypes
  <2>3. \A p : bindParent(s, p)' = bindParent(s, p)
    BY <2>2 DEF bindParent, Accepted, Candidates, listenerAllows, namespacesAllow, rsyncListeners
  <2>4. \A g : s \in Winners(g) <=> s \in Winners(g)'
    BY <2>1, <2>2, OlderKeepTheirs
  <2>5. \A p : Result(s, p)' = Result(s, p)
    BY <2>3, <2>4 DEF Result
  <2> QED
    BY <2>5 DEF Results
<1> QED
  BY <1>1, TypesInvariance, PTL DEF Spec, NewcomersDisturbNobody
=============================================================================
