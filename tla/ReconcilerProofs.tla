-------------------------- MODULE ReconcilerProofs --------------------------
(***************************************************************************)
(* No event is lost and no verdict is stale, for any number of replicas,   *)
(* specs, edits, failures and restarts.  RInv says what each replica knows *)
(* (View): which parts of its cache and snapshot are current, and that a   *)
(* replica without a pending rebuild has acted on its whole cache.         *)
(***************************************************************************)
EXTENDS Reconciler, SequenceTheorems, TLAPS

Specs == ConfigSpec \cup RouteSpec \cup {"none", "class", "gateway"}
Values == {"none", "True", "False", "Programmed", "Accepted", "NoMatchingParent",
           "Applied", "Invalid"}
Object == [spec : Specs, status : [gen : Specs, value : Values]]
Objects == [Kind -> Object]

TypeInv ==
  /\ api \in Objects
  /\ cache \in [Replica -> Objects] /\ snap \in [Replica -> Objects]
  /\ fresh \in [Replica -> SUBSET Kind] /\ snapFresh \in [Replica -> SUBSET Kind]
  /\ queued \in [Replica -> BOOLEAN] /\ applied \in [Replica -> BOOLEAN]
  /\ pc \in [Replica -> {"idle", "apply", "status"}]
  /\ todo \in [Replica -> Seq(Kind)]
  /\ table \in [Replica -> [config : Specs, route : Specs]]

(* The status of kind k that o wants is the one it has. *)
Settled(o, k) == o[k].status = DesiredStatus(o, k, TRUE)

(* Kind k is not among those that remain to be written. *)
Done(td, k) == \A i \in DOMAIN td : td[i] # k

(* What one replica knows: a is the API server's state, c the cache, f the *)
(* kinds that are fresh in it, p where its rebuild is, sn the snapshot of  *)
(* the rebuild with the fresh kinds sf, td and ap what remains to be       *)
(* written and whether Apply succeeded, qd whether a rebuild is queued, tb *)
(* the table that is served.                                               *)
View(a, c, f, qd, p, sn, sf, td, ap, tb) ==
  /\ \A k \in f : c[k] = a[k]
  /\ \A k \in sf : sn[k] = a[k]
  /\ p = "status" /\ ap => tb = Table(sn)
  /\ ~qd /\ p # "idle" => c = sn
  /\ ~qd /\ p = "status" =>
       \A k \in {"class", "route"} : k \in f /\ Done(td, k) => Settled(sn, k)
  /\ ~qd /\ p = "idle" =>
       tb = Table(c) /\ \A k \in {"class", "route"} : k \in f => Settled(c, k)

ViewOf(r) == View(api, cache[r], fresh[r], queued[r], pc[r], snap[r], snapFresh[r], todo[r],
                  applied[r], table[r])

ViewInv == \A r \in Replica : ViewOf(r)

RInv == TypeInv /\ ViewInv

(* A status that is wanted is well-formed, and belongs to the spec it was  *)
(* computed from unless it is the one that was there.                      *)
LEMMA DesiredLemma ==
  ASSUME NEW o \in Objects, NEW k \in Kind, NEW ok \in BOOLEAN
  PROVE  LET d == DesiredStatus(o, k, ok)
         IN  /\ d \in [gen : Specs, value : Values]
             /\ d # o[k].status =>
                  /\ d.gen = o[k].spec
                  /\ d.value = "Applied" => k = "config" /\ ok /\ Accepted(o)
<1>1. o[k] \in Object /\ o[k].spec \in Specs /\ o[k].status \in [gen : Specs, value : Values]
  BY DEF Objects, Object
<1>2. CASE k = "class"
  BY <1>1, <1>2 DEF DesiredStatus, ClassCondition, Condition, Values
<1>3. CASE k = "gateway"
  BY <1>1, <1>3 DEF DesiredStatus, BuildGatewayStatus, Condition, Values
<1>4. CASE k = "route"
  BY <1>1, <1>4 DEF DesiredStatus, BuildRouteStatus, Condition, Values
<1>5. CASE k = "config"
  BY <1>1, <1>5 DEF DesiredStatus, ConfigVerdict, Condition, Values
<1> QED
  BY <1>2, <1>3, <1>4, <1>5 DEF Kind

(* What is wanted of the class and the route does not depend on Apply. *)
LEMMA VerdictLemma ==
  ASSUME NEW o, NEW k \in {"class", "route"}, NEW ok
  PROVE  DesiredStatus(o, k, ok) = DesiredStatus(o, k, TRUE)
<1>1. CASE k = "class"
  BY <1>1 DEF DesiredStatus
<1>2. CASE k = "route"
  BY <1>2 DEF DesiredStatus
<1> QED
  BY <1>1, <1>2, Zenon

(* A new version of kind k leaves what is known of the other kinds. *)
LEMMA ViewStore ==
  ASSUME NEW a, NEW c, NEW f \in SUBSET Kind, NEW qd, NEW p, NEW sn, NEW sf \in SUBSET Kind,
         NEW td, NEW ap, NEW tb, View(a, c, f, qd, p, sn, sf, td, ap, tb),
         NEW k, NEW b, \A j \in Kind \ {k} : b[j] = a[j]
  PROVE  View(b, c, f \ {k}, qd, p, sn, sf \ {k}, td, ap, tb)
BY DEF View

(* The next kind is dealt with: its status is as wanted, or written, which *)
(* leaves the cache behind.                                                *)
LEMMA ViewNext ==
  ASSUME NEW a, NEW c, NEW f, NEW qd, NEW sn, NEW sf, NEW td \in Seq(Kind), td # << >>,
         NEW ap, NEW tb, View(a, c, f, qd, "status", sn, sf, td, ap, tb),
         ~qd /\ Head(td) \in {"class", "route"} /\ Head(td) \in f => Settled(sn, Head(td))
  PROVE  View(a, c, f, qd, "status", sn, sf, Tail(td), ap, tb)
<1>1. ASSUME NEW k, Done(Tail(td), k) PROVE k = Head(td) \/ Done(td, k)
  <2> SUFFICES ASSUME k # Head(td), NEW i \in 1..Len(td) PROVE td[i] # k
    BY DEF Done
  <2>1. CASE i = 1
    BY <2>1
  <2>2. CASE i # 1
    <3>1. i - 1 \in 1..Len(Tail(td)) /\ Tail(td)[i - 1] = td[i]
      BY <2>2
    <3>2. DOMAIN Tail(td) = 1..Len(Tail(td))
      OBVIOUS
    <3> QED
      BY <1>1, <3>1, <3>2, Zenon DEF Done
  <2> QED
    BY <2>1, <2>2
<1> QED
  BY <1>1 DEF View

(* Every replica starts with synced caches and a rebuild queued. *)
LEMMA InitRInv == Init => RInv
<1> SUFFICES ASSUME Init PROVE RInv
  OBVIOUS
<1>1. Initially \in Objects
  BY DEF Initially, Objects, Object, Specs, Values, Kind, Unwritten, None
<1>2. TypeInv
  <2>1. EmptyTable \in [config : Specs, route : Specs]
    BY DEF EmptyTable, Specs, None
  <2> QED
    BY <1>1, <2>1 DEF Init, TypeInv
<1>3. ASSUME NEW r \in Replica PROVE ViewOf(r)
  BY DEF Init, ViewOf, View
<1> QED
  BY <1>2, <1>3 DEF RInv, ViewInv

(* A user's edit. *)
LEMMA EditRInv ==
  ASSUME RInv, NEW k \in {"config", "route"}, NEW s \in Specs, Edit(k, s)
  PROVE  RInv'
<1>1. k \in Kind /\ api \in Objects
  BY DEF Kind, RInv, TypeInv
<1>2. /\ fresh' = [r \in Replica |-> fresh[r] \ {k}]
      /\ snapFresh' = [r \in Replica |-> snapFresh[r] \ {k}]
      /\ UNCHANGED <<cache, queued, pc, snap, todo, applied, table>>
  BY DEF Edit, Store
<1>3. api' \in Objects /\ \A j \in Kind \ {k} : api'[j] = api[j]
  <2>1. PICK o : o = [spec |-> s, status |-> IF None \in {s, api[k].spec} THEN Unwritten
                                             ELSE api[k].status]
    BY Zenon
  <2>2. Unwritten \in [gen : Specs, value : Values] /\ api[k].status \in [gen : Specs, value : Values]
    BY <1>1 DEF Unwritten, None, Specs, Values, Objects, Object
  <2>3. o \in Object
    BY <2>1, <2>2 DEF Object
  <2>4. api' = [api EXCEPT ![k] = o]
    BY <2>1 DEF Edit, Store
  <2> QED
    BY <1>1, <2>3, <2>4 DEF Objects
<1>4. TypeInv'
  BY <1>2, <1>3 DEF RInv, TypeInv
<1>5. ASSUME NEW x \in Replica PROVE ViewOf(x)'
  <2>1. /\ ViewOf(x) /\ fresh[x] \in SUBSET Kind /\ snapFresh[x] \in SUBSET Kind
    BY DEF RInv, TypeInv, ViewInv
  <2>2. View(api', cache[x], fresh[x] \ {k}, queued[x], pc[x], snap[x], snapFresh[x] \ {k},
             todo[x], applied[x], table[x])
    BY <1>3, <2>1, ViewStore, Zenon DEF ViewOf
  <2> QED
    BY <1>2, <2>2 DEF ViewOf
<1> QED
  BY <1>4, <1>5 DEF RInv, ViewInv

(* The view of a replica that takes no part in the step. *)
LEMMA Bystander ==
  ASSUME RInv, NEW x \in Replica, api' = api,
         cache'[x] = cache[x], fresh'[x] = fresh[x], queued'[x] = queued[x], pc'[x] = pc[x],
         snap'[x] = snap[x], snapFresh'[x] = snapFresh[x], todo'[x] = todo[x],
         applied'[x] = applied[x], table'[x] = table[x]
  PROVE  ViewOf(x)'
BY DEF RInv, ViewInv, ViewOf

(* The watch delivers an object: the rebuild is queued again. *)
LEMMA DeliverRInv ==
  ASSUME RInv, NEW r \in Replica, NEW k \in Kind, Deliver(r, k)
  PROVE  RInv'
<1>1. TypeInv
  BY DEF RInv
<1>2. TypeInv'
  BY <1>1 DEF TypeInv, Deliver, local, Objects
<1>3. ASSUME NEW x \in Replica PROVE ViewOf(x)'
  <2>1. CASE x # r
    BY <1>1, <2>1, Bystander, Zenon DEF Deliver, local, TypeInv
  <2>2. CASE x = r
    <3>1. View(api, cache[r], fresh[r], queued[r], pc[r], snap[r], snapFresh[r], todo[r],
               applied[r], table[r])
      BY DEF RInv, ViewInv, ViewOf
    <3>2. /\ cache'[r] = [cache[r] EXCEPT ![k] = api[k]] /\ fresh'[r] = fresh[r] \cup {k}
          /\ queued'[r] /\ api' = api /\ UNCHANGED local /\ table' = table
          /\ cache[r] \in [Kind -> Object] /\ fresh[r] \subseteq Kind
      BY <1>1 DEF Deliver, TypeInv, Objects
    <3>3. \A j \in fresh'[r] : cache'[r][j] = api[j]
      BY <3>1, <3>2 DEF View
    <3>4. View(api, cache'[r], fresh'[r], queued'[r], pc[r], snap[r], snapFresh[r], todo[r],
               applied[r], table[r])
      BY <3>1, <3>2, <3>3 DEF View
    <3> QED
      BY <2>2, <3>2, <3>4, Zenon DEF ViewOf, local
  <2> QED
    BY <2>1, <2>2
<1> QED
  BY <1>2, <1>3 DEF RInv, ViewInv

(* The rebuild starts from what the caches hold. *)
LEMMA ReadSnapshotRInv ==
  ASSUME RInv, NEW r \in Replica, ReadSnapshot(r)
  PROVE  RInv'
<1>1. TypeInv
  BY DEF RInv
<1>2. TypeInv'
  BY <1>1 DEF TypeInv, ReadSnapshot
<1>3. ASSUME NEW x \in Replica PROVE ViewOf(x)'
  <2>1. CASE x # r
    BY <1>1, <2>1, Bystander, Zenon DEF ReadSnapshot, TypeInv
  <2>2. CASE x = r
    <3>1. \A k \in fresh[r] : cache[r][k] = api[k]
      BY DEF RInv, ViewInv, ViewOf, View
    <3>2. /\ api' = api /\ cache' = cache /\ fresh' = fresh /\ pc'[r] = "apply"
          /\ snap'[r] = cache[r] /\ snapFresh'[r] = fresh[r]
      BY <1>1 DEF ReadSnapshot, TypeInv
    <3> QED
      BY <2>2, <3>1, <3>2 DEF ViewOf, View
  <2> QED
    BY <2>1, <2>2
<1> QED
  BY <1>2, <1>3 DEF RInv, ViewInv

(* Apply, whether or not it succeeds. *)
LEMMA ApplyRInv ==
  ASSUME RInv, NEW r \in Replica, NEW ok \in BOOLEAN, Apply(r, ok)
  PROVE  RInv'
<1>1. TypeInv
  BY DEF RInv
<1>2. Table(snap[r]) \in [config : Specs, route : Specs]
  <2>1. snap[r]["config"].spec \in Specs /\ snap[r]["route"].spec \in Specs
    BY <1>1 DEF TypeInv, Objects, Object, Kind
  <2>2. None \in Specs
    BY DEF None, Specs
  <2> QED
    BY <2>1, <2>2 DEF Table
<1>3. Order \in Seq(Kind)
  BY DEF Order, Kind
<1>4. TypeInv'
  BY <1>1, <1>2, <1>3 DEF TypeInv, Apply
<1>5. ASSUME NEW x \in Replica PROVE ViewOf(x)'
  <2>1. CASE x # r
    BY <1>1, <2>1, Bystander DEF Apply, TypeInv
  <2>2. CASE x = r
    <3>1. View(api, cache[r], fresh[r], queued[r], "apply", snap[r], snapFresh[r], todo[r],
               applied[r], table[r])
      BY DEF RInv, ViewInv, ViewOf, Apply
    <3>2. /\ UNCHANGED <<api, cache, fresh, queued, snap, snapFresh>>
          /\ pc'[r] = "status" /\ todo'[r] = Order /\ applied'[r] = ok
          /\ ok => table'[r] = Table(snap[r])
      BY <1>1 DEF Apply, TypeInv
    <3>3. ~Done(Order, "class") /\ ~Done(Order, "route")
      BY DEF Done, Order
    <3>4. View(api, cache[r], fresh[r], queued[r], "status", snap[r], snapFresh[r], Order,
               ok, table'[r])
      BY <3>1, <3>2, <3>3 DEF View
    <3> QED
      BY <2>2, <3>2, <3>4 DEF ViewOf
  <2> QED
    BY <2>1, <2>2
<1> QED
  BY <1>4, <1>5 DEF RInv, ViewInv

(* A status that needs no update. *)
LEMMA SkipStatusRInv ==
  ASSUME RInv, NEW r \in Replica, SkipStatus(r)
  PROVE  RInv'
<1>1. TypeInv
  BY DEF RInv
<1>2. PICK td : td = todo[r]
  OBVIOUS
<1>3. /\ td \in Seq(Kind) /\ td # << >> /\ pc[r] = "status"
      /\ UNCHANGED <<api, cache, fresh, queued, pc, snap, snapFresh, applied, table>>
      /\ todo' = [todo EXCEPT ![r] = Tail(td)]
      /\ \/ DesiredStatus(snap[r], Head(td), applied[r]) = snap[r][Head(td)].status
         \/ Head(td) = "route" /\ api[Head(td)].spec = None
  BY <1>1, <1>2 DEF SkipStatus, TypeInv
<1>4. Tail(td) \in Seq(Kind)
  BY <1>3
<1>5. TypeInv'
  BY <1>1, <1>3, <1>4 DEF TypeInv
<1>6. ASSUME NEW x \in Replica PROVE ViewOf(x)'
  <2>1. CASE x # r
    BY <1>1, <1>3, <2>1, Bystander DEF TypeInv
  <2>2. CASE x = r
    <3>1. View(api, cache[r], fresh[r], queued[r], "status", snap[r], snapFresh[r], td,
               applied[r], table[r])
      BY <1>2, <1>3 DEF RInv, ViewInv, ViewOf
    <3>2. ASSUME ~queued[r], Head(td) \in {"class", "route"}, Head(td) \in fresh[r]
          PROVE  Settled(snap[r], Head(td))
      <4>1. CASE DesiredStatus(snap[r], Head(td), applied[r]) = snap[r][Head(td)].status
        BY <3>2, <4>1, VerdictLemma, Zenon DEF Settled
      <4>2. CASE Head(td) = "route" /\ api[Head(td)].spec = None
        <5>1. snap[r]["route"].spec = None
          BY <3>1, <3>2, <4>2 DEF View
        <5> QED
          BY <4>2, <5>1, Zenon DEF Settled, DesiredStatus
      <4> QED
        BY <1>3, <4>1, <4>2
    <3>3. View(api, cache[r], fresh[r], queued[r], "status", snap[r], snapFresh[r], Tail(td),
               applied[r], table[r])
      BY <1>3, <3>1, <3>2, ViewNext
    <3>4. todo'[r] = Tail(td)
      BY <1>1, <1>3 DEF TypeInv
    <3> QED
      BY <1>3, <2>2, <3>3, <3>4, Zenon DEF ViewOf
  <2> QED
    BY <2>1, <2>2
<1> QED
  BY <1>5, <1>6 DEF RInv, ViewInv

(* The step stores `want' as the status of the next kind, k: it replaces   *)
(* only the status, of an object that is as it was read.                   *)
Stores(r, k, want) ==
  /\ todo[r] \in Seq(Kind) /\ todo[r] # << >> /\ k = Head(todo[r])
  /\ pc[r] = "status" /\ snap[r][k] = api[k]
  /\ want = DesiredStatus(snap[r], k, applied[r]) /\ want # api[k].status
  /\ api' = [api EXCEPT ![k] = [api[k] EXCEPT !.status = want]]
  /\ fresh' = [x \in Replica |-> fresh[x] \ {k}]
  /\ snapFresh' = [x \in Replica |-> snapFresh[x] \ {k}]
  /\ todo' = [todo EXCEPT ![r] = Tail(@)]
  /\ UNCHANGED <<cache, queued, pc, snap, applied, table>>

(* The update carries the resourceVersion read, so WriteStatus is one. *)
LEMMA WriteFacts ==
  ASSUME RInv, NEW r \in Replica, WriteStatus(r)
  PROVE  \E k \in Kind, want \in [gen : Specs, value : Values] : Stores(r, k, want)
<1>1. PICK k : k = Head(todo[r])
  OBVIOUS
<1>2. PICK want : want = DesiredStatus(snap[r], k, applied[r])
  OBVIOUS
<1>3. todo[r] \in Seq(Kind) /\ todo[r] # << >> /\ k \in Kind
  BY <1>1 DEF WriteStatus, RInv, TypeInv
<1>4. snap[r] \in Objects /\ applied[r] \in BOOLEAN
  BY DEF RInv, TypeInv
<1>5. want \in [gen : Specs, value : Values]
  BY <1>2, <1>3, <1>4, DesiredLemma
<1>6. /\ want # snap[r][k].status /\ k \in snapFresh[r]
      /\ api' = [api EXCEPT ![k] = [api[k] EXCEPT !.status = want]]
      /\ fresh' = [x \in Replica |-> fresh[x] \ {k}]
      /\ snapFresh' = [x \in Replica |-> snapFresh[x] \ {k}]
  BY <1>1, <1>2 DEF WriteStatus, Store, Conflict
<1>7. snap[r][k] = api[k]
  BY <1>6 DEF RInv, ViewInv, ViewOf, View
<1>8. /\ pc[r] = "status" /\ todo' = [todo EXCEPT ![r] = Tail(@)]
      /\ UNCHANGED <<cache, queued, pc, snap, applied, table>>
  BY DEF WriteStatus
<1> QED
  BY <1>1, <1>2, <1>3, <1>5, <1>6, <1>7, <1>8, Zenon DEF Stores

(* After a stored update every replica still has to see it. *)
LEMMA WriteStatusRInv ==
  ASSUME RInv, NEW r \in Replica, WriteStatus(r)
  PROVE  RInv'
<1>1. TypeInv
  BY DEF RInv
<1>0. PICK k \in Kind, want \in [gen : Specs, value : Values] : Stores(r, k, want)
  BY WriteFacts
<1>2. /\ todo[r] \in Seq(Kind) /\ todo[r] # << >> /\ k = Head(todo[r])
      /\ pc[r] = "status"
      /\ api' = [api EXCEPT ![k] = [api[k] EXCEPT !.status = want]]
      /\ fresh' = [x \in Replica |-> fresh[x] \ {k}]
      /\ snapFresh' = [x \in Replica |-> snapFresh[x] \ {k}]
      /\ todo' = [todo EXCEPT ![r] = Tail(@)]
      /\ UNCHANGED <<cache, queued, pc, snap, applied, table>>
  BY <1>0 DEF Stores
<1>3. api' \in Objects /\ \A j \in Kind \ {k} : api'[j] = api[j]
  <2>1. [api[k] EXCEPT !.status = want] \in Object
    <3>1. PICK o \in Object : o = api[k]
      BY <1>1 DEF TypeInv, Objects
    <3>2. [o EXCEPT !.status = want] \in Object
      BY DEF Object
    <3> QED
      BY <3>1, <3>2
  <2> QED
    BY <1>1, <1>2, <2>1 DEF TypeInv, Objects
<1>4. PICK td : td = todo[r]
  OBVIOUS
<1>5. Tail(td) \in Seq(Kind) /\ todo' = [todo EXCEPT ![r] = Tail(td)]
  BY <1>2, <1>4
<1>6. TypeInv'
  BY <1>1, <1>2, <1>3, <1>5 DEF TypeInv
<1>7. ASSUME NEW x \in Replica PROVE ViewOf(x)'
  <2>1. ViewOf(x) /\ fresh[x] \in SUBSET Kind /\ snapFresh[x] \in SUBSET Kind
    BY <1>1, SMTT(30) DEF RInv, TypeInv, ViewInv
  <2>2. View(api', cache[x], fresh[x] \ {k}, queued[x], pc[x], snap[x], snapFresh[x] \ {k},
             todo[x], applied[x], table[x])
    BY <1>3, <2>1, ViewStore, Zenon DEF ViewOf
  <2>3. CASE x # r
    <3>1. todo'[x] = todo[x]
      BY <1>1, <1>5, <2>3 DEF TypeInv
    <3> QED
      BY <1>2, <2>2, <3>1 DEF ViewOf
  <2>4. CASE x = r
    <3>1. View(api', cache[r], fresh[r] \ {k}, queued[r], "status", snap[r],
               snapFresh[r] \ {k}, td, applied[r], table[r])
      BY <1>2, <1>4, <2>2, <2>4
    <3>2. Head(td) \notin fresh[r] \ {k}
      BY <1>2, <1>4
    <3>3. View(api', cache[r], fresh[r] \ {k}, queued[r], "status", snap[r],
               snapFresh[r] \ {k}, Tail(td), applied[r], table[r])
      BY <1>2, <1>4, <3>1, <3>2, ViewNext
    <3>4. todo'[r] = Tail(td)
      BY <1>1, <1>5 DEF TypeInv
    <3> QED
      BY <1>2, <2>4, <3>3, <3>4, Zenon DEF ViewOf
  <2> QED
    BY <2>3, <2>4
<1> QED
  BY <1>6, <1>7 DEF RInv, ViewInv

(* The rebuild returns; it is queued again unless it went through. *)
LEMMA ReturnRInv ==
  ASSUME RInv, NEW r \in Replica, NEW requeue \in BOOLEAN, Return(r, requeue),
         UNCHANGED <<api, cache, fresh, table>>, pc[r] = "status",
         ~requeue => todo[r] = << >> /\ applied[r]
  PROVE  RInv'
<1>1. TypeInv
  BY DEF RInv
<1>2. Initially \in Objects
  BY DEF Initially, Objects, Object, Specs, Values, Kind, Unwritten, None
<1>3. TypeInv'
  BY <1>1, <1>2 DEF TypeInv, Return, Forget
<1>4. ASSUME NEW x \in Replica PROVE ViewOf(x)'
  <2>1. CASE x # r
    BY <1>1, <2>1, Bystander, Zenon DEF Return, Forget, TypeInv
  <2>2. CASE x = r
    <3>1. View(api, cache[r], fresh[r], queued[r], "status", snap[r], snapFresh[r], todo[r],
               applied[r], table[r])
      BY DEF RInv, ViewInv, ViewOf
    <3>2. /\ pc'[r] = "idle" /\ snapFresh'[r] = {} /\ queued'[r] = (queued[r] \/ requeue)
      BY <1>1 DEF Return, Forget, TypeInv
    <3>3. ASSUME ~queued'[r]
          PROVE  /\ table[r] = Table(cache[r])
                 /\ \A k \in {"class", "route"} : k \in fresh[r] => Settled(cache[r], k)
      <4>1. ~queued[r] /\ applied[r] /\ todo[r] = << >>
        BY <3>2, <3>3, Zenon
      <4>2. Done(<< >>, "class") /\ Done(<< >>, "route")
        BY DEF Done
      <4> QED
        BY <3>1, <4>1, <4>2 DEF View
    <3>4. \A k \in fresh[r] : cache[r][k] = api[k]
      BY <3>1 DEF View
    <3> QED
      BY <2>2, <3>2, <3>3, <3>4 DEF ViewOf, View
  <2> QED
    BY <2>1, <2>2
<1> QED
  BY <1>3, <1>4 DEF RInv, ViewInv

(* A replica that restarts has everything to do. *)
LEMMA RestartRInv ==
  ASSUME RInv, NEW r \in Replica, Restart(r)
  PROVE  RInv'
<1>1. TypeInv
  BY DEF RInv
<1>2. Initially \in Objects
  BY DEF Initially, Objects, Object, Specs, Values, Kind, Unwritten, None
<1>3. EmptyTable \in [config : Specs, route : Specs]
  BY DEF EmptyTable, Specs, None
<1>4. TypeInv'
  BY <1>1, <1>2, <1>3 DEF TypeInv, Restart, Forget
<1>5. ASSUME NEW x \in Replica PROVE ViewOf(x)'
  <2>1. CASE x # r
    BY <1>1, <2>1, Bystander, Zenon DEF Restart, Forget, TypeInv
  <2>2. CASE x = r
    <3>1. /\ api' = api /\ cache'[r] = api /\ queued'[r] /\ pc'[r] = "idle"
          /\ snapFresh'[r] = {}
      BY <1>1 DEF Restart, Forget, TypeInv
    <3> QED
      BY <2>2, <3>1 DEF ViewOf, View
  <2> QED
    BY <2>1, <2>2
<1> QED
  BY <1>4, <1>5 DEF RInv, ViewInv

(* RInv is inductive. *)
THEOREM ReconcilerInvariance == Spec => []RInv
<1>1. RInv /\ [Next]_vars => RInv'
  <2> SUFFICES ASSUME RInv, [Next]_vars PROVE RInv'
    OBVIOUS
  <2>1. ASSUME NEW s \in ConfigSpec \cup {None}, Edit("config", s) PROVE RInv'
    <3>1. s \in Specs
      BY DEF Specs, None
    <3> QED
      BY <2>1, <3>1, EditRInv
  <2>2. ASSUME NEW s \in RouteSpec \cup {None}, Edit("route", s) PROVE RInv'
    <3>1. s \in Specs
      BY DEF Specs, None
    <3> QED
      BY <2>2, <3>1, EditRInv
  <2>3. ASSUME NEW r \in Replica, Rebuild(r) PROVE RInv'
    <3>1. CASE WriteFails(r)
      BY <3>1, ReturnRInv, Zenon DEF WriteFails
    <3>2. CASE Finish(r)
      <4>1. (~applied[r]) \in BOOLEAN
        OBVIOUS
      <4> QED
        BY <3>2, <4>1, ReturnRInv, Zenon DEF Finish
    <3> QED
      BY <2>3, <3>1, <3>2, ReadSnapshotRInv, ApplyRInv, SkipStatusRInv, WriteStatusRInv
         DEF Rebuild
  <2>4. ASSUME NEW r \in Replica, Restart(r) PROVE RInv'
    BY <2>4, RestartRInv
  <2>5. ASSUME NEW r \in Replica, NEW k \in Kind, Deliver(r, k) PROVE RInv'
    BY <2>5, DeliverRInv
  <2>6. CASE UNCHANGED vars
    BY <2>6 DEF vars, local, RInv, TypeInv, ViewInv, ViewOf
  <2> QED
    BY <2>1, <2>2, <2>3, <2>4, <2>5, <2>6 DEF Next
<1> QED
  BY <1>1, InitRInv, PTL DEF Spec

(* No event, failed Apply, refused write or restart is lost: a replica     *)
(* with nothing pending serves the table of the cluster as it is, and the  *)
(* class's and the route's status agree with it.                           *)
THEOREM NothingIsLost == Spec => []QuietIsCurrent
<1>1. RInv => QuietIsCurrent
  <2> SUFFICES ASSUME RInv, NEW r \in Replica, Quiet(r)
               PROVE  /\ table[r] = Table(api)
                      /\ \A k \in {"class", "route"} : Settled(api, k)
    BY Zenon DEF QuietIsCurrent, Settled
  <2>1. /\ \A k \in Kind : cache[r][k] = api[k]
        /\ table[r] = Table(cache[r])
        /\ \A k \in {"class", "route"} : k \in Kind => Settled(cache[r], k)
    BY DEF RInv, ViewInv, ViewOf, View, Quiet
  <2>2. cache[r] \in [Kind -> Object] /\ api \in [Kind -> Object]
    BY DEF RInv, TypeInv, Objects
  <2>3. cache[r] = api
    BY <2>1, <2>2
  <2> QED
    BY <2>1, <2>3 DEF Kind
<1> QED
  BY <1>1, ReconcilerInvariance, PTL

(* writeStatuses never labels a spec with the verdict on another one, and  *)
(* reports a config as applied only while a replica serves it.             *)
THEOREM VerdictsAreFresh == Spec => NoStaleVerdict
<1>1. ASSUME api' = api PROVE NoStaleVerdictStep
  BY <1>1 DEF NoStaleVerdictStep
<1>2. ASSUME RInv, NEW j \in {"config", "route"}, NEW s, Edit(j, s)
      PROVE  NoStaleVerdictStep
  <2> SUFFICES ASSUME NEW k \in Kind, api'[k].status # api[k].status
               PROVE  api'[k].status = Unwritten
    BY DEF NoStaleVerdictStep
  <2>1. PICK w : w = IF None \in {s, api[j].spec} THEN Unwritten ELSE api[j].status
    OBVIOUS
  <2>2. api' = [api EXCEPT ![j] = [spec |-> s, status |-> w]] /\ api \in [Kind -> Object]
    BY <1>2, <2>1 DEF Edit, Store, RInv, TypeInv, Objects
  <2>3. k = j /\ api'[k].status = w
    BY <2>2
  <2> QED
    BY <2>1, <2>3
<1>3. ASSUME RInv, NEW r \in Replica, WriteStatus(r) PROVE NoStaleVerdictStep
  <2>0. PICK k \in Kind, want \in [gen : Specs, value : Values] : Stores(r, k, want)
    BY <1>3, WriteFacts
  <2>1. /\ pc[r] = "status" /\ snap[r][k] = api[k]
        /\ want = DesiredStatus(snap[r], k, applied[r]) /\ want # api[k].status
        /\ api' = [api EXCEPT ![k] = [api[k] EXCEPT !.status = want]]
    BY <2>0 DEF Stores
  <2>2. /\ api \in [Kind -> Object] /\ snap[r] \in Objects /\ applied[r] \in BOOLEAN
        /\ (pc[r] = "status" /\ applied[r] => table[r] = Table(snap[r]))
    BY <1>3 DEF RInv, TypeInv, ViewInv, ViewOf, View, Objects
  <2>3. want.gen = api[k].spec /\ (want.value = "Applied" => k = "config" /\ applied[r] /\ Accepted(snap[r]))
    BY <2>1, <2>2, DesiredLemma
  <2>4. api'[k].status = want /\ api'[k].spec = api[k].spec
    <3>1. PICK o \in Object : o = api[k]
      BY <2>2
    <3>2. api'[k] = [o EXCEPT !.status = want]
      BY <2>1, <2>2, <3>1
    <3> QED
      BY <3>1, <3>2 DEF Object
  <2>5. want.value = "Applied" => table[r].config = api[k].spec
    BY <2>1, <2>2, <2>3 DEF Table
  <2> SUFFICES ASSUME NEW j \in Kind, api'[j].status # api[j].status
               PROVE  /\ api'[j].status.gen = api'[j].spec
                      /\ api'[j].status.value = "Applied" =>
                           \E x \in Replica : table[x].config = api[j].spec
    BY DEF NoStaleVerdictStep
  <2>6. j = k
    BY <2>1, <2>2
  <2> QED
    BY <2>3, <2>4, <2>5, <2>6
<1>4. RInv /\ [Next]_vars => [NoStaleVerdictStep]_vars
  <2> SUFFICES ASSUME RInv, Next, api' # api PROVE NoStaleVerdictStep
    BY <1>1
  <2>1. \/ \E j \in {"config", "route"}, s \in Specs : Edit(j, s)
        \/ \E r \in Replica : WriteStatus(r)
    BY Zenon DEF Next, Rebuild, ReadSnapshot, Apply, SkipStatus, WriteFails, Finish, Restart,
           Deliver, Specs, None
  <2> QED
    BY <1>2, <1>3, <2>1
<1> QED
  BY <1>4, ReconcilerInvariance, PTL DEF Spec, NoStaleVerdict
=============================================================================
