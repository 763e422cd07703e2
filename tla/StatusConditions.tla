-------------------------- MODULE StatusConditions --------------------------
(***************************************************************************)
(* internal/gateway/status.go, conditions.go and writeStatuses: how the    *)
(* status of one object is built from its stored status and the verdicts   *)
(* of a rebuild, compared, written and reported as events.  The object is  *)
(* a GatewayClass, GatewayConfig, Gateway or RsyncRoute; other controllers *)
(* keep conditions, listener entries and parent entries in the same lists. *)
(* Lost and refused writes are the subject of Reconciler.                  *)
(*                                                                         *)
(* A condition's reason stands for its reason and message.                 *)
(***************************************************************************)
EXTENDS Integers, Sequences, FiniteSets

CONSTANTS
  GatewaySpecs,   \* listener lists: sequences of [name, rsync, tls, from, port]
  ServedPorts,    \* the ports the data plane is bound to
  RouteSpecs,     \* [results: a sequence of [ref: [gateway, section], reason],
                  \*  backends: the reason of ResolvedRefs]
  MaxGen, MaxClock

ASSUME StatusAssumption == MaxGen \in Nat \ {0} /\ MaxClock \in Nat \ {0}

VARIABLES
  kind,         \* the kind of the object
  managed,      \* a claimed class, its config, a Gateway of an accepted class;
                \* always TRUE of a route
  spec,         \* the verdict of the rebuild; of a Gateway, its listeners
  gen,          \* metadata.generation
  conditions,   \* status.conditions
  entries,      \* status.listeners: [name, kinds, attached, conds];
                \* status.parents: [owner, ref, conds]
  emitted,      \* the parents that the last step emitted a Warning for
  clock

vars == <<kind, managed, spec, gen, conditions, entries, emitted, clock>>

Kind == {"class", "config", "gateway", "route"}

(* What the rebuild makes of the object: whether a class is accepted or a  *)
(* config applied, a Gateway's listeners, the results of a route.          *)
Specs(k) ==
  CASE k \in {"class", "config"} -> BOOLEAN
    [] k = "gateway" -> GatewaySpecs
    [] k = "route" -> RouteSpecs

conditionStatus(b) == IF b THEN "True" ELSE "False"

Condition(type, status, reason) ==
  [type |-> type, status |-> conditionStatus(status), reason |-> reason, gen |-> gen, time |-> clock]

Types(cs) == {cs[i].type : i \in DOMAIN cs}

(* The conditions of the first of the entries es that were found, if any. *)
CondsOf(es) == IF es = << >> THEN << >> ELSE es[1].conds
-----------------------------------------------------------------------------
(* conditions.go *)

(* Mutant: the time is always set to now. *)
StableCondition_Now(existing, c) == c

(* Mutant: the time is kept for a condition of the same type. *)
StableCondition_AnyStatus(existing, c) ==
  LET same == SelectSeq(existing, LAMBDA e : e.type = c.type)
  IN  IF same = << >> THEN c ELSE [c EXCEPT !.time = same[1].time]

(* The time of an existing condition of this type and status, or now. *)
StableCondition(existing, c) ==
  LET same == SelectSeq(existing, LAMBDA e : e.type = c.type /\ e.status = c.status)
  IN  IF same = << >> THEN c ELSE [c EXCEPT !.time = same[1].time]

Stable(existing, want) == [i \in DOMAIN want |-> StableCondition(existing, want[i])]

(* Mutant: what is not wanted is dropped. *)
MergeConditions_Replace(cur, want) == want

(* Conditions are replaced by type; new ones are appended. *)
MergeConditions(cur, want) ==
  LET Wanted(t) == SelectSeq(want, LAMBDA w : w.type = t)
  IN  [i \in DOMAIN cur |-> IF cur[i].type \in Types(want) THEN Wanted(cur[i].type)[1] ELSE cur[i]]
        \o SelectSeq(want, LAMBDA w : w.type \notin Types(cur))

(* Equal content in equal order; the times do not count. *)
ConditionsEqual(cur, want) ==
  /\ Len(cur) = Len(want)
  /\ \A i \in DOMAIN cur : [cur[i] EXCEPT !.time = 0] = [want[i] EXCEPT !.time = 0]

(* A reference without its sectionName. *)
ParentRefString(ref) == ref.gateway
-----------------------------------------------------------------------------
(* status.go: a class or config has one condition of ours. *)
OwnCondition ==
  Condition("Accepted", spec,
            IF spec THEN "Accepted" ELSE IF kind = "class" THEN "InvalidParameters" ELSE "Invalid")

isManagedListener(name) == \E i \in DOMAIN spec : spec[i].name = name /\ spec[i].rsync

listenerAcceptedCondition(l) ==
  IF l.tls THEN Condition("Accepted", FALSE, "TLSNotSupported")
  ELSE IF l.from \notin {"Unset", "All", "Same", "Selector"} THEN Condition("Accepted", FALSE, "UnsupportedValue")
  ELSE Condition("Accepted", TRUE, "Accepted")

listenerProgrammedCondition(l) ==
  IF l.port \in ServedPorts THEN Condition("Programmed", TRUE, "Programmed")
                            ELSE Condition("Programmed", FALSE, "RestartRequired")

listenerStatuses ==
  LET rsync == SelectSeq(spec, LAMBDA l : l.rsync)
      Existing(l) == CondsOf(SelectSeq(entries, LAMBDA e : e.name = l.name))
      Want(l) == <<listenerAcceptedCondition(l), listenerProgrammedCondition(l)>>
  IN  [i \in DOMAIN rsync |->
         [name |-> rsync[i].name, kinds |-> {"RsyncRoute"}, attached |-> 0,
          conds |-> Stable(Existing(rsync[i]), Want(rsync[i]))]]

(* The two conditions of a managed Gateway; both are always true. *)
GatewayConditions ==
  <<Condition("Accepted", TRUE, "Accepted"), Condition("Programmed", TRUE, "Programmed")>>

(* Entries of listeners that are not managed come first. *)
BuildGatewayListeners ==
  SelectSeq(entries, LAMBDA e : ~isManagedListener(e.name)) \o listenerStatuses

findExistingConditions(ref) ==
  CondsOf(SelectSeq(entries, LAMBDA e : e.owner = "us" /\ ParentRefString(e.ref) = ParentRefString(ref)))

(* ResolvedRefs is reported for accepted parents only. *)
ParentConditions(res) ==
  LET ok == res.reason = "Accepted"
  IN  <<Condition("Accepted", ok, res.reason)>>
        \o IF ok THEN <<Condition("ResolvedRefs", spec.backends = "ResolvedRefs", spec.backends)>> ELSE << >>

(* Entries of other controllers come first. *)
BuildRouteStatus ==
  SelectSeq(entries, LAMBDA e : e.owner # "us")
    \o [i \in DOMAIN spec.results |->
          LET res == spec.results[i]
          IN  [owner |-> "us", ref |-> res.ref,
               conds |-> Stable(findExistingConditions(res.ref), ParentConditions(res))]]

DesiredConditions ==
  CASE kind \in {"class", "config"} -> MergeConditions(conditions, Stable(conditions, <<OwnCondition>>))
    [] kind = "gateway" -> MergeConditions(conditions, Stable(conditions, GatewayConditions))
    [] kind = "route" -> conditions

DesiredEntries ==
  CASE kind \in {"class", "config"} -> entries
    [] kind = "gateway" -> BuildGatewayListeners
    [] kind = "route" -> BuildRouteStatus

ListenerStatusesEqual(cur, want) ==
  /\ Len(cur) = Len(want)
  /\ \A i \in DOMAIN cur :
       /\ cur[i].name = want[i].name
       /\ cur[i].attached = want[i].attached /\ cur[i].kinds = want[i].kinds
       /\ ConditionsEqual(cur[i].conds, want[i].conds)

ParentStatusesEqual(cur, want) ==
  /\ Len(cur) = Len(want)
  /\ \A i \in DOMAIN cur :
       /\ cur[i].owner = want[i].owner /\ ParentRefString(cur[i].ref) = ParentRefString(want[i].ref)
       /\ ConditionsEqual(cur[i].conds, want[i].conds)

(* writeStatuses leaves the object alone.  The one condition of a class or *)
(* config is compared with the whole stored list.                          *)
UpToDate ==
  \/ kind # "route" /\ ~managed
  \/ kind \in {"class", "config"} /\ ConditionsEqual(conditions, <<OwnCondition>>)
  \/ /\ kind = "gateway"
     /\ ConditionsEqual(conditions, DesiredConditions)
     /\ ListenerStatusesEqual(entries, DesiredEntries)
  \/ kind = "route" /\ ParentStatusesEqual(entries, DesiredEntries)

(* Mutant: entries of other controllers are looked at as well. *)
FindParentConditions_AnyOwner(ref) ==
  SelectSeq(CondsOf(SelectSeq(entries, LAMBDA e : ParentRefString(e.ref) = ParentRefString(ref))),
            LAMBDA c : c.type = "Accepted")

(* The stored Accepted condition for a parent, if any. *)
FindParentConditions(ref) ==
  SelectSeq(findExistingConditions(ref), LAMBDA c : c.type = "Accepted")

(* A Warning for a parent that is not accepted, unless that is no news. *)
emitRouteEvents ==
  {res \in {spec.results[i] : i \in DOMAIN spec.results} :
     /\ res.reason # "Accepted"
     /\ LET old == FindParentConditions(res.ref)
        IN  old = << >> \/ old[1].status # "False" \/ old[1].reason # res.reason}
-----------------------------------------------------------------------------
(* The conditions that the API server gives a new object. *)
DefaultConditions(k) ==
  LET Waiting(t) == [type |-> t, status |-> "Unknown", reason |-> "Pending", gen |-> 0, time |-> 0]
  IN  CASE k = "class" -> <<Waiting("Accepted")>>
        [] k = "gateway" -> <<Waiting("Accepted"), Waiting("Programmed")>>
        [] OTHER -> << >>

Init ==
  /\ kind \in Kind /\ managed \in BOOLEAN /\ (kind = "route" => managed)
  /\ spec \in Specs(kind)
  /\ gen = 1 /\ clock = 1
  /\ conditions = DefaultConditions(kind) /\ entries = << >> /\ emitted = {}

(* A rebuild reaches this object and updates its status. *)
WriteStatus ==
  /\ ~UpToDate
  /\ conditions' = DesiredConditions
  /\ entries' = DesiredEntries
  /\ emitted' = IF kind = "route" THEN emitRouteEvents ELSE {}
  /\ UNCHANGED <<kind, managed, spec, gen, clock>>

(* A user edits this object, or something else that its verdict depends on;*)
(* the listeners of a Gateway are its own.                                 *)
Edit(s, m, edited) ==
  /\ kind = "gateway" /\ s # spec => edited
  /\ kind = "route" => m
  /\ spec' = s /\ managed' = m
  /\ gen' = IF edited THEN gen + 1 ELSE gen
  /\ gen' <= MaxGen
  /\ emitted' = {}
  /\ UNCHANGED <<kind, conditions, entries, clock>>

(* Another controller sets a condition of its own type, *)
ForeignCondition(status) ==
  /\ kind # "route"
  /\ conditions' = MergeConditions(conditions, <<Condition("Foreign", status, "Foreign")>>)
  /\ emitted' = {}
  /\ UNCHANGED <<kind, managed, spec, gen, entries, clock>>

(* the entry of a listener with another protocol, *)
ForeignListener(name, status) ==
  LET entry == [name |-> name, kinds |-> {"HTTPRoute"}, attached |-> 1,
                conds |-> <<Condition("Accepted", status, "Foreign")>>]
  IN  /\ kind = "gateway"
      /\ \E i \in DOMAIN spec : spec[i].name = name /\ ~spec[i].rsync
      /\ entries' = IF \E i \in DOMAIN entries : entries[i].name = name
                    THEN [i \in DOMAIN entries |-> IF entries[i].name = name THEN entry ELSE entries[i]]
                    ELSE Append(entries, entry)
      /\ emitted' = {}
      /\ UNCHANGED <<kind, managed, spec, gen, conditions, clock>>

(* or its entry for a parent of the route. *)
ForeignParent(ref, status) ==
  LET entry == [owner |-> "them", ref |-> ref, conds |-> <<Condition("Accepted", status, "Foreign")>>]
  IN  /\ kind = "route"
      /\ entries' = Append(SelectSeq(entries, LAMBDA e : e.owner = "us"), entry)
      /\ emitted' = {}
      /\ UNCHANGED <<kind, managed, spec, gen, conditions, clock>>

Tick ==
  /\ clock < MaxClock
  /\ clock' = clock + 1
  /\ emitted' = {}
  /\ UNCHANGED <<kind, managed, spec, gen, conditions, entries>>

ListenerNames == UNION {{s[i].name : i \in DOMAIN s} : s \in GatewaySpecs}

ParentRefs ==
  UNION {{s.results[i].ref : i \in DOMAIN s.results} : s \in RouteSpecs}

Next ==
  \/ WriteStatus \/ Tick
  \/ \E s \in Specs(kind), m, edited \in BOOLEAN : Edit(s, m, edited)
  \/ \E status \in BOOLEAN :
       \/ ForeignCondition(status)
       \/ \E name \in ListenerNames : ForeignListener(name, status)
       \/ \E ref \in ParentRefs : ForeignParent(ref, status)

Spec == Init /\ [][Next]_vars
-----------------------------------------------------------------------------
(* A rebuild of the same objects issues no update, or one that stores what *)
(* is stored already and so causes no event.                               *)
Settled == UpToDate \/ (DesiredConditions = conditions /\ DesiredEntries = entries)

(* One update settles a status, and the passing of time does not unsettle  *)
(* it: writeStatuses does not feed on its own updates, whatever other      *)
(* controllers keep in the lists.                                          *)
WriteSettlesStep == WriteStatus \/ (Tick /\ Settled) => Settled'
(* Every step is a WriteSettlesStep. *)
WriteSettles == [][WriteSettlesStep]_vars

ForeignConditions == SelectSeq(conditions, LAMBDA c : c.type = "Foreign")
ForeignEntries ==
  CASE kind = "gateway" -> SelectSeq(entries, LAMBDA e : ~isManagedListener(e.name))
    [] kind = "route" -> SelectSeq(entries, LAMBDA e : e.owner # "us")
    [] OTHER -> << >>

(* An update leaves the conditions and entries of other controllers as     *)
(* they are, times and order included.                                     *)
ForeignUntouchedStep ==
  WriteStatus => ForeignConditions' = ForeignConditions /\ ForeignEntries' = ForeignEntries
(* Every update of a status is a ForeignUntouchedStep. *)
ForeignUntouched == [][ForeignUntouchedStep]_vars

(* The stored conditions that are ours, each with the place it is about. *)
Reported ==
  {[place |-> "object", cond |-> conditions[i]] : i \in {i \in DOMAIN conditions : conditions[i].type # "Foreign"}}
    \cup UNION {{[place |-> IF kind = "route" THEN entries[i].ref ELSE entries[i].name, cond |-> c] :
                   c \in {entries[i].conds[j] : j \in DOMAIN entries[i].conds}} :
                 i \in {i \in DOMAIN entries :
                           IF kind = "route" THEN entries[i].owner = "us" ELSE isManagedListener(entries[i].name)}}

(* A written condition has a new transition time exactly when the same     *)
(* place had no condition of that type and status before: no flip keeps    *)
(* the old time and no rewrite refreshes it.                               *)
HonestTimesStep ==
  WriteStatus =>
    \A r \in Reported' :
      LET kept == {o \in Reported : /\ o.place = r.place
                                    /\ o.cond.type = r.cond.type /\ o.cond.status = r.cond.status}
      IN  IF kept = {} THEN r.cond.time = clock ELSE \E o \in kept : r.cond.time = o.cond.time
(* Every update of a status is a HonestTimesStep. *)
HonestTimes == [][HonestTimesStep]_vars

(* The results that are bad news: the stored status does not show the      *)
(* parent as rejected for this reason.                                     *)
BadNews ==
  {res \in {spec.results[i] : i \in DOMAIN spec.results} :
     /\ res.reason # "Accepted"
     /\ ~\E r \in Reported : /\ r.place = res.ref /\ r.cond.type = "Accepted"
                            /\ r.cond.status = "False" /\ r.cond.reason = res.reason}

(* A rejection is announced by one Warning: the update that first stores   *)
(* it emits the event, later updates are silent, and no rebuild finds the  *)
(* status of the route up to date while there is bad news to store.        *)
RejectionsAnnouncedStep ==
  /\ kind = "route" /\ WriteStatus => emitted' = BadNews /\ BadNews' = {}
  /\ kind = "route" /\ UpToDate => BadNews = {}
(* Every step is a RejectionsAnnouncedStep. *)
RejectionsAnnounced == [][RejectionsAnnouncedStep]_vars
=============================================================================
