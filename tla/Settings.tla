------------------------------ MODULE Settings ------------------------------
(***************************************************************************)
(* From a GatewayConfig to the settings of the data plane: the validation  *)
(* in api/v1alpha1, the translation in internal/translate, and the checks  *)
(* and defaults loadConfig applies to what it is handed.                   *)
(*                                                                         *)
(* An optional field is a set of at most one value, so that an absent      *)
(* throughputFloor, or an absent config, is one with empty fields.         *)
(* Durations are integers in units of 1/Second seconds.                    *)
(***************************************************************************)
EXTENDS Integers

CONSTANTS Second, Malformed    \* Malformed: a duration that does not parse

ASSUME SettingsAssumption == Second \in Nat \ {0} /\ Malformed \notin Int

Optional(S) == {p \in SUBSET S : \A v, w \in p : v = w}
GatewayConfigSpec ==
  [perIP : Optional(Int), maxActive : Optional(Int), maxQueued : Optional(Int),
   minBytes : Optional(Int),
   idle : Optional(Int \cup {Malformed}), max : Optional(Int \cup {Malformed}),
   keepAlive : Optional(Int \cup {Malformed}), dial : Optional(Int \cup {Malformed}),
   window : Optional(Int \cup {Malformed}), grace : Optional(Int \cup {Malformed})]

NoSettings ==
  [perIP |-> {}, maxActive |-> {}, maxQueued |-> {}, minBytes |-> {}, idle |-> {},
   max |-> {}, keepAlive |-> {}, dial |-> {}, window |-> {}, grace |-> {}]

NonNegative(p) == \A v \in p : v # Malformed /\ v >= 0

(* Mutant: the floor was forgotten. *)
Validate_NoFloor(s) ==
  /\ NonNegative(s.perIP) /\ NonNegative(s.maxActive) /\ NonNegative(s.maxQueued)
  /\ NonNegative(s.idle) /\ NonNegative(s.max) /\ NonNegative(s.keepAlive)
  /\ NonNegative(s.dial) /\ NonNegative(s.window) /\ NonNegative(s.grace)

Validate(s) ==
  /\ NonNegative(s.perIP) /\ NonNegative(s.maxActive) /\ NonNegative(s.maxQueued)
  /\ NonNegative(s.idle) /\ NonNegative(s.max) /\ NonNegative(s.keepAlive)
  /\ NonNegative(s.dial) /\ NonNegative(s.window) /\ NonNegative(s.grace)
  /\ NonNegative(s.minBytes)

(* derefInt32, and the same for the other pointers. *)
Deref(p) == IF p = {} THEN 0 ELSE CHOOSE v \in p : TRUE

(* Whole seconds; the errors are those Validate finds before. *)
DurationSecs(d) == Deref(d) \div Second

(* n, or the default d where n means unset. *)
OrDefault(n, d) == IF n = 0 THEN d ELSE n

ProxySettings(s) ==
  LET floor  == Deref(s.minBytes) > 0
      window == OrDefault(DurationSecs(s.window), IF floor THEN 60 ELSE 0)
      grace  == OrDefault(DurationSecs(s.grace), IF floor THEN window ELSE 0)
  IN  [idle |-> DurationSecs(s.idle), max |-> DurationSecs(s.max),
       keepAlive |-> DurationSecs(s.keepAlive), dial |-> DurationSecs(s.dial),
       perIP |-> Deref(s.perIP), minBytes |-> Deref(s.minBytes),
       window |-> window, grace |-> grace]

(* The limits BuildServerConfig gives the upstreams of a route. *)
Limits(s) ==
  [maxActive |-> Deref(s.maxActive), maxQueued |-> Deref(s.maxQueued), perIP |-> Deref(s.perIP)]
-----------------------------------------------------------------------------
(* The range checks of loadConfig. *)
ProxyLoads(p) ==
  /\ p.max >= 0 /\ p.keepAlive >= 0 /\ p.perIP >= 0 /\ p.dial >= 0
  /\ p.minBytes >= 0 /\ p.window >= 0 /\ p.grace >= 0 /\ p.idle >= 0

(* Its checks on an upstream; resolves: its address resolves.              *)
UpstreamLoads(limits, modules, resolves) == modules # {} /\ limits.perIP >= 0 /\ resolves

(* The cap per address in force: its own, else the proxy's. *)
effectivePerIP(p, limits) == OrDefault(limits.perIP, p.perIP)

(* The floor in force; the watcher looks at it if bytes and window are > 0.*)
LoadedFloor(p) ==
  LET window == OrDefault(p.window, 60)
  IN  [bytes |-> p.minBytes, window |-> window, grace |-> OrDefault(p.grace, window)]

throughputEnabled(f) == f.bytes > 0 /\ f.window > 0
=============================================================================
