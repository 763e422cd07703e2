----------------------------- MODULE MCSession -----------------------------
(* A small instance of Session. *)
EXTENDS Session, ModuleListing

Part(after, bytes) == [after |-> after, bytes |-> bytes]

(* A client that waits its turn, one that sends both lines at once, one    *)
(* that asks for the listing, one for an unknown module, one that speaks   *)
(* another protocol, and one that stops in the middle of a line.           *)
Clients ==
  { <<Part("start", <<"@", "n">>), Part("S", <<"a", "b", "n">>), Part("o", <<"d">>)>>,
    <<Part("start", <<"@", "n", "a", "n">>), Part("o", <<"d">>)>>,
    <<Part("start", <<"@", "n">>), Part("S", <<"n">>)>>,
    <<Part("start", <<"@", "n">>), Part("S", <<"z", "n">>)>>,
    <<Part("start", <<"z", "n">>)>>,
    <<Part("start", <<"@", "n">>), Part("S", <<"a">>)>> }

(* An upstream without a message of the day, with one beside its greeting, *)
(* after the client's version, or longer than the buffer, and one that     *)
(* speaks another protocol.                                                *)
Upstreams ==
  { <<Part("start", <<"@", "n">>), Part("a", <<"o">>)>>,
    <<Part("start", <<"@", "n", "x", "n">>), Part("a", <<"o">>)>>,
    <<Part("start", <<"@", "n">>), Part("@", <<"x", "n">>), Part("a", <<"o">>)>>,
    <<Part("start", <<"@", "n", "x">>), Part("@", <<"x", "x", "n">>), Part("a", <<"o">>)>>,
    <<Part("start", <<"x", "n">>)>> }

Peers == [c \in Conns |-> IF c = "down" THEN Clients ELSE Upstreams]

Alphabet == {"n", "@", "S", "M", "P", "L", "E", "a", "b", "d", "o", "x", "z"}
Table == {<<"a">>, <<"a", "b">>}
Greeting == <<"M">>

(* What the proofs about Session assume of names and greetings. *)
ASSUME PeersFit == NamesFit /\ GreetingFits

Lines == BoundedSeq({"x", "y", "", Exit}, 4)

(* The parser of module lists agrees with its reference on every list of   *)
(* up to four lines.                                                       *)
ASSUME DiscoveryAgrees ==
  \A lines \in Lines : discoverModulesFromUpstream(lines) = ListReference(lines)

(* A proxy in front of a proxy discovers its modules. *)
ASSUME ListingsAreRead ==
  \A motd \in BoundedSeq({"x", "y", ""}, 3), modules \in SUBSET {"x", "y"} : RoundTrip(motd, modules)
=============================================================================
