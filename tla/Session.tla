------------------------------ MODULE Session ------------------------------
(***************************************************************************)
(* One connection from accept to return: relay's handshake with the client *)
(* and the upstream (readLine, the greetings, the PROXY header, the module *)
(* request), then the relay phase of RelaySession, with the bytes that     *)
(* travel.  Admission between the two is the subject of ProxyServer.       *)
(*                                                                         *)
(* A byte is a token: "n" a newline, "@" the version prefix, "S" the       *)
(* proxy's greeting, "M" its message of the day, "P" the PROXY header, "L" *)
(* the listing, "E" a notice or error; other tokens are names and data.    *)
(***************************************************************************)
EXTENDS RelaySession, Sequences, Functions

CONSTANTS
  Token,         \* the bytes
  BufSize,       \* ReadBufferSize
  Modules,       \* the names in the module table: sequences of tokens
  Motd,          \* << >> or <<"M">>
  Scripts        \* Scripts[c]: what peer c may send: sequences of
                 \* [after, bytes]: bytes once token after has arrived

ASSUME SessionAssumption ==
  /\ {"n", "@", "S", "P", "L", "E"} \subseteq Token
  /\ BufSize \in Nat \ {0, 1}
  /\ Modules \subseteq Seq(Token) /\ Motd \in Seq(Token)
  /\ Scripts \in [Conns -> SUBSET Seq([after : Token \cup {"start"}, bytes : Seq(Token)])]

VARIABLES
  stage,         \* "version", "module", "admit", "dial", "greet", "answer",
                 \* "request", "relay" or, after an early return, "over"
  buf,           \* what readLine has read so far
  version, module,
  script,        \* script[c]: what peer c has still to send
  sent,          \* sent[c]: what it has sent,
  wire,          \* wire[c]: the part of that which the proxy has not read
  out,           \* out[c]: what the proxy has written to c
  said,          \* said[c]: the part of that which is the proxy's own words
  held           \* held[d]: what copier d has read and not yet written

handshake == <<stage, buf, version, module>>
told == <<out, said>>
streams == <<script, sent, wire, told, held>>
allVars == <<vars, handshake, streams>>

SessionInit ==
  /\ Init
  /\ stage = "version" /\ buf = << >> /\ version = << >> /\ module = << >>
  /\ script \in {s \in [Conns -> Scripts["down"] \cup Scripts["up"]] : \A c \in Conns : s[c] \in Scripts[c]}
  /\ sent = [c \in Conns |-> << >>] /\ wire = sent /\ out = sent /\ said = sent
  /\ held = [d \in Dirs |-> << >>]

Connected == {"greet", "answer", "request", "relay"}

(* The next bytes of a peer arrive. *)
Send(c) ==
  /\ peer[c] = "open" /\ ~closed[c] /\ script[c] # << >>
  /\ c = "up" => stage \in Connected
  /\ LET part == Head(script[c])
     IN  /\ part.after \in {"start"} \cup Range(out[c])
         /\ wire' = [wire EXCEPT ![c] = @ \o part.bytes]
         /\ sent' = [sent EXCEPT ![c] = @ \o part.bytes]
  /\ script' = [script EXCEPT ![c] = Tail(@)]
  /\ UNCHANGED <<vars, handshake, told, held>>

(* The end of its data, or a reset, arrives. *)
Leave(c, how) ==
  /\ PeerLeaves(c, how)
  /\ c = "up" => stage \in Connected
  /\ how = "eof" => wire[c] = << >>
  /\ UNCHANGED <<handshake, streams>>
-----------------------------------------------------------------------------
(* The proxy writes words of its own and then bytes of the other peer. *)
Write(c, own, bytes) ==
  /\ out' = [out EXCEPT ![c] = @ \o (own \o bytes)]
  /\ said' = [said EXCEPT ![c] = @ \o own]

Say(c, own) == Write(c, own, << >>)

(* An early return of relay; the deferred closes run. *)
GiveUp ==
  /\ stage' = "over" /\ main' = "returned"
  /\ closed' = [c \in Conns |-> TRUE]
  /\ UNCHANGED <<copier, peer, abort, due, watcher, timedOut, terminated>>

Proceed(s) == stage' = s /\ UNCHANGED vars

(* What buf may hold after one more Read. *)
Reads(c) ==
  {buf \o SubSeq(wire[c], 1, k) : k \in {k \in 1..Len(wire[c]) : Len(buf) + k <= BufSize}}

Taken(c, b) ==
  /\ peer[c] # "reset"
  /\ wire' = [wire EXCEPT ![c] = SubSeq(@, Len(b) - Len(buf) + 1, Len(@))]

(* Mutant: readLine does not loop. *)
IsLine_OneRead(b) == TRUE

(* readLine returns when the last byte it has is a newline or buf is full. *)
IsLine(b) == b[Len(b)] = "n" \/ Len(b) = BufSize

Reading(c) == stage \in IF c = "down" THEN {"version", "module"} ELSE {"answer"}

ReadMore(c) ==
  /\ Reading(c)
  /\ \E b \in Reads(c) : ~IsLine(b) /\ Taken(c, b) /\ buf' = b
  /\ UNCHANGED <<vars, stage, version, module, script, sent, told, held>>

(* Mutant: the read deadline is not set. *)
ReadFails_NoDeadline(c) ==
  /\ Reading(c) /\ peer[c] # "open" /\ (wire[c] = << >> \/ peer[c] = "reset")
  /\ GiveUp
  /\ UNCHANGED <<buf, version, module, streams>>

(* The read deadline passes, or the peer has gone. *)
ReadFails(c) ==
  /\ Reading(c) /\ (wire[c] = << >> \/ peer[c] = "reset")
  /\ GiveUp
  /\ UNCHANGED <<buf, version, module, streams>>

(* A write times out or fails. *)
WriteRefused ==
  /\ stage \in {"greet", "request"}
  /\ GiveUp
  /\ UNCHANGED <<buf, version, module, streams>>

ReadClientVersion ==
  /\ stage = "version"
  /\ \E b \in Reads("down") :
       /\ IsLine(b) /\ Taken("down", b) /\ version' = b
       /\ \/ b[1] = "@" /\ Say("down", <<"S">>) /\ Proceed("module")
          \/ GiveUp /\ UNCHANGED told
  /\ buf' = << >>
  /\ UNCHANGED <<module, script, sent, held>>

(* buf[:n-1] *)
TrimName(b) == SubSeq(b, 1, Len(b) - 1)

(* The message of the day, then a listing, an error or admission. *)
ReadModule ==
  /\ stage = "module"
  /\ \E b \in Reads("down") :
       /\ IsLine(b) /\ Taken("down", b)
       /\ \/ /\ Len(b) > 1 /\ TrimName(b) \in Modules
             /\ module' = TrimName(b) /\ Say("down", Motd) /\ Proceed("admit")
          \/ /\ Len(b) = 1 \/ TrimName(b) \notin Modules
             /\ Say("down", Append(Motd, IF Len(b) = 1 THEN "L" ELSE "E"))
             /\ GiveUp /\ UNCHANGED module
          \/ GiveUp /\ UNCHANGED <<module, told>>
  /\ buf' = << >>
  /\ UNCHANGED <<version, script, sent, held>>

(* The per-IP cap and the queue; a waiting client gets notices, a refused  *)
(* one an error.  relay returns without a word when the upstream has lost  *)
(* its queue and when a notice cannot be sent.                             *)
Admit(notices) ==
  /\ stage = "admit"
  /\ Say("down", notices)
  /\ Proceed("dial") \/ GiveUp
  /\ UNCHANGED <<buf, version, module, script, sent, wire, held>>

Dial ==
  /\ stage = "dial"
  /\ Proceed("greet") \/ GiveUp
  /\ UNCHANGED <<buf, version, module, streams>>

(* One line, from the addresses of client and upstream; an address of      *)
(* another type than TCP or unix is an error, as a failed write is.        *)
generateProxyProtocolHeader == <<"P">>

(* The PROXY header and the client's version line. *)
Greet(header) ==
  /\ stage = "greet"
  /\ Write("up", header, version)
  /\ Proceed("answer")
  /\ UNCHANGED <<buf, version, module, script, sent, wire, held>>

(* Mutant: what the upstream sent with its greeting is dropped. *)
AfterGreeting_Dropped(b) == << >>

(* data[idx+1:], where idx is -1 if there is no newline *)
AfterGreeting(b) ==
  LET ends == {i \in DOMAIN b : b[i] = "n"}
      idx == IF ends = {} THEN 0 ELSE CHOOSE i \in ends : \A j \in ends : i <= j
  IN  SubSeq(b, idx + 1, Len(b))

(* The upstream's greeting; what follows it in buf is for the client. *)
ReadAnswer ==
  /\ stage = "answer"
  /\ \E b \in Reads("up") :
       /\ IsLine(b) /\ Taken("up", b)
       /\ \/ b[1] = "@" /\ Write("down", << >>, AfterGreeting(b)) /\ Proceed("request")
          \/ GiveUp /\ UNCHANGED told
  /\ buf' = << >>
  /\ UNCHANGED <<version, module, script, sent, held>>

RequestModule ==
  /\ stage = "request"
  /\ Write("up", << >>, Append(module, "n"))
  /\ Proceed("relay")
  /\ UNCHANGED <<buf, version, module, script, sent, wire, held>>

HandshakeStep ==
  \/ \E c \in Conns : ReadMore(c) \/ ReadFails(c)
  \/ WriteRefused \/ ReadClientVersion \/ ReadModule \/ Dial
  \/ \E notices \in {<< >>, <<"E">>} : Admit(notices)
  \/ \E header \in {<< >>, generateProxyProtocolHeader} : Greet(header)
  \/ ReadAnswer \/ RequestModule
-----------------------------------------------------------------------------
(* The relay phase, with its data. *)
Relaying == stage = "relay" /\ UNCHANGED <<handshake, script, sent>>

CopyRead(d) ==
  /\ Relaying /\ ReadData(d)
  /\ wire[Src(d)] # << >>
  /\ held' = [held EXCEPT ![d] = wire[Src(d)]]
  /\ wire' = [wire EXCEPT ![Src(d)] = << >>]
  /\ UNCHANGED told

CopyWrite(d) ==
  /\ Relaying /\ WriteDone(d)
  /\ Write(Dst(d), << >>, held[d])
  /\ held' = [held EXCEPT ![d] = << >>]
  /\ UNCHANGED wire

ProxyStep == Relaying /\ Proxy /\ UNCHANGED <<wire, told, held>>
WatcherStep == Relaying /\ (WatcherTick \/ WatcherLeaves) /\ UNCHANGED <<wire, told, held>>
TimePasses(r) == Relaying /\ Expires(r) /\ UNCHANGED <<wire, told, held>>

SessionNext ==
  \/ HandshakeStep \/ ProxyStep \/ WatcherStep
  \/ \E d \in Dirs : CopyRead(d) \/ CopyWrite(d)
  \/ \E r \in Enabled : TimePasses(r)
  \/ \E c \in Conns : Send(c) \/ \E how \in {"eof", "reset"} : Leave(c, how)

(* The goroutines run, every handshake read and write has a deadline, the  *)
(* queue serves its waiters, the ticker ticks and time passes.             *)
SessionSpec ==
  /\ SessionInit /\ [][SessionNext]_allVars
  /\ WF_allVars(HandshakeStep)
  /\ WF_allVars(ProxyStep)
  /\ WF_allVars(WatcherStep)
  /\ WF_allVars(TimePasses("max"))
-----------------------------------------------------------------------------
(* The first line of a byte stream and what follows it. *)
FirstLine(s) ==
  LET ends == {i \in DOMAIN s : s[i] = "n"}
  IN  IF ends = {} THEN s ELSE SubSeq(s, 1, CHOOSE i \in ends : \A j \in ends : i <= j)
Rest(s) == SubSeq(s, Len(FirstLine(s)) + 1, Len(s))

(* The first line of s ends with the newline at e. *)
EndsAt(s, e) ==
  /\ e \in 1..Len(s) /\ s[e] = "n"
  /\ \A j \in 1..Len(s) : s[j] = "n" => e <= j

(* The module that is looked up, counted and requested is the second line  *)
(* the client sent, however its bytes were cut into reads, for clients     *)
(* whose lines fit into the buffer.                                        *)
RightModule ==
  module # << >> => Append(module, "n") = FirstLine(Rest(sent["down"]))

(* Once the relay phase has begun each peer has been sent, after what the  *)
(* proxy says itself, exactly the bytes of the other: the upstream those   *)
(* of the client, the client those that follow the upstream's greeting;    *)
(* nothing is lost, repeated or reordered at the passage from readLine's   *)
(* buffer to io.Copy.                                                      *)
StreamsIntact ==
  stage = "relay" =>
    /\ out["up"] \o (held["sent"] \o wire["down"]) = said["up"] \o sent["down"]
    /\ out["down"] \o (held["received"] \o wire["up"]) = said["down"] \o Rest(sent["up"])

(* What the two hold for: module names contain no newline and leave room   *)
(* for it in the buffer, and the upstream's greeting ends within the       *)
(* buffer and is sent in one piece.                                        *)
NamesFit ==
  \A m \in Modules : Len(m) + 1 < BufSize /\ \A i \in 1..Len(m) : m[i] # "n"
GreetingFits ==
  \A s \in Scripts["up"] :
    s # << >> => \E e \in 1..BufSize : EndsAt(s[1].bytes, e)

(* A client that waits for the proxy's greeting: what it sends first is    *)
(* one line, and everything else answers something the proxy said.         *)
OneLine(s) == s # << >> /\ \A i \in 1..Len(s) : s[i] = "n" <=> i = Len(s)
TakesTurns ==
  \A s \in Scripts["down"] :
    /\ s # << >> => OneLine(s[1].bytes) /\ Len(s[1].bytes) <= BufSize
    /\ \A i \in 2..Len(s) : s[i].after # "start"

(* A connection whose peers take the data they are sent is over in time:   *)
(* the handshake by its deadlines, the relay phase by relay_max_duration.  *)
SessionBounded ==
  (\A d \in Dirs : WF_allVars(CopyWrite(d))) => <>(main = "returned")
=============================================================================
