--------------------------- MODULE SessionProofs ---------------------------
(* Proofs about Session for any peers, modules and size of the buffer. *)
EXTENDS Session, SequenceTheorems, TLAPS

Bytes == Seq(Token)

(* Concatenation of byte streams. *)
LEMMA CatType ==
  ASSUME NEW x, NEW y, x \in Bytes, y \in Bytes
  PROVE  x \o y \in Bytes
BY ConcatProperties DEF Bytes

(* Three streams are put together in either order; what arrives behind two *)
(* pieces arrives behind them both.                                        *)
Assoc(x, y, z) == (x \o y) \o z = x \o (y \o z)

Behind(p, q, w, x) == p \o (q \o (w \o x)) = (p \o (q \o w)) \o x

(* Concatenation is associative, *)
LEMMA CatAssoc ==
  ASSUME NEW x, NEW y, NEW z, x \in Bytes, y \in Bytes, z \in Bytes
  PROVE  Assoc(x, y, z)
BY ConcatAssociative DEF Bytes, Assoc

(* and the empty stream is neutral. *)
LEMMA CatEmpty ==
  ASSUME NEW x, x \in Bytes
  PROVE  << >> \in Bytes /\ x \o << >> = x /\ << >> \o x = x
BY ConcatEmptySeq, EmptySeq DEF Bytes

(* More bytes behind two pieces of a stream. *)
LEMMA CatBehind ==
  ASSUME NEW p, NEW q, NEW w, NEW x, p \in Bytes, q \in Bytes, w \in Bytes, x \in Bytes
  PROVE  Behind(p, q, w, x)
<1>1. PICK u : u = q \o w
  BY Zenon
<1>2. u \in Bytes
  BY <1>1, CatType
<1>3. Assoc(q, w, x)
  BY ONLY q \in Bytes, w \in Bytes, x \in Bytes, CatAssoc
<1>4. Assoc(p, u, x)
  BY ONLY p \in Bytes, <1>2, x \in Bytes, CatAssoc
<1> QED
  BY ONLY <1>1, <1>3, <1>4, Zenon DEF Assoc, Behind

(* A common beginning can be dropped. *)
LEMMA CatCancel ==
  ASSUME NEW x, NEW y, NEW z, x \in Bytes, y \in Bytes, z \in Bytes, x \o y = x \o z
  PROVE  y = z
<1>1. x \in Seq(Token) /\ y \in Seq(Token) /\ z \in Seq(Token) /\ x \o y = x \o z
  BY DEF Bytes
<1>2. \A S : \A s, t, v \in Seq(S) : s \o t = s \o v => t = v
  BY ConcatSimplifications, Zenon
<1> QED
  BY ONLY <1>1, <1>2, Zenon

(* A stream cut in two. *)
LEMMA Cut ==
  ASSUME NEW x, NEW k, x \in Bytes, k \in 0..Len(x)
  PROVE  /\ SubSeq(x, 1, k) \in Bytes /\ SubSeq(x, k + 1, Len(x)) \in Bytes
         /\ Len(SubSeq(x, 1, k)) = k
         /\ SubSeq(x, 1, k) \o SubSeq(x, k + 1, Len(x)) = x
<1>1. PICK n : n = Len(x) /\ n \in Nat
  BY DEF Bytes
<1>2. \A i \in 1..n : x[i] \in Token
  BY <1>1 DEF Bytes
<1>3. /\ SubSeq(x, 1, k) \in Seq(Token)
      /\ Len(SubSeq(x, 1, k)) = IF 1 <= k THEN k - 1 + 1 ELSE 0
  BY <1>1, <1>2, SubSeqProperties
<1>4. SubSeq(x, k + 1, n) \in Seq(Token)
  <2>1. k + 1 \in Int /\ n \in Int /\ \A i \in (k + 1)..n : x[i] \in Token
    BY <1>1, <1>2
  <2> QED
    BY <2>1, SubSeqProperties
<1>5. SubSeq(x, 1, k) \o SubSeq(x, k + 1, n) = SubSeq(x, 1, n)
  <2>1. 1 \in 1..(Len(x) + 1) /\ k \in (1 - 1)..Len(x) /\ n \in k..Len(x) /\ x \in Seq(Token)
    BY <1>1 DEF Bytes
  <2> QED
    BY <2>1, ConcatAdjacentSubSeq
<1>6. SubSeq(x, 1, n) = x
  BY <1>1, SubSeqFull DEF Bytes
<1>7. Len(SubSeq(x, 1, k)) = k
  BY <1>1, <1>3
<1> QED
  BY <1>1, <1>3, <1>4, <1>5, <1>6, <1>7, Zenon DEF Bytes

(* The first line, the rest and what relay forwards of a greeting. *)
LEMMA LineLemma ==
  ASSUME NEW s, s \in Bytes, NEW e, EndsAt(s, e)
  PROVE  /\ FirstLine(s) = SubSeq(s, 1, e) /\ Len(FirstLine(s)) = e
         /\ Rest(s) = SubSeq(s, e + 1, Len(s))
         /\ AfterGreeting(s) = SubSeq(s, e + 1, Len(s))
<1> DEFINE ends == {i \in DOMAIN s : s[i] = "n"}
<1>1. DOMAIN s = 1..Len(s) /\ Len(s) \in Nat
  BY DEF Bytes
<1>2. ends # {} /\ e = CHOOSE i \in ends : \A j \in ends : i <= j
  <2>1. e \in ends /\ \A j \in ends : e <= j
    BY <1>1 DEF EndsAt
  <2>2. \A i \in ends : (\A j \in ends : i <= j) => i = e
    <3> SUFFICES ASSUME NEW i \in ends, \A j \in ends : i <= j PROVE i = e
      OBVIOUS
    <3>1. i <= e /\ e <= i /\ i \in Nat /\ e \in Nat
      BY <1>1, <2>1
    <3> QED
      BY <3>1
  <2> HIDE DEF ends
  <2> QED
    BY <2>1, <2>2
<1>3. FirstLine(s) = SubSeq(s, 1, e)
  BY <1>2, Zenon DEF FirstLine
<1>4. AfterGreeting(s) = SubSeq(s, e + 1, Len(s))
  BY <1>2, Zenon DEF AfterGreeting
<1>5. e \in 0..Len(s)
  BY <1>1 DEF EndsAt
<1>6. Len(SubSeq(s, 1, e)) = e
  BY <1>5, Cut
<1> QED
  BY <1>3, <1>4, <1>6, Zenon DEF Rest

(* Bytes that arrive later do not change the first line. *)
LEMMA LaterBytes ==
  ASSUME NEW s, NEW t, s \in Bytes, t \in Bytes, NEW e, EndsAt(s, e)
  PROVE  /\ EndsAt(s \o t, e)
         /\ FirstLine(s \o t) = FirstLine(s)
         /\ Rest(s \o t) = Rest(s) \o t
<1>1. /\ s \o t \in Bytes /\ Len(s \o t) = Len(s) + Len(t) /\ Len(s) \in Nat /\ Len(t) \in Nat
      /\ \A i \in 1..(Len(s) + Len(t)) : (s \o t)[i] = IF i <= Len(s) THEN s[i] ELSE t[i - Len(s)]
  BY ConcatProperties, LenProperties DEF Bytes
<1>2. PICK m, n, x : m = Len(s) /\ n = Len(s) + Len(t) /\ x = s \o t
  BY Zenon
<1>3. /\ m \in Nat /\ n \in Nat /\ m <= n /\ Len(x) = n /\ x \in Bytes
      /\ \A i \in 1..m : x[i] = s[i]
  BY <1>1, <1>2
<1>4. e \in 1..m /\ s[e] = "n" /\ \A j \in 1..m : s[j] = "n" => e <= j
  BY <1>2 DEF EndsAt
<1>5. EndsAt(x, e)
  BY <1>3, <1>4 DEF EndsAt
<1>7. SubSeq(x, 1, e) = SubSeq(s, 1, e)
  <2>1. s \in Seq(Token) /\ t \in Seq(Token) /\ 1 \in 1..Len(s) /\ e \in 1..Len(s)
    BY <1>2, <1>3, <1>4 DEF Bytes
  <2> QED
    BY <1>2, <2>1, SubSeqOfConcat1
<1>8. /\ FirstLine(x) = SubSeq(x, 1, e) /\ FirstLine(s) = SubSeq(s, 1, e)
      /\ Rest(x) = SubSeq(x, e + 1, n) /\ Rest(s) = SubSeq(s, e + 1, m)
  BY <1>2, <1>3, <1>5, LineLemma, Zenon
<1>9. Rest(x) = Rest(s) \o t
  <2>1. PICK h, r, R : h = SubSeq(s, 1, e) /\ r = SubSeq(s, e + 1, m) /\ R = SubSeq(x, e + 1, n)
    BY Zenon
  <2>2. e \in 0..Len(s) /\ e \in 0..Len(x)
    BY <1>2, <1>3, <1>4
  <2>3. h \in Bytes /\ r \in Bytes /\ h \o r = s
    <3>1. /\ SubSeq(s, 1, e) \in Bytes /\ SubSeq(s, e + 1, Len(s)) \in Bytes
          /\ SubSeq(s, 1, e) \o SubSeq(s, e + 1, Len(s)) = s
      BY <2>2, Cut, Zenon
    <3> QED
      BY <1>2, <2>1, <3>1, Zenon
  <2>4. R \in Bytes /\ h \o R = x
    <3>1. /\ SubSeq(x, e + 1, Len(x)) \in Bytes
          /\ SubSeq(x, 1, e) \o SubSeq(x, e + 1, Len(x)) = x
      BY <1>3, <2>2, Cut, Zenon
    <3> QED
      BY <1>3, <1>7, <2>1, <3>1, Zenon
  <2>5. h \o R = h \o (r \o t)
    <3>1. h \in Bytes /\ r \in Bytes /\ t \in Bytes
      BY <2>3
    <3>2. Assoc(h, r, t)
      BY ONLY <3>1, CatAssoc
    <3> QED
      BY <1>2, <2>3, <2>4, <3>2, Zenon DEF Assoc
  <2>6. r \o t \in Bytes
    BY <2>3, CatType
  <2>7. R = r \o t
    BY ONLY <2>3, <2>4, <2>5, <2>6, CatCancel, Zenon
  <2> QED
    BY <1>8, <2>1, <2>7, Zenon
<1> QED
  BY <1>2, <1>5, <1>7, <1>8, <1>9, Zenon

-----------------------------------------------------------------------------
(* The relay phase: what a copier has read is cut off by no close but the  *)
(* watcher's and the last one, and no linger option is set before main has *)
(* chosen the direction that ended first.                                  *)
EndInv ==
  /\ copier \in [Dirs -> {"read", "write", "done"}]
  /\ closed \in [Conns -> BOOLEAN]
  /\ NoCutOff
  /\ main = "select" /\ ~timedOut => \A c \in Conns : ~closed[c]
  /\ main = "select" => abort = {}

(* Every step of the relay phase preserves that, *)
LEMMA RelayEnds ==
  ASSUME EndInv, Next \/ UNCHANGED vars
  PROVE  EndInv'
<1> USE DEF EndInv, NoCutOff, Dirs, Conns, Src, Dst
<1>1. ASSUME UNCHANGED <<copier, closed, abort, timedOut, main>> PROVE EndInv'
  BY <1>1
<1>2. ASSUME NEW d \in Dirs, ReadEnds(d) \/ WriteFails(d) PROVE EndInv'
  BY <1>2 DEF ReadEnds, WriteFails
<1>3. ASSUME NEW d \in Dirs, FirstEnds(d) PROVE EndInv'
  BY <1>3, SMTT(30) DEF FirstEnds, closeRead
<1>4. ASSUME NEW d \in Dirs, ReadData(d) \/ WriteDone(d) PROVE EndInv'
  BY <1>4 DEF ReadData, WriteDone
<1>5. CASE Returns
  BY <1>5 DEF Returns
<1>6. CASE WatcherTick
  BY <1>6 DEF WatcherTick
<1> HIDE DEF EndInv
<1>7. CASE \/ WatcherLeaves \/ (\E r \in Enabled : Expires(r)) \/ UNCHANGED vars
           \/ (\E c \in Conns, how \in {"eof", "reset"} : PeerLeaves(c, how))
  BY <1>1, <1>7 DEF WatcherLeaves, Expires, PeerLeaves, vars
<1> QED
  BY <1>2, <1>3, <1>4, <1>5, <1>6, <1>7 DEF Next, Proxy

(* and so does an early return of the handshake. *)
LEMMA GiveUpEnds ==
  ASSUME EndInv, GiveUp
  PROVE  EndInv'
BY DEF EndInv, NoCutOff, GiveUp, Dirs, Conns

(* A step of a session is a step of the relay phase, an early return or    *)
(* leaves the relay phase's state alone.                                   *)
LEMMA SessionStepKinds ==
  ASSUME SessionNext \/ UNCHANGED allVars
  PROVE  Next \/ UNCHANGED vars \/ GiveUp
<1>1. CASE HandshakeStep
  BY <1>1 DEF HandshakeStep, ReadMore, ReadFails, WriteRefused, ReadClientVersion, ReadModule,
     Dial, Admit, Greet, ReadAnswer, RequestModule, Proceed
<1>2. CASE ProxyStep \/ WatcherStep
  BY <1>2 DEF ProxyStep, WatcherStep, Next
<1>3. ASSUME NEW d \in Dirs, CopyRead(d) \/ CopyWrite(d) PROVE Next
  BY <1>3 DEF CopyRead, CopyWrite, Next
<1>4. ASSUME NEW r \in Enabled, TimePasses(r) PROVE Next
  BY <1>4 DEF TimePasses, Next
<1>5. ASSUME NEW c \in Conns, Send(c) PROVE UNCHANGED vars
  BY <1>5 DEF Send
<1>6. ASSUME NEW c \in Conns, NEW how \in {"eof", "reset"}, Leave(c, how) PROVE Next
  BY <1>6 DEF Leave, Next
<1>7. CASE UNCHANGED allVars
  BY <1>7 DEF allVars
<1> QED
  BY <1>1, <1>2, <1>3, <1>4, <1>5, <1>6, <1>7 DEF SessionNext

(* The proxy closes nothing under a copier that still has bytes to write,  *)
(* nor so that bytes already written for a peer that goes on are lost: not *)
(* in the relay phase by itself,                                           *)
THEOREM RelayCutsNothingOff == Spec => []NoCutOff
<1>1. Init => EndInv
  BY DEF Init, EndInv, NoCutOff, Dirs, Conns, Dst
<1>2. EndInv /\ [Next]_vars => EndInv'
  BY RelayEnds
<1>3. EndInv => NoCutOff
  BY DEF EndInv
<1> QED
  BY <1>1, <1>2, <1>3, PTL DEF Spec

(* nor in a whole session with its handshake and its early returns.        *)
THEOREM SessionCutsNothingOff == SessionSpec => []NoCutOff
<1>1. SessionInit => EndInv
  BY DEF SessionInit, Init, EndInv, NoCutOff, Dirs, Conns, Dst
<1>2. EndInv /\ [SessionNext]_allVars => EndInv'
  BY SessionStepKinds, RelayEnds, GiveUpEnds
<1>3. EndInv => NoCutOff
  BY DEF EndInv
<1> QED
  BY <1>1, <1>2, <1>3, PTL DEF SessionSpec
-----------------------------------------------------------------------------
(* The bytes. *)
Script == Seq([after : Token \cup {"start"}, bytes : Bytes])

SessionTypes ==
  /\ buf \in Bytes /\ version \in Bytes /\ module \in Bytes
  /\ script \in [Conns -> Script]
  /\ sent \in [Conns -> Bytes] /\ wire \in [Conns -> Bytes]
  /\ out \in [Conns -> Bytes] /\ said \in [Conns -> Bytes]
  /\ held \in [Dirs -> Bytes]

(* The tokens of the proxy's own words. *)
LEMMA OwnWords ==
  /\ Motd \in Bytes /\ << >> \in Bytes
  /\ <<"S">> \in Bytes /\ <<"E">> \in Bytes /\ generateProxyProtocolHeader \in Bytes
  /\ Append(Motd, "L") \in Bytes /\ Append(Motd, "E") \in Bytes
<1>1. "S" \in Token /\ "E" \in Token /\ "P" \in Token /\ "L" \in Token
  BY SessionAssumption
<1>2. Motd \in Seq(Token)
  BY SessionAssumption
<1> QED
  BY <1>1, <1>2 DEF Bytes, generateProxyProtocolHeader

(* One Read of readLine: the bytes move from the connection to the buffer. *)
LEMMA ReadLemma ==
  ASSUME SessionTypes, NEW c \in Conns, NEW b \in Reads(c), Taken(c, b)
  PROVE  /\ b \in Bytes /\ b # << >> /\ Len(b) <= BufSize /\ Len(b) \in Nat \ {0}
         /\ wire' \in [Conns -> Bytes] /\ b \o wire'[c] = buf \o wire[c]
         /\ \A o \in Conns \ {c} : wire'[o] = wire[o]
<1>1. PICK w : w = wire[c] /\ w \in Bytes /\ Len(w) \in Nat
  BY DEF SessionTypes, Bytes
<1>2. PICK k \in 1..Len(w) : b = buf \o SubSeq(w, 1, k) /\ Len(buf) + k <= BufSize
  BY <1>1, Zenon DEF Reads
<1>3. PICK x, y : x = SubSeq(w, 1, k) /\ y = SubSeq(w, k + 1, Len(w))
  BY Zenon
<1>4. x \in Bytes /\ y \in Bytes /\ Len(x) = k /\ x \o y = w
  <2>1. k \in 0..Len(w)
    BY <1>1, <1>2, SMTT(30)
  <2>2. w \in Bytes
    BY <1>1
  <2>3. /\ SubSeq(w, 1, k) \in Bytes /\ SubSeq(w, k + 1, Len(w)) \in Bytes
        /\ Len(SubSeq(w, 1, k)) = k
        /\ SubSeq(w, 1, k) \o SubSeq(w, k + 1, Len(w)) = w
    BY ONLY <2>1, <2>2, Cut, Zenon
  <2> QED
    BY <1>3, <2>3, Zenon
<1>5. buf \in Bytes /\ Len(buf) \in Nat /\ Len(x) \in Nat
  BY <1>4 DEF SessionTypes, Bytes
<1>6. b \in Bytes /\ Len(b) = Len(buf) + k
  <2>1. buf \in Seq(Token) /\ x \in Seq(Token)
    BY <1>4, <1>5 DEF Bytes
  <2>2. buf \o x \in Seq(Token) /\ Len(buf \o x) = Len(buf) + Len(x)
    BY <2>1, ConcatProperties
  <2> QED
    BY <1>2, <1>3, <1>4, <2>2, SMTT(30) DEF Bytes
<1>7. wire' = [wire EXCEPT ![c] = y]
  <2>1. Len(b) - Len(buf) + 1 = k + 1
    BY <1>1, <1>2, <1>5, <1>6
  <2> QED
    BY <1>1, <1>3, <2>1, ZenonT(30) DEF Taken
<1>8. wire' \in [Conns -> Bytes] /\ wire'[c] = y /\ \A o \in Conns \ {c} : wire'[o] = wire[o]
  BY <1>4, <1>7 DEF SessionTypes
<1>9. b \o y = buf \o w
  <2>1. Assoc(buf, x, y)
    <3>1. buf \in Bytes /\ x \in Bytes /\ y \in Bytes
      BY <1>4, <1>5, SMTT(30)
    <3> QED
      BY ONLY <3>1, CatAssoc
  <2> QED
    BY <1>2, <1>3, <1>4, <2>1, Zenon DEF Assoc
<1>10. Len(b) <= BufSize /\ Len(b) \in Nat \ {0} /\ b # << >>
  BY <1>1, <1>2, <1>5, <1>6
<1> QED
  BY <1>1, <1>6, <1>8, <1>9, <1>10

(* A write appends to what the peer has been sent. *)
LEMMA WriteLemma ==
  ASSUME SessionTypes, NEW c \in Conns, NEW own, NEW bytes, own \in Bytes, bytes \in Bytes,
         Write(c, own, bytes)
  PROVE  /\ out' \in [Conns -> Bytes] /\ said' \in [Conns -> Bytes]
         /\ out'[c] = out[c] \o (own \o bytes) /\ said'[c] = said[c] \o own
         /\ \A o \in Conns \ {c} : out'[o] = out[o] /\ said'[o] = said[o]
<1>1. out[c] \in Bytes /\ said[c] \in Bytes
  BY DEF SessionTypes
<1>2. own \o bytes \in Bytes /\ said[c] \o own \in Bytes
  BY <1>1, CatType
<1>3. out[c] \o (own \o bytes) \in Bytes
  BY <1>1, <1>2, CatType
<1> QED
  BY <1>2, <1>3 DEF Write, SessionTypes

(* Words of its own go into both. *)
LEMMA SayLemma ==
  ASSUME SessionTypes, NEW c \in Conns, NEW own, own \in Bytes, Say(c, own)
  PROVE  /\ out' \in [Conns -> Bytes] /\ said' \in [Conns -> Bytes]
         /\ out'[c] = out[c] \o own /\ said'[c] = said[c] \o own
         /\ \A o \in Conns \ {c} : out'[o] = out[o] /\ said'[o] = said[o]
<1>1. Write(c, own, << >>) /\ << >> \in Bytes /\ own \o << >> = own
  BY CatEmpty DEF Say
<1>2. /\ out' \in [Conns -> Bytes] /\ said' \in [Conns -> Bytes]
      /\ out'[c] = out[c] \o (own \o << >>) /\ said'[c] = said[c] \o own
      /\ \A o \in Conns \ {c} : out'[o] = out[o] /\ said'[o] = said[o]
  BY <1>1, WriteLemma, Zenon
<1> QED
  BY <1>1, <1>2, Zenon

(* A peer's next bytes. *)
LEMMA SendLemma ==
  ASSUME SessionTypes, NEW c \in Conns, Send(c)
  PROVE  \E bytes : /\ bytes \in Bytes /\ bytes = script[c][1].bytes /\ script[c] # << >>
                    /\ wire' \in [Conns -> Bytes] /\ sent' \in [Conns -> Bytes]
                    /\ script' \in [Conns -> Script]
                    /\ wire'[c] = wire[c] \o bytes /\ sent'[c] = sent[c] \o bytes
                    /\ script'[c] = Tail(script[c])
                    /\ \A o \in Conns \ {c} : wire'[o] = wire[o] /\ sent'[o] = sent[o] /\ script'[o] = script[o]
<1>1. PICK s, bytes : s = script[c] /\ bytes = Head(s).bytes
  OBVIOUS
<1>2. s \in Script /\ s # << >>
  BY <1>1 DEF Send, SessionTypes
<1>3. Tail(s) \in Script /\ Head(s) \in [after : Token \cup {"start"}, bytes : Bytes] /\ Head(s) = s[1]
  <2>1. /\ Tail(s) \in Seq([after : Token \cup {"start"}, bytes : Bytes])
        /\ Head(s) \in [after : Token \cup {"start"}, bytes : Bytes]
    BY <1>2, HeadTailProperties, Zenon DEF Script
  <2>2. Head(s) = s[1]
    BY <1>2 DEF Script
  <2> QED
    BY <2>1, <2>2 DEF Script
<1>4. bytes \in Bytes /\ bytes = s[1].bytes
  BY <1>1, <1>3
<1>5. wire[c] \in Bytes /\ sent[c] \in Bytes
  BY DEF SessionTypes
<1>6. wire[c] \o bytes \in Bytes /\ sent[c] \o bytes \in Bytes
  BY <1>4, <1>5, CatType, SMTT(30)
<1>7. /\ wire' = [wire EXCEPT ![c] = wire[c] \o bytes]
      /\ sent' = [sent EXCEPT ![c] = sent[c] \o bytes]
      /\ script' = [script EXCEPT ![c] = Tail(s)]
  BY <1>1 DEF Send
<1>8. /\ wire' \in [Conns -> Bytes] /\ sent' \in [Conns -> Bytes]
      /\ script' \in [Conns -> Script]
      /\ wire'[c] = wire[c] \o bytes /\ sent'[c] = sent[c] \o bytes
      /\ script'[c] = Tail(s)
      /\ \A o \in Conns \ {c} : wire'[o] = wire[o] /\ sent'[o] = sent[o] /\ script'[o] = script[o]
  BY <1>3, <1>6, <1>7 DEF SessionTypes
<1> QED
  BY <1>1, <1>2, <1>4, <1>8, Zenon
-----------------------------------------------------------------------------
Opening == {"version", "module", "admit", "dial"}

(* Where the client's bytes are: with readLine, in the version and the     *)
(* module name that wait for the upstream, with the upstream, with the     *)
(* copier or still on the connection.                                      *)
ClientFlow ==
  /\ stage = "version" => version = << >>
  /\ stage \in {"version", "module"} => version \o (buf \o wire["down"]) = sent["down"]
  /\ stage \in {"admit", "dial", "greet", "answer", "request"} =>
       version \o (Append(module, "n") \o wire["down"]) = sent["down"]
  /\ stage \in Opening \cup {"greet"} => out["up"] = << >> /\ said["up"] = << >>
  /\ stage \in {"answer", "request"} => out["up"] = said["up"] \o version
  /\ stage = "relay" => out["up"] \o (held["sent"] \o wire["down"]) = said["up"] \o sent["down"]

(* Where the upstream's bytes are. *)
UpstreamFlow ==
  /\ stage \in Opening => sent["up"] = << >> /\ wire["up"] = << >>
  /\ stage \in {"admit", "dial", "greet"} => buf = << >>
  /\ stage \in {"greet", "answer"} => buf \o wire["up"] = sent["up"]
  /\ stage \in Opening \cup {"greet", "answer"} => out["down"] = said["down"]
  /\ stage \in {"request", "relay"} =>
       /\ \E e : EndsAt(sent["up"], e)
       /\ out["down"] \o (held["received"] \o wire["up"]) = said["down"] \o Rest(sent["up"])

(* A copier that reads holds nothing, and there is none in the handshake. *)
CopierFlow ==
  \A d \in Dirs : copier[d] = "read" \/ stage # "relay" => held[d] = << >>

(* The upstream has sent nothing, or its whole greeting. *)
GreetingFlow ==
  \/ sent["up"] = << >> /\ script["up"] \in Scripts["up"]
  \/ \E e \in 1..BufSize : EndsAt(sent["up"], e)

FlowInv ==
  /\ stage \in Opening \cup {"greet", "answer", "request", "relay", "over"}
  /\ SessionTypes /\ ClientFlow /\ UpstreamFlow /\ CopierFlow /\ GreetingFlow

(* Initially nothing has been sent. *)
LEMMA InitFlow == SessionInit => FlowInv
<1> SUFFICES ASSUME SessionInit PROVE FlowInv
  OBVIOUS
<1>1. << >> \in Bytes /\ << >> \o << >> = << >> /\ << >> \o (<< >> \o << >>) = << >>
  <2>1. << >> \in Bytes
    BY OwnWords
  <2>2. << >> \o << >> = << >>
    BY ONLY <2>1, CatEmpty
  <2> QED
    BY ONLY <2>1, <2>2, Zenon
<1> USE DEF SessionInit, Conns, Dirs
<1>2. \A c \in Conns : sent[c] = << >> /\ wire[c] = << >> /\ out[c] = << >> /\ said[c] = << >>
  OBVIOUS
<1>3. \A d \in Dirs : held[d] = << >>
  OBVIOUS
<1>4. \A c \in Conns : script[c] \in Scripts[c] /\ Scripts[c] \subseteq Script
  BY SessionAssumption, Zenon DEF Script, Bytes
<1>5. SessionTypes
  <2>1. script \in [Conns -> Script]
    BY <1>4
  <2> QED
    BY <1>1, <2>1 DEF SessionTypes
<1>6. ClientFlow /\ UpstreamFlow
  BY <1>1, <1>2, SMTT(30) DEF ClientFlow, UpstreamFlow, Opening
<1>7. CopierFlow /\ GreetingFlow
  BY <1>2, <1>3, <1>4 DEF CopierFlow, GreetingFlow
<1> QED
  BY <1>5, <1>6, <1>7 DEF FlowInv, Opening

(* Steps that move no bytes. *)
LEMMA QuietFlow ==
  ASSUME FlowInv, UNCHANGED <<handshake, streams>>,
         \A d \in Dirs : copier'[d] = "read" => copier[d] = "read"
  PROVE  FlowInv'
<1>1. /\ stage' = stage /\ buf' = buf /\ version' = version /\ module' = module
      /\ script' = script /\ sent' = sent /\ wire' = wire /\ out' = out /\ said' = said /\ held' = held
  BY DEF handshake, streams, told
<1>2. SessionTypes'
  BY <1>1, SMTT(30) DEF FlowInv, SessionTypes
<1>3. ClientFlow'
  BY <1>1, ZenonT(30) DEF FlowInv, ClientFlow
<1>4. UpstreamFlow'
  BY <1>1, Zenon DEF FlowInv, UpstreamFlow
<1>5. CopierFlow'
  BY <1>1 DEF FlowInv, CopierFlow
<1>6. GreetingFlow'
  BY <1>1 DEF FlowInv, GreetingFlow
<1> QED
  BY <1>1, <1>2, <1>3, <1>4, <1>5, <1>6, SMTT(30) DEF FlowInv

(* An early return of the handshake. *)
LEMMA OverFlow ==
  ASSUME FlowInv, SessionTypes', stage # "relay", stage' = "over", UNCHANGED <<script, sent, held>>
  PROVE  FlowInv'
<1>1. ClientFlow' /\ UpstreamFlow'
  BY DEF ClientFlow, UpstreamFlow, Opening
<1>2. CopierFlow'
  BY DEF FlowInv, CopierFlow
<1>3. GreetingFlow'
  BY DEF FlowInv, GreetingFlow
<1> QED
  BY <1>1, <1>2, <1>3 DEF FlowInv

(* A read that does not complete a line. *)
LEMMA ReadMoreFlow ==
  ASSUME FlowInv, NEW c \in Conns, ReadMore(c)
  PROVE  FlowInv'
<1>1. PICK b \in Reads(c) : Taken(c, b) /\ buf' = b
  BY DEF ReadMore
<1>2. /\ Reading(c) /\ stage' = stage /\ version' = version /\ module' = module
      /\ script' = script /\ sent' = sent /\ out' = out /\ said' = said /\ held' = held
      /\ copier' = copier
  BY DEF ReadMore, vars, told
<1>3. /\ b \in Bytes /\ wire' \in [Conns -> Bytes] /\ b \o wire'[c] = buf \o wire[c]
      /\ \A o \in Conns \ {c} : wire'[o] = wire[o]
  BY <1>1, ReadLemma, Zenon DEF FlowInv
<1>4. SessionTypes'
  BY <1>1, <1>2, <1>3, SMTT(30) DEF FlowInv, SessionTypes
<1>5. CopierFlow' /\ GreetingFlow'
  BY <1>2 DEF FlowInv, CopierFlow, GreetingFlow
<1>6. CASE c = "down"
  <2>1. stage \in {"version", "module"}
    BY <1>2, <1>6 DEF Reading
  <2>2. b \o wire'["down"] = buf \o wire["down"] /\ wire'["up"] = wire["up"]
    BY <1>3, <1>6, SMTT(30) DEF Conns
  <2>3. ClientFlow'
    BY <1>1, <1>2, <2>1, <2>2, Zenon DEF FlowInv, ClientFlow, Opening
  <2>4. UpstreamFlow'
    BY <1>2, <2>1, <2>2, Zenon DEF FlowInv, UpstreamFlow, Opening
  <2> QED
    BY <1>2, <1>4, <1>5, <2>3, <2>4 DEF FlowInv
<1>7. CASE c = "up"
  <2>1. stage = "answer"
    BY <1>2, <1>7 DEF Reading
  <2>2. b \o wire'["up"] = buf \o wire["up"] /\ wire'["down"] = wire["down"]
    BY <1>3, <1>7, SMTT(30) DEF Conns
  <2>3. ClientFlow'
    BY <1>2, <2>1, <2>2, Zenon DEF FlowInv, ClientFlow, Opening
  <2>4. UpstreamFlow'
    BY <1>1, <1>2, <2>1, <2>2 DEF FlowInv, UpstreamFlow, Opening
  <2> QED
    BY <1>2, <1>4, <1>5, <2>3, <2>4 DEF FlowInv
<1> QED
  BY <1>6, <1>7 DEF Conns

(* The client's version line; its greeting answers it. *)
LEMMA VersionFlow ==
  ASSUME FlowInv, ReadClientVersion
  PROVE  FlowInv'
<1>1. PICK b \in Reads("down") : /\ Taken("down", b) /\ version' = b
                                 /\ \/ Say("down", <<"S">>) /\ Proceed("module")
                                    \/ GiveUp /\ UNCHANGED told
  BY DEF ReadClientVersion
<1>2. /\ stage = "version" /\ buf' = << >> /\ module' = module
      /\ script' = script /\ sent' = sent /\ held' = held /\ copier' = copier
  BY <1>1 DEF ReadClientVersion, Proceed, GiveUp, vars
<1>3. /\ b \in Bytes /\ wire' \in [Conns -> Bytes] /\ b \o wire'["down"] = buf \o wire["down"]
      /\ wire'["up"] = wire["up"]
  BY <1>1, ReadLemma, Zenon DEF FlowInv, Conns
<1>4. << >> \in Bytes /\ <<"S">> \in Bytes
  BY OwnWords
<1>5. CASE GiveUp /\ UNCHANGED told
  <2>1. stage' = "over" /\ out' = out /\ said' = said
    BY <1>5 DEF GiveUp, told
  <2>2. SessionTypes'
    BY <1>1, <1>2, <1>3, <1>4, <2>1 DEF FlowInv, SessionTypes
  <2> QED
    BY <1>2, <2>1, <2>2, OverFlow
<1>6. CASE Say("down", <<"S">>) /\ Proceed("module")
  <2>1. /\ out' \in [Conns -> Bytes] /\ said' \in [Conns -> Bytes]
        /\ out'["down"] = out["down"] \o <<"S">> /\ said'["down"] = said["down"] \o <<"S">>
        /\ out'["up"] = out["up"] /\ said'["up"] = said["up"]
    BY <1>4, <1>6, SayLemma, Zenon DEF FlowInv, Conns
  <2>2. stage' = "module"
    BY <1>6 DEF Proceed
  <2>3. SessionTypes'
    BY <1>1, <1>2, <1>3, <1>4, <2>1 DEF FlowInv, SessionTypes
  <2>4. b \o (<< >> \o wire'["down"]) = sent["down"]
    <3>1. PICK w, v : w = wire'["down"] /\ v = buf \o wire["down"]
      BY Zenon
    <3>2. w \in Bytes /\ wire["down"] \in Bytes /\ buf \in Bytes /\ b \o w = v
      BY <1>3, <3>1 DEF FlowInv, SessionTypes, Conns
    <3>3. v \in Bytes
      BY <3>1, <3>2, CatType, SMTT(30)
    <3>4. << >> \o v = sent["down"]
      BY <1>2, <3>1, Zenon DEF FlowInv, ClientFlow
    <3>5. << >> \o w = w /\ << >> \o v = v
      BY <3>2, <3>3, CatEmpty
    <3> QED
      BY <3>1, <3>2, <3>4, <3>5, Zenon
  <2>5. ClientFlow'
    BY <1>1, <1>2, <2>1, <2>2, <2>4 DEF FlowInv, ClientFlow, Opening
  <2>6. UpstreamFlow'
    BY <1>2, <1>3, <2>1, <2>2, Zenon DEF FlowInv, UpstreamFlow, Opening
  <2>7. CopierFlow' /\ GreetingFlow'
    BY <1>2, <2>2 DEF FlowInv, CopierFlow, GreetingFlow
  <2> QED
    BY <2>2, <2>3, <2>5, <2>6, <2>7 DEF FlowInv, Opening
<1> QED
  BY <1>1, <1>5, <1>6

(* The module's name, cut from its line. *)
LEMMA TrimLemma ==
  ASSUME NamesFit, NEW b, b \in Bytes, b # << >>, IsLine(b), TrimName(b) \in Modules
  PROVE  TrimName(b) \in Bytes /\ Append(TrimName(b), "n") = b
<1>1. PICK n : n = Len(b) /\ n \in Nat \ {0}
  BY DEF Bytes
<1>2. PICK t : t = TrimName(b) /\ t = SubSeq(b, 1, n - 1)
  BY <1>1, Zenon DEF TrimName
<1>3. n - 1 \in 0..Len(b)
  BY <1>1
<1>4. /\ t \in Bytes /\ Len(t) = n - 1 /\ t \o SubSeq(b, (n - 1) + 1, Len(b)) = b
  BY <1>2, <1>3, Cut, Zenon
<1>5. b[n] = "n"
  <2>1. Len(t) + 1 < BufSize
    BY <1>2, Zenon DEF NamesFit
  <2>2. n < BufSize /\ BufSize \in Nat
    BY <1>1, <1>4, <2>1, SessionAssumption
  <2>3. Len(b) # BufSize
    BY <1>1, <2>2
  <2> QED
    BY <1>1, <2>3 DEF IsLine
<1>6. SubSeq(b, (n - 1) + 1, Len(b)) = <<"n">>
  <2>1. (n - 1) + 1 = n /\ n = Len(b)
    BY <1>1
  <2>2. SubSeq(b, n, n) = <<b[n]>>
    <3>1. n \in Int /\ \A i \in n..n : b[i] \in Token
      BY <1>1 DEF Bytes
    <3>2. PICK u : u = SubSeq(b, n, n)
      BY Zenon
    <3>3. /\ u \in Seq(Token) /\ Len(u) = IF n <= n THEN n - n + 1 ELSE 0
          /\ \A i \in 1..(n - n + 1) : u[i] = b[n + i - 1]
      BY <3>1, <3>2, SubSeqProperties
    <3>4. Len(u) = 1 /\ u[1] = b[n]
      BY <1>1, <3>3
    <3>5. PICK v : v = <<b[n]>>
      BY Zenon
    <3>6. v \in Seq(Token) /\ Len(v) = 1 /\ v[1] = b[n]
      BY <1>1, <3>1, <3>5
    <3>7. u = v
      BY <3>3, <3>4, <3>6, SeqEqual
    <3> QED
      BY <3>2, <3>5, <3>7
  <2> QED
    BY <1>5, <2>1, <2>2
<1>7. t \o <<"n">> = Append(t, "n")
  <2>1. "n" \in Token
    BY SessionAssumption
  <2> QED
    BY <1>4, <2>1, AppendIsConcat DEF Bytes
<1> QED
  BY <1>2, <1>4, <1>6, <1>7, Zenon

(* The module's line. *)
LEMMA ModuleFlow ==
  ASSUME NamesFit, FlowInv, ReadModule
  PROVE  FlowInv'
<1>1. PICK b \in Reads("down") :
        /\ IsLine(b) /\ Taken("down", b)
        /\ \/ /\ TrimName(b) \in Modules /\ module' = TrimName(b)
              /\ Say("down", Motd) /\ Proceed("admit")
           \/ \E own \in {Append(Motd, "L"), Append(Motd, "E")} : Say("down", own) /\ GiveUp /\ UNCHANGED module
           \/ GiveUp /\ UNCHANGED <<module, told>>
  BY DEF ReadModule
<1>2. /\ stage = "module" /\ buf' = << >> /\ version' = version
      /\ script' = script /\ sent' = sent /\ held' = held /\ copier' = copier
  BY <1>1, SMTT(30) DEF ReadModule, Proceed, GiveUp, vars
<1>3. /\ b \in Bytes /\ b # << >> /\ wire' \in [Conns -> Bytes]
      /\ b \o wire'["down"] = buf \o wire["down"] /\ wire'["up"] = wire["up"]
  BY <1>1, ReadLemma DEF FlowInv, Conns
<1>4. /\ << >> \in Bytes /\ Motd \in Bytes
      /\ Append(Motd, "L") \in Bytes /\ Append(Motd, "E") \in Bytes
  BY OwnWords
<1>5. CASE GiveUp /\ UNCHANGED <<module, told>>
  <2>1. stage' = "over" /\ out' = out /\ said' = said /\ module' = module
    BY <1>5 DEF GiveUp, told
  <2>2. SessionTypes'
    BY <1>2, <1>3, <1>4, <2>1 DEF FlowInv, SessionTypes
  <2> QED
    BY <1>2, <2>1, <2>2, OverFlow
<1>6. ASSUME NEW own \in {Append(Motd, "L"), Append(Motd, "E")}, Say("down", own), GiveUp, UNCHANGED module
      PROVE  FlowInv'
  <2>1. own \in Bytes
    BY <1>4, Zenon
  <2>2. out' \in [Conns -> Bytes] /\ said' \in [Conns -> Bytes]
    BY <1>6, <2>1, SayLemma DEF FlowInv, Conns
  <2>3. stage' = "over" /\ module' = module
    BY <1>6 DEF GiveUp
  <2>4. SessionTypes'
    BY <1>2, <1>3, <1>4, <2>2, <2>3 DEF FlowInv, SessionTypes
  <2> QED
    BY <1>2, <2>3, <2>4, OverFlow
<1>7. CASE TrimName(b) \in Modules /\ module' = TrimName(b) /\ Say("down", Motd) /\ Proceed("admit")
  <2>1. /\ out' \in [Conns -> Bytes] /\ said' \in [Conns -> Bytes]
        /\ out'["down"] = out["down"] \o Motd /\ said'["down"] = said["down"] \o Motd
        /\ out'["up"] = out["up"] /\ said'["up"] = said["up"]
    BY <1>4, <1>7, SayLemma DEF FlowInv, Conns
  <2>2. stage' = "admit"
    BY <1>7 DEF Proceed
  <2>3. module' \in Bytes /\ Append(module', "n") = b
    BY <1>1, <1>3, <1>7, TrimLemma
  <2>4. SessionTypes'
    BY <1>2, <1>3, <1>4, <2>1, <2>3 DEF FlowInv, SessionTypes
  <2>5. version \o (Append(module', "n") \o wire'["down"]) = sent["down"]
    BY <1>2, <1>3, <2>3, Zenon DEF FlowInv, ClientFlow
  <2>6. ClientFlow'
    BY <1>2, <2>1, <2>2, <2>5, Zenon DEF FlowInv, ClientFlow, Opening
  <2>7. UpstreamFlow'
    BY <1>2, <1>3, <2>1, <2>2, Zenon DEF FlowInv, UpstreamFlow, Opening
  <2>8. CopierFlow' /\ GreetingFlow'
    BY <1>2, <2>2 DEF FlowInv, CopierFlow, GreetingFlow
  <2> QED
    BY <2>2, <2>4, <2>6, <2>7, <2>8 DEF FlowInv, Opening
<1> QED
  BY <1>1, <1>5, <1>6, <1>7

(* Admission, with or without notices. *)
LEMMA AdmitFlow ==
  ASSUME FlowInv, NEW notices \in {<< >>, <<"E">>}, Admit(notices)
  PROVE  FlowInv'
<1>1. /\ stage = "admit" /\ buf' = buf /\ version' = version /\ module' = module /\ wire' = wire
      /\ script' = script /\ sent' = sent /\ held' = held /\ copier' = copier
      /\ stage' \in {"dial", "over"}
  BY DEF Admit, Proceed, GiveUp, vars
<1>2. PICK own : own \in Bytes /\ Say("down", own)
  <2>1. notices \in Bytes
    BY OwnWords
  <2> QED
    BY <2>1 DEF Admit
<1>3. /\ out' \in [Conns -> Bytes] /\ said' \in [Conns -> Bytes]
      /\ out'["down"] = out["down"] \o own /\ said'["down"] = said["down"] \o own
      /\ out'["up"] = out["up"] /\ said'["up"] = said["up"]
  BY <1>2, SayLemma DEF FlowInv, Conns
<1>4. SessionTypes'
  BY <1>1, <1>3, SMTT(30) DEF FlowInv, SessionTypes
<1>5. ClientFlow'
  BY <1>1, <1>3, Zenon DEF FlowInv, ClientFlow, Opening
<1>6. UpstreamFlow'
  BY <1>1, <1>3, ZenonT(30) DEF FlowInv, UpstreamFlow, Opening
<1>7. CopierFlow' /\ GreetingFlow'
  BY <1>1 DEF FlowInv, CopierFlow, GreetingFlow
<1> QED
  BY <1>1, <1>4, <1>5, <1>6, <1>7 DEF FlowInv, Opening

(* The dial. *)
LEMMA DialFlow ==
  ASSUME FlowInv, Dial
  PROVE  FlowInv'
<1>1. /\ stage = "dial" /\ stage' \in {"greet", "over"}
      /\ buf' = buf /\ version' = version /\ module' = module /\ copier' = copier
      /\ script' = script /\ sent' = sent /\ wire' = wire /\ out' = out /\ said' = said /\ held' = held
  BY DEF Dial, Proceed, GiveUp, vars, streams, told
<1>2. SessionTypes'
  BY <1>1, SMTT(30) DEF FlowInv, SessionTypes
<1>3. ClientFlow'
  BY <1>1, Zenon DEF FlowInv, ClientFlow, Opening
<1>4. UpstreamFlow'
  <2>1. << >> \o << >> = << >>
    BY OwnWords, CatEmpty
  <2> QED
    BY <1>1, <2>1, Zenon DEF FlowInv, UpstreamFlow, Opening
<1>5. CopierFlow' /\ GreetingFlow'
  BY <1>1 DEF FlowInv, CopierFlow, GreetingFlow
<1> QED
  BY <1>1, <1>2, <1>3, <1>4, <1>5 DEF FlowInv, Opening

(* The PROXY header and the client's version go to the upstream. *)
LEMMA GreetFlow ==
  ASSUME FlowInv, NEW header \in {<< >>, generateProxyProtocolHeader}, Greet(header)
  PROVE  FlowInv'
<1>1. /\ stage = "greet" /\ stage' = "answer"
      /\ buf' = buf /\ version' = version /\ module' = module /\ copier' = copier
      /\ script' = script /\ sent' = sent /\ wire' = wire /\ held' = held
  BY DEF Greet, Proceed, vars
<1>2. header \in Bytes /\ version \in Bytes /\ Write("up", header, version)
  BY OwnWords, SMTT(30) DEF Greet, FlowInv, SessionTypes
<1>3. /\ out' \in [Conns -> Bytes] /\ said' \in [Conns -> Bytes]
      /\ out'["up"] = out["up"] \o (header \o version) /\ said'["up"] = said["up"] \o header
      /\ out'["down"] = out["down"] /\ said'["down"] = said["down"]
  BY <1>2, WriteLemma, ZenonT(30) DEF FlowInv, Conns
<1>4. out'["up"] = said'["up"] \o version
  <2>1. out["up"] = << >> /\ said["up"] = << >>
    BY <1>1, Zenon DEF FlowInv, ClientFlow
  <2>2. header \o version \in Bytes
    BY <1>2, CatType
  <2>3. << >> \o (header \o version) = header \o version /\ << >> \o header = header
    BY <1>2, <2>2, CatEmpty, SMTT(30)
  <2> QED
    BY <1>3, <2>1, <2>3, Zenon
<1>5. SessionTypes'
  BY <1>1, <1>3 DEF FlowInv, SessionTypes
<1>6. ClientFlow'
  BY <1>1, <1>4, Zenon DEF FlowInv, ClientFlow, Opening
<1>7. UpstreamFlow'
  BY <1>1, <1>3 DEF FlowInv, UpstreamFlow, Opening
<1>8. CopierFlow' /\ GreetingFlow'
  BY <1>1 DEF FlowInv, CopierFlow, GreetingFlow
<1> QED
  BY <1>1, <1>5, <1>6, <1>7, <1>8 DEF FlowInv, Opening

(* What readLine returns of the upstream's greeting has a newline. *)
LEMMA AnswerIsLine ==
  ASSUME FlowInv, NEW b, NEW w, b \in Bytes, w \in Bytes, b # << >>, IsLine(b), b \o w = sent["up"]
  PROVE  \E e : EndsAt(b, e)
<1>1. PICK n : n = Len(b) /\ n \in Nat \ {0}
  BY DEF Bytes
<1>2. PICK s : s = b \o w
  BY Zenon
<1>3. Len(w) \in Nat /\ Len(s) = n + Len(w) /\ \A i \in 1..n : s[i] = b[i]
  <2>1. b \in Seq(Token) /\ w \in Seq(Token)
    BY DEF Bytes
  <2>2. /\ Len(b \o w) = Len(b) + Len(w) /\ Len(w) \in Nat
        /\ \A i \in 1..(Len(b) + Len(w)) : (b \o w)[i] = IF i <= Len(b) THEN b[i] ELSE w[i - Len(b)]
    BY <2>1, ConcatProperties, LenProperties, Zenon
  <2> QED
    BY <1>1, <1>2, <2>2
<1>4. s # << >>
  <2>1. Len(s) # 0
    BY <1>1, <1>3
  <2> QED
    BY <2>1
<1>5. PICK e \in 1..BufSize : EndsAt(s, e)
  BY <1>2, <1>4 DEF FlowInv, GreetingFlow
<1>6. /\ e \in 1..(n + Len(w)) /\ s[e] = "n"
      /\ \A j \in 1..(n + Len(w)) : s[j] = "n" => e <= j
  BY <1>3, <1>5 DEF EndsAt
<1>7. e <= n
  <2>1. CASE b[n] = "n"
    <3>1. n \in 1..(n + Len(w)) /\ n \in 1..n
      BY <1>1, <1>3
    <3> QED
      BY <1>3, <1>6, <2>1, <3>1, Zenon
  <2>2. CASE n = BufSize
    BY <1>5, <2>2, SessionAssumption
  <2> QED
    BY <1>1, <2>1, <2>2 DEF IsLine
<1>8. e \in 1..n /\ b[e] = "n" /\ \A j \in 1..n : b[j] = "n" => e <= j
  BY <1>1, <1>3, <1>6, <1>7
<1> QED
  BY <1>1, <1>8 DEF EndsAt

(* The upstream's greeting; what came with it goes to the client. *)
LEMMA AnswerFlow ==
  ASSUME FlowInv, ReadAnswer
  PROVE  FlowInv'
<1>1. PICK b \in Reads("up") : /\ IsLine(b) /\ Taken("up", b)
                               /\ \/ Write("down", << >>, AfterGreeting(b)) /\ Proceed("request")
                                  \/ GiveUp /\ UNCHANGED told
  BY DEF ReadAnswer
<1>2. /\ stage = "answer" /\ buf' = << >> /\ version' = version /\ module' = module
      /\ script' = script /\ sent' = sent /\ held' = held /\ copier' = copier
  BY <1>1, SMTT(30) DEF ReadAnswer, Proceed, GiveUp, vars
<1>3. /\ b \in Bytes /\ b # << >> /\ wire' \in [Conns -> Bytes]
      /\ b \o wire'["up"] = buf \o wire["up"] /\ wire'["down"] = wire["down"]
  BY <1>1, ReadLemma DEF FlowInv, Conns
<1>4. << >> \in Bytes
  BY OwnWords
<1>5. CASE GiveUp /\ UNCHANGED told
  <2>1. stage' = "over" /\ out' = out /\ said' = said
    BY <1>5 DEF GiveUp, told
  <2>2. SessionTypes'
    BY <1>2, <1>3, <1>4, <2>1, SMTT(30) DEF FlowInv, SessionTypes
  <2> QED
    BY <1>2, <2>1, <2>2, OverFlow
<1>6. CASE Write("down", << >>, AfterGreeting(b)) /\ Proceed("request")
  <2>1. PICK w : w = wire'["up"] /\ w \in Bytes /\ b \o w = sent["up"]
    BY <1>2, <1>3, ZenonT(30) DEF FlowInv, UpstreamFlow, Conns
  <2>2. PICK e : EndsAt(b, e)
    BY <1>1, <1>3, <2>1, AnswerIsLine, Zenon
  <2>3. PICK r : r = Rest(b) /\ r = AfterGreeting(b) /\ r \in Bytes
    <3>1. Rest(b) = SubSeq(b, e + 1, Len(b)) /\ AfterGreeting(b) = SubSeq(b, e + 1, Len(b))
      BY <1>3, <2>2, LineLemma
    <3>2. e \in 0..Len(b)
      BY <1>3, <2>2 DEF EndsAt, Bytes
    <3>3. SubSeq(b, e + 1, Len(b)) \in Bytes
      BY <1>3, <3>2, Cut, Zenon
    <3> QED
      BY <3>1, <3>3, ZenonT(30)
  <2>4. EndsAt(sent["up"], e) /\ Rest(sent["up"]) = r \o w
    <3>1. EndsAt(b \o w, e) /\ Rest(b \o w) = Rest(b) \o w
      BY <1>3, <2>1, <2>2, LaterBytes
    <3> QED
      BY <2>1, <2>3, <3>1, Zenon
  <2>5. /\ out' \in [Conns -> Bytes] /\ said' \in [Conns -> Bytes]
        /\ out'["down"] = out["down"] \o (<< >> \o r) /\ said'["down"] = said["down"] \o << >>
        /\ out'["up"] = out["up"] /\ said'["up"] = said["up"]
    <3>1. Write("down", << >>, r) /\ "down" \in Conns /\ SessionTypes
      BY <1>6, <2>3, SMTT(30) DEF FlowInv, Conns
    <3>2. /\ out' \in [Conns -> Bytes] /\ said' \in [Conns -> Bytes]
          /\ out'["down"] = out["down"] \o (<< >> \o r) /\ said'["down"] = said["down"] \o << >>
          /\ \A o \in Conns \ {"down"} : out'[o] = out[o] /\ said'[o] = said[o]
      BY ONLY <1>4, <2>3, <3>1, WriteLemma, Zenon
    <3> QED
      BY <3>2 DEF Conns
  <2>6. stage' = "request"
    BY <1>6 DEF Proceed
  <2>7. SessionTypes'
    BY <1>2, <1>3, <1>4, <2>5 DEF FlowInv, SessionTypes
  <2>8. out'["down"] \o (<< >> \o w) = said'["down"] \o (r \o w)
    <3>1. PICK o : o = out["down"] /\ o = said["down"] /\ o \in Bytes
      BY <1>2 DEF FlowInv, UpstreamFlow, SessionTypes, Conns
    <3>2. o \o << >> = o /\ << >> \o r = r /\ << >> \o w = w
      BY <2>1, <2>3, <3>1, CatEmpty
    <3>3. Assoc(o, r, w)
      <4>1. o \in Bytes /\ r \in Bytes /\ w \in Bytes
        BY <2>1, <2>3, <3>1, SMTT(30)
      <4> QED
        BY ONLY <4>1, CatAssoc
    <3> QED
      BY <2>5, <3>1, <3>2, <3>3, Zenon DEF Assoc
  <2>9. held["received"] = << >>
    BY <1>2, SMTT(30) DEF FlowInv, CopierFlow, Dirs
  <2>10. ClientFlow'
    BY <1>2, <1>3, <2>5, <2>6, Zenon DEF FlowInv, ClientFlow, Opening
  <2>11. UpstreamFlow'
    BY <1>2, <2>1, <2>4, <2>6, <2>8, <2>9, ZenonT(30) DEF UpstreamFlow, Opening
  <2>12. CopierFlow' /\ GreetingFlow'
    BY <1>2, <2>6 DEF FlowInv, CopierFlow, GreetingFlow
  <2> QED
    BY <2>6, <2>7, <2>10, <2>11, <2>12 DEF FlowInv, Opening
<1> QED
  BY <1>1, <1>5, <1>6, SMTT(30)

(* The request; the relay phase begins. *)
LEMMA RequestFlow ==
  ASSUME FlowInv, RequestModule
  PROVE  FlowInv'
<1>1. /\ stage = "request" /\ stage' = "relay"
      /\ buf' = buf /\ version' = version /\ module' = module /\ copier' = copier
      /\ script' = script /\ sent' = sent /\ wire' = wire /\ held' = held
  BY DEF RequestModule, Proceed, vars
<1>2. PICK m : m = Append(module, "n") /\ m \in Bytes
  <2>1. module \in Seq(Token) /\ "n" \in Token
    BY SessionAssumption DEF FlowInv, SessionTypes, Bytes
  <2> QED
    BY <2>1, AppendProperties, Zenon DEF Bytes
<1>3. << >> \in Bytes
  BY OwnWords
<1>4. /\ out' \in [Conns -> Bytes] /\ said' \in [Conns -> Bytes]
      /\ out'["up"] = out["up"] \o (<< >> \o m) /\ said'["up"] = said["up"] \o << >>
      /\ out'["down"] = out["down"] /\ said'["down"] = said["down"]
  <2>1. Write("up", << >>, m) /\ "up" \in Conns /\ SessionTypes /\ m \in Bytes
    BY <1>2 DEF RequestModule, FlowInv, Conns
  <2>2. /\ out' \in [Conns -> Bytes] /\ said' \in [Conns -> Bytes]
        /\ out'["up"] = out["up"] \o (<< >> \o m) /\ said'["up"] = said["up"] \o << >>
        /\ \A o \in Conns \ {"up"} : out'[o] = out[o] /\ said'[o] = said[o]
    BY ONLY <1>3, <2>1, WriteLemma, Zenon
  <2> QED
    BY <2>2 DEF Conns
<1>5. held["sent"] = << >> /\ held["received"] = << >>
  BY <1>1 DEF FlowInv, CopierFlow, Dirs
<1>6. out'["up"] \o (<< >> \o wire["down"]) = said'["up"] \o sent["down"]
  <2>1. PICK v, w, o, p : v = version /\ w = wire["down"] /\ o = out["up"] /\ p = said["up"]
    OBVIOUS
  <2>2. v \in Bytes /\ w \in Bytes /\ o \in Bytes /\ p \in Bytes /\ m \in Bytes
    BY <1>2, <2>1, SMTT(30) DEF FlowInv, SessionTypes, Conns
  <2>3. o = p \o v /\ v \o (m \o w) = sent["down"]
    BY <1>1, <1>2, <2>1, Zenon DEF FlowInv, ClientFlow
  <2>4. p \o << >> = p /\ << >> \o m = m /\ << >> \o w = w
    BY ONLY <2>2, CatEmpty
  <2>5. m \o w \in Bytes
    BY ONLY <2>2, CatType
  <2>6. Assoc(p, v, m \o w)
    BY ONLY <2>2, <2>5, CatAssoc
  <2>7. Assoc(o, m, w)
    BY ONLY <2>2, CatAssoc
  <2> QED
    BY <1>4, <2>1, <2>3, <2>4, <2>6, <2>7, Zenon DEF Assoc
<1>7. SessionTypes'
  BY <1>1, <1>4, SMTT(30) DEF FlowInv, SessionTypes
<1>8. ClientFlow'
  BY <1>1, <1>5, <1>6, ZenonT(30) DEF ClientFlow, Opening
<1>9. UpstreamFlow'
  BY <1>1, <1>4, ZenonT(30) DEF FlowInv, UpstreamFlow, Opening
<1>10. CopierFlow' /\ GreetingFlow'
  <2>1. \A d \in Dirs : held[d] = << >>
    BY <1>5 DEF Dirs
  <2> QED
    BY <1>1, <2>1 DEF FlowInv, CopierFlow, GreetingFlow
<1> QED
  BY <1>1, <1>7, <1>8, <1>9, <1>10 DEF FlowInv, Opening

(* A copier reads all there is. *)
LEMMA CopyReadFlow ==
  ASSUME EndInv, FlowInv, NEW d \in Dirs, CopyRead(d)
  PROVE  FlowInv'
<1>1. /\ stage = "relay" /\ stage' = "relay" /\ buf' = buf /\ version' = version /\ module' = module
      /\ script' = script /\ sent' = sent /\ out' = out /\ said' = said
      /\ wire' = [wire EXCEPT ![Src(d)] = << >>] /\ held' = [held EXCEPT ![d] = wire[Src(d)]]
  BY DEF CopyRead, Relaying, handshake, told
<1>2. /\ copier[d] = "read" /\ copier'[d] = "write"
      /\ \A o \in Dirs \ {d} : copier'[o] = copier[o]
  BY DEF CopyRead, ReadData, EndInv
<1>3. /\ wire \in [Conns -> Bytes] /\ held \in [Dirs -> Bytes]
      /\ Src(d) \in Conns /\ wire[Src(d)] \in Bytes /\ << >> \in Bytes
  BY OwnWords DEF FlowInv, SessionTypes, Src, Conns
<1>4. held[d] = << >>
  BY <1>2 DEF FlowInv, CopierFlow
<1>5. /\ wire' \in [Conns -> Bytes] /\ wire'[Src(d)] = << >>
      /\ held' \in [Dirs -> Bytes] /\ held'[d] = wire[Src(d)]
      /\ \A o \in Dirs \ {d} : held'[o] = held[o] /\ wire'[Src(o)] = wire[Src(o)]
  BY <1>1, <1>3 DEF Src, Conns, Dirs
<1>6. held'[d] \o wire'[Src(d)] = held[d] \o wire[Src(d)]
  <2>1. wire[Src(d)] \o << >> = wire[Src(d)] /\ << >> \o wire[Src(d)] = wire[Src(d)]
    BY <1>3, CatEmpty
  <2> QED
    BY <1>4, <1>5, <2>1, Zenon
<1>7. /\ held'["sent"] \o wire'["down"] = held["sent"] \o wire["down"]
      /\ held'["received"] \o wire'["up"] = held["received"] \o wire["up"]
  <2>1. CASE d = "sent"
    <3>1. held'["received"] = held["received"] /\ wire'["up"] = wire["up"]
      BY <1>5, <2>1 DEF Dirs, Src
    <3>2. held'["sent"] \o wire'["down"] = held["sent"] \o wire["down"]
      BY <1>6, <2>1, Zenon DEF Src
    <3> QED
      BY <3>1, <3>2, Zenon
  <2>2. CASE d = "received"
    BY <1>5, <1>6, <2>2, ZenonT(30) DEF Dirs, Src
  <2> QED
    BY <2>1, <2>2, Zenon DEF Dirs
<1>8. SessionTypes'
  BY <1>1, <1>5 DEF FlowInv, SessionTypes
<1>9. ClientFlow'
  BY <1>1, <1>7, ZenonT(30) DEF FlowInv, ClientFlow, Opening
<1>10. UpstreamFlow'
  BY <1>1, <1>7, ZenonT(30) DEF FlowInv, UpstreamFlow, Opening
<1>11. CopierFlow' /\ GreetingFlow'
  <2>1. CopierFlow /\ GreetingFlow
    BY DEF FlowInv
  <2>2. CopierFlow'
    BY ONLY <1>1, <1>2, <1>5, <2>1 DEF CopierFlow
  <2>3. GreetingFlow'
    BY ONLY <1>1, <2>1, Zenon DEF GreetingFlow
  <2> QED
    BY <2>2, <2>3
<1> QED
  BY <1>1, <1>8, <1>9, <1>10, <1>11 DEF FlowInv, Opening

(* A copier writes what it holds. *)
LEMMA CopyWriteFlow ==
  ASSUME EndInv, FlowInv, NEW d \in Dirs, CopyWrite(d)
  PROVE  FlowInv'
<1>1. /\ stage = "relay" /\ stage' = "relay" /\ buf' = buf /\ version' = version /\ module' = module
      /\ script' = script /\ sent' = sent /\ wire' = wire
      /\ held' = [held EXCEPT ![d] = << >>]
  BY DEF CopyWrite, Relaying, handshake
<1>2. \A o \in Dirs \ {d} : copier'[o] = copier[o]
  BY DEF CopyWrite, WriteDone, EndInv
<1>3. held \in [Dirs -> Bytes] /\ held[d] \in Bytes /\ << >> \in Bytes /\ Dst(d) \in Conns
  BY OwnWords DEF FlowInv, SessionTypes, Dst, Conns
<1>4. /\ held' \in [Dirs -> Bytes] /\ held'[d] = << >> /\ \A o \in Dirs \ {d} : held'[o] = held[o]
  BY <1>1, <1>3, SMTT(30)
<1>5. /\ out' \in [Conns -> Bytes] /\ said' \in [Conns -> Bytes]
      /\ out'[Dst(d)] = out[Dst(d)] \o (<< >> \o held[d]) /\ said'[Dst(d)] = said[Dst(d)] \o << >>
      /\ \A o \in Conns \ {Dst(d)} : out'[o] = out[o] /\ said'[o] = said[o]
  <2>1. Write(Dst(d), << >>, held[d]) /\ SessionTypes
    BY DEF CopyWrite, FlowInv
  <2> QED
    BY ONLY <1>3, <2>1, WriteLemma, Zenon
<1>6. /\ out'[Dst(d)] \o (held'[d] \o wire[Src(d)]) = out[Dst(d)] \o (held[d] \o wire[Src(d)])
      /\ said'[Dst(d)] = said[Dst(d)]
  <2>1. PICK o, p, h, w : o = out[Dst(d)] /\ p = said[Dst(d)] /\ h = held[d] /\ w = wire[Src(d)]
    OBVIOUS
  <2>2. o \in Bytes /\ p \in Bytes /\ h \in Bytes /\ w \in Bytes
    BY <1>3, <2>1 DEF FlowInv, SessionTypes, Src, Conns
  <2>3. p \o << >> = p /\ << >> \o h = h /\ << >> \o w = w
    BY ONLY <2>2, CatEmpty
  <2>4. Assoc(o, h, w)
    BY ONLY <2>2, CatAssoc
  <2> QED
    BY <1>4, <1>5, <2>1, <2>3, <2>4, Zenon DEF Assoc
<1>7. /\ out'["up"] \o (held'["sent"] \o wire["down"]) = out["up"] \o (held["sent"] \o wire["down"])
      /\ out'["down"] \o (held'["received"] \o wire["up"]) = out["down"] \o (held["received"] \o wire["up"])
      /\ said'["up"] = said["up"] /\ said'["down"] = said["down"]
  BY <1>4, <1>5, <1>6, ZenonT(30) DEF Dirs, Conns, Src, Dst
<1>8. SessionTypes'
  BY <1>1, <1>4, <1>5, SMTT(30) DEF FlowInv, SessionTypes
<1>9. ClientFlow'
  BY <1>1, <1>7, ZenonT(30) DEF FlowInv, ClientFlow, Opening
<1>10. UpstreamFlow'
  BY <1>1, <1>7, ZenonT(30) DEF FlowInv, UpstreamFlow, Opening
<1>11. CopierFlow' /\ GreetingFlow'
  BY <1>1, <1>2, <1>4 DEF FlowInv, CopierFlow, GreetingFlow
<1> QED
  BY <1>1, <1>8, <1>9, <1>10, <1>11 DEF FlowInv, Opening

(* More bytes of the client arrive. *)
LEMMA ClientSends ==
  ASSUME FlowInv, Send("down")
  PROVE  FlowInv'
<1>1. /\ stage' = stage /\ buf' = buf /\ version' = version /\ module' = module
      /\ out' = out /\ said' = said /\ held' = held /\ copier' = copier
  BY DEF Send, vars, handshake, told
<1>2. PICK x : /\ x \in Bytes
               /\ wire' \in [Conns -> Bytes] /\ sent' \in [Conns -> Bytes] /\ script' \in [Conns -> Script]
               /\ wire'["down"] = wire["down"] \o x /\ sent'["down"] = sent["down"] \o x
               /\ wire'["up"] = wire["up"] /\ sent'["up"] = sent["up"] /\ script'["up"] = script["up"]
  BY SendLemma, Zenon DEF FlowInv, Conns
<1>3. PICK w, s, m, o, p, h : /\ w = wire["down"] /\ s = sent["down"] /\ m = Append(module, "n")
                              /\ o = out["up"] /\ p = said["up"] /\ h = held["sent"]
  BY ZenonT(30)
<1>4. /\ w \in Bytes /\ s \in Bytes /\ x \in Bytes /\ buf \in Bytes /\ version \in Bytes
      /\ m \in Bytes /\ o \in Bytes /\ p \in Bytes /\ h \in Bytes
  <2>1. "n" \in Token /\ module \in Seq(Token)
    BY SessionAssumption DEF FlowInv, SessionTypes, Bytes
  <2>2. m \in Bytes
    BY <1>3, <2>1, AppendProperties, SMTT(30) DEF Bytes
  <2> QED
    BY <1>2, <1>3, <2>2 DEF FlowInv, SessionTypes, Conns, Dirs
<1>5. Behind(version, buf, w, x) /\ Behind(version, m, w, x) /\ Behind(o, h, w, x) /\ Assoc(p, s, x)
  <2>1. Behind(version, buf, w, x) /\ Behind(version, m, w, x)
    BY ONLY <1>4, CatBehind
  <2>2. Behind(o, h, w, x)
    BY ONLY <1>4, CatBehind
  <2>3. Assoc(p, s, x)
    BY ONLY <1>4, CatAssoc
  <2> QED
    BY <2>1, <2>2, <2>3, Zenon
<1>6. ClientFlow'
  <2>1. version \o (buf \o w) = s => version \o (buf \o (w \o x)) = s \o x
    BY ONLY <1>5, Zenon DEF Behind, Assoc
  <2>2. version \o (m \o w) = s => version \o (m \o (w \o x)) = s \o x
    BY ONLY <1>5, Zenon DEF Behind, Assoc
  <2>3. o \o (h \o w) = p \o s => o \o (h \o (w \o x)) = p \o (s \o x)
    BY ONLY <1>5, Zenon DEF Behind, Assoc
  <2> QED
    BY <1>1, <1>2, <1>3, <2>1, <2>2, <2>3, Zenon DEF FlowInv, ClientFlow
<1>7. UpstreamFlow'
  BY <1>1, <1>2, ZenonT(30) DEF FlowInv, UpstreamFlow
<1>8. CopierFlow' /\ GreetingFlow'
  BY <1>1, <1>2 DEF FlowInv, CopierFlow, GreetingFlow
<1>9. SessionTypes'
  BY <1>1, <1>2, SMTT(30) DEF FlowInv, SessionTypes
<1> QED
  BY <1>1, <1>6, <1>7, <1>8, <1>9, SMTT(30) DEF FlowInv

(* The upstream's greeting arrives in its first piece. *)
LEMMA GreetingArrives ==
  ASSUME GreetingFits, FlowInv, NEW x, x \in Bytes,
         script["up"] # << >>, x = script["up"][1].bytes, sent'["up"] = sent["up"] \o x
  PROVE  GreetingFlow'
<1>1. PICK s : s = sent["up"] /\ s \in Bytes
  BY SMTT(30) DEF FlowInv, SessionTypes, Conns
<1>2. CASE s = << >> /\ script["up"] \in Scripts["up"]
  <2>1. << >> \o x = x
    BY CatEmpty
  <2>2. PICK e \in 1..BufSize : EndsAt(x, e)
    BY <1>2 DEF GreetingFits
  <2>3. sent'["up"] = x
    BY <1>1, <1>2, <2>1
  <2> QED
    BY <2>2, <2>3, Zenon DEF GreetingFlow, EndsAt
<1>3. ASSUME NEW e \in 1..BufSize, EndsAt(s, e) PROVE GreetingFlow'
  <2>1. EndsAt(s \o x, e)
    BY ONLY <1>1, x \in Bytes, <1>3, LaterBytes
  <2>2. PICK t : t = s \o x /\ t = sent'["up"]
    BY <1>1, Zenon
  <2>3. EndsAt(t, e)
    BY <2>1, <2>2, Zenon
  <2> QED
    BY <2>2, <2>3, Zenon DEF GreetingFlow, EndsAt
<1> QED
  BY <1>1, <1>2, <1>3, Zenon DEF FlowInv, GreetingFlow

(* More bytes of the upstream arrive. *)
LEMMA UpstreamSends ==
  ASSUME GreetingFits, FlowInv, Send("up")
  PROVE  FlowInv'
<1>1. /\ stage' = stage /\ buf' = buf /\ version' = version /\ module' = module
      /\ out' = out /\ said' = said /\ held' = held /\ copier' = copier
      /\ stage \in {"greet", "answer", "request", "relay"}
  BY DEF Send, vars, handshake, told, Connected
<1>2. PICK x : /\ x \in Bytes /\ x = script["up"][1].bytes /\ script["up"] # << >>
               /\ wire' \in [Conns -> Bytes] /\ sent' \in [Conns -> Bytes] /\ script' \in [Conns -> Script]
               /\ wire'["up"] = wire["up"] \o x /\ sent'["up"] = sent["up"] \o x
               /\ wire'["down"] = wire["down"] /\ sent'["down"] = sent["down"]
  BY SendLemma DEF FlowInv, Conns
<1>3. PICK w, s, o, p, h : /\ w = wire["up"] /\ s = sent["up"] /\ o = out["down"] /\ p = said["down"]
                           /\ h = held["received"]
  BY SMTT(30)
<1>4. /\ w \in Bytes /\ s \in Bytes /\ x \in Bytes /\ buf \in Bytes /\ o \in Bytes /\ p \in Bytes /\ h \in Bytes
  BY <1>2, <1>3, SMTT(30) DEF FlowInv, SessionTypes, Conns, Dirs
<1>5. UpstreamFlow'
  <2>1. CASE stage \in {"greet", "answer"}
    <3>1. Assoc(buf, w, x)
      BY ONLY <1>4, CatAssoc, SMTT(30)
    <3>2. buf \o w = s
      BY <1>3, <2>1 DEF FlowInv, UpstreamFlow
    <3>3. buf' \o wire'["up"] = sent'["up"]
      BY <1>1, <1>2, <1>3, <3>1, <3>2, ZenonT(30) DEF Assoc
    <3> QED
      BY <1>1, <2>1, <3>3, Zenon DEF FlowInv, UpstreamFlow, Opening
  <2>2. CASE stage \in {"request", "relay"}
    <3>1. PICK e : EndsAt(s, e)
      BY <1>3, <2>2, Zenon DEF FlowInv, UpstreamFlow
    <3>2. o \o (h \o w) = p \o Rest(s)
      BY <1>3, <2>2, Zenon DEF FlowInv, UpstreamFlow
    <3>3. EndsAt(s \o x, e) /\ Rest(s \o x) = Rest(s) \o x
      BY ONLY <1>4, <3>1, LaterBytes
    <3>4. PICK r : r = Rest(s) /\ r \in Bytes
      <4>1. Rest(s) = SubSeq(s, e + 1, Len(s))
        BY <1>4, <3>1, LineLemma
      <4>2. e \in 0..Len(s)
        BY <1>4, <3>1 DEF EndsAt, Bytes
      <4>3. SubSeq(s, e + 1, Len(s)) \in Bytes
        BY <1>4, <4>2, Cut, Zenon
      <4> QED
        BY <4>1, <4>3, ZenonT(30)
    <3>5. Behind(o, h, w, x)
      BY ONLY <1>4, CatBehind
    <3>6. Assoc(p, r, x)
      <4>1. p \in Bytes /\ r \in Bytes /\ x \in Bytes
        BY <1>4, <3>4
      <4> QED
        BY ONLY <4>1, CatAssoc
    <3>7. o \o (h \o (w \o x)) = p \o Rest(s \o x)
      BY <3>2, <3>3, <3>4, <3>5, <3>6, Zenon DEF Behind, Assoc
    <3>8. /\ EndsAt(sent'["up"], e)
           /\ out'["down"] \o (held'["received"] \o wire'["up"]) = said'["down"] \o Rest(sent'["up"])
      BY <1>1, <1>2, <1>3, <3>3, <3>7, Zenon
    <3> QED
      BY <1>1, <2>2, <3>8 DEF UpstreamFlow, Opening
  <2> QED
    BY <1>1, <2>1, <2>2
<1>6. ClientFlow'
  BY <1>1, <1>2, Zenon DEF FlowInv, ClientFlow
<1>7. CopierFlow'
  BY <1>1, SMTT(30) DEF FlowInv, CopierFlow
<1>8. GreetingFlow'
  BY <1>2, GreetingArrives, ZenonT(30)
<1>9. SessionTypes'
  BY <1>1, <1>2 DEF FlowInv, SessionTypes
<1> QED
  BY <1>1, <1>5, <1>6, <1>7, <1>8, <1>9, SMTT(30) DEF FlowInv

(* Every step keeps account of every byte. *)
LEMMA FlowStep ==
  ASSUME NamesFit, GreetingFits, EndInv, FlowInv, SessionNext \/ UNCHANGED allVars
  PROVE  FlowInv'
<1>1. ASSUME NEW c \in Conns, ReadMore(c) PROVE FlowInv'
  BY <1>1, ReadMoreFlow
<1>2. ASSUME NEW c \in Conns, ReadFails(c) \/ WriteRefused PROVE FlowInv'
  <2>1. /\ stage' = "over" /\ stage # "relay" /\ buf' = buf /\ version' = version /\ module' = module
        /\ script' = script /\ sent' = sent /\ wire' = wire /\ out' = out /\ said' = said /\ held' = held
    BY <1>2 DEF ReadFails, Reading, WriteRefused, GiveUp, streams, told
  <2>2. SessionTypes'
    BY <2>1 DEF FlowInv, SessionTypes
  <2> QED
    BY <2>1, <2>2, OverFlow, SMTT(30)
<1>3. CASE HandshakeStep
  <2>1. WriteRefused => FlowInv'
    BY <1>2 DEF Conns
  <2> QED
    BY <1>1, <1>2, <1>3, <2>1, VersionFlow, ModuleFlow, AdmitFlow, DialFlow, GreetFlow, AnswerFlow, RequestFlow
       DEF HandshakeStep
<1>4. ASSUME NEW d \in Dirs, CopyRead(d) \/ CopyWrite(d) PROVE FlowInv'
  BY <1>4, CopyReadFlow, CopyWriteFlow
<1>5. ASSUME NEW c \in Conns, Send(c) PROVE FlowInv'
  BY <1>5, ClientSends, UpstreamSends DEF Conns
<1>6. CASE ProxyStep
  <2>1. UNCHANGED <<handshake, streams>>
    BY <1>6 DEF ProxyStep, Relaying, streams
  <2>2. \A d \in Dirs : copier'[d] = "read" => copier[d] = "read"
    <3>1. ASSUME NEW d \in Dirs, copier' = [copier EXCEPT ![d] = "done"]
          PROVE  \A e \in Dirs : copier'[e] = "read" => copier[e] = "read"
      BY <3>1, SMTT(30) DEF EndInv
    <3>2. copier' = copier \/ \E d \in Dirs : copier' = [copier EXCEPT ![d] = "done"]
      BY <1>6 DEF ProxyStep, Proxy, ReadEnds, WriteFails, FirstEnds, Returns
    <3> QED
      BY <3>1, <3>2, SMTT(30)
  <2> QED
    BY <2>1, <2>2, QuietFlow
<1>7. ASSUME UNCHANGED <<handshake, streams>>, copier' = copier PROVE FlowInv'
  BY <1>7, QuietFlow, SMTT(30)
<1>8. CASE WatcherStep
  BY <1>7, <1>8 DEF WatcherStep, WatcherTick, WatcherLeaves, Relaying, streams
<1>9. ASSUME NEW r \in Enabled, TimePasses(r) PROVE FlowInv'
  BY <1>7, <1>9, SMTT(30) DEF TimePasses, Expires, Relaying, streams
<1>10. ASSUME NEW c \in Conns, NEW how \in {"eof", "reset"}, Leave(c, how) PROVE FlowInv'
  BY <1>7, <1>10, ZenonT(30) DEF Leave, PeerLeaves
<1>11. CASE UNCHANGED allVars
  BY <1>7, <1>11 DEF allVars, vars
<1> QED
  BY <1>3, <1>4, <1>5, <1>6, <1>8, <1>9, <1>10, <1>11 DEF SessionNext

(* The account is kept in every session. *)
THEOREM FlowInvariance ==
  ASSUME NamesFit, GreetingFits
  PROVE  SessionSpec => [](EndInv /\ FlowInv)
<1>1. SessionInit => EndInv /\ FlowInv
  <2>1. SessionInit => EndInv
    BY DEF SessionInit, Init, EndInv, NoCutOff, Dirs, Conns, Dst
  <2> QED
    BY <2>1, InitFlow
<1>2. EndInv /\ FlowInv /\ [SessionNext]_allVars => (EndInv /\ FlowInv)'
  BY SessionStepKinds, RelayEnds, GiveUpEnds, FlowStep, SMTT(30)
<1> QED
  BY <1>1, <1>2, PTL DEF SessionSpec

(* No byte is lost, repeated or reordered between readLine's buffer and    *)
(* io.Copy, for any peers whose lines fit into the buffer, however their   *)
(* bytes are cut into reads.                                               *)
THEOREM StreamsStayIntact ==
  ASSUME NamesFit, GreetingFits
  PROVE  SessionSpec => []StreamsIntact
<1>1. EndInv /\ FlowInv => StreamsIntact
  BY Zenon DEF FlowInv, ClientFlow, UpstreamFlow, StreamsIntact
<1> QED
  BY <1>1, FlowInvariance, PTL
-----------------------------------------------------------------------------
(* The client's bytes begin with what was taken for its two lines. *)
ModuleInv ==
  /\ stage \in {"version", "module"} => module = << >>
  /\ module # << >> =>
       module \in Modules /\ \E w \in Bytes : sent["down"] = version \o (Append(module, "n") \o w)

(* A single line, however more bytes follow it. *)
LEMMA LineBegins ==
  ASSUME NEW x, NEW y, x \in Bytes, y \in Bytes, OneLine(x)
  PROVE  FirstLine(x \o y) = x /\ Rest(x \o y) = y
<1>1. PICK n : n = Len(x) /\ n \in Nat \ {0}
  BY DEF OneLine, Bytes
<1>2. EndsAt(x, n)
  BY <1>1 DEF EndsAt, OneLine
<1>3. FirstLine(x) = SubSeq(x, 1, n) /\ Rest(x) = SubSeq(x, n + 1, n)
  BY <1>1, <1>2, LineLemma
<1>4. SubSeq(x, 1, n) = x
  BY <1>1, SubSeqFull DEF Bytes
<1>5. SubSeq(x, n + 1, n) = << >>
  BY <1>1, SubSeqEmpty, SMTT(30)
<1>6. FirstLine(x \o y) = FirstLine(x) /\ Rest(x \o y) = Rest(x) \o y
  BY <1>2, LaterBytes, SMTT(30)
<1>7. << >> \o y = y
  BY CatEmpty
<1> QED
  BY <1>3, <1>4, <1>5, <1>6, <1>7, Zenon

(* A token behind a stream. *)
LEMMA OneMore ==
  ASSUME NEW x \in Seq(Token), NEW e \in Token, NEW y, y = Append(x, e)
  PROVE  /\ y \in Seq(Token) /\ Len(y) = Len(x) + 1 /\ Len(x) \in Nat
         /\ y[Len(x) + 1] = e /\ \A i \in 1..Len(x) : y[i] = x[i]
BY AppendProperties, LenProperties

(* A name and its newline are one line. *)
LEMMA NameIsLine ==
  ASSUME NamesFit, NEW m \in Modules
  PROVE  Append(m, "n") \in Bytes /\ OneLine(Append(m, "n"))
<1>1. m \in Seq(Token) /\ "n" \in Token /\ \A i \in 1..Len(m) : m[i] # "n"
  BY SessionAssumption DEF NamesFit
<1>2. PICK a : a = Append(m, "n")
  BY Zenon
<1>3. /\ a \in Seq(Token) /\ Len(a) = Len(m) + 1 /\ Len(m) \in Nat
      /\ a[Len(m) + 1] = "n" /\ \A i \in 1..Len(m) : a[i] = m[i]
  BY ONLY <1>1, <1>2, OneMore
<1>4. a # << >>
  BY <1>3
<1>5. \A i \in 1..Len(a) : a[i] = "n" <=> i = Len(a)
  BY <1>1, <1>3
<1> QED
  BY <1>2, <1>3, <1>4, <1>5 DEF OneLine, Bytes

(* If the version was one line the module is the second one. *)
LEMMA SecondLine ==
  ASSUME NamesFit, SessionTypes, ModuleInv, OneLine(version)
  PROVE  RightModule
<1> SUFFICES ASSUME module # << >> PROVE Append(module, "n") = FirstLine(Rest(sent["down"]))
  BY DEF RightModule
<1>1. PICK w \in Bytes : module \in Modules /\ sent["down"] = version \o (Append(module, "n") \o w)
  BY Zenon DEF ModuleInv
<1>2. PICK m, v : m = Append(module, "n") /\ v = version
  BY ZenonT(30)
<1>3. m \in Bytes /\ OneLine(m)
  BY <1>1, <1>2, NameIsLine
<1>4. v \in Bytes /\ OneLine(v)
  BY <1>2 DEF SessionTypes
<1>5. m \o w \in Bytes
  BY <1>1, <1>3, CatType
<1>6. Rest(v \o (m \o w)) = m \o w
  BY ONLY <1>4, <1>5, LineBegins, Zenon
<1>7. FirstLine(m \o w) = m
  BY ONLY <1>1, <1>3, LineBegins
<1> QED
  BY <1>1, <1>2, <1>6, <1>7, Zenon

(* The client's bytes only grow. *)
LEMMA SentGrows ==
  ASSUME SessionTypes, SessionNext \/ UNCHANGED allVars
  PROVE  \E x \in Bytes : sent'["down"] = sent["down"] \o x
<1>1. << >> \in Bytes /\ sent["down"] \o << >> = sent["down"]
  BY OwnWords, CatEmpty DEF SessionTypes, Conns
<1>2. ASSUME sent' = sent PROVE \E x \in Bytes : sent'["down"] = sent["down"] \o x
  BY <1>1, <1>2, Zenon
<1>3. ASSUME NEW c \in Conns, Send(c) PROVE \E x \in Bytes : sent'["down"] = sent["down"] \o x
  <2>1. CASE c = "down"
    BY <1>3, <2>1, SendLemma, Zenon
  <2>2. CASE c = "up"
    <3>1. sent'["down"] = sent["down"]
      BY <1>3, <2>2, SendLemma DEF Conns
    <3> QED
      BY <1>1, <3>1, ZenonT(30)
  <2> QED
    BY <2>1, <2>2, SMTT(30) DEF Conns
<1>4. (\E c \in Conns : Send(c)) \/ sent' = sent
  <2>1. HandshakeStep => sent' = sent
    BY ZenonT(30) DEF HandshakeStep, ReadMore, ReadFails, WriteRefused, ReadClientVersion,
       ReadModule, Dial, Admit, Greet, ReadAnswer, RequestModule, streams
  <2>2. ASSUME NEW d \in Dirs, CopyRead(d) \/ CopyWrite(d) PROVE sent' = sent
    BY <2>2, Zenon DEF CopyRead, CopyWrite, Relaying
  <2>3. ProxyStep \/ WatcherStep \/ (\E r \in Enabled : TimePasses(r)) => sent' = sent
    BY DEF ProxyStep, WatcherStep, TimePasses, Relaying
  <2>4. (\E c \in Conns, how \in {"eof", "reset"} : Leave(c, how)) \/ UNCHANGED allVars => sent' = sent
    BY DEF Leave, allVars, streams
  <2> QED
    BY <2>1, <2>2, <2>3, <2>4, SMTT(30) DEF SessionNext
<1> QED
  BY <1>2, <1>3, <1>4, SMTT(30)

(* Only two steps read a line of the client. *)
LEMMA LinesAreKept ==
  ASSUME SessionNext \/ UNCHANGED allVars
  PROVE  \/ ReadClientVersion \/ ReadModule
         \/ /\ UNCHANGED <<version, module>>
            /\ stage' \in {"version", "module"} => stage' = stage
            /\ stage = "version" => out' = out \/ stage' = "over"
<1> DEFINE Kept == /\ UNCHANGED <<version, module>>
                   /\ stage' \in {"version", "module"} => stage' = stage
                   /\ stage = "version" => out' = out \/ stage' = "over"
<1>1. ASSUME NEW c \in Conns, ReadMore(c) \/ ReadFails(c) PROVE Kept
  BY <1>1 DEF ReadMore, ReadFails, GiveUp, told
<1>2. WriteRefused \/ Dial \/ RequestModule => Kept
  BY DEF WriteRefused, Dial, RequestModule, GiveUp, Proceed
<1>3. ReadAnswer => Kept
  BY DEF ReadAnswer, GiveUp, Proceed
<1>4. ASSUME NEW x, Admit(x) \/ Greet(x) PROVE Kept
  BY <1>4, SMTT(30) DEF Admit, Greet, GiveUp, Proceed
<1>5. ASSUME NEW d \in Dirs, CopyRead(d) \/ CopyWrite(d) PROVE Kept
  BY <1>5 DEF CopyRead, CopyWrite, Relaying, handshake
<1>6. ProxyStep \/ WatcherStep \/ (\E r \in Enabled : TimePasses(r)) => Kept
  BY SMTT(30) DEF ProxyStep, WatcherStep, TimePasses, Relaying, handshake
<1>7. ASSUME NEW c \in Conns, Send(c) \/ \E how \in {"eof", "reset"} : Leave(c, how) PROVE Kept
  BY <1>7, Zenon DEF Send, Leave, handshake, told, streams
<1>8. UNCHANGED allVars => Kept
  BY DEF allVars, handshake, streams, told
<1> HIDE DEF Kept
<1>9. HandshakeStep => ReadClientVersion \/ ReadModule \/ Kept
  BY <1>1, <1>2, <1>3, <1>4 DEF HandshakeStep
<1>10. ReadClientVersion \/ ReadModule \/ Kept
  BY <1>5, <1>6, <1>7, <1>8, <1>9, SMTT(30) DEF SessionNext
<1> QED
  BY <1>10 DEF Kept

(* Every step keeps the two lines at the front of the client's bytes. *)
LEMMA ModuleStep ==
  ASSUME NamesFit, FlowInv, FlowInv', ModuleInv, SessionNext \/ UNCHANGED allVars
  PROVE  ModuleInv'
<1>1. CASE ReadClientVersion
  BY <1>1 DEF ReadClientVersion, ModuleInv, Proceed, GiveUp
<1>2. CASE ReadModule
  <2>1. \/ module' = module /\ stage' = "over" /\ stage = "module"
        \/ module' \in Modules /\ stage' = "admit"
    BY <1>2 DEF ReadModule, Proceed, GiveUp
  <2>2. CASE module' = module /\ stage' = "over" /\ stage = "module"
    BY <2>2 DEF ModuleInv
  <2>3. CASE module' \in Modules /\ stage' = "admit"
    <3>1. sent'["down"] = version' \o (Append(module', "n") \o wire'["down"])
      BY <2>3, Zenon DEF FlowInv, ClientFlow
    <3>2. wire'["down"] \in Bytes
      BY DEF FlowInv, SessionTypes, Conns
    <3> QED
      BY <2>3, <3>1, <3>2, Zenon DEF ModuleInv
  <2> QED
    BY <2>1, <2>2, <2>3, SMTT(30)
<1>3. CASE /\ UNCHANGED <<version, module>>
           /\ stage' \in {"version", "module"} => stage' = stage
  <2>1. stage' \in {"version", "module"} => module' = << >>
    BY <1>3 DEF ModuleInv
  <2>2. ASSUME module' # << >>
        PROVE  \E w \in Bytes : sent'["down"] = version' \o (Append(module', "n") \o w)
    <3>1. PICK w : w \in Bytes /\ sent["down"] = version \o (Append(module, "n") \o w)
      BY <1>3, <2>2, Zenon DEF ModuleInv
    <3>2. PICK x : x \in Bytes /\ sent'["down"] = sent["down"] \o x
      BY SentGrows DEF FlowInv
    <3>3. PICK v, m : v = version /\ m = Append(module, "n")
      BY ZenonT(30)
    <3>4. v \in Bytes /\ m \in Bytes /\ w \in Bytes /\ x \in Bytes
      <4>1. module \in Modules
        BY <1>3, <2>2 DEF ModuleInv
      <4> QED
        BY <3>1, <3>2, <3>3, <4>1, NameIsLine DEF FlowInv, SessionTypes
    <3>5. Behind(v, m, w, x)
      BY ONLY <3>4, CatBehind
    <3>6. w \o x \in Bytes
      BY ONLY <3>4, CatType
    <3>7. sent'["down"] = version' \o (Append(module', "n") \o (w \o x))
      BY <1>3, <3>1, <3>2, <3>3, <3>5, Zenon DEF Behind
    <3> QED
      BY <3>6, <3>7, Zenon
  <2>3. module' # << >> => module' \in Modules
    BY <1>3 DEF ModuleInv
  <2> QED
    BY <2>1, <2>2, <2>3, Zenon DEF ModuleInv
<1> QED
  BY <1>1, <1>2, <1>3, LinesAreKept, SMTT(30)

(* Whenever what readLine took for the version was one line, the module    *)
(* that is looked up, counted and requested is the client's second line.   *)
THEOREM SecondLineIsModule ==
  ASSUME NamesFit, GreetingFits
  PROVE  SessionSpec => [](OneLine(version) => RightModule)
<1>1. SessionInit => ModuleInv
  BY DEF SessionInit, ModuleInv
<1>2. EndInv /\ FlowInv /\ EndInv' /\ FlowInv' /\ ModuleInv /\ [SessionNext]_allVars => ModuleInv'
  BY ModuleStep
<1>3. EndInv /\ FlowInv /\ ModuleInv => (OneLine(version) => RightModule)
  BY SecondLine DEF FlowInv
<1> QED
  BY <1>1, <1>2, <1>3, FlowInvariance, PTL DEF SessionSpec
-----------------------------------------------------------------------------
(* Until the proxy has greeted a client that takes turns, the client has   *)
(* sent nothing, or its version line and no more.                          *)
TurnInv ==
  /\ stage = "version" =>
       /\ out["down"] = << >>
       /\ \/ sent["down"] = << >> /\ script["down"] \in Scripts["down"]
          \/ \E s \in Scripts["down"] : s # << >> /\ sent["down"] = s[1].bytes /\ script["down"] = Tail(s)
  /\ stage = "module" \/ module # << >> => OneLine(version)

(* What readLine returns of a single line is that line. *)
LEMMA WholeLine ==
  ASSUME NEW b, NEW w, NEW y, b \in Bytes, w \in Bytes, b # << >>, b \o w = y,
         IsLine(b), OneLine(y), Len(y) <= BufSize
  PROVE  b = y
<1>1. PICK n, k : n = Len(b) /\ k = Len(w) /\ n \in Nat \ {0} /\ k \in Nat
  <2>1. Len(b) \in Nat \ {0}
    BY DEF Bytes
  <2>2. Len(w) \in Nat
    BY DEF Bytes
  <2> QED
    BY <2>1, <2>2, Zenon
<1>2. Len(y) = n + k /\ \A i \in 1..n : y[i] = b[i]
  <2>1. b \in Seq(Token) /\ w \in Seq(Token)
    BY SMTT(30) DEF Bytes
  <2>2. /\ Len(b \o w) = Len(b) + Len(w)
        /\ \A i \in 1..(Len(b) + Len(w)) : (b \o w)[i] = IF i <= Len(b) THEN b[i] ELSE w[i - Len(b)]
    BY <2>1, ConcatProperties
  <2> QED
    BY <1>1, <2>2
<1>3. k = 0
  <2>1. CASE n = BufSize
    BY <1>1, <1>2, <2>1, SessionAssumption, SMTT(30)
  <2>2. CASE b[n] = "n"
    <3>1. y[n] = "n" /\ n \in 1..Len(y)
      BY <1>1, <1>2, <2>2
    <3>2. n = Len(y)
      BY <3>1 DEF OneLine
    <3> QED
      BY <1>1, <1>2, <3>2
  <2> QED
    BY <1>1, <2>1, <2>2 DEF IsLine
<1>4. w = << >>
  BY <1>1, <1>3, EmptySeq, Zenon DEF Bytes
<1>5. b \o << >> = b
  BY CatEmpty
<1> QED
  BY <1>4, <1>5

(* Every step keeps the turns. *)
LEMMA TurnStep ==
  ASSUME TakesTurns, FlowInv, FlowInv', ModuleInv, TurnInv, SessionNext \/ UNCHANGED allVars
  PROVE  TurnInv'
<1>1. CASE ReadClientVersion
  <2>1. module' = << >> /\ stage = "version" /\ stage' \in {"module", "over"}
    BY <1>1 DEF ReadClientVersion, ModuleInv, Proceed, GiveUp
  <2>2. OneLine(version')
    <3>1. PICK b \in Reads("down") : Taken("down", b) /\ IsLine(b) /\ version' = b
      BY <1>1, SMTT(30) DEF ReadClientVersion
    <3>2. b \in Bytes /\ b # << >> /\ wire'["down"] \in Bytes /\ b \o wire'["down"] = buf \o wire["down"]
      BY <3>1, ReadLemma, Zenon DEF FlowInv, Conns
    <3>3. PICK y, w : y = sent["down"] /\ w = wire'["down"]
      OBVIOUS
    <3>4. b \o w = y
      <4>1. PICK u : u = buf \o wire["down"] /\ u \in Bytes
        BY CatType, Zenon DEF FlowInv, SessionTypes, Conns
      <4>2. << >> \o u = y
        BY <2>1, <3>3, <4>1, Zenon DEF FlowInv, ClientFlow
      <4>3. << >> \o u = u
        BY <4>1, CatEmpty
      <4> QED
        BY <3>2, <3>3, <4>1, <4>2, <4>3, Zenon
    <3>5. y # << >>
      <4>1. b \in Seq(Token) /\ w \in Seq(Token)
        BY <3>2, <3>3 DEF Bytes
      <4>2. Len(b \o w) = Len(b) + Len(w)
        BY <4>1, ConcatProperties
      <4>3. Len(b) \in Nat \ {0}
        BY <3>2, <4>1
      <4>4. Len(w) \in Nat
        BY <4>1
      <4>5. Len(y) # 0
        BY <3>4, <4>2, <4>3, <4>4
      <4> QED
        BY <4>5
    <3>6. OneLine(y) /\ Len(y) <= BufSize
      BY <2>1, <3>3, <3>5, SMTT(30) DEF TurnInv, TakesTurns
    <3>7. w \in Bytes
      BY <3>2, <3>3, SMTT(30)
    <3>8. b = y
      BY <3>1, <3>2, <3>4, <3>6, <3>7, WholeLine, ZenonT(30)
    <3> QED
      BY <3>1, <3>6, <3>8, SMTT(30)
  <2> QED
    BY <2>1, <2>2 DEF TurnInv
<1>2. CASE ReadModule
  BY <1>2 DEF ReadModule, TurnInv, Proceed, GiveUp
<1>3. ASSUME NEW c \in Conns, Send(c) PROVE TurnInv'
  <2> USE DEF Conns
  <2>0. stage' = stage /\ version' = version /\ module' = module /\ out' = out
    BY <1>3, SMTT(30) DEF Send, handshake, told
  <2>1. CASE stage # "version"
    BY <2>0, <2>1, SMTT(30) DEF TurnInv
  <2>2. CASE stage = "version"
    <3>1. \/ sent'["down"] = << >> /\ script'["down"] \in Scripts["down"]
          \/ \E s \in Scripts["down"] : s # << >> /\ sent'["down"] = s[1].bytes /\ script'["down"] = Tail(s)
      <4>1. CASE Send("down")
        <5>1. PICK x : /\ x \in Bytes /\ x = script["down"][1].bytes /\ script["down"] # << >>
                       /\ sent'["down"] = sent["down"] \o x /\ script'["down"] = Tail(script["down"])
          BY <4>1, SendLemma DEF FlowInv, Conns
        <5>2. CASE sent["down"] = << >> /\ script["down"] \in Scripts["down"]
          <6>1. << >> \o x = x
            BY <5>1, CatEmpty
          <6> QED
            BY <5>1, <5>2, <6>1, SMTT(30)
        <5>3. ASSUME NEW s \in Scripts["down"], s # << >>, script["down"] = Tail(s) PROVE FALSE
          <6>1. s \in Script /\ Tail(s) # << >>
            BY <5>1, <5>3, SessionAssumption, Zenon DEF Script, Bytes, Conns
          <6>2. Head(Tail(s)) = s[2] /\ 2 \in 2..Len(s)
            BY <5>3, <6>1 DEF Script
          <6>3. Head(Tail(s)).after \in {"start"} \cup Range(out["down"])
            BY <4>1, <5>3 DEF Send
          <6>4. Range(out["down"]) = {}
            BY <2>2, SMTT(30) DEF TurnInv, Range
          <6> QED
            BY <6>2, <6>3, <6>4 DEF TakesTurns
        <5> QED
          BY <2>2, <5>2, <5>3, SMTT(30) DEF TurnInv
      <4>2. CASE Send("up")
        BY <2>2, <4>2 DEF Send, Connected
      <4> QED
        BY <1>3, <4>1, <4>2, SMTT(30) DEF Conns
    <3> QED
      BY <2>0, <3>1, <2>2, SMTT(30) DEF TurnInv
  <2> QED
    BY <2>1, <2>2, SMTT(30)
<1>4. CASE /\ ~\E c \in Conns : Send(c)
           /\ UNCHANGED <<version, module>>
           /\ stage' \in {"version", "module"} => stage' = stage
           /\ stage = "version" => out' = out \/ stage' = "over"
  <2>1. UNCHANGED <<script, sent>>
    <3>1. HandshakeStep => UNCHANGED <<script, sent>>
      BY ZenonT(30) DEF HandshakeStep, ReadMore, ReadFails, WriteRefused, ReadClientVersion,
         ReadModule, Dial, Admit, Greet, ReadAnswer, RequestModule, streams
    <3>2. ASSUME NEW d \in Dirs, CopyRead(d) \/ CopyWrite(d) PROVE UNCHANGED <<script, sent>>
      BY <3>2 DEF CopyRead, CopyWrite, Relaying
    <3>3. ProxyStep \/ WatcherStep \/ (\E r \in Enabled : TimePasses(r)) => UNCHANGED <<script, sent>>
      BY SMTT(30) DEF ProxyStep, WatcherStep, TimePasses, Relaying
    <3>4. (\E c \in Conns, how \in {"eof", "reset"} : Leave(c, how)) \/ UNCHANGED allVars => UNCHANGED <<script, sent>>
      BY Zenon DEF Leave, allVars, streams
    <3> QED
      BY <1>4, <3>1, <3>2, <3>3, <3>4 DEF SessionNext
  <2> QED
    BY <1>4, <2>1 DEF TurnInv
<1> QED
  BY <1>1, <1>2, <1>3, <1>4, LinesAreKept

(* For clients that take turns the module that is looked up, counted and   *)
(* requested is the second line the client sent, however its bytes were    *)
(* cut into reads.                                                         *)
THEOREM ModuleIsRight ==
  ASSUME NamesFit, GreetingFits, TakesTurns
  PROVE  SessionSpec => []RightModule
<1> DEFINE Both == ModuleInv /\ TurnInv
<1>1. SessionInit => Both
  BY Zenon DEF SessionInit, ModuleInv, TurnInv, Conns
<1>2. EndInv /\ FlowInv /\ EndInv' /\ FlowInv' /\ Both /\ [SessionNext]_allVars => Both'
  BY ModuleStep, TurnStep
<1>3. EndInv /\ FlowInv /\ Both => RightModule
  <2>1. FlowInv /\ ModuleInv /\ OneLine(version) => RightModule
    BY SecondLine DEF FlowInv
  <2>2. module = << >> => RightModule
    BY DEF RightModule
  <2>3. Both /\ module # << >> => OneLine(version)
    BY DEF TurnInv
  <2> QED
    BY <2>1, <2>2, <2>3
<1> QED
  BY <1>1, <1>2, <1>3, FlowInvariance, PTL DEF SessionSpec
=============================================================================
