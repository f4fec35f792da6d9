---------------------------- MODULE RadSecProofs ----------------------------
(***************************************************************************)
(* Theorems about RadSecClient and RadSecServer: for every number of       *)
(* senders, attempts and packets per connection, every configuration of    *)
(* the two ends, and every pattern of timeouts, cancellations, closes and  *)
(* restarts.                                                               *)
(***************************************************************************)
EXTENDS RadSec, SequenceLemmas

Tokens == 0..(TokenSpace - 1)
Active == {"lock", "connect", "header", "body", "backoff"}
PC == Active \union {"idle", "done"}
ReplyCode == {"accept", "reject", "challenge", "accounting", "nak"}

-----------------------------------------------------------------------------
(* The inductive invariant, first part: types, the lock and the attempts. *)

Sent == [from: Sender, ver: RadiusVersion, token: Tokens \union {None}]

\* Requests, replies and EAP messages are not looked into.
PacketTyped(pk) ==
    pk \in [ver: RadiusVersion, token: Tokens \union {None}, ma: BOOLEAN,
            eap: {pk.eap}, state: {pk.state}]
AttemptTyped(a) == a \in [n: 0..Attempts, conn: Slots \union {NoConn}, got: {a.got}]
ConnTyped(r) ==
    /\ r \in [ver: RadiusVersion \union {None}, sver: RadiusVersion \union {None},
              tls: TlsVersion, up: Up, srv: {"serving", "closed"}, in: {r.in},
              out: {r.out}, done: Nat, sent: SUBSET Sent]
    /\ r.in \in Seq({r.in[i] : i \in DOMAIN r.in})
    /\ r.out \in Seq({r.out[i] : i \in DOMAIN r.out})

\* The server's replies carry one of its codes, which none of the outcomes
\* without a reply is.
CodesKnown(r) == \A i \in DOMAIN r.out : r.out[i].reply.code \in ReplyCode
GoodConns(cs) == DOMAIN cs = Slots /\ \A c \in Slots : ConnTyped(cs[c]) /\ CodesKnown(cs[c])

Typed ==
    /\ conf \in Config
    /\ srv \in [versions: (SUBSET RadiusVersion) \ {{}}, tls: TlsVersion]
    /\ cli \in [conn: Slots \union {NoConn}, ver: RadiusVersion, next: Tokens \union {None}]
    /\ queue \in Seq(Sender)
    /\ pc \in [Sender -> PC]
    /\ DOMAIN pkt = Sender /\ \A p \in Sender : PacketTyped(pkt[p])
    /\ DOMAIN at = Sender /\ \A p \in Sender : AttemptTyped(at[p])
    /\ DOMAIN result = Sender
    /\ GoodConns(conns)
    /\ round \in [Sender -> Nat]
    /\ lastError \in {NONE, "packet", "transport"}
    /\ used \in [cancels: Nat, closes: Nat, restarts: Nat]

HeaderKnown == \A p \in Sender : pc[p] = "body" => at[p].got.code \in ReplyCode

\* A sender waits for the lock once, and is past the wait only if it holds it.
In(s, p) == \E i \in 1..Len(s) : s[i] = p
Single(s) == \A i, j \in 1..Len(s) : s[i] = s[j] => i = j
LockKept ==
    /\ Single(queue)
    /\ \A p \in Sender : pc[p] \in Active <=> In(queue, p)
    /\ \A p \in Sender : pc[p] \in Active \ {"lock"} => Holds(p)

Finished == \A p \in Sender : pc[p] = "done" <=> result[p].code # NONE

\* Only an attempt under way has a reader and a writer of its own, which are the
\* client's unless those are gone.
OneAttempt(p) ==
    /\ pc[p] \in {"idle", "lock"} => at[p].n = 0
    /\ pc[p] = "backoff" => at[p].n < Attempts
    /\ Waits(p) <=> at[p].conn # NoConn
    /\ Waits(p) => cli.conn \in {NoConn, at[p].conn}
    /\ pc[p] = "connect" => cli.conn = NoConn
AttemptKept == \A p \in Sender : OneAttempt(p)

NotKept == ~conf.reuse => cli.conn = NoConn

Inv1 == Typed /\ HeaderKnown /\ LockKept /\ Finished /\ AttemptKept /\ NotKept

-----------------------------------------------------------------------------
(* Second part: the versions of the two ends. *)

\* enforce_tls_version_floor.
ServerFloor == V1_1 \in srv.versions => srv.tls = 13

\* _negotiated_version is the version of the connection that _writer stands
\* for, and in version 1.1 there is a Token counter.
ClientVersion ==
    cli.conn # NoConn =>
        /\ conns[cli.conn].up # "closed"
        /\ conns[cli.conn].ver = cli.ver
        /\ cli.ver = V1_1 => cli.next # None

\* A packet that waits for its reply has the version of its connection.
PacketVersion == \A p \in Sender : Waits(p) => pkt[p].ver = conns[at[p].conn].ver

Inv2 == ServerFloor /\ ClientVersion /\ PacketVersion /\ EndsAgreeOnVersion /\ WireMatchesVersion

-----------------------------------------------------------------------------
(* Third part: what is under way. *)

\* Where a reply is known to be right: without cancellations, or where
\* verify_reply compares more than Tokens.
Clean(c) == used.cancels = 0 \/ conns[c].ver = V1_0

\* The connections something can still be read from.
InUse(c) == conns[c].up = "open" \/ \E p \in Sender : at[p].conn = c

\* A sender that has gone and may have left something behind.
Gone(p) == p \in Sender /\ pc[p] = "done" /\ used.cancels > 0

\* p waits on c for the reply to its round n.
Awaits(p, c, n) == Waits(p) /\ at[p].conn = c /\ round[p] = n

\* The request a sender waits on is the last one in.
RequestInOrder(c, m, last) ==
    /\ m.from \in Sender
    /\ \/ Gone(m.from)
       \/ /\ Awaits(m.from, c, m.round)
          /\ pc[m.from] = "body" => Gone(at[m.from].got.to)
          /\ last
RequestsInOrder(c) ==
    \A i \in DOMAIN conns[c].in : RequestInOrder(c, conns[c].in[i], i = Len(conns[c].in))

\* Its reply is the last one out, and all requests have been read by then.
UnitInOrder(c, u, i, last) ==
    /\ u.reply.to \in Sender
    /\ \/ Gone(u.reply.to)
       \/ /\ Awaits(u.reply.to, c, u.reply.round)
          /\ conns[c].in = <<>>
          /\ \/ u.part = "header" /\ i = last - 1
             \/ u.part = "body" /\ i = last /\ (pc[u.reply.to] = "header" => i > 1)
RepliesInOrder(c) ==
    \A i \in DOMAIN conns[c].out : UnitInOrder(c, conns[c].out[i], i, Len(conns[c].out))

\* The header that has been read is that of the sender's own reply, whose body
\* is all there is, or that of a sender that has gone.
HeaderInOrder(c) ==
    \A p \in Sender : pc[p] = "body" /\ at[p].conn = c =>
        \/ Gone(at[p].got.to)
        \/ /\ at[p].got.to = p /\ at[p].got.round = round[p]
           /\ conns[c].in = <<>> /\ Len(conns[c].out) <= 1

Ordered(c) == RequestsInOrder(c) /\ RepliesInOrder(c) /\ HeaderInOrder(c)
InOrder == \A c \in Slots : Clean(c) /\ InUse(c) => Ordered(c)

Inv3 == InOrder /\ ReturnsOwnReply

-----------------------------------------------------------------------------
(* Fourth part: Tokens. *)

\* How far the counter is from a Token.
Distance(t, next) == (t - next) % TokenSpace

\* The senders whose packet has no Token.
Without11 == {p \in Sender : pkt[p].token = None}

\* The Tokens in use keep their distance from the counter: as many as there
\* are senders that may still draw one.
CounterAhead ==
    cli.conn # NoConn /\ cli.ver = V1_1 =>
        \A p \in Sender : pkt[p].token # None =>
            Distance(pkt[p].token, cli.next) >= Cardinality(Without11)

PacketTokensDistinct ==
    \A p, q \in Sender : pkt[p].token # None /\ pkt[p].token = pkt[q].token => p = q

\* What was sent on the client's connection is what the packets still carry.
SentTokensCurrent ==
    cli.conn # NoConn =>
        \A m \in conns[cli.conn].sent : m.token # None => m.token = pkt[m.from].token

Inv4 == CounterAhead /\ PacketTokensDistinct /\ SentTokensCurrent /\ TokensDistinct

-----------------------------------------------------------------------------
(* The queue of the lock. *)

First(s, p) == s # <<>> /\ Head(s) = p
PlaceIn(s, p) == CHOOSE i \in DOMAIN s : s[i] = p

\* A sender that leaves the queue leaves it as it is for the others.
LEMMA QueueLeft ==
    ASSUME NEW s \in Seq(Sender), Single(s), NEW p \in Sender, In(s, p)
    PROVE  LET r == RemoveAt(s, PlaceIn(s, p)) IN
           /\ r \in Seq(Sender) /\ Single(r)
           /\ \A q \in Sender : In(r, q) <=> In(s, q) /\ q # p
           /\ \A q \in Sender : First(s, q) /\ q # p => First(r, q)
  <1> DEFINE k == PlaceIn(s, p)
             r == RemoveAt(s, k)
  <1>1. Len(s) \in Nat /\ DOMAIN s = 1..Len(s)
    BY LenProperties
  <1>2. k \in 1..Len(s) /\ s[k] = p
    BY <1>1, Zenon DEF In, PlaceIn
  <1> HIDE DEF k
  <1>3. /\ r \in Seq(Sender) /\ Len(r) = Len(s) - 1
        /\ \A i \in 1..(Len(s) - 1) : r[i] = s[IF i < k THEN i ELSE i + 1]
    BY <1>2, RemoveAtFacts
  <1> HIDE DEF r
  <1>4. Single(r)
    <2> SUFFICES ASSUME NEW i \in 1..Len(r), NEW j \in 1..Len(r), r[i] = r[j] PROVE i = j
      BY DEF Single
    <2>1. s[IF i < k THEN i ELSE i + 1] = s[IF j < k THEN j ELSE j + 1]
      BY <1>1, <1>3
    <2>2. (IF i < k THEN i ELSE i + 1) = (IF j < k THEN j ELSE j + 1)
      BY <1>1, <1>2, <1>3, <2>1 DEF Single
    <2> QED
      BY <1>1, <1>2, <1>3, <2>2
  <1>5. ASSUME NEW q \in Sender PROVE In(r, q) <=> In(s, q) /\ q # p
    <2>1. ASSUME In(r, q) PROVE In(s, q) /\ q # p
      <3>1. PICK i \in 1..Len(r) : r[i] = q
        BY <2>1 DEF In
      <3>2. (IF i < k THEN i ELSE i + 1) \in 1..Len(s) /\ (IF i < k THEN i ELSE i + 1) # k
            /\ s[IF i < k THEN i ELSE i + 1] = q
        BY <1>1, <1>2, <1>3, <3>1
      <3> QED
        BY <1>2, <3>2 DEF In, Single
    <2>2. ASSUME In(s, q), q # p PROVE In(r, q)
      <3>1. PICK i \in 1..Len(s) : s[i] = q
        BY <2>2 DEF In
      <3>2. i # k
        BY <1>2, <2>2, <3>1
      <3>3. CASE i < k
        <4>1. i \in 1..Len(r) /\ r[i] = s[i]
          BY <1>1, <1>2, <1>3, <3>1, <3>3
        <4> QED
          BY <3>1, <4>1 DEF In
      <3>4. CASE i > k
        <4>1. i - 1 \in 1..Len(r) /\ ~(i - 1 < k) /\ (i - 1) + 1 = i
          BY <1>1, <1>2, <1>3, <3>1, <3>4
        <4>2. r[i - 1] = s[i]
          BY <1>3, <4>1
        <4> QED
          BY <3>1, <4>1, <4>2 DEF In
      <3> QED
        BY <1>1, <1>2, <3>1, <3>2, <3>3, <3>4
    <2> QED
      BY <2>1, <2>2
  <1>6. ASSUME NEW q \in Sender, First(s, q), q # p PROVE First(r, q)
    <2>1. s[1] = q /\ Len(s) >= 1
      BY <1>1, <1>6, EmptySeq DEF First
    <2>2. k # 1 /\ Len(r) >= 1
      BY <1>1, <1>2, <1>3, <1>6, <2>1
    <2>3. r[1] = s[1]
      BY <1>1, <1>2, <1>3, <2>2
    <2> QED
      BY <1>3, <2>1, <2>2, <2>3, HeadTailProperties, EmptySeq DEF First
  <1> QED
    BY <1>3, <1>4, <1>5, <1>6 DEF r, k

\* A sender that joins it does not pass the others.
LEMMA QueueJoined ==
    ASSUME NEW s \in Seq(Sender), Single(s), NEW p \in Sender, ~In(s, p)
    PROVE  LET r == Append(s, p) IN
           /\ r \in Seq(Sender) /\ Single(r)
           /\ \A q \in Sender : In(r, q) <=> In(s, q) \/ q = p
           /\ \A q \in Sender : First(s, q) => First(r, q)
  <1> DEFINE r == Append(s, p)
  <1>1. Len(s) \in Nat /\ DOMAIN s = 1..Len(s)
    BY LenProperties
  <1>2. /\ r \in Seq(Sender) /\ Len(r) = Len(s) + 1
        /\ \A i \in 1..Len(s) : r[i] = s[i]
        /\ r[Len(s) + 1] = p
    BY AppendProperties
  <1> HIDE DEF r
  <1>3. Single(r)
    BY <1>1, <1>2 DEF Single, In
  <1>4. ASSUME NEW q \in Sender PROVE In(r, q) <=> In(s, q) \/ q = p
    <2>1. ASSUME In(r, q) PROVE In(s, q) \/ q = p
      BY <1>1, <1>2, <2>1 DEF In
    <2>2. ASSUME In(s, q) PROVE In(r, q)
      BY <1>1, <1>2, <2>2 DEF In
    <2>3. In(r, p)
      <3>1. Len(s) + 1 \in 1..Len(r)
        BY <1>1, <1>2
      <3> QED
        BY <1>2, <3>1 DEF In
    <2> QED
      BY <2>1, <2>2, <2>3
  <1>5. ASSUME NEW q \in Sender, First(s, q) PROVE First(r, q)
    <2>1. s[1] = q /\ Len(s) >= 1
      BY <1>1, <1>5, EmptySeq DEF First
    <2>2. r[1] = q /\ Len(r) >= 1
      BY <1>1, <1>2, <2>1
    <2> QED
      BY <1>2, <2>2, HeadTailProperties, EmptySeq DEF First
  <1> QED
    BY <1>2, <1>3, <1>4, <1>5 DEF r

-----------------------------------------------------------------------------
(* Connections. *)

\* What a step other than a write leaves of a connection: a record of the same
\* handshake and the same requests sent, or none.
Blank(r) == r.ver = None /\ r.sent = {} /\ r.srv = "closed"
Evolves(r, q) ==
    /\ ConnTyped(q)
    /\ \/ Blank(q)
       \/ /\ q.ver = r.ver /\ q.sver = r.sver /\ q.tls = r.tls /\ q.sent = r.sent
          /\ q.srv \in {r.srv, "closed"}
    /\ CodesKnown(q)
Changes(cs, ds) == DOMAIN ds = Slots /\ \A c \in Slots : Evolves(cs[c], ds[c])

\* Connections are numbered from 1.
LEMMA SlotFacts == NoConn \notin Slots /\ Slots \subseteq Nat
  <1>1. Cardinality(Slots) \in Nat /\ Slots = 1..Cardinality(Slots)
    BY RadSecAssumption, FS_CardinalityType
  <1> QED
    BY <1>1 DEF NoConn

\* The record of a free slot is one of a closed connection.
LEMMA DeadTyped == ConnTyped(Dead)
  <1>1. <<>> \in Seq({})
    BY EmptySeq
  <1>2. {Dead.in[i] : i \in DOMAIN Dead.in} = {} /\ {Dead.out[i] : i \in DOMAIN Dead.out} = {}
    BY DEF Dead
  <1>3. Dead.in = <<>> /\ Dead.out = <<>>
    BY DEF Dead
  <1> QED
    BY <1>1, <1>2, <1>3 DEF ConnTyped, Dead, Up, None, TlsVersion

\* The client closes its end.
LEMMA ClosedRecord ==
    ASSUME NEW r, ConnTyped(r)
    PROVE  LET q == Tidy([r EXCEPT !.up = "closed", !.out = <<>>]) IN
           Evolves(r, q) /\ q.up = "closed" /\ q.out = <<>>
  <1> DEFINE x == [r EXCEPT !.up = "closed", !.out = <<>>]
  <1>1. /\ x.ver = r.ver /\ x.sver = r.sver /\ x.tls = r.tls /\ x.up = "closed"
        /\ x.srv = r.srv /\ x.in = r.in /\ x.out = <<>> /\ x.done = r.done /\ x.sent = r.sent
    BY DEF ConnTyped
  <1>2. ConnTyped(x)
    <2>1. x \in [ver: RadiusVersion \union {None}, sver: RadiusVersion \union {None},
                 tls: TlsVersion, up: Up, srv: {"serving", "closed"}, in: {x.in},
                 out: {x.out}, done: Nat, sent: SUBSET Sent]
      BY <1>1 DEF ConnTyped, Up
    <2> HIDE DEF x
    <2>2. x.out \in Seq({x.out[i] : i \in DOMAIN x.out})
      BY <1>1, EmptySeq
    <2>3. x.in \in Seq({x.in[i] : i \in DOMAIN x.in})
      BY <1>1 DEF ConnTyped
    <2> QED
      BY <2>1, <2>2, <2>3 DEF ConnTyped
  <1> HIDE DEF x
  <1>3. Tidy(x) \in {x, Dead}
    BY DEF Tidy
  <1>4. Dead.up = "closed" /\ Dead.out = <<>> /\ DOMAIN Dead.out = {} /\ Blank(Dead)
    BY DEF Dead, Blank
  <1>5. DOMAIN x.out = {}
    BY <1>1
  <1>6. Evolves(r, x) /\ Evolves(r, Dead)
    BY <1>1, <1>2, <1>4, <1>5, DeadTyped DEF Evolves, CodesKnown, Blank
  <1> QED
    BY <1>1, <1>3, <1>4, <1>6 DEF x

\* The same on the connections.
LEMMA ClosedAtFacts ==
    ASSUME NEW cs, DOMAIN cs = Slots, NEW c \in Slots \union {NoConn}
    PROVE  /\ DOMAIN ClosedAt(cs, c) = Slots
           /\ \A d \in Slots : d # c => ClosedAt(cs, c)[d] = cs[d]
           /\ c \in Slots =>
                 ClosedAt(cs, c)[c] = Tidy([cs[c] EXCEPT !.up = "closed", !.out = <<>>])
  BY SlotFacts DEF ClosedAt

\* The server closes its end.
LEMMA ServerEndRecord ==
    ASSUME NEW r, ConnTyped(r), NEW c, CodesKnown(r)
    PROVE  /\ Evolves(r, ServerEnd(c, r))
           /\ ServerEnd(c, r).srv = "closed"
           /\ ServerEnd(c, r).in = <<>>
           /\ ServerEnd(c, r).up = r.up
           /\ \/ ServerEnd(c, r).out = r.out /\ ServerEnd(c, r).ver = r.ver
              \/ ServerEnd(c, r) = Dead /\ r.up = "closed" /\ \A p \in Sender : at[p].conn # c
  <1> DEFINE x == [r EXCEPT !.srv = "closed", !.in = <<>>]
  <1>1. /\ x.ver = r.ver /\ x.sver = r.sver /\ x.tls = r.tls /\ x.up = r.up
        /\ x.srv = "closed" /\ x.in = <<>> /\ x.out = r.out /\ x.done = r.done /\ x.sent = r.sent
    BY DEF ConnTyped
  <1>2. ConnTyped(x)
    <2>1. x \in [ver: RadiusVersion \union {None}, sver: RadiusVersion \union {None},
                 tls: TlsVersion, up: Up, srv: {"serving", "closed"}, in: {x.in},
                 out: {x.out}, done: Nat, sent: SUBSET Sent]
      BY <1>1 DEF ConnTyped
    <2> HIDE DEF x
    <2>2. x.in \in Seq({x.in[i] : i \in DOMAIN x.in})
      BY <1>1, EmptySeq
    <2>3. x.out \in Seq({x.out[i] : i \in DOMAIN x.out})
      BY <1>1 DEF ConnTyped
    <2> QED
      BY <2>1, <2>2, <2>3 DEF ConnTyped
  <1> HIDE DEF x
  <1>3. /\ Dead.up = "closed" /\ Dead.out = <<>> /\ DOMAIN Dead.out = {} /\ Dead.srv = "closed"
        /\ Dead.in = <<>> /\ Blank(Dead)
    BY DEF Dead, Blank
  <1>4. Evolves(r, x) /\ Evolves(r, Dead)
    BY <1>1, <1>2, <1>3, DeadTyped DEF Evolves, CodesKnown, Blank
  <1>5. ServerEnd(c, r) = Settled(c, x)
    BY DEF ServerEnd, x
  <1>6. \/ Settled(c, x) = x
        \/ Settled(c, x) = Dead /\ x.up = "closed" /\ \A p \in Sender : at[p].conn # c
    BY DEF Settled, Tidy
  <1> QED
    BY <1>1, <1>3, <1>4, <1>5, <1>6

\* A sequence is one over its elements; what a queue or a stream may become.
LEMMA AnySequence ==
    ASSUME NEW S, NEW s \in Seq(S)
    PROVE  s \in Seq({s[i] : i \in DOMAIN s})
  <1>1. Len(s) \in Nat /\ DOMAIN s = 1..Len(s) /\ s \in [1..Len(s) -> S]
    BY LenProperties
  <1>2. s \in [1..Len(s) -> {s[i] : i \in DOMAIN s}]
    BY <1>1
  <1> QED
    BY <1>1, <1>2, SeqDef

LEMMA TailFacts ==
    ASSUME NEW s, s \in Seq({s[i] : i \in DOMAIN s}), s # <<>>
    PROVE  /\ Tail(s) \in Seq({Tail(s)[i] : i \in DOMAIN Tail(s)})
           /\ Len(s) \in Nat /\ Len(s) >= 1 /\ Len(Tail(s)) = Len(s) - 1
           /\ DOMAIN s = 1..Len(s) /\ DOMAIN Tail(s) = 1..(Len(s) - 1)
           /\ \A i \in 1..(Len(s) - 1) : i + 1 \in DOMAIN s /\ Tail(s)[i] = s[i + 1]
           /\ Head(s) = s[1]
  <1> DEFINE S == {s[i] : i \in DOMAIN s}
  <1>1. s \in Seq(S)
    OBVIOUS
  <1> HIDE DEF S
  <1>2. Len(s) \in Nat /\ DOMAIN s = 1..Len(s) /\ Len(s) >= 1
    BY <1>1, LenProperties, EmptySeq
  <1>3. /\ Tail(s) \in Seq(S) /\ Len(Tail(s)) = Len(s) - 1 /\ Head(s) = s[1]
        /\ \A i \in 1..Len(Tail(s)) : Tail(s)[i] = s[i + 1]
    BY <1>1, HeadTailProperties
  <1>4. DOMAIN Tail(s) = 1..(Len(s) - 1)
    BY <1>3, LenProperties
  <1>5. Tail(s) \in Seq({Tail(s)[i] : i \in DOMAIN Tail(s)})
    BY <1>3, AnySequence, ZenonT(30)
  <1> QED
    BY <1>2, <1>3, <1>4, <1>5

LEMMA AppendFacts ==
    ASSUME NEW s, s \in Seq({s[i] : i \in DOMAIN s}), NEW m, NEW t, t = Append(s, m)
    PROVE  /\ t \in Seq({t[i] : i \in DOMAIN t})
           /\ Len(s) \in Nat /\ Len(t) = Len(s) + 1
           /\ DOMAIN s = 1..Len(s) /\ DOMAIN t = 1..(Len(s) + 1)
           /\ \A i \in 1..Len(s) : t[i] = s[i]
           /\ t[Len(s) + 1] = m
  <1> DEFINE S == {s[i] : i \in DOMAIN s} \union {m}
  <1>1. s \in Seq(S) /\ m \in S
    <2>1. Len(s) \in Nat /\ DOMAIN s = 1..Len(s) /\ s \in [1..Len(s) -> S]
      BY LenProperties
    <2> QED
      BY <2>1, SeqDef
  <1> HIDE DEF S
  <1>2. Len(s) \in Nat /\ DOMAIN s = 1..Len(s)
    BY <1>1, LenProperties
  <1>3. /\ t \in Seq(S) /\ Len(t) = Len(s) + 1
        /\ \A i \in 1..Len(s) : t[i] = s[i]
        /\ t[Len(s) + 1] = m
    BY <1>1, AppendProperties
  <1>4. DOMAIN t = 1..(Len(s) + 1)
    BY <1>3, LenProperties
  <1>5. t \in Seq({t[i] : i \in DOMAIN t})
    BY <1>3, AnySequence
  <1> QED
    BY <1>2, <1>3, <1>4, <1>5

\* A reply is appended to the stream as a header and a body.
Framed(s, reply) == s \o Frame(reply)

IsFramed(s, reply, r) ==
    /\ r \in Seq({r[i] : i \in DOMAIN r})
    /\ Len(s) \in Nat /\ Len(r) = Len(s) + 2
    /\ DOMAIN s = 1..Len(s) /\ DOMAIN r = 1..(Len(s) + 2)
    /\ \A i \in 1..Len(s) : r[i] = s[i]
    /\ r[Len(s) + 1] = [part |-> "header", reply |-> reply]
    /\ r[Len(s) + 2] = [part |-> "body", reply |-> reply]

LEMMA FrameFacts ==
    ASSUME NEW s, s \in Seq({s[i] : i \in DOMAIN s}), NEW reply
    PROVE  IsFramed(s, reply, Framed(s, reply))
  <1> DEFINE h == [part |-> "header", reply |-> reply]
             b == [part |-> "body", reply |-> reply]
             f == <<h, b>>
             S == {s[i] : i \in DOMAIN s} \union {h, b}
             r == Framed(s, reply)
  <1>1. s \in Seq(S) /\ h \in S /\ b \in S
    <2>1. Len(s) \in Nat /\ DOMAIN s = 1..Len(s) /\ s \in [1..Len(s) -> S]
      BY LenProperties
    <2> QED
      BY <2>1, SeqDef
  <1> HIDE DEF S, h, b
  <1>2. f \in Seq(S) /\ Len(f) = 2 /\ f[1] = h /\ f[2] = b
    BY <1>1
  <1>7. r = s \o f
    BY DEF Framed, Frame, h, b
  <1> HIDE DEF f
  <1>3. Len(s) \in Nat /\ DOMAIN s = 1..Len(s)
    BY <1>1, LenProperties
  <1>4. /\ r \in Seq(S) /\ Len(r) = Len(s) + 2
        /\ \A i \in 1..(Len(s) + 2) : r[i] = IF i <= Len(s) THEN s[i] ELSE f[i - Len(s)]
    <2>1. /\ s \o f \in Seq(S) /\ Len(s \o f) = Len(s) + Len(f)
          /\ \A i \in 1..(Len(s) + Len(f)) :
                (s \o f)[i] = IF i <= Len(s) THEN s[i] ELSE f[i - Len(s)]
      BY <1>1, <1>2, ConcatProperties, Zenon
    <2> QED
      BY <1>2, <1>7, <2>1, Zenon
  <1>5. DOMAIN r = 1..(Len(s) + 2)
    BY <1>4, LenProperties
  <1>6. r \in Seq({r[i] : i \in DOMAIN r})
    BY <1>4, AnySequence
  <1>8. r[Len(s) + 1] = h /\ r[Len(s) + 2] = b /\ \A i \in 1..Len(s) : r[i] = s[i]
    <2>1. Len(s) + 1 \in 1..(Len(s) + 2) /\ Len(s) + 2 \in 1..(Len(s) + 2)
          /\ (Len(s) + 1) - Len(s) = 1 /\ (Len(s) + 2) - Len(s) = 2
          /\ ~(Len(s) + 1 <= Len(s)) /\ ~(Len(s) + 2 <= Len(s))
      BY <1>3
    <2>2. r[Len(s) + 1] = f[1] /\ r[Len(s) + 2] = f[2]
      BY <1>4, <2>1
    <2>3. \A i \in 1..Len(s) : r[i] = s[i]
      BY <1>3, <1>4
    <2> QED
      BY <1>2, <2>2, <2>3
  <1> QED
    BY <1>3, <1>4, <1>5, <1>6, <1>8 DEF IsFramed, h, b

\* Changes add up, and leave connections that are in order.
LEMMA ChangesCompose ==
    ASSUME NEW cs, NEW ds, NEW es, Changes(cs, ds), Changes(ds, es)
    PROVE  Changes(cs, es)
  <1> SUFFICES ASSUME NEW c \in Slots PROVE Evolves(cs[c], es[c])
    BY DEF Changes
  <1>1. Evolves(cs[c], ds[c]) /\ Evolves(ds[c], es[c])
    BY DEF Changes
  <1> QED
    BY <1>1 DEF Evolves, Blank

LEMMA ChangesKeep ==
    ASSUME NEW cs, NEW ds, Changes(cs, ds)
    PROVE  GoodConns(ds)
  BY DEF Changes, Evolves, GoodConns

LEMMA NoChange ==
    ASSUME NEW cs, GoodConns(cs)
    PROVE  Changes(cs, cs)
  BY DEF Changes, Evolves, GoodConns

LEMMA ClosedChanges ==
    ASSUME NEW cs, GoodConns(cs), NEW c \in Slots \union {NoConn}
    PROVE  Changes(cs, ClosedAt(cs, c))
  <1>1. DOMAIN cs = Slots
    BY DEF GoodConns
  <1>2. ASSUME NEW d \in Slots PROVE Evolves(cs[d], ClosedAt(cs, c)[d])
    <2>1. CASE d # c
      BY <1>1, <1>2, <2>1, ClosedAtFacts DEF GoodConns, Evolves
    <2>2. CASE d = c
      <3>1. ConnTyped(cs[c])
        BY <1>2, <2>2 DEF GoodConns
      <3>2. Evolves(cs[c], Tidy([cs[c] EXCEPT !.up = "closed", !.out = <<>>]))
        BY <3>1, ClosedRecord
      <3> QED
        BY <1>1, <1>2, <2>2, <3>2, ClosedAtFacts
    <2> QED
      BY <2>1, <2>2
  <1> QED
    BY <1>1, <1>2, ClosedAtFacts DEF Changes

\* A unit of a reply is read from a stream.
LEMMA ReadRecord ==
    ASSUME NEW r, ConnTyped(r), CodesKnown(r), r.out # <<>>
    PROVE  LET q == [r EXCEPT !.out = Tail(@)] IN
           /\ Evolves(r, q)
           /\ q.ver = r.ver /\ q.up = r.up /\ q.srv = r.srv /\ q.in = r.in /\ q.sent = r.sent
           /\ q.out = Tail(r.out)
           /\ Head(r.out).reply.code \in ReplyCode
  <1> DEFINE x == [r EXCEPT !.out = Tail(@)]
  <1>1. /\ x.ver = r.ver /\ x.sver = r.sver /\ x.tls = r.tls /\ x.up = r.up /\ x.srv = r.srv
        /\ x.in = r.in /\ x.out = Tail(r.out) /\ x.done = r.done /\ x.sent = r.sent
    BY DEF ConnTyped
  <1>2. /\ Tail(r.out) \in Seq({Tail(r.out)[i] : i \in DOMAIN Tail(r.out)})
        /\ Len(r.out) \in Nat /\ Len(r.out) >= 1
        /\ DOMAIN r.out = 1..Len(r.out) /\ DOMAIN Tail(r.out) = 1..(Len(r.out) - 1)
        /\ \A i \in 1..(Len(r.out) - 1) : i + 1 \in DOMAIN r.out /\ Tail(r.out)[i] = r.out[i + 1]
        /\ Head(r.out) = r.out[1]
    <2>1. r.out \in Seq({r.out[i] : i \in DOMAIN r.out})
      BY DEF ConnTyped
    <2> QED
      BY <2>1, TailFacts, SMTT(30)
  <1>3. x \in [ver: RadiusVersion \union {None}, sver: RadiusVersion \union {None},
               tls: TlsVersion, up: Up, srv: {"serving", "closed"}, in: {x.in},
               out: {x.out}, done: Nat, sent: SUBSET Sent]
    BY <1>1 DEF ConnTyped
  <1> HIDE DEF x
  <1>4. ConnTyped(x)
    <2>1. x.in \in Seq({x.in[i] : i \in DOMAIN x.in})
      BY <1>1 DEF ConnTyped
    <2>2. x.out \in Seq({x.out[i] : i \in DOMAIN x.out})
      BY <1>1, <1>2
    <2> QED
      BY <1>3, <2>1, <2>2 DEF ConnTyped
  <1>5. CodesKnown(x)
    <2>1. ASSUME NEW i \in DOMAIN x.out PROVE x.out[i].reply.code \in ReplyCode
      <3>1. i \in 1..(Len(r.out) - 1) /\ x.out[i] = Tail(r.out)[i]
        BY <1>1, <1>2, <2>1, Zenon
      <3>2. i + 1 \in DOMAIN r.out /\ x.out[i] = r.out[i + 1]
        BY <1>2, <3>1, Zenon
      <3> QED
        BY <3>2, Zenon DEF CodesKnown
    <2> QED
      BY <2>1, Zenon DEF CodesKnown
  <1>6. Head(r.out).reply.code \in ReplyCode
    <2>1. 1 \in DOMAIN r.out
      BY <1>2
    <2> QED
      BY <1>2, <2>1, Zenon DEF CodesKnown
  <1> QED
    BY <1>1, <1>4, <1>5, <1>6 DEF x, Evolves

LEMMA ConsumeChanges ==
    ASSUME GoodConns(conns), NEW p \in Sender, at[p].conn \in Slots, Arrived(p)
    PROVE  /\ Changes(conns, Consume(p))
           /\ \A d \in Slots : d # at[p].conn => Consume(p)[d] = conns[d]
           /\ Consume(p)[at[p].conn] = [conns[at[p].conn] EXCEPT !.out = Tail(@)]
           /\ NextUnit(p).reply.code \in ReplyCode
  <1> DEFINE c == at[p].conn
  <1>1. DOMAIN conns = Slots /\ c \in Slots
    BY DEF GoodConns
  <1>2. /\ DOMAIN Consume(p) = Slots
        /\ \A d \in Slots : d # c => Consume(p)[d] = conns[d]
        /\ Consume(p)[c] = [conns[c] EXCEPT !.out = Tail(@)]
    BY <1>1 DEF Consume
  <1>3. Evolves(conns[c], Consume(p)[c]) /\ NextUnit(p).reply.code \in ReplyCode
    BY <1>1, <1>2, ReadRecord DEF GoodConns, Arrived, NextUnit
  <1>4. ASSUME NEW d \in Slots, d # c PROVE Evolves(conns[d], Consume(p)[d])
    BY <1>2, <1>4 DEF GoodConns, Evolves
  <1> QED
    BY <1>2, <1>3, <1>4 DEF Changes

LEMMA LeaveChanges ==
    ASSUME NEW cs, GoodConns(cs), NEW p \in Sender, at[p].conn \in Slots \union {NoConn}
    PROVE  Changes(cs, Leave(p, cs))
  BY ClosedChanges, NoChange DEF Leave

-----------------------------------------------------------------------------
(* The three kinds of steps: a send ends, a send goes on, or the client's    *)
(* tasks rest.                                                               *)

Clients == [conn: Slots \union {NoConn}, ver: RadiusVersion, next: Tokens \union {None}]
Errors == {NONE, "packet", "transport"}
Budget == [cancels: Nat, closes: Nat, restarts: Nat]

LEMMA NoClientTyped ==
    NoClient \in Clients /\ NoClient.conn = NoConn /\ AttemptTyped(NoAttempt)
    /\ NoAttempt.conn = NoConn /\ NoAttempt.n = 0
  BY RadSecAssumption DEF NoClient, Clients, NoAttempt, AttemptTyped, RadiusVersion

\* Two senders are never both past the wait for the lock.
LEMMA HolderAlone ==
    ASSUME Inv1, NEW p \in Sender, Holds(p), NEW q \in Sender, q # p
    PROVE  pc[q] \notin Active \ {"lock"}
  BY DEF Inv1, LockKept, Holds

LEMMA Leaves ==
    ASSUME Inv1, NEW p \in Sender, pc[p] \in Active, Release(p)
    PROVE  /\ queue' \in Seq(Sender) /\ Single(queue')
           /\ \A q \in Sender : In(queue', q) <=> In(queue, q) /\ q # p
           /\ \A q \in Sender : q # p /\ Holds(q) => Holds(q)'
  <1>1. queue \in Seq(Sender) /\ Single(queue) /\ In(queue, p)
    BY DEF Inv1, Typed, LockKept
  <1>2. queue' = RemoveAt(queue, PlaceIn(queue, p))
    BY DEF Release, Place, PlaceIn
  <1>3. /\ queue' \in Seq(Sender) /\ Single(queue')
        /\ \A q \in Sender : In(queue', q) <=> In(queue, q) /\ q # p
        /\ \A q \in Sender : First(queue, q) /\ q # p => First(queue', q)
    BY <1>1, <1>2, QueueLeft, Zenon
  <1> QED
    BY <1>3 DEF First, Holds

LEMMA Ends ==
    ASSUME Inv1, NEW p \in Sender, pc[p] \in Active, Release(p),
           NEW x, Finish(p, x), x.code # NONE,
           GoodConns(conns'), cli' \in {cli, NoClient},
           UNCHANGED <<conf, srv, pkt, round>>, lastError' \in Errors, used' \in Budget
    PROVE  Inv1'
  <1> USE DEF Inv1
  <1>1. /\ DOMAIN pc = Sender /\ DOMAIN at = Sender /\ DOMAIN result = Sender
    BY DEF Typed
  <1>2. /\ pc'[p] = "done" /\ at'[p] = NoAttempt /\ result'[p] = x
        /\ \A q \in Sender : q # p => pc'[q] = pc[q] /\ at'[q] = at[q] /\ result'[q] = result[q]
        /\ DOMAIN at' = Sender /\ DOMAIN result' = Sender /\ pc' \in [Sender -> PC]
    BY <1>1 DEF Finish, Typed, PC
  <1>3. cli' \in Clients /\ cli'.conn \in {cli.conn, NoConn}
    BY NoClientTyped DEF Typed, Clients
  <1>4. ASSUME NEW q \in Sender PROVE AttemptTyped(at'[q])
    BY <1>2, NoClientTyped DEF Typed
  <1>5. Typed'
    BY <1>2, <1>3, <1>4, Leaves DEF Typed, Clients, Errors, Budget
  <1>6. HeaderKnown'
    BY <1>2 DEF HeaderKnown
  <1>7. LockKept'
    <2>1. ASSUME NEW q \in Sender PROVE pc'[q] \in Active <=> In(queue', q)
      BY <1>2, Leaves DEF LockKept, Active
    <2>2. ASSUME NEW q \in Sender, pc'[q] \in Active \ {"lock"} PROVE Holds(q)'
      BY <1>2, <2>2, Leaves DEF LockKept, Active
    <2> QED
      BY <2>1, <2>2, Leaves DEF LockKept
  <1>8. Finished'
    BY <1>2 DEF Finished
  <1>9. AttemptKept'
    <2> SUFFICES ASSUME NEW q \in Sender PROVE OneAttempt(q)'
      BY DEF AttemptKept
    <2>1. CASE q = p
      BY <1>2, <2>1, NoClientTyped DEF OneAttempt, Waits
    <2>2. CASE q # p
      BY <1>2, <1>3, <2>2 DEF AttemptKept, OneAttempt, Waits
    <2> QED
      BY <2>1, <2>2
  <1>10. NotKept'
    BY <1>3 DEF NotKept
  <1> QED
    BY <1>5, <1>6, <1>7, <1>8, <1>9, <1>10

LEMMA Goes ==
    ASSUME Inv1, NEW p \in Sender, Holds(p), pc[p] \in Active,
           NEW l \in Active \ {"lock"}, NEW a, AttemptTyped(a),
           pc' = [pc EXCEPT ![p] = l], at' = [at EXCEPT ![p] = a], UNCHANGED <<queue, result>>,
           GoodConns(conns'), cli' \in Clients, NotKept', OneAttempt(p)',
           l = "body" => a.got.code \in ReplyCode,
           UNCHANGED <<conf, srv, round, used>>, lastError' \in Errors,
           DOMAIN pkt' = Sender, \A q \in Sender : PacketTyped(pkt'[q])
    PROVE  Inv1'
  <1> USE DEF Inv1
  <1>1. /\ DOMAIN pc = Sender /\ DOMAIN at = Sender
    BY DEF Typed
  <1>2. /\ pc'[p] = l /\ at'[p] = a
        /\ \A q \in Sender : q # p => pc'[q] = pc[q] /\ at'[q] = at[q]
        /\ DOMAIN at' = Sender /\ pc' \in [Sender -> PC]
    BY <1>1 DEF Typed, PC
  <1>3. \A q \in Sender : AttemptTyped(at'[q])
    BY <1>2 DEF Typed
  <1>4. Typed'
    BY <1>2, <1>3 DEF Typed, Clients, Errors, Budget
  <1>5. HeaderKnown'
    BY <1>2 DEF HeaderKnown
  <1>6. LockKept'
    BY <1>2 DEF LockKept, Holds
  <1>7. Finished'
    BY <1>2 DEF Finished, Active
  <1>8. AttemptKept'
    <2> SUFFICES ASSUME NEW q \in Sender, q # p PROVE OneAttempt(q)'
      BY DEF AttemptKept
    <2>1. pc[q] \notin Active \ {"lock"}
      BY HolderAlone
    <2> QED
      BY <1>2, <2>1 DEF AttemptKept, OneAttempt, Waits, Active
  <1> QED
    BY <1>4, <1>5, <1>6, <1>7, <1>8

LEMMA Rests ==
    ASSUME Inv1, UNCHANGED <<conf, queue, pc, pkt, at, result, lastError, round>>,
           GoodConns(conns'), cli' \in {cli, NoClient},
           srv' \in [versions: (SUBSET RadiusVersion) \ {{}}, tls: TlsVersion], used' \in Budget
    PROVE  Inv1'
  <1> USE DEF Inv1
  <1>1. cli' \in Clients /\ cli'.conn \in {cli.conn, NoConn}
    BY NoClientTyped DEF Typed, Clients
  <1>2. Typed'
    BY <1>1 DEF Typed, Clients, Budget
  <1>3. HeaderKnown' /\ LockKept' /\ Finished' /\ NotKept'
    BY <1>1 DEF HeaderKnown, LockKept, Finished, NotKept, Holds
  <1>4. AttemptKept'
    BY <1>1 DEF AttemptKept, OneAttempt, Waits
  <1> QED
    BY <1>2, <1>3, <1>4

-----------------------------------------------------------------------------
(* _write_packet. *)

TokenOf(p, ver, next) ==
    IF ver = V1_0 THEN None ELSE IF pkt[p].token = None THEN next ELSE pkt[p].token

\* The packet is stamped with the version and a Token.
LEMMA Stamped ==
    ASSUME Inv1, NEW p \in Sender, NEW ver \in RadiusVersion, NEW next \in Tokens \union {None}
    PROVE  LET pk == PrepareMac(Stamp(pkt[p], ver, next), conf.kind[p]) IN
           /\ PacketTyped(pk) /\ pk.ver = ver /\ pk.token = TokenOf(p, ver, next)
           /\ pk.eap = pkt[p].eap /\ pk.state = pkt[p].state
  <1> DEFINE s == Stamp(pkt[p], ver, next)
             pk == PrepareMac(s, conf.kind[p])
  <1>1. PacketTyped(pkt[p])
    BY DEF Inv1, Typed
  <1>2. /\ s.ver = ver /\ s.token = TokenOf(p, ver, next) /\ s.ma = pkt[p].ma
        /\ s.eap = pkt[p].eap /\ s.state = pkt[p].state
        /\ s \in [ver: RadiusVersion, token: Tokens \union {None}, ma: BOOLEAN,
                  eap: {s.eap}, state: {s.state}]
    BY <1>1 DEF PacketTyped, Stamp, TokenOf
  <1> HIDE DEF s
  <1>3. /\ pk.ver = s.ver /\ pk.token = s.token /\ pk.eap = s.eap /\ pk.state = s.state
        /\ pk.ma \in BOOLEAN
    <2>1. pk = [s EXCEPT !.ma = @ \/ (s.ver = V1_0 /\ (conf.kind[p] = "status" \/ s.eap # NoEap))]
      BY DEF PrepareMac
    <2> QED
      BY <1>2, <2>1, Zenon
  <1>4. PacketTyped(pk)
    <2>1. pk = [s EXCEPT !.ma = pk.ma]
      BY <1>2 DEF PrepareMac
    <2> HIDE DEF pk
    <2> QED
      BY <1>2, <1>3, <2>1 DEF PacketTyped
  <1> QED
    BY <1>2, <1>3, <1>4 DEF s

\* The request of a packet as it goes out.
Carries(p, m) ==
    /\ m.from = p /\ m.round = round[p] /\ m.kind = conf.kind[p]
    /\ m.eap = pkt[p].eap /\ m.state = pkt[p].state

\* What a write does.
Written(p, c, cs, ver, next, n) ==
    /\ DOMAIN pkt' = Sender /\ \A q \in Sender : PacketTyped(pkt'[q])
    /\ \A q \in Sender : q # p => pkt'[q] = pkt[q]
    /\ pkt'[p].ver = ver /\ pkt'[p].token = TokenOf(p, ver, next)
    /\ pkt'[p].eap = pkt[p].eap /\ pkt'[p].state = pkt[p].state
    /\ cli' \in Clients /\ cli'.conn = IF conf.reuse THEN c ELSE NoConn
    /\ cli'.ver = ver
    /\ cli'.next = IF ver = V1_1 /\ pkt[p].token = None THEN NextToken(next) ELSE next
    /\ pc' = [pc EXCEPT ![p] = "header"]
    /\ at' = [at EXCEPT ![p] = at'[p]] /\ AttemptTyped(at'[p])
    /\ at'[p].n = n /\ at'[p].conn = c
    /\ GoodConns(conns')
    /\ \A d \in Slots : d # c => conns'[d] = cs[d]
    /\ conns'[c].ver = cs[c].ver /\ conns'[c].sver = cs[c].sver
    /\ conns'[c].tls = cs[c].tls /\ conns'[c].up = cs[c].up
    /\ conns'[c].srv = cs[c].srv /\ conns'[c].out = cs[c].out
    /\ conns'[c].sent = cs[c].sent \union {[from |-> p, ver |-> ver,
                                            token |-> TokenOf(p, ver, next)]}
    /\ \/ cs[c].srv = "closed" /\ conns'[c].in = cs[c].in
       \/ \E m : Carries(p, m) /\ conns'[c].in = Append(cs[c].in, m)

LEMMA Writes ==
    ASSUME Inv1, NEW p \in Sender, NEW c \in Slots, NEW cs, GoodConns(cs),
           NEW ver \in RadiusVersion, NEW next \in Tokens \union {None}, NEW n \in 0..Attempts,
           Write(p, c, cs, ver, next, n)
    PROVE  Written(p, c, cs, ver, next, n)
  <1> DEFINE pk == PrepareMac(Stamp(pkt[p], ver, next), conf.kind[p])
             m == [from |-> p, round |-> round[p], ver |-> pk.ver, token |-> pk.token,
                   ma |-> pk.ma, kind |-> conf.kind[p], eap |-> pk.eap, state |-> pk.state]
             one == [from |-> p, ver |-> pk.ver, token |-> pk.token]
  <1>1. /\ PacketTyped(pk) /\ pk.ver = ver /\ pk.token = TokenOf(p, ver, next)
        /\ pk.eap = pkt[p].eap /\ pk.state = pkt[p].state
    BY Stamped
  <1>2. /\ DOMAIN pkt = Sender /\ \A q \in Sender : PacketTyped(pkt[q])
        /\ DOMAIN at = Sender /\ \A q \in Sender : AttemptTyped(at[q])
        /\ conf \in Config
    BY DEF Inv1, Typed
  <1>3. /\ pkt' = [pkt EXCEPT ![p] = pk]
        /\ conns' = [cs EXCEPT ![c].in = IF cs[c].srv = "closed" THEN @ ELSE Append(@, m),
                               ![c].sent = @ \union {one}]
        /\ cli' = [conn |-> IF conf.reuse THEN c ELSE NoConn, ver |-> ver,
                   next |-> IF ver = V1_1 /\ pkt[p].token = None THEN NextToken(next) ELSE next]
        /\ at' = [at EXCEPT ![p].n = n, ![p].conn = c]
        /\ pc' = [pc EXCEPT ![p] = "header"]
    BY Zenon DEF Write
  <1>4. Carries(p, m)
    <2> HIDE DEF pk
    <2> QED
      BY <1>1 DEF Carries
  <1>5. one = [from |-> p, ver |-> ver, token |-> TokenOf(p, ver, next)]
    BY <1>1
  <1>6. one \in Sent
    <2>1. pk.ver \in RadiusVersion /\ pk.token \in Tokens \union {None}
      BY <1>1 DEF PacketTyped
    <2> HIDE DEF pk
    <2> QED
      BY <2>1 DEF Sent
  <1> HIDE DEF pk, m, one
  <1>7. /\ DOMAIN pkt' = Sender /\ \A q \in Sender : PacketTyped(pkt'[q])
        /\ \A q \in Sender : q # p => pkt'[q] = pkt[q]
        /\ pkt'[p].ver = ver /\ pkt'[p].token = TokenOf(p, ver, next)
        /\ pkt'[p].eap = pkt[p].eap /\ pkt'[p].state = pkt[p].state
    BY <1>1, <1>2, <1>3
  <1>8. NextToken(next) \in Tokens
    BY TokenSpaceAssumption DEF NextToken, Tokens, None
  <1>9. /\ cli' \in Clients /\ cli'.conn = IF conf.reuse THEN c ELSE NoConn
        /\ cli'.ver = ver
        /\ cli'.next = IF ver = V1_1 /\ pkt[p].token = None THEN NextToken(next) ELSE next
    BY <1>3, <1>8 DEF Clients
  <1>10. /\ at' = [at EXCEPT ![p] = at'[p]] /\ AttemptTyped(at'[p])
         /\ at'[p].n = n /\ at'[p].conn = c
    <2>1. at'[p] = [at[p] EXCEPT !.n = n, !.conn = c]
          /\ at[p] \in [n: 0..Attempts, conn: Slots \union {NoConn}, got: {at[p].got}]
      BY <1>2, <1>3 DEF AttemptTyped
    <2>2. at' = [at EXCEPT ![p] = at'[p]]
      BY <1>2, <1>3
    <2>3. at'[p].n = n /\ at'[p].conn = c /\ at'[p].got = at[p].got
      BY <2>1
    <2> QED
      BY <2>1, <2>2, <2>3 DEF AttemptTyped
  <1> DEFINE r == cs[c]
             w == conns'[c]
  <1>11. ConnTyped(r) /\ CodesKnown(r) /\ DOMAIN cs = Slots
    BY DEF GoodConns
  <1>12. w = [r EXCEPT !.in = IF r.srv = "closed" THEN @ ELSE Append(@, m),
                       !.sent = @ \union {one}]
    BY <1>3, <1>11
  <1>13. DOMAIN conns' = Slots /\ \A d \in Slots : d # c => conns'[d] = cs[d]
    BY <1>3, <1>11
  <1> HIDE DEF w, r
  <1>14. /\ w.ver = r.ver /\ w.sver = r.sver /\ w.tls = r.tls /\ w.up = r.up /\ w.srv = r.srv
         /\ w.out = r.out /\ w.done = r.done /\ w.sent = r.sent \union {one}
         /\ w.in = IF r.srv = "closed" THEN r.in ELSE Append(r.in, m)
    BY <1>11, <1>12 DEF ConnTyped
  <1>15. w \in [ver: RadiusVersion \union {None}, sver: RadiusVersion \union {None},
                tls: TlsVersion, up: Up, srv: {"serving", "closed"}, in: {w.in},
                out: {w.out}, done: Nat, sent: SUBSET Sent]
    BY <1>6, <1>11, <1>12, <1>14 DEF ConnTyped
  <1>16. w.in \in Seq({w.in[i] : i \in DOMAIN w.in})
    <2>1. r.in \in Seq({r.in[i] : i \in DOMAIN r.in})
      BY <1>11 DEF ConnTyped
    <2>2. CASE r.srv = "closed"
      BY <1>14, <2>1, <2>2
    <2>3. CASE r.srv # "closed"
      <3>1. PICK s, x : s = r.in /\ x = m
        OBVIOUS
      <3>2. s \in Seq({s[i] : i \in DOMAIN s})
        BY <2>1, <3>1
      <3>3. PICK t : t = Append(s, x)
        OBVIOUS
      <3>4. t \in Seq({t[i] : i \in DOMAIN t})
        BY <3>2, <3>3, AppendFacts, SMTT(30)
      <3> QED
        BY <1>14, <2>3, <3>1, <3>3, <3>4
    <2> QED
      BY <2>2, <2>3
  <1>17. ConnTyped(w) /\ CodesKnown(w)
    <2>1. w.out \in Seq({w.out[i] : i \in DOMAIN w.out})
      BY <1>11, <1>14 DEF ConnTyped
    <2>2. ConnTyped(w)
      BY <1>15, <1>16, <2>1 DEF ConnTyped
    <2> QED
      BY <1>11, <1>14, <2>2 DEF CodesKnown
  <1>18. GoodConns(conns')
    BY <1>13, <1>17 DEF GoodConns, w
  <1>19. \/ cs[c].srv = "closed" /\ conns'[c].in = cs[c].in
         \/ \E x : Carries(p, x) /\ conns'[c].in = Append(cs[c].in, x)
    BY <1>4, <1>14 DEF w, r
  <1> QED
    BY <1>3, <1>5, <1>7, <1>9, <1>10, <1>13, <1>14, <1>18, <1>19 DEF Written, w, r

-----------------------------------------------------------------------------
(* The server's turn. *)

\* A handler answers with one of the codes, or raises.
LEMMA AnswerCodes ==
    ASSUME NEW msg, conf \in Config
    PROVE  PacketReceived(msg).code \in ReplyCode \union {"raised"}
  <1>1. conf.backend \in {"md5", "gtc", "mschapv2"}
    BY DEF Config, Method
  <1>2. \A code, eap, state, ss : EapAnswer(code, eap, state, ss).code = code
    BY DEF EapAnswer
  <1>3. \A ss : RejectWith(ss).code = "reject"
    BY <1>2, Zenon DEF RejectWith
  <1>4. ASSUME NEW right, NEW state, NEW ss
        PROVE  Decide(right, state, ss).code \in {"accept", "reject"}
    <2>1. \/ \E t : Decide(right, state, ss) = EapAnswer("accept", NoEap, Nothing, t)
          \/ \E t : Decide(right, state, ss) = RejectWith(t)
      BY Zenon DEF Decide
    <2> QED
      BY <1>2, <1>3, <2>1
  <1>5. \A eap, m, n, ss : Challenge(eap, m, n, ss).code = "challenge"
    BY <1>2, Zenon DEF Challenge
  <1>6. ASSUME NEW m, NEW state, NEW n, NEW ss
        PROVE  Md5Serve(m, state, n, ss).code \in {"accept", "reject", "challenge"}
    <2>1. \/ Md5Serve(m, state, n, ss) = SendMd5Challenge(m, n, ss)
          \/ Md5Serve(m, state, n, ss) = VerifyMd5Response(m, state, ss)
          \/ Md5Serve(m, state, n, ss) = RejectWith(ss)
      BY Zenon DEF Md5Serve
    <2>2. SendMd5Challenge(m, n, ss).code = "challenge"
      BY <1>5, Zenon DEF SendMd5Challenge
    <2>3. VerifyMd5Response(m, state, ss).code \in {"accept", "reject"}
      BY <1>4, Zenon DEF VerifyMd5Response
    <2> QED
      BY <1>3, <2>1, <2>2, <2>3
  <1>7. ASSUME NEW m, NEW state, NEW n, NEW ss
        PROVE  GtcServe(m, state, n, ss).code \in {"accept", "reject", "challenge"}
    <2>1. \/ GtcServe(m, state, n, ss) = SendGtcPrompt(m, n, ss)
          \/ GtcServe(m, state, n, ss) = VerifyGtcResponse(m, state, ss)
          \/ GtcServe(m, state, n, ss) = RejectWith(ss)
      BY Zenon DEF GtcServe
    <2>2. SendGtcPrompt(m, n, ss).code = "challenge"
      BY <1>5, Zenon DEF SendGtcPrompt
    <2>3. VerifyGtcResponse(m, state, ss).code \in {"accept", "reject"}
      BY <1>4, Zenon DEF VerifyGtcResponse
    <2> QED
      BY <1>3, <2>1, <2>2, <2>3
  <1>8. ASSUME NEW m, NEW state, NEW ss
        PROVE  VerifyNtResponse(m, state, ss).code \in {"reject", "challenge"}
    <2>1. \/ \E t : VerifyNtResponse(m, state, ss) = RejectWith(t)
          \/ \E eap : VerifyNtResponse(m, state, ss) = EapAnswer("challenge", eap, state, ss)
      BY Zenon DEF VerifyNtResponse
    <2> QED
      BY <1>2, <1>3, <2>1
  <1>9. ASSUME NEW m, NEW state, NEW n, NEW ss
        PROVE  MschapV2Serve(m, state, n, ss).code \in {"accept", "reject", "challenge"}
    <2>1. \/ MschapV2Serve(m, state, n, ss) = SendMschapChallenge(m, n, ss)
          \/ MschapV2Serve(m, state, n, ss) = VerifyNtResponse(m, state, ss)
          \/ MschapV2Serve(m, state, n, ss) = SendAccessAccept(state, ss)
          \/ MschapV2Serve(m, state, n, ss) = RejectWith(ss)
      BY Zenon DEF MschapV2Serve
    <2>2. SendMschapChallenge(m, n, ss).code = "challenge"
      BY <1>5, Zenon DEF SendMschapChallenge
    <2>3. SendAccessAccept(state, ss).code = "accept"
      BY <1>2, Zenon DEF SendAccessAccept
    <2> QED
      BY <1>3, <1>8, <2>1, <2>2, <2>3
  <1>10. ASSUME NEW m, NEW state, NEW n, NEW ss
         PROVE  EapServe(conf.backend, m, state, n, ss).code
                   \in {"accept", "reject", "challenge", "raised"}
    <2>1. \/ EapServe(conf.backend, m, state, n, ss) = EapAnswer("raised", NoEap, Nothing, ss)
          \/ EapServe(conf.backend, m, state, n, ss) = Md5Serve(m, state, n, ss)
          \/ EapServe(conf.backend, m, state, n, ss) = GtcServe(m, state, n, ss)
          \/ EapServe(conf.backend, m, state, n, ss) = MschapV2Serve(m, state, n, ss)
      BY <1>1, Zenon DEF EapServe
    <2> QED
      BY <1>2, <1>6, <1>7, <1>9, <2>1
  <1>11. PacketReceived(msg).code
            \in {"accept", "reject", "challenge", "raised", "accounting", "nak"}
    <2>1. \/ PacketReceived(msg) = EapAnswer("raised", NoEap, None, sessions)
          \/ PacketReceived(msg) = EapAnswer("accept", NoEap, None, sessions)
          \/ PacketReceived(msg) = EapAnswer("accounting", NoEap, None, sessions)
          \/ PacketReceived(msg) = EapAnswer("nak", NoEap, None, sessions)
          \/ PacketReceived(msg) = EapServe(conf.backend, msg.eap, msg.state, fresh, sessions)
      BY Zenon DEF PacketReceived
    <2> QED
      BY <1>2, <1>10, <2>1
  <1> QED
    BY <1>11 DEF ReplyCode

Answered(r, reply) ==
    [r EXCEPT !.in = Tail(@), !.done = @ + 1,
              !.out = IF r.up = "open" THEN Framed(@, reply) ELSE @]

\* A request is taken off the stream and its reply put on the other.
LEMMA AnsweredRecord ==
    ASSUME NEW r, ConnTyped(r), CodesKnown(r), r.in # <<>>, NEW reply, reply.code \in ReplyCode,
           NEW x, x = Answered(r, reply)
    PROVE  /\ Evolves(r, x)
           /\ x.ver = r.ver /\ x.up = r.up /\ x.srv = r.srv /\ x.in = Tail(r.in)
           /\ x.out = IF r.up = "open" THEN Framed(r.out, reply) ELSE r.out
  <1> DEFINE t == Framed(r.out, reply)
             o == IF r.up = "open" THEN t ELSE r.out
  <1>1. r.in \in Seq({r.in[i] : i \in DOMAIN r.in}) /\ r.out \in Seq({r.out[i] : i \in DOMAIN r.out})
    BY DEF ConnTyped
  <1>2. Tail(r.in) \in Seq({Tail(r.in)[i] : i \in DOMAIN Tail(r.in)})
    BY <1>1, TailFacts, ZenonT(30)
  <1>3. /\ t \in Seq({t[i] : i \in DOMAIN t}) /\ Len(r.out) \in Nat
        /\ DOMAIN r.out = 1..Len(r.out) /\ DOMAIN t = 1..(Len(r.out) + 2)
        /\ \A i \in 1..Len(r.out) : t[i] = r.out[i]
        /\ t[Len(r.out) + 1] = [part |-> "header", reply |-> reply]
        /\ t[Len(r.out) + 2] = [part |-> "body", reply |-> reply]
    <2>1. IsFramed(r.out, reply, t)
      BY <1>1, FrameFacts
    <2> HIDE DEF t
    <2> QED
      BY <2>1 DEF IsFramed
  <1>4. x = [r EXCEPT !.in = Tail(@), !.done = @ + 1, !.out = o]
    BY DEF Answered, ConnTyped
  <1> HIDE DEF t
  <1>5. \A i \in DOMAIN t : t[i].reply.code \in ReplyCode
    <2>1. ASSUME NEW i \in DOMAIN t PROVE t[i].reply.code \in ReplyCode
      <3>1. CASE i \in 1..Len(r.out)
        BY <1>3, <3>1 DEF CodesKnown
      <3>2. CASE i = Len(r.out) + 1
        <4>1. t[i] = [part |-> "header", reply |-> reply]
          BY <1>3, <3>2
        <4>2. t[i].reply = reply
          BY <4>1
        <4> QED
          BY <4>2
      <3>3. CASE i = Len(r.out) + 2
        <4>1. t[i] = [part |-> "body", reply |-> reply]
          BY <1>3, <3>3
        <4>2. t[i].reply = reply
          BY <4>1
        <4> QED
          BY <4>2
      <3> QED
        <4>1. \A n \in Nat : \A j \in 1..(n + 2) : j \in 1..n \/ j = n + 1 \/ j = n + 2
          OBVIOUS
        <4> QED
          BY <1>3, <2>1, <3>1, <3>2, <3>3, <4>1
    <2> QED
      BY <2>1
  <1>6. o \in Seq({o[i] : i \in DOMAIN o}) /\ \A i \in DOMAIN o : o[i].reply.code \in ReplyCode
    BY <1>1, <1>3, <1>5, Zenon DEF CodesKnown
  <1> HIDE DEF o
  <1>7. /\ x.ver = r.ver /\ x.sver = r.sver /\ x.tls = r.tls /\ x.up = r.up /\ x.srv = r.srv
        /\ x.in = Tail(r.in) /\ x.out = o /\ x.done = r.done + 1 /\ x.sent = r.sent
    BY <1>4 DEF ConnTyped
  <1>8. x \in [ver: RadiusVersion \union {None}, sver: RadiusVersion \union {None},
               tls: TlsVersion, up: Up, srv: {"serving", "closed"}, in: {x.in},
               out: {x.out}, done: Nat, sent: SUBSET Sent]
    <2> DEFINE e == Tail(r.in)
    <2>1. x = [r EXCEPT !.in = e, !.done = r.done + 1, !.out = o]
      BY <1>4
    <2> HIDE DEF e
    <2>2. x.in = e /\ x.out = o
      BY <2>1 DEF ConnTyped
    <2>3. r.done \in Nat
      BY DEF ConnTyped
    <2>4. r.done + 1 \in Nat
      BY <2>3
    <2> QED
      BY <2>1, <2>2, <2>4 DEF ConnTyped
  <1>9. x.in \in Seq({x.in[i] : i \in DOMAIN x.in}) /\ x.out \in Seq({x.out[i] : i \in DOMAIN x.out})
    BY <1>2, <1>6, <1>7
  <1>10. ConnTyped(x)
    BY <1>8, <1>9 DEF ConnTyped
  <1>11. CodesKnown(x)
    BY <1>6, <1>7 DEF CodesKnown
  <1> QED
    BY <1>7, <1>10, <1>11 DEF Evolves, o, t

-----------------------------------------------------------------------------
(* Every step keeps the first part of the invariant. *)

\* A send joins the queue: at its start, or again for the next EAP round.
LEMMA Queues ==
    ASSUME Inv1, NEW p \in Sender, NEW s \in Seq(Sender), Single(s), ~In(s, p),
           \A q \in Sender : q # p => (In(s, q) <=> In(queue, q)),
           \A q \in Sender : q # p /\ Holds(q) => First(s, q),
           queue' = Append(s, p), pc' = [pc EXCEPT ![p] = "lock"],
           DOMAIN at' = Sender, \A q \in Sender : q # p => at'[q] = at[q],
           AttemptTyped(at'[p]), at'[p].n = 0, at'[p].conn = NoConn,
           result[p].code = NONE, GoodConns(conns'),
           DOMAIN pkt' = Sender, \A q \in Sender : PacketTyped(pkt'[q]),
           round' \in [Sender -> Nat], lastError' \in Errors,
           UNCHANGED <<conf, srv, cli, result, used>>
    PROVE  Inv1'
  <1> USE DEF Inv1
  <1>1. /\ queue' \in Seq(Sender) /\ Single(queue')
        /\ \A q \in Sender : In(queue', q) <=> In(s, q) \/ q = p
        /\ \A q \in Sender : First(s, q) => First(queue', q)
    BY QueueJoined, Zenon
  <1>2. /\ pc'[p] = "lock" /\ \A q \in Sender : q # p => pc'[q] = pc[q]
        /\ pc' \in [Sender -> PC]
    BY DEF Typed, PC, Active
  <1>3. \A q \in Sender : AttemptTyped(at'[q])
    BY DEF Typed
  <1>4. Typed'
    BY <1>1, <1>2, <1>3 DEF Typed, Errors, Budget
  <1>5. HeaderKnown' /\ Finished' /\ NotKept'
    BY <1>2 DEF HeaderKnown, Finished, NotKept
  <1>6. LockKept'
    <2>1. ASSUME NEW q \in Sender PROVE pc'[q] \in Active <=> In(queue', q)
      BY <1>1, <1>2 DEF LockKept, Active
    <2>2. ASSUME NEW q \in Sender, pc'[q] \in Active \ {"lock"} PROVE Holds(q)'
      <3>1. q # p /\ Holds(q)
        BY <1>2, <2>2 DEF LockKept
      <3> QED
        BY <1>1, <3>1 DEF Holds, First
    <2> QED
      BY <1>1, <2>1, <2>2 DEF LockKept
  <1>7. AttemptKept'
    <2> SUFFICES ASSUME NEW q \in Sender PROVE OneAttempt(q)'
      BY DEF AttemptKept
    <2>1. CASE q = p
      BY <1>2, <2>1 DEF OneAttempt, Waits
    <2>2. CASE q # p
      BY <1>2, <2>2 DEF AttemptKept, OneAttempt, Waits
    <2> QED
      BY <2>1, <2>2
  <1> QED
    BY <1>4, <1>5, <1>6, <1>7

LEMMA EapStored ==
    ASSUME NEW pk, PacketTyped(pk), NEW m, NEW st
    PROVE  PacketTyped([pk EXCEPT !.eap = m]) /\ PacketTyped([pk EXCEPT !.eap = m, !.state = st])
  BY DEF PacketTyped

LEMMA StartKeeps ==
    ASSUME Inv1, NEW p \in Sender, Start(p)
    PROVE  Inv1'
  <1>1. pc[p] = "idle" /\ UNCHANGED <<conf, srv, conns, cli, used>>
    BY DEF Start
  <1>2. /\ queue \in Seq(Sender) /\ Single(queue) /\ ~In(queue, p)
        /\ at[p].n = 0 /\ at[p].conn = NoConn /\ result[p].code = NONE
        /\ DOMAIN pkt = Sender /\ DOMAIN at = Sender /\ GoodConns(conns)
        /\ \A q \in Sender : PacketTyped(pkt[q]) /\ AttemptTyped(at[q])
    BY <1>1 DEF Inv1, Typed, LockKept, AttemptKept, OneAttempt, Waits, Finished, Active
  <1> DEFINE method == GetMethod(conf.kind[p])
             m == IF method = "none" THEN NoEap ELSE EapStart(method, 0, conf.password)
  <1>3. CASE m = Raised
    <2>1. Finish(p, Outcome("raised")) /\ UNCHANGED <<pkt, queue, lastError, round>>
      BY <1>3 DEF Start
    <2>2. Outcome("raised").code # NONE
      BY DEF Outcome, NONE
    <2>3. /\ pc'[p] = "done" /\ at'[p] = NoAttempt /\ result'[p] = Outcome("raised")
          /\ \A q \in Sender : q # p => pc'[q] = pc[q] /\ at'[q] = at[q] /\ result'[q] = result[q]
          /\ DOMAIN at' = Sender /\ DOMAIN result' = Sender /\ pc' \in [Sender -> PC]
      BY <2>1 DEF Finish, Inv1, Typed, PC
    <2>4. \A q \in Sender : AttemptTyped(at'[q])
      BY <1>2, <2>3, NoClientTyped
    <2>5. Typed'
      BY <1>1, <2>1, <2>3, <2>4 DEF Inv1, Typed
    <2>6. HeaderKnown' /\ Finished' /\ NotKept'
      BY <1>1, <2>2, <2>3 DEF Inv1, HeaderKnown, Finished, NotKept
    <2>7. LockKept'
      BY <1>1, <2>1, <2>3 DEF Inv1, LockKept, Active, Holds
    <2>8. AttemptKept'
      <3> SUFFICES ASSUME NEW q \in Sender PROVE OneAttempt(q)'
        BY DEF AttemptKept
      <3>1. CASE q = p
        BY <2>3, <3>1, NoClientTyped DEF OneAttempt, Waits
      <3>2. CASE q # p
        BY <1>1, <2>3, <3>2 DEF Inv1, AttemptKept, OneAttempt, Waits
      <3> QED
        BY <3>1, <3>2
    <2> QED
      BY <2>5, <2>6, <2>7, <2>8 DEF Inv1
  <1>4. CASE m # Raised
    <2>1. /\ pkt' = [pkt EXCEPT ![p].eap = m] /\ queue' = Append(queue, p)
          /\ pc' = [pc EXCEPT ![p] = "lock"] /\ lastError' = NONE
          /\ round' = [round EXCEPT ![p] = 1] /\ UNCHANGED <<at, result>>
      BY <1>4, Zenon DEF Start
    <2> HIDE DEF m
    <2>2. DOMAIN pkt' = Sender /\ \A q \in Sender : PacketTyped(pkt'[q])
      <3>1. pkt'[p] = [pkt[p] EXCEPT !.eap = m] /\ \A q \in Sender : q # p => pkt'[q] = pkt[q]
        BY <1>2, <2>1
      <3>2. PacketTyped(pkt'[p])
        <4>1. PacketTyped([pkt[p] EXCEPT !.eap = m])
          BY <1>2, EapStored, Zenon
        <4> QED
          BY <3>1, <4>1, Zenon
      <3> QED
        BY <1>2, <2>1, <3>1, <3>2
    <2>3. round' \in [Sender -> Nat] /\ lastError' \in Errors
      BY <2>1 DEF Inv1, Typed, Errors
    <2>4. \A q \in Sender : q # p /\ Holds(q) => First(queue, q)
      BY DEF Holds, First
    <2>5. DOMAIN at' = Sender /\ (\A q \in Sender : q # p => at'[q] = at[q])
          /\ AttemptTyped(at'[p]) /\ at'[p].n = 0 /\ at'[p].conn = NoConn
          /\ GoodConns(conns') /\ UNCHANGED <<conf, srv, cli, result, used>>
      BY <1>1, <1>2, <2>1
    <2> QED
      BY <1>2, <2>1, <2>2, <2>3, <2>4, <2>5, Queues, Zenon
  <1> QED
    BY <1>3, <1>4

\* The loop over the attempts: one more, or the end of the send.
LEMMA AttemptFailsKeeps ==
    ASSUME Inv1, NEW p \in Sender, pc[p] \in Active \ {"lock"} \/ Begins(p),
           NEW n \in 0..Attempts, AttemptFails(p, n),
           GoodConns(conns'), UNCHANGED <<conf, srv, pkt, round, used>>
    PROVE  Inv1'
  <1>1. Holds(p) /\ pc[p] \in Active
    BY DEF Begins, Active, Inv1, LockKept
  <1>2. lastError' \in Errors /\ cli' = NoClient
    BY DEF AttemptFails, Report, Errors
  <1>3. CASE Exhausted(n)
    <2>1. Release(p) /\ Finish(p, Outcome("noreply"))
      BY <1>3 DEF AttemptFails
    <2>2. Outcome("noreply").code # NONE
      BY DEF Outcome, NONE
    <2>3. used' \in Budget
      BY DEF Inv1, Typed, Budget
    <2> QED
      BY <1>1, <1>2, <2>1, <2>2, <2>3, Ends
  <1>4. CASE ~Exhausted(n)
    <2>1. /\ pc' = [pc EXCEPT ![p] = "backoff"]
          /\ at' = [at EXCEPT ![p] = Counted(n)]
          /\ UNCHANGED <<queue, result>>
      BY <1>4 DEF AttemptFails
    <2>2. n \in 0..Attempts /\ n < Attempts
      BY <1>4, RadSecAssumption DEF Exhausted
    <2>3. AttemptTyped(Counted(n)) /\ Counted(n).n = n /\ Counted(n).conn = NoConn
      BY <2>2 DEF AttemptTyped, Counted, NoAttempt
    <2>4. pc'[p] = "backoff" /\ at'[p] = Counted(n)
      BY <2>1 DEF Inv1, Typed
    <2>5. OneAttempt(p)'
      BY <2>2, <2>3, <2>4 DEF OneAttempt, Waits
    <2>6. cli' \in Clients /\ NotKept'
      BY <1>2, NoClientTyped DEF NotKept
    <2>7. DOMAIN pkt' = Sender /\ \A q \in Sender : PacketTyped(pkt'[q])
      BY DEF Inv1, Typed
    <2>8. "backoff" \in Active \ {"lock"}
      BY DEF Active
    <2> QED
      BY <1>1, <1>2, <2>1, <2>3, <2>5, <2>6, <2>7, <2>8, Goes
  <1> QED
    BY <1>3, <1>4

\* What a sender knows of its attempt.
LEMMA AttemptFacts ==
    ASSUME Inv1, NEW p \in Sender
    PROVE  /\ at[p].conn \in Slots \union {NoConn} /\ cli.conn \in Slots \union {NoConn}
           /\ at[p].n \in 0..Attempts
           /\ Begins(p) => at[p].n + 1 \in 0..Attempts
           /\ Waits(p) => at[p].conn \in Slots /\ Holds(p) /\ pc[p] \in Active \ {"lock"}
           /\ GoodConns(conns) /\ used \in Budget /\ lastError \in Errors
           /\ pc[p] \in PC
  <1>1. AttemptTyped(at[p]) /\ OneAttempt(p) /\ cli \in Clients
    BY DEF Inv1, Typed, AttemptKept, Clients
  <1>2. at[p].conn \in Slots \union {NoConn} /\ at[p].n \in 0..Attempts
        /\ cli.conn \in Slots \union {NoConn}
    BY <1>1 DEF AttemptTyped, Clients
  <1>3. Attempts \in Nat \ {0}
    BY RadSecAssumption
  <1>4. Begins(p) => at[p].n + 1 \in 0..Attempts
    BY <1>1, <1>2, <1>3 DEF Begins, OneAttempt
  <1>5. Waits(p) => at[p].conn \in Slots /\ Holds(p) /\ pc[p] \in Active \ {"lock"}
    BY <1>1, <1>2 DEF OneAttempt, Waits, Inv1, LockKept, Active
  <1> QED
    BY <1>2, <1>3, <1>4, <1>5 DEF Inv1, Typed, Budget, Errors

LEMMA ReuseKeeps ==
    ASSUME Inv1, NEW p \in Sender, ReuseConnection(p)
    PROVE  Inv1'
  <1>1. /\ Begins(p) /\ cli.conn # NoConn /\ conf.reuse
        /\ Write(p, cli.conn, conns, cli.ver, cli.next, at[p].n + 1)
        /\ UNCHANGED <<conf, srv, queue, result, lastError, round, used>>
    BY DEF ReuseConnection, Reusable
  <1>2. /\ cli.conn \in Slots /\ GoodConns(conns) /\ cli.ver \in RadiusVersion
        /\ cli.next \in Tokens \union {None} /\ at[p].n + 1 \in 0..Attempts
    BY <1>1, AttemptFacts DEF Inv1, Typed
  <1>3. /\ DOMAIN pkt' = Sender /\ \A q \in Sender : PacketTyped(pkt'[q])
        /\ cli' \in Clients /\ cli'.conn = IF conf.reuse THEN cli.conn ELSE NoConn
        /\ pc' = [pc EXCEPT ![p] = "header"]
        /\ at' = [at EXCEPT ![p] = at'[p]] /\ AttemptTyped(at'[p])
        /\ at'[p].n = at[p].n + 1 /\ at'[p].conn = cli.conn
        /\ GoodConns(conns')
    <2>1. Written(p, cli.conn, conns, cli.ver, cli.next, at[p].n + 1)
      BY <1>1, <1>2, Writes, Zenon
    <2> QED
      BY <2>1 DEF Written
  <1>4. pc'[p] = "header" /\ "header" \in Active \ {"lock"}
    BY <1>3 DEF Inv1, Typed, Active
  <1>5. OneAttempt(p)' /\ NotKept'
    BY <1>1, <1>3, <1>4 DEF OneAttempt, Waits, NotKept
  <1>6. Holds(p) /\ pc[p] \in Active /\ lastError' \in Errors
    BY <1>1, AttemptFacts DEF Begins, Active
  <1> QED
    BY <1>1, <1>3, <1>4, <1>5, <1>6, Goes

LEMMA DropStaleKeeps ==
    ASSUME Inv1, NEW p \in Sender, DropStale(p)
    PROVE  Inv1'
  <1>1. /\ Begins(p) /\ conns' = ClosedAt(conns, cli.conn) /\ AttemptFails(p, at[p].n + 1)
        /\ UNCHANGED <<conf, srv, pkt, round, used>>
    BY DEF DropStale
  <1>2. GoodConns(conns') /\ at[p].n + 1 \in 0..Attempts
    BY <1>1, AttemptFacts, ClosedChanges, ChangesKeep
  <1> QED
    BY <1>1, <1>2, AttemptFailsKeeps

LEMMA OpenKeeps ==
    ASSUME Inv1, NEW p \in Sender, OpenConnection(p)
    PROVE  Inv1'
  <1> DEFINE a == [NoAttempt EXCEPT !.n = at[p].n + 1]
  <1>1. /\ Begins(p) /\ conns' = ClosedAt(conns, cli.conn)
        /\ cli' = IF conf.reuse THEN NoClient ELSE cli
        /\ pc' = [pc EXCEPT ![p] = "connect"] /\ at' = [at EXCEPT ![p] = a]
        /\ UNCHANGED <<conf, srv, queue, pkt, result, lastError, round, used>>
    BY DEF OpenConnection
  <1>2. GoodConns(conns') /\ at[p].n + 1 \in 0..Attempts /\ Attempts \in Nat
    BY <1>1, AttemptFacts, ClosedChanges, ChangesKeep, RadSecAssumption
  <1>3. AttemptTyped(a) /\ a.conn = NoConn
    BY <1>2 DEF AttemptTyped, NoAttempt
  <1> HIDE DEF a
  <1>4. cli' \in Clients /\ cli'.conn = NoConn
    BY <1>1, NoClientTyped DEF Inv1, NotKept, Typed, Clients
  <1>5. pc'[p] = "connect" /\ at'[p] = a /\ "connect" \in Active \ {"lock"}
    BY <1>1 DEF Inv1, Typed, Active
  <1>6. OneAttempt(p)' /\ NotKept'
    BY <1>3, <1>4, <1>5 DEF OneAttempt, Waits, NotKept
  <1>7. Holds(p) /\ pc[p] \in Active /\ lastError' \in Errors
    BY <1>1, AttemptFacts DEF Begins, Active
  <1>8. DOMAIN pkt' = Sender /\ \A q \in Sender : PacketTyped(pkt'[q])
    BY <1>1 DEF Inv1, Typed
  <1> QED
    BY <1>1, <1>2, <1>3, <1>4, <1>5, <1>6, <1>7, <1>8, Goes

\* The version that a handshake settles, at either end.
LEMMA NegotiatedTyped ==
    ASSUME NEW v \in SUBSET RadiusVersion, NEW w \in SUBSET RadiusVersion
    PROVE  /\ SelectedAlpn(v, w) \in (Advertised(v) \intersect Advertised(w)) \union {None}
           /\ SelectedAlpn(v, w) = None <=> Advertised(v) \intersect Advertised(w) = {}
           /\ \A u \in SUBSET RadiusVersion :
                 /\ Negotiate(u, SelectedAlpn(v, w)) \in u \union {None}
                 /\ Negotiate(u, SelectedAlpn(v, w)) \in RadiusVersion \union {None}
  <1> DEFINE common == Advertised(v) \intersect Advertised(w)
  <1>1. common \subseteq {0, 1}
    BY DEF Advertised, RadiusVersion, V1_0, V1_1
  <1>2. ASSUME common # {} PROVE SelectedAlpn(v, w) \in common
    <2>1. \E x \in common : \A y \in common : x >= y
      <3>1. CASE 1 \in common
        BY <1>1, <3>1
      <3>2. CASE 1 \notin common
        BY <1>1, <1>2, <3>2
      <3> QED
        BY <3>1, <3>2
    <2>2. (CHOOSE x \in common : \A y \in common : x >= y) \in common
      BY <2>1, Zenon
    <2>3. SelectedAlpn(v, w) = CHOOSE x \in common : \A y \in common : x >= y
      BY <1>2, Zenon DEF SelectedAlpn
    <2> QED
      BY <2>2, <2>3
  <1>3. common = {} => SelectedAlpn(v, w) = None
    BY DEF SelectedAlpn
  <1>4. None \notin common
    BY <1>1 DEF None
  <1> HIDE DEF common
  <1>5. SelectedAlpn(v, w) \in common \union {None} /\ (SelectedAlpn(v, w) = None <=> common = {})
    BY <1>2, <1>3, <1>4
  <1>6. ASSUME NEW u \in SUBSET RadiusVersion
        PROVE  Negotiate(u, SelectedAlpn(v, w)) \in u \union {None}
    BY DEF Negotiate
  <1> QED
    BY <1>5, <1>6 DEF common

LEMMA HandshakeTyped ==
    ASSUME Inv1
    PROVE  /\ ConnTyped(Handshake) /\ CodesKnown(Handshake)
           /\ Handshake.ver = Negotiate(conf.versions, Alpn)
           /\ Handshake.sver = Negotiate(srv.versions, Alpn)
           /\ Handshake.tls = srv.tls /\ Handshake.up = "open" /\ Handshake.sent = {}
           /\ Handshake.srv = IF Accepts THEN "serving" ELSE "closed"
           /\ Handshake.in = <<>> /\ Handshake.out = <<>>
           /\ Handshake.ver \in RadiusVersion \union {None}
  <1>1. /\ conf.versions \in SUBSET RadiusVersion /\ srv.versions \in SUBSET RadiusVersion
        /\ srv.tls \in TlsVersion
    BY DEF Inv1, Typed, Config
  <1>2. /\ Negotiate(conf.versions, Alpn) \in RadiusVersion \union {None}
        /\ Negotiate(srv.versions, Alpn) \in RadiusVersion \union {None}
    BY <1>1, NegotiatedTyped DEF Alpn
  <1> DEFINE cv == Negotiate(conf.versions, Alpn)
             sv == Negotiate(srv.versions, Alpn)
             st == IF Accepts THEN "serving" ELSE "closed"
  <1>3. Handshake = [Dead EXCEPT !.ver = cv, !.sver = sv, !.tls = srv.tls, !.up = "open", !.srv = st]
    BY DEF Handshake
  <1>4. st \in {"serving", "closed"}
    OBVIOUS
  <1> HIDE DEF cv, sv, st
  <1>5. /\ Handshake.ver = cv /\ Handshake.sver = sv /\ Handshake.tls = srv.tls
        /\ Handshake.up = "open" /\ Handshake.srv = st /\ Handshake.in = <<>>
        /\ Handshake.out = <<>> /\ Handshake.done = 0 /\ Handshake.sent = {}
        /\ Handshake = [ver |-> cv, sver |-> sv, tls |-> srv.tls, up |-> "open", srv |-> st,
                        in |-> <<>>, out |-> <<>>, done |-> 0, sent |-> {}]
    BY <1>3 DEF Dead
  <1> DEFINE h == Handshake
  <1>6. h \in [ver: RadiusVersion \union {None}, sver: RadiusVersion \union {None},
               tls: TlsVersion, up: Up, srv: {"serving", "closed"}, in: {h.in},
               out: {h.out}, done: Nat, sent: SUBSET Sent]
    BY <1>1, <1>2, <1>4, <1>5 DEF Up, cv, sv
  <1> HIDE DEF h
  <1>7. h.in = <<>> /\ h.out = <<>>
    BY <1>5 DEF h
  <1>8. h.in \in Seq({h.in[i] : i \in DOMAIN h.in}) /\ h.out \in Seq({h.out[i] : i \in DOMAIN h.out})
    BY <1>7, EmptySeq
  <1>9. ConnTyped(h) /\ CodesKnown(h)
    BY <1>6, <1>7, <1>8 DEF ConnTyped, CodesKnown
  <1> QED
    BY <1>2, <1>5, <1>9 DEF h, cv, sv, st

LEMMA ConnectedWrites ==
    ASSUME Inv1, NEW p \in Sender, NEW c \in Slots, NEW token \in FirstTokens,
           Connected(p, c, token)
    PROVE  LET cs == [conns EXCEPT ![c] = Handshake]
               next == IF Handshake.ver = V1_1 THEN token ELSE None
           IN  /\ GoodConns(cs) /\ cs[c] = Handshake /\ \A d \in Slots : d # c => cs[d] = conns[d]
               /\ conns[c] = Dead
               /\ Handshake.ver \in RadiusVersion /\ next \in Tokens \union {None}
               /\ Written(p, c, cs, Handshake.ver, next, at[p].n)
               /\ Holds(p) /\ pc[p] = "connect"
               /\ UNCHANGED <<conf, srv, queue, result, lastError, round, used>>
  <1> DEFINE cs == [conns EXCEPT ![c] = Handshake]
             next == IF Handshake.ver = V1_1 THEN token ELSE None
  <1>1. /\ pc[p] = "connect" /\ c \in FreeSlots /\ Handshake.ver # None
        /\ Write(p, c, cs, Handshake.ver, next, at[p].n)
        /\ UNCHANGED <<conf, srv, queue, result, lastError, round, used>>
    BY DEF Connected
  <1>2. DOMAIN conns = Slots /\ GoodConns(conns)
    BY DEF Inv1, Typed, GoodConns
  <1>3. cs[c] = Handshake /\ (\A d \in Slots : d # c => cs[d] = conns[d]) /\ DOMAIN cs = Slots
    BY <1>2
  <1> HIDE DEF cs
  <1>4. GoodConns(cs)
    BY <1>2, <1>3, HandshakeTyped DEF GoodConns
  <1>5. Handshake.ver \in RadiusVersion
    BY <1>1, HandshakeTyped
  <1>6. next \in Tokens \union {None}
    BY RadSecAssumption DEF FirstTokens, Tokens
  <1> HIDE DEF next
  <1>7. at[p].n \in 0..Attempts
    BY DEF Inv1, Typed, AttemptTyped
  <1>8. Written(p, c, cs, Handshake.ver, next, at[p].n)
    BY <1>1, <1>4, <1>5, <1>6, <1>7, Writes, Zenon
  <1>9. Holds(p) /\ conns[c] = Dead
    BY <1>1 DEF Inv1, LockKept, Active, FreeSlots
  <1> QED
    BY <1>1, <1>3, <1>4, <1>5, <1>6, <1>8, <1>9 DEF cs, next

LEMMA ConnectedKeeps ==
    ASSUME Inv1, NEW p \in Sender, NEW c \in Slots, NEW token \in FirstTokens,
           Connected(p, c, token)
    PROVE  Inv1'
  <1>1. PICK cs, next :
            /\ Written(p, c, cs, Handshake.ver, next, at[p].n)
            /\ Holds(p) /\ pc[p] = "connect"
            /\ UNCHANGED <<conf, srv, queue, result, lastError, round, used>>
    BY ConnectedWrites, Zenon
  <1>2. /\ DOMAIN pkt' = Sender /\ \A q \in Sender : PacketTyped(pkt'[q])
        /\ cli' \in Clients /\ cli'.conn = IF conf.reuse THEN c ELSE NoConn
        /\ pc' = [pc EXCEPT ![p] = "header"]
        /\ at' = [at EXCEPT ![p] = at'[p]] /\ AttemptTyped(at'[p])
        /\ at'[p].conn = c
        /\ GoodConns(conns')
    BY <1>1 DEF Written
  <1>3. pc'[p] = "header" /\ "header" \in Active \ {"lock"}
    BY <1>2 DEF Inv1, Typed, Active
  <1>4. OneAttempt(p)' /\ NotKept'
    BY <1>1, <1>2, <1>3, SlotFacts DEF OneAttempt, Waits, NotKept
  <1>5. Holds(p) /\ pc[p] \in Active /\ lastError' \in Errors
    BY <1>1, AttemptFacts DEF Active
  <1> QED
    BY <1>1, <1>2, <1>3, <1>4, <1>5, Goes

LEMMA ConnectRefusedKeeps ==
    ASSUME Inv1, NEW p \in Sender, ConnectRefused(p)
    PROVE  Inv1'
  <1>1. /\ pc[p] \in Active /\ cli' = NoClient /\ lastError' \in Errors
        /\ Release(p) /\ Finish(p, Outcome("noreply"))
        /\ UNCHANGED <<conf, srv, conns, pkt, round, used>>
    BY DEF ConnectRefused, Active, Report, Errors
  <1>2. Outcome("noreply").code # NONE
    BY DEF Outcome, NONE
  <1>3. GoodConns(conns') /\ used' \in Budget
    BY <1>1, AttemptFacts
  <1> QED
    BY <1>1, <1>2, <1>3, Ends

LEMMA ConnectErrorKeeps ==
    ASSUME Inv1, NEW p \in Sender, ConnectError(p)
    PROVE  Inv1'
  <1>1. /\ pc[p] \in Active \ {"lock"} /\ AttemptFails(p, at[p].n)
        /\ UNCHANGED <<conf, srv, conns, pkt, round, used>>
    BY DEF ConnectError, Active
  <1>2. GoodConns(conns') /\ at[p].n \in 0..Attempts
    BY <1>1, AttemptFacts
  <1> QED
    BY <1>1, <1>2, AttemptFailsKeeps

LEMMA TransportErrorKeeps ==
    ASSUME Inv1, NEW p \in Sender, TransportError(p)
    PROVE  Inv1'
  <1>1. /\ Waits(p) /\ conns' = ClosedAt(conns, at[p].conn)
        /\ UNCHANGED <<conf, srv, pkt, round, used>>
    BY DEF TransportError
  <1>2. /\ GoodConns(conns') /\ at[p].n \in 0..Attempts /\ used' \in Budget
        /\ pc[p] \in Active \ {"lock"}
    BY <1>1, AttemptFacts, ClosedChanges, ChangesKeep
  <1>3. CASE conf.reuse /\ CloseRaises(cli.conn)
    <2>1. /\ cli' = NoClient /\ lastError' \in Errors
          /\ Release(p) /\ Finish(p, Outcome("raised"))
      BY <1>3 DEF TransportError, Report, Errors
    <2>2. Outcome("raised").code # NONE
      BY DEF Outcome, NONE
    <2> QED
      BY <1>1, <1>2, <2>1, <2>2, Ends
  <1>4. CASE ~(conf.reuse /\ CloseRaises(cli.conn))
    <2>1. AttemptFails(p, at[p].n)
      BY <1>4 DEF TransportError
    <2> QED
      BY <1>1, <1>2, <2>1, AttemptFailsKeeps
  <1> QED
    BY <1>3, <1>4

LEMMA ReadHeaderKeeps ==
    ASSUME Inv1, NEW p \in Sender, ReadHeader(p)
    PROVE  Inv1'
  <1> DEFINE a == [at[p] EXCEPT !.got = NextUnit(p).reply]
  <1>1. /\ pc[p] = "header" /\ Arrived(p) /\ conns' = Consume(p)
        /\ at' = [at EXCEPT ![p].got = NextUnit(p).reply]
        /\ pc' = [pc EXCEPT ![p] = "body"]
        /\ UNCHANGED <<conf, srv, cli, queue, pkt, result, lastError, round, used>>
    BY DEF ReadHeader
  <1>2. at[p].conn \in Slots /\ Holds(p) /\ pc[p] \in Active /\ GoodConns(conns)
    BY <1>1, AttemptFacts DEF Waits
  <1>3. GoodConns(conns') /\ NextUnit(p).reply.code \in ReplyCode
    BY <1>1, <1>2, ConsumeChanges, ChangesKeep
  <1>4. at' = [at EXCEPT ![p] = a] /\ DOMAIN at = Sender /\ AttemptTyped(at[p])
    BY <1>1 DEF Inv1, Typed
  <1>5. AttemptTyped(a) /\ a.conn = at[p].conn /\ a.n = at[p].n /\ a.got = NextUnit(p).reply
    BY <1>4 DEF AttemptTyped
  <1> HIDE DEF a
  <1>6. pc'[p] = "body" /\ at'[p] = a /\ "body" \in Active \ {"lock"}
    BY <1>1, <1>4 DEF Inv1, Typed, Active
  <1>7. OneAttempt(p)' /\ NotKept'
    BY <1>1, <1>5, <1>6 DEF Inv1, AttemptKept, OneAttempt, Waits, NotKept
  <1>8. /\ DOMAIN pkt' = Sender /\ \A q \in Sender : PacketTyped(pkt'[q])
        /\ lastError' \in Errors /\ cli' \in Clients
    BY <1>1 DEF Inv1, Typed, Errors, Clients
  <1> QED
    BY <1>1, <1>2, <1>3, <1>4, <1>5, <1>6, <1>7, <1>8, Goes

LEMMA ReadTornFrameKeeps ==
    ASSUME Inv1, NEW p \in Sender, ReadTornFrame(p)
    PROVE  Inv1'
  <1>1. /\ pc[p] \in Active /\ Release(p) /\ UNCHANGED <<conf, srv, pkt, round, used>>
    BY DEF ReadTornFrame, Active
  <1>2. Outcome("noreply").code # NONE /\ Outcome("raised").code # NONE
    BY DEF Outcome, NONE
  <1>3. \/ Finish(p, Outcome("raised")) /\ conns' = Leave(p, conns) /\ UNCHANGED <<cli, lastError>>
        \/ /\ Finish(p, Outcome("noreply")) /\ conns' = ClosedAt(conns, at[p].conn)
           /\ cli' = NoClient /\ lastError' \in Errors
    BY DEF ReadTornFrame, Report, Errors
  <1>4. GoodConns(conns') /\ used' \in Budget /\ lastError \in Errors
    BY <1>1, <1>3, AttemptFacts, LeaveChanges, ClosedChanges, ChangesKeep
  <1> QED
    BY <1>1, <1>2, <1>3, <1>4, Ends

LEMMA CancelKeeps ==
    ASSUME Inv1, NEW p \in Sender, Cancel(p)
    PROVE  Inv1'
  <1>1. /\ pc[p] \in Active /\ Release(p) /\ Finish(p, Outcome("cancelled"))
        /\ conns' = Leave(p, conns)
        /\ used' = [used EXCEPT !.cancels = @ + 1]
        /\ UNCHANGED <<conf, srv, cli, pkt, lastError, round>>
    BY DEF Cancel, Active
  <1>2. Outcome("cancelled").code # NONE
    BY DEF Outcome, NONE
  <1>3. GoodConns(conns') /\ used' \in Budget /\ lastError' \in Errors
    BY <1>1, AttemptFacts, LeaveChanges, ChangesKeep DEF Budget
  <1> QED
    BY <1>1, <1>2, <1>3, Ends

LEMMA ReadBodyKeeps ==
    ASSUME Inv1, NEW p \in Sender, ReadBody(p)
    PROVE  Inv1'
  <1> DEFINE raw == at[p].got
             rest == Consume(p)
  <1>1. pc[p] = "body" /\ Arrived(p) /\ UNCHANGED <<conf, srv, used>>
    BY DEF ReadBody
  <1>2. /\ at[p].conn \in Slots /\ pc[p] \in Active /\ GoodConns(conns) /\ raw.code \in ReplyCode
        /\ used' \in Budget /\ lastError \in Errors
    BY <1>1, AttemptFacts DEF Waits, Inv1, HeaderKnown, Active
  <1>3. GoodConns(rest) /\ GoodConns(ClosedAt(rest, at[p].conn)) /\ GoodConns(Leave(p, rest))
    BY <1>1, <1>2, ConsumeChanges, ClosedChanges, LeaveChanges, ChangesKeep
  <1> HIDE DEF rest
  <1>4. raw.code # NONE /\ Outcome("noreply").code # NONE /\ Outcome("raised").code # NONE
    BY <1>2 DEF ReplyCode, NONE, Outcome
  <1>5. CASE ~VerifyReply(p, raw)
    <2>1. /\ conns' = ClosedAt(rest, at[p].conn) /\ cli' = NoClient /\ lastError' \in Errors
          /\ Release(p) /\ Finish(p, Outcome("noreply")) /\ UNCHANGED <<pkt, round>>
      BY <1>5 DEF ReadBody, Report, Errors, rest
    <2> QED
      BY <1>1, <1>2, <1>3, <1>4, <2>1, Ends
  <1>6. CASE VerifyReply(p, raw) /\ ~(GetMethod(conf.kind[p]) # "none" /\ raw.code = "challenge")
    <2>1. /\ conns' = Leave(p, rest) /\ UNCHANGED cli
          /\ Release(p) /\ Finish(p, raw) /\ UNCHANGED <<pkt, lastError, round>>
      BY <1>6 DEF ReadBody, rest
    <2> QED
      BY <1>1, <1>2, <1>3, <1>4, <2>1, Ends
  <1>7. CASE VerifyReply(p, raw) /\ GetMethod(conf.kind[p]) # "none" /\ raw.code = "challenge"
    <2>1. conns' = Leave(p, rest) /\ UNCHANGED cli /\ RespondAndSend(p, raw)
      BY <1>7 DEF ReadBody, rest
    <2> HIDE DEF raw
    <2> DEFINE method == GetMethod(conf.kind[p])
               kept == Remember(method, raw.eap, mem[p], <<p, raw.state>>, conf.password)
               m == EapRespond(method, raw.eap, kept, conf.password)
               s == RemoveAt(queue, PlaceIn(queue, p))
    <2>2. CASE m = Raised
      <3>1. Release(p) /\ Finish(p, Outcome("raised")) /\ UNCHANGED <<pkt, mem, lastError, round>>
        BY <2>1, <2>2, Zenon DEF RespondAndSend
      <3> QED
        BY <1>1, <1>2, <1>3, <1>4, <2>1, <3>1, Ends
    <2>3. CASE m # Raised
      <3>1. /\ pkt' = [pkt EXCEPT ![p].eap = m, ![p].state = raw.state]
            /\ lastError' = NONE /\ queue' = Append(RemoveAt(queue, Place(p)), p)
            /\ pc' = [pc EXCEPT ![p] = "lock"] /\ at' = [at EXCEPT ![p] = NoAttempt]
            /\ round' = [round EXCEPT ![p] = @ + 1] /\ UNCHANGED result
        BY <2>1, <2>3, Zenon DEF RespondAndSend
      <3> HIDE DEF m
      <3>2. /\ queue \in Seq(Sender) /\ Single(queue) /\ In(queue, p)
            /\ DOMAIN pkt = Sender /\ DOMAIN at = Sender
            /\ (\A q \in Sender : PacketTyped(pkt[q])) /\ result[p].code = NONE
            /\ round \in [Sender -> Nat]
        BY <1>1, <1>2 DEF Inv1, Typed, LockKept, Finished
      <3>3. /\ s \in Seq(Sender) /\ Single(s)
            /\ \A q \in Sender : In(s, q) <=> In(queue, q) /\ q # p
            /\ \A q \in Sender : First(queue, q) /\ q # p => First(s, q)
        BY <3>2, QueueLeft, Zenon
      <3>4. queue' = Append(s, p)
        BY <3>1 DEF Place, PlaceIn
      <3> HIDE DEF s
      <3>5. /\ ~In(s, p) /\ \A q \in Sender : q # p => (In(s, q) <=> In(queue, q))
            /\ \A q \in Sender : q # p /\ Holds(q) => First(s, q)
        BY <3>3 DEF Holds, First
      <3>6. DOMAIN pkt' = Sender /\ \A q \in Sender : PacketTyped(pkt'[q])
        <4>1. /\ pkt'[p] = [pkt[p] EXCEPT !.eap = m, !.state = raw.state]
              /\ \A q \in Sender : q # p => pkt'[q] = pkt[q]
          BY <3>1, <3>2
        <4>2. PacketTyped([pkt[p] EXCEPT !.eap = m, !.state = raw.state])
          BY <3>2, EapStored, Zenon
        <4>3. PacketTyped(pkt'[p])
          BY <4>1, <4>2, Zenon
        <4> QED
          BY <3>1, <3>2, <4>1, <4>3
      <3>7. round' \in [Sender -> Nat] /\ lastError' \in Errors
        BY <3>1, <3>2 DEF Errors
      <3>8. /\ DOMAIN at' = Sender /\ (\A q \in Sender : q # p => at'[q] = at[q])
            /\ AttemptTyped(at'[p]) /\ at'[p].n = 0 /\ at'[p].conn = NoConn
        BY <3>1, <3>2, NoClientTyped
      <3>9. GoodConns(conns') /\ UNCHANGED <<conf, srv, cli, result, used>>
        BY <1>1, <1>3, <2>1, <3>1
      <3> QED
        BY <3>1, <3>2, <3>3, <3>4, <3>5, <3>6, <3>7, <3>8, <3>9, Queues, Zenon
    <2> QED
      BY <2>2, <2>3
  <1> QED
    BY <1>5, <1>6, <1>7

\* The user closes the client.
LEMMA UserClosedRecord ==
    ASSUME NEW r, ConnTyped(r), CodesKnown(r), NEW c, NEW q, q = Settled(c, [r EXCEPT !.up = "closed"])
    PROVE  Evolves(r, q) /\ q.up = "closed"
  <1> DEFINE x == [r EXCEPT !.up = "closed"]
  <1>1. /\ x.ver = r.ver /\ x.sver = r.sver /\ x.tls = r.tls /\ x.up = "closed"
        /\ x.srv = r.srv /\ x.in = r.in /\ x.out = r.out /\ x.done = r.done /\ x.sent = r.sent
    BY DEF ConnTyped
  <1>2. x \in [ver: RadiusVersion \union {None}, sver: RadiusVersion \union {None},
               tls: TlsVersion, up: Up, srv: {"serving", "closed"}, in: {x.in},
               out: {x.out}, done: Nat, sent: SUBSET Sent]
    BY <1>1 DEF ConnTyped, Up
  <1> HIDE DEF x
  <1>3. x.in \in Seq({x.in[i] : i \in DOMAIN x.in}) /\ x.out \in Seq({x.out[i] : i \in DOMAIN x.out})
    BY <1>1 DEF ConnTyped
  <1>4. ConnTyped(x) /\ CodesKnown(x)
    BY <1>1, <1>2, <1>3 DEF ConnTyped, CodesKnown
  <1>5. q \in {x, Dead}
    BY DEF Settled, Tidy, x
  <1>6. Dead.up = "closed" /\ DOMAIN Dead.out = {} /\ Blank(Dead)
    BY DEF Dead, Blank
  <1>7. Evolves(r, x) /\ Evolves(r, Dead)
    BY <1>1, <1>4, <1>6, DeadTyped DEF Evolves, CodesKnown
  <1> QED
    BY <1>1, <1>5, <1>6, <1>7

\* The client's transport learns of the other end's.
LEMMA PeerGoneRecord ==
    ASSUME NEW r, ConnTyped(r), CodesKnown(r), NEW how \in {"eof", "reset"}
    PROVE  LET q == [r EXCEPT !.up = how, !.out = IF how = "reset" THEN <<>> ELSE @] IN
           /\ Evolves(r, q) /\ q.up = how /\ q.ver = r.ver /\ q.in = r.in /\ q.srv = r.srv
           /\ q.out \in {r.out, <<>>} /\ q.sent = r.sent
  <1> DEFINE q == [r EXCEPT !.up = how, !.out = IF how = "reset" THEN <<>> ELSE @]
  <1>1. /\ q.ver = r.ver /\ q.sver = r.sver /\ q.tls = r.tls /\ q.up = how /\ q.srv = r.srv
        /\ q.in = r.in /\ q.out \in {r.out, <<>>} /\ q.done = r.done /\ q.sent = r.sent
    BY DEF ConnTyped
  <1>2. q \in [ver: RadiusVersion \union {None}, sver: RadiusVersion \union {None},
               tls: TlsVersion, up: Up, srv: {"serving", "closed"}, in: {q.in},
               out: {q.out}, done: Nat, sent: SUBSET Sent]
    BY <1>1 DEF ConnTyped, Up
  <1> HIDE DEF q
  <1>3. q.in \in Seq({q.in[i] : i \in DOMAIN q.in})
    BY <1>1 DEF ConnTyped
  <1>4. q.out \in Seq({q.out[i] : i \in DOMAIN q.out}) /\ CodesKnown(q)
    <2>1. CASE q.out = r.out
      <3>1. r.out \in Seq({r.out[i] : i \in DOMAIN r.out})
        BY DEF ConnTyped
      <3>2. q.out \in Seq({q.out[i] : i \in DOMAIN q.out})
        BY <2>1, <3>1, Zenon
      <3> QED
        BY <2>1, <3>2 DEF CodesKnown
    <2>2. CASE q.out = <<>>
      <3>1. DOMAIN q.out = {} /\ q.out \in Seq({})
        BY <2>2, EmptySeq
      <3>2. {q.out[i] : i \in DOMAIN q.out} = {}
        BY <3>1, Zenon
      <3> QED
        BY <3>1, <3>2, Zenon DEF CodesKnown
    <2> QED
      BY <1>1, <2>1, <2>2
  <1>5. ConnTyped(q)
    BY <1>2, <1>3, <1>4 DEF ConnTyped
  <1> QED
    BY <1>1, <1>4, <1>5 DEF Evolves, q

\* One connection changes.
LEMMA OneChange ==
    ASSUME GoodConns(conns), NEW c \in Slots, NEW r, Evolves(conns[c], r),
           conns' = [conns EXCEPT ![c] = r]
    PROVE  /\ Changes(conns, conns') /\ GoodConns(conns') /\ conns'[c] = r
           /\ \A d \in Slots : d # c => conns'[d] = conns[d]
  <1>1. /\ DOMAIN conns' = Slots /\ conns'[c] = r
        /\ \A d \in Slots : d # c => conns'[d] = conns[d]
    BY DEF GoodConns
  <1>2. ASSUME NEW d \in Slots, d # c PROVE Evolves(conns[d], conns'[d])
    BY <1>1, <1>2 DEF GoodConns, Evolves
  <1>3. Changes(conns, conns')
    BY <1>1, <1>2 DEF Changes
  <1> QED
    BY <1>1, <1>3, ChangesKeep

\* A turn of the server's loop: the request at the head is answered or not, and
\* the connection stays or ends.
LEMMA ServeRecord ==
    ASSUME Inv1, NEW c \in Slots, Serve(c)
    PROVE  /\ conns[c].srv = "serving" /\ conns[c].in # <<>>
           /\ \E r, x, reply :
                /\ conns' = [conns EXCEPT ![c] = x] /\ Evolves(conns[c], x)
                /\ reply = ReplyTo(Head(conns[c].in), PacketReceived(Head(conns[c].in)))
                /\ reply.to = Head(conns[c].in).from /\ reply.round = Head(conns[c].in).round
                /\ r.ver = conns[c].ver /\ r.up = conns[c].up
                /\ \/ x = r /\ r.in = Tail(conns[c].in)
                   \/ x = ServerEnd(c, r)
                /\ \/ r.out = conns[c].out
                   \/ conns[c].up = "open" /\ r.out = Framed(conns[c].out, reply)
                /\ ConnTyped(r) /\ CodesKnown(r)
           /\ UNCHANGED <<conf, srv, clientVars, used>>
  <1> DEFINE o == conns[c]
             msg == Head(o.in)
             a == PacketReceived(msg)
             reply == ReplyTo(msg, a)
             answered == Answered(o, reply)
             x == IF a.code = "raised" THEN ServerEnd(c, o)
                  ELSE IF o.up # "open" \/ LimitReached(answered.done) THEN ServerEnd(c, answered)
                  ELSE answered
  <1>1. /\ o.srv = "serving" /\ o.in # <<>> /\ UNCHANGED <<conf, srv, clientVars, used>>
    BY DEF Serve
  <1>2. conns' = [conns EXCEPT ![c] = x]
    <2>1. answered = [o EXCEPT !.in = Tail(@), !.done = @ + 1,
                               !.out = IF o.up = "open" THEN @ \o Frame(ReplyTo(msg, a)) ELSE @]
      BY DEF Answered, Framed
    <2> QED
      BY <2>1 DEF Serve
  <1>3. /\ GoodConns(conns) /\ ConnTyped(o) /\ CodesKnown(o)
        /\ a.code \in ReplyCode \union {"raised"}
    BY AnswerCodes DEF Inv1, Typed, GoodConns
  <1>4. /\ reply.to = msg.from /\ reply.round = msg.round /\ reply.code = a.code
        /\ reply = ReplyTo(msg, PacketReceived(msg))
    BY DEF ReplyTo
  <1> HIDE DEF a, reply
  <1>5. CASE a.code = "raised"
    <2>1. x = ServerEnd(c, o)
      BY <1>5
    <2> HIDE DEF x
    <2>2. Evolves(o, x)
      BY <1>3, <2>1, ServerEndRecord
    <2> QED
      BY <1>1, <1>2, <1>3, <1>4, <2>1, <2>2
  <1>6. CASE a.code # "raised"
    <2>1. x = ServerEnd(c, answered) \/ x = answered
      BY <1>6
    <2> HIDE DEF x
    <2>2. PICK r : r = answered
      OBVIOUS
    <2>3. /\ Evolves(o, r) /\ r.ver = o.ver /\ r.up = o.up /\ r.srv = o.srv /\ r.in = Tail(o.in)
          /\ r.out = IF o.up = "open" THEN Framed(o.out, reply) ELSE o.out
      BY <1>1, <1>3, <1>4, <1>6, <2>2, AnsweredRecord
    <2>4. ConnTyped(r) /\ CodesKnown(r)
      BY <2>3 DEF Evolves
    <2>5. Evolves(r, ServerEnd(c, r))
      BY <2>4, ServerEndRecord
    <2>6. Evolves(o, ServerEnd(c, r))
      BY <2>3, <2>5 DEF Evolves, Blank
    <2>7. Evolves(o, x) /\ (x = r \/ x = ServerEnd(c, r))
      BY <2>1, <2>2, <2>3, <2>6
    <2>8. r.out = o.out \/ (o.up = "open" /\ r.out = Framed(o.out, reply))
      BY <2>3
    <2> QED
      BY <1>1, <1>2, <1>4, <2>3, <2>4, <2>7, <2>8
  <1> QED
    BY <1>5, <1>6

LEMMA ServeKeeps ==
    ASSUME Inv1, NEW c \in Slots, Serve(c)
    PROVE  Inv1' /\ Changes(conns, conns')
  <1>1. PICK x : conns' = [conns EXCEPT ![c] = x] /\ Evolves(conns[c], x)
    BY ServeRecord, Zenon
  <1>2. UNCHANGED <<conf, srv, clientVars, used>>
    BY ServeRecord, Zenon
  <1>3. GoodConns(conns') /\ Changes(conns, conns')
    BY <1>1, OneChange DEF Inv1, Typed
  <1> QED
    BY <1>2, <1>3, Rests DEF clientVars, Inv1, Typed, Budget

LEMMA ServerStopsKeeps ==
    ASSUME Inv1, NEW c \in Slots, ServerStops(c)
    PROVE  Inv1' /\ Changes(conns, conns')
  <1>1. /\ conns' = [conns EXCEPT ![c] = ServerEnd(c, conns[c])]
        /\ UNCHANGED <<conf, srv, clientVars, used>>
    BY DEF ServerStops
  <1>2. Evolves(conns[c], ServerEnd(c, conns[c]))
    BY ServerEndRecord DEF Inv1, Typed, GoodConns
  <1>3. GoodConns(conns') /\ Changes(conns, conns')
    BY <1>1, <1>2, OneChange DEF Inv1, Typed
  <1> QED
    BY <1>1, <1>3, Rests DEF clientVars, Inv1, Typed, Budget

LEMMA PeerGoneKeeps ==
    ASSUME Inv1, NEW c \in Slots, NEW how \in {"eof", "reset"}, PeerGone(c, how)
    PROVE  Inv1' /\ Changes(conns, conns')
  <1> DEFINE q == [conns[c] EXCEPT !.up = how, !.out = IF how = "reset" THEN <<>> ELSE @]
  <1>1. UNCHANGED <<conf, srv, clientVars, used>>
    BY DEF PeerGone
  <1>2. conns' = [conns EXCEPT ![c] = q]
    BY DEF PeerGone, Inv1, Typed, GoodConns
  <1>3. Evolves(conns[c], q)
    BY PeerGoneRecord DEF Inv1, Typed, GoodConns
  <1> HIDE DEF q
  <1>4. GoodConns(conns') /\ Changes(conns, conns')
    BY <1>2, <1>3, OneChange DEF Inv1, Typed
  <1> QED
    BY <1>1, <1>4, Rests DEF clientVars, Inv1, Typed, Budget

LEMMA UserCloseKeeps ==
    ASSUME Inv1, UserClose
    PROVE  Inv1' /\ Changes(conns, conns')
  <1> DEFINE q == Settled(cli.conn, [conns[cli.conn] EXCEPT !.up = "closed"])
  <1>1. /\ cli.conn # NoConn /\ conns' = [conns EXCEPT ![cli.conn] = q]
        /\ cli' = NoClient /\ used' = [used EXCEPT !.closes = @ + 1]
        /\ UNCHANGED <<conf, srv, queue, pc, pkt, at, result, lastError, round>>
    BY DEF UserClose
  <1>2. cli.conn \in Slots /\ GoodConns(conns)
    BY <1>1 DEF Inv1, Typed
  <1>3. Evolves(conns[cli.conn], q)
    BY <1>2, UserClosedRecord DEF GoodConns
  <1> HIDE DEF q
  <1>4. GoodConns(conns') /\ Changes(conns, conns')
    BY <1>1, <1>2, <1>3, OneChange
  <1>5. used' \in Budget /\ srv' \in [versions: (SUBSET RadiusVersion) \ {{}}, tls: TlsVersion]
    <2>1. used \in Budget /\ srv \in [versions: (SUBSET RadiusVersion) \ {{}}, tls: TlsVersion]
      BY DEF Inv1, Typed, Budget
    <2> QED
      BY <1>1, <2>1 DEF Budget
  <1> QED
    BY <1>1, <1>4, <1>5, Rests

LEMMA RestartKeeps ==
    ASSUME Inv1, NEW v \in ServerVersions, NEW tls \in TlsVersion, Restart(v, tls)
    PROVE  Inv1' /\ Changes(conns, conns') /\ \A c \in Slots : conns'[c] = ServerEnd(c, conns[c])
  <1>1. /\ srv' = [versions |-> v, tls |-> tls]
        /\ conns' = [c \in Slots |-> ServerEnd(c, conns[c])]
        /\ used' = [used EXCEPT !.restarts = @ + 1]
        /\ UNCHANGED <<conf, clientVars>>
    BY DEF Restart
  <1>2. ASSUME NEW c \in Slots PROVE Evolves(conns[c], conns'[c])
    BY <1>1, ServerEndRecord DEF Inv1, Typed, GoodConns
  <1>3. Changes(conns, conns') /\ GoodConns(conns')
    BY <1>1, <1>2, ChangesKeep DEF Changes
  <1>4. used' \in Budget /\ srv' \in [versions: (SUBSET RadiusVersion) \ {{}}, tls: TlsVersion]
    <2>1. used \in Budget /\ v \in (SUBSET RadiusVersion) \ {{}}
      BY RadSecAssumption DEF Inv1, Typed, Budget
    <2> QED
      BY <1>1, <2>1 DEF Budget
  <1> QED
    BY <1>1, <1>3, <1>4, Rests DEF clientVars

\* The first part is inductive.
LEMMA Inv1Starts == Init => Inv1
  <1> SUFFICES ASSUME Init PROVE Inv1
    OBVIOUS
  <1> USE DEF Init
  <1>1. conf \in Config
    BY RadSecAssumption
  <1>2. srv \in [versions: (SUBSET RadiusVersion) \ {{}}, tls: TlsVersion]
    BY <1>1 DEF Config
  <1>3. GoodConns(conns)
    BY DeadTyped DEF GoodConns, CodesKnown, Dead
  <1>4. \A p \in Sender : PacketTyped(pkt[p]) /\ AttemptTyped(at[p])
    BY NoClientTyped DEF PacketTyped, RadiusVersion
  <1>5. queue \in Seq(Sender) /\ Len(queue) = 0
    BY EmptySeq
  <1>6. Typed
    BY <1>1, <1>2, <1>3, <1>4, <1>5, NoClientTyped DEF Typed, PC, Clients, NONE
  <1>7. LockKept
    BY <1>5 DEF LockKept, Single, In, Active
  <1>8. HeaderKnown /\ Finished
    BY DEF HeaderKnown, Finished, Outcome
  <1>9. AttemptKept /\ NotKept
    BY NoClientTyped DEF AttemptKept, OneAttempt, Waits, NotKept
  <1> QED
    BY <1>6, <1>7, <1>8, <1>9 DEF Inv1

LEMMA Inv1Step == Inv1 /\ [Next]_vars => Inv1'
  <1> SUFFICES ASSUME Inv1, [Next]_vars PROVE Inv1'
    OBVIOUS
  <1>1. CASE UNCHANGED vars
    BY <1>1, Rests DEF vars, Inv1, Typed, Budget
  <1>2. ASSUME NEW p \in Sender, SenderStep(p) \/ Cancel(p) PROVE Inv1'
    BY <1>2, StartKeeps, ReuseKeeps, DropStaleKeeps, OpenKeeps, ConnectedKeeps,
       ConnectRefusedKeeps, ConnectErrorKeeps, TransportErrorKeeps, ReadHeaderKeeps,
       ReadTornFrameKeeps, ReadBodyKeeps, CancelKeeps, Zenon DEF SenderStep
  <1>3. ASSUME NEW c \in Slots, ServerStep(c) PROVE Inv1'
    BY <1>3, ServeKeeps, ServerStopsKeeps, PeerGoneKeeps, Zenon DEF ServerStep
  <1>4. ASSUME UserClose PROVE Inv1'
    BY <1>4, UserCloseKeeps
  <1>5. ASSUME NEW v \in ServerVersions, NEW tls \in TlsVersion, Restart(v, tls) PROVE Inv1'
    BY <1>5, RestartKeeps
  <1> QED
    BY <1>1, <1>2, <1>3, <1>4, <1>5, Zenon DEF Next

LEMMA Inv1Always == Spec => []Inv1
  BY Inv1Starts, Inv1Step, PTL DEF Spec

\* The types of the client's and the server's state: in particular a sender is
\* in the queue of the lock exactly while its send is under way, the attempts
\* are bounded, and a send has a result exactly when it has ended.
THEOREM RadSecTypeCorrect == Spec => []TypeOK
  <1>1. Inv1 => TypeOK
    <2> SUFFICES ASSUME Inv1 PROVE TypeOK
      OBVIOUS
    <2> USE DEF Inv1
    <2>1. /\ cli.conn \in Slots \union {NoConn} /\ cli.ver \in RadiusVersion
          /\ cli.next \in 0..(TokenSpace - 1) \union {None}
      BY DEF Typed, Tokens
    <2>2. pc \in [Sender -> {"idle", "lock", "connect", "header", "body", "backoff", "done"}]
      BY DEF Typed, PC, Active
    <2>3. ASSUME NEW p \in Sender
          PROVE  /\ pkt[p].ver \in RadiusVersion
                 /\ pkt[p].token \in 0..(TokenSpace - 1) \union {None}
                 /\ at[p].n \in 0..Attempts /\ at[p].conn \in Slots \union {NoConn}
                 /\ pc[p] = "done" <=> result[p].code # NONE
                 /\ pc[p] \in {"lock", "connect", "header", "body", "backoff"}
                       <=> \E i \in 1..Len(queue) : queue[i] = p
      <3>1. /\ pkt[p].ver \in RadiusVersion
            /\ pkt[p].token \in 0..(TokenSpace - 1) \union {None}
        BY DEF Typed, PacketTyped, Tokens
      <3>2. at[p].n \in 0..Attempts /\ at[p].conn \in Slots \union {NoConn}
        BY DEF Typed, AttemptTyped
      <3> QED
        BY <3>1, <3>2 DEF Finished, LockKept, In, Active
    <2>4. lastError \in {NONE, "packet", "transport"}
      BY DEF Typed
    <2>5. \A c \in Slots : conns[c].up \in Up /\ conns[c].srv \in {"serving", "closed"}
      BY DEF Typed, GoodConns, ConnTyped
    <2> QED
      BY <2>1, <2>2, <2>3, <2>4, <2>5 DEF TypeOK
  <1> QED
    BY <1>1, Inv1Always, PTL

\* A step of a sender ends its idleness.
LEMMA NoLongerIdle ==
    ASSUME Inv1, NEW q \in Sender, SenderStep(q) \/ Cancel(q)
    PROVE  pc'[q] # "idle"
  <1>1. DOMAIN pc = Sender
    BY DEF Inv1, Typed
  <1>2. ASSUME NEW x, Finish(q, x) PROVE pc'[q] # "idle"
    BY <1>1, <1>2 DEF Finish
  <1>3. ASSUME NEW l, l # "idle", pc' = [pc EXCEPT ![q] = l] PROVE pc'[q] # "idle"
    BY <1>1, <1>3
  <1>4. ASSUME NEW n, AttemptFails(q, n) PROVE pc'[q] # "idle"
    BY <1>2, <1>3, <1>4 DEF AttemptFails
  <1>5. CASE Start(q)
    <2>1. Finish(q, Outcome("raised")) \/ pc' = [pc EXCEPT ![q] = "lock"]
      BY <1>5, Zenon DEF Start
    <2> QED
      BY <1>2, <1>3, <2>1
  <1>6. CASE ReuseConnection(q)
    BY <1>3, <1>6 DEF ReuseConnection, Write
  <1>7. CASE DropStale(q)
    BY <1>4, <1>7 DEF DropStale
  <1>8. CASE OpenConnection(q)
    BY <1>3, <1>8 DEF OpenConnection
  <1>9. ASSUME NEW c \in Slots, NEW t \in FirstTokens, Connected(q, c, t)
        PROVE  pc'[q] # "idle"
    BY <1>3, <1>9 DEF Connected, Write
  <1>10. CASE ConnectRefused(q)
    BY <1>2, <1>10 DEF ConnectRefused
  <1>11. CASE ConnectError(q)
    BY <1>4, <1>11 DEF ConnectError
  <1>12. CASE TransportError(q)
    BY <1>2, <1>4, <1>12 DEF TransportError
  <1>13. CASE ReadHeader(q)
    BY <1>3, <1>13 DEF ReadHeader
  <1>14. CASE ReadTornFrame(q)
    BY <1>2, <1>14 DEF ReadTornFrame
  <1>15. CASE ReadBody(q)
    <2>1. \/ Finish(q, Outcome("noreply")) \/ RespondAndSend(q, at[q].got)
          \/ Finish(q, at[q].got)
      BY <1>15 DEF ReadBody
    <2>2. RespondAndSend(q, at[q].got) =>
              Finish(q, Outcome("raised")) \/ pc' = [pc EXCEPT ![q] = "lock"]
      BY Zenon DEF RespondAndSend
    <2> QED
      BY <1>2, <1>3, <2>1, <2>2
  <1>16. CASE Cancel(q)
    BY <1>2, <1>16 DEF Cancel
  <1> QED
    BY <1>5, <1>6, <1>7, <1>8, <1>9, <1>10, <1>11, <1>12, <1>13, <1>14, <1>15, <1>16
       DEF SenderStep

-----------------------------------------------------------------------------
(* The second part: versions. *)

\* The two ends of a new connection settle on the same version.
LEMMA HandshakeAgrees ==
    ASSUME Inv1, ServerFloor, Handshake.ver # None
    PROVE  /\ Handshake.ver \in conf.versions
           /\ Accepts => Handshake.sver = Handshake.ver /\ Handshake.ver \in srv.versions
           /\ Handshake.ver = V1_1 => Handshake.tls = 13
  <1> DEFINE cv == conf.versions
             sv == srv.versions
  <1>1. cv \in SUBSET RadiusVersion /\ sv \in SUBSET RadiusVersion
    BY DEF Inv1, Typed, Config
  <1>2. /\ Alpn \in (Advertised(cv) \intersect Advertised(sv)) \union {None}
        /\ Advertised(cv) \subseteq cv /\ Advertised(sv) \subseteq sv
    BY <1>1, NegotiatedTyped DEF Alpn, Advertised
  <1>3. /\ Handshake.ver = Negotiate(cv, Alpn) /\ Handshake.sver = Negotiate(sv, Alpn)
        /\ Handshake.tls = srv.tls
    BY HandshakeTyped
  <1>4. Accepts => Negotiate(sv, Alpn) # None
    BY DEF Accepts
  <1> HIDE DEF cv, sv
  <1>5. CASE Alpn = None
    BY <1>3, <1>4, <1>5 DEF Negotiate, cv, sv, V1_0, V1_1
  <1>6. CASE Alpn # None
    <2>1. Alpn \in cv /\ Alpn \in sv
      BY <1>2, <1>6
    <2>2. Handshake.ver = Alpn /\ Handshake.sver = Alpn
      BY <1>3, <1>6, <2>1 DEF Negotiate
    <2> QED
      BY <1>3, <2>1, <2>2 DEF ServerFloor, cv, sv
  <1> QED
    BY <1>5, <1>6

\* A step that writes nothing keeps the versions, if it leaves the connections
\* alone that the client and the waiting senders have.
Untouched(c) == conns'[c].ver = conns[c].ver /\ (conns[c].up # "closed" => conns'[c].up # "closed")

LEMMA VersionsKept ==
    ASSUME Inv1, Inv2, ServerFloor', UNCHANGED conf, Changes(conns, conns'),
           srv' = srv \/ \A c \in Slots : conns'[c].srv = "closed",
           cli'.conn # NoConn => cli' = cli /\ Untouched(cli.conn),
           \A p \in Sender : Waits(p)' =>
                /\ Waits(p) /\ at'[p].conn = at[p].conn /\ pkt'[p].ver = pkt[p].ver
                /\ conns'[at[p].conn].ver = conns[at[p].conn].ver
    PROVE  Inv2'
  <1> USE DEF Inv2
  <1>1. ClientVersion'
    BY DEF ClientVersion, Untouched
  <1>2. PacketVersion'
    BY DEF PacketVersion
  <1>3. ASSUME NEW c \in Slots, ~Blank(conns'[c])
        PROVE  /\ conns'[c].ver = conns[c].ver /\ conns'[c].sver = conns[c].sver
               /\ conns'[c].tls = conns[c].tls /\ conns'[c].sent = conns[c].sent
               /\ conns'[c].srv \in {conns[c].srv, "closed"}
    BY <1>3 DEF Changes, Evolves
  <1>4. ASSUME NEW c \in Slots, conns'[c].ver # None
        PROVE  /\ conns'[c].ver \in conf'.versions
               /\ conns'[c].srv = "serving" => conns'[c].sver = conns'[c].ver
                                               /\ conns'[c].ver \in srv'.versions
               /\ conns'[c].ver = V1_1 => conns'[c].tls = 13
    BY <1>3, <1>4 DEF EndsAgreeOnVersion, Blank
  <1>5. ASSUME NEW c \in Slots, NEW m \in conns'[c].sent
        PROVE  m.ver = conns'[c].ver /\ (m.token = None <=> m.ver = V1_0)
    BY <1>3, <1>5 DEF WireMatchesVersion, Blank
  <1> QED
    BY <1>1, <1>2, <1>4, <1>5 DEF EndsAgreeOnVersion, WireMatchesVersion

\* A write keeps them if it uses the version of its connection.
LEMMA VersionsWritten ==
    ASSUME Inv1, Inv2, NEW p \in Sender, Holds(p), NEW c \in Slots, NEW cs,
           NEW ver \in RadiusVersion, NEW next, NEW n, Written(p, c, cs, ver, next, n),
           next \in Tokens \union {None}, ver = V1_1 => next # None,
           UNCHANGED <<conf, srv>>, \A d \in Slots : d # c => cs[d] = conns[d],
           cs[c].ver = ver, cs[c].up # "closed",
           /\ cs[c].ver \in conf.versions
           /\ cs[c].srv = "serving" => cs[c].sver = cs[c].ver /\ cs[c].ver \in srv.versions
           /\ cs[c].ver = V1_1 => cs[c].tls = 13,
           \A m \in cs[c].sent : m.ver = cs[c].ver /\ (m.token = None <=> m.ver = V1_0)
    PROVE  Inv2'
  <1> USE DEF Inv2
  <1>1. /\ pkt'[p].ver = ver /\ cli'.conn \in {c, NoConn} /\ cli'.ver = ver
        /\ cli'.next = IF ver = V1_1 /\ pkt[p].token = None THEN NextToken(next) ELSE next
        /\ at'[p].conn = c
        /\ pc' = [pc EXCEPT ![p] = "header"] /\ at' = [at EXCEPT ![p] = at'[p]]
        /\ \A d \in Slots : d # c => conns'[d] = cs[d]
        /\ conns'[c].ver = cs[c].ver /\ conns'[c].sver = cs[c].sver
        /\ conns'[c].tls = cs[c].tls /\ conns'[c].up = cs[c].up /\ conns'[c].srv = cs[c].srv
        /\ conns'[c].sent = cs[c].sent \union {[from |-> p, ver |-> ver,
                                                token |-> TokenOf(p, ver, next)]}
    BY DEF Written
  <1>2. NextToken(next) \in Tokens /\ None \notin Tokens
    BY TokenSpaceAssumption DEF NextToken, Tokens, None
  <1>3. ServerFloor'
    BY DEF ServerFloor
  <1>4. ClientVersion'
    BY <1>1, <1>2 DEF ClientVersion
  <1>5. PacketVersion'
    <2> SUFFICES ASSUME NEW q \in Sender, Waits(q)' PROVE pkt'[q].ver = conns'[at'[q].conn].ver
      BY DEF PacketVersion
    <2>1. q = p
      <3> SUFFICES ASSUME q # p PROVE FALSE
        OBVIOUS
      <3>1. pc'[q] = pc[q]
        BY <1>1 DEF Inv1, Typed
      <3> QED
        BY <3>1, HolderAlone DEF Waits, Active
    <2> QED
      BY <1>1, <2>1
  <1>6. EndsAgreeOnVersion'
    BY <1>1 DEF EndsAgreeOnVersion
  <1>7. TokenOf(p, ver, next) = None <=> ver = V1_0
    BY DEF TokenOf, RadiusVersion
  <1>8. WireMatchesVersion'
    <2> SUFFICES ASSUME NEW d \in Slots, NEW m \in conns'[d].sent
                 PROVE  m.ver = conns'[d].ver /\ (m.token = None <=> m.ver = V1_0)
      BY DEF WireMatchesVersion
    <2>1. CASE d # c
      BY <1>1, <2>1 DEF WireMatchesVersion
    <2>2. CASE d = c
      <3>1. CASE m \in cs[c].sent
        BY <1>1, <2>2, <3>1
      <3>2. CASE m = [from |-> p, ver |-> ver, token |-> TokenOf(p, ver, next)]
        <4>1. m.ver = ver /\ m.token = TokenOf(p, ver, next)
          BY <3>2
        <4> QED
          BY <1>1, <1>7, <2>2, <4>1
      <3> QED
        BY <1>1, <2>2, <3>1, <3>2
    <2> QED
      BY <2>1, <2>2
  <1> QED
    BY <1>3, <1>4, <1>5, <1>6, <1>8

\* The reusable connection stays as it is when a send ends.
LEMMA LeaveStays ==
    ASSUME Inv1, NEW p \in Sender, cli.conn # NoConn, NEW cs
    PROVE  Leave(p, cs) = cs
  <1>1. at[p].conn = NoConn \/ cli.conn = at[p].conn
    BY DEF Inv1, AttemptKept, OneAttempt
  <1> QED
    BY <1>1 DEF Leave, ClosedAt

\* A unit is read from a connection without touching its version or its ends.
LEMMA ConsumeUntouched ==
    ASSUME GoodConns(conns), NEW p \in Sender, at[p].conn \in Slots, Arrived(p), NEW c \in Slots
    PROVE  Consume(p)[c].ver = conns[c].ver /\ Consume(p)[c].up = conns[c].up
           /\ Consume(p)[c].in = conns[c].in
           /\ Consume(p)[c].out = IF c = at[p].conn THEN Tail(conns[c].out) ELSE conns[c].out
  <1>1. ConnTyped(conns[c])
    BY DEF GoodConns
  <1>2. CASE c = at[p].conn
    <2>1. Consume(p)[c] = [conns[c] EXCEPT !.out = Tail(@)]
      BY <1>2, ConsumeChanges
    <2> QED
      BY <1>1, <1>2, <2>1 DEF ConnTyped
  <1>3. CASE c # at[p].conn
    BY <1>3, ConsumeChanges
  <1> QED
    BY <1>2, <1>3

\* While a sender holds the lock no other one waits for a reply.
LEMMA OthersDoNotWait ==
    ASSUME Inv1, NEW p \in Sender, Holds(p), NEW q \in Sender, q # p, pc'[q] = pc[q]
    PROVE  ~Waits(q) /\ ~Waits(q)'
  BY HolderAlone DEF Waits, Active

\* What every step of a sender but a write and the reading of a header does.
Quiet(p) ==
    /\ \A q \in Sender : q # p => pc'[q] = pc[q] /\ at'[q] = at[q] /\ pkt'[q] = pkt[q]
    /\ ~Waits(p)'
    /\ Changes(conns, conns') /\ UNCHANGED <<conf, srv>>
    /\ cli' = cli \/ cli'.conn = NoConn
    /\ cli'.conn # NoConn => Untouched(cli.conn)
    /\ Holds(p) \/ UNCHANGED conns

LEMMA QuietVersions ==
    ASSUME Inv1, Inv2, NEW p \in Sender, Quiet(p)
    PROVE  Inv2'
  <1>1. ASSUME NEW q \in Sender, Waits(q)'
        PROVE  /\ Waits(q) /\ at'[q].conn = at[q].conn /\ pkt'[q].ver = pkt[q].ver
               /\ conns'[at[q].conn].ver = conns[at[q].conn].ver
    BY <1>1, OthersDoNotWait DEF Quiet, Waits
  <1>2. ServerFloor'
    BY DEF Quiet, Inv2, ServerFloor
  <1> QED
    BY <1>1, <1>2, VersionsKept DEF Quiet

LEMMA FinishQuiet ==
    ASSUME Inv1, NEW p \in Sender, NEW x, Finish(p, x)
    PROVE  (\A q \in Sender : q # p => pc'[q] = pc[q] /\ at'[q] = at[q]) /\ ~Waits(p)'
  BY DEF Finish, Waits, Inv1, Typed

LEMMA AttemptFailsQuiet ==
    ASSUME Inv1, NEW p \in Sender, NEW n, AttemptFails(p, n)
    PROVE  /\ \A q \in Sender : q # p => pc'[q] = pc[q] /\ at'[q] = at[q]
           /\ ~Waits(p)' /\ cli'.conn = NoConn
  <1>1. cli'.conn = NoConn
    BY NoClientTyped DEF AttemptFails
  <1>2. CASE Exhausted(n)
    BY <1>1, <1>2, FinishQuiet DEF AttemptFails
  <1>3. CASE ~Exhausted(n)
    BY <1>1, <1>3 DEF AttemptFails, Waits, Inv1, Typed
  <1> QED
    BY <1>2, <1>3

LEMMA SenderQuiet ==
    ASSUME Inv1, NEW p \in Sender,
           \/ Start(p) \/ DropStale(p) \/ OpenConnection(p) \/ ConnectRefused(p)
           \/ ConnectError(p) \/ TransportError(p) \/ ReadTornFrame(p) \/ ReadBody(p) \/ Cancel(p)
    PROVE  Quiet(p)
  <1>1. /\ GoodConns(conns) /\ at[p].conn \in Slots \union {NoConn}
        /\ cli.conn \in Slots \union {NoConn}
        /\ DOMAIN pc = Sender /\ DOMAIN at = Sender /\ DOMAIN pkt = Sender
        /\ (pc[p] \in Active \ {"lock"} => Holds(p)) /\ NoClient.conn = NoConn
    BY AttemptFacts, NoClientTyped DEF Inv1, Typed, LockKept
  <1>2. /\ Changes(conns, conns) /\ Changes(conns, Leave(p, conns))
        /\ Changes(conns, ClosedAt(conns, at[p].conn)) /\ Changes(conns, ClosedAt(conns, cli.conn))
    BY <1>1, NoChange, LeaveChanges, ClosedChanges
  <1>3. CASE Start(p)
    <2>1. UNCHANGED <<conf, srv, conns, cli>> /\ pc[p] = "idle"
      BY <1>3 DEF Start
    <2>2. \/ Finish(p, Outcome("raised")) /\ UNCHANGED pkt
          \/ \E m : pkt' = [pkt EXCEPT ![p].eap = m] /\ pc' = [pc EXCEPT ![p] = "lock"] /\ UNCHANGED at
      BY <1>3, Zenon DEF Start
    <2>3. (\A q \in Sender : q # p => pc'[q] = pc[q] /\ at'[q] = at[q] /\ pkt'[q] = pkt[q])
          /\ ~Waits(p)'
      BY <1>1, <2>2, FinishQuiet DEF Waits
    <2> QED
      BY <1>1, <1>2, <2>1, <2>3 DEF Quiet, Untouched
  <1>4. CASE DropStale(p)
    BY <1>1, <1>2, <1>4, AttemptFailsQuiet DEF DropStale, Quiet, Begins
  <1>5. CASE OpenConnection(p)
    <2>1. cli'.conn = NoConn /\ (cli' = cli \/ cli'.conn = NoConn)
      BY <1>1, <1>5 DEF OpenConnection, Inv1, NotKept
    <2>2. (\A q \in Sender : q # p => pc'[q] = pc[q] /\ at'[q] = at[q] /\ pkt'[q] = pkt[q])
          /\ ~Waits(p)'
      BY <1>1, <1>5 DEF OpenConnection, Waits
    <2> QED
      BY <1>1, <1>2, <1>5, <2>1, <2>2 DEF OpenConnection, Quiet, Begins
  <1>6. CASE ConnectRefused(p)
    BY <1>1, <1>2, <1>6, FinishQuiet DEF ConnectRefused, Quiet, Active
  <1>7. CASE ConnectError(p)
    BY <1>1, <1>2, <1>7, AttemptFailsQuiet DEF ConnectError, Quiet, Active
  <1>8. CASE TransportError(p)
    BY <1>1, <1>2, <1>8, AttemptFailsQuiet, FinishQuiet DEF TransportError, Quiet, Active, Waits
  <1>9. CASE ReadTornFrame(p)
    <2>1. cli' = cli /\ cli.conn # NoConn => conns' = conns
      BY <1>1, <1>9, LeaveStays DEF ReadTornFrame
    <2> QED
      BY <1>1, <1>2, <1>9, <2>1, FinishQuiet DEF ReadTornFrame, Quiet, Active, Untouched
  <1>10. CASE Cancel(p)
    <2>1. cli.conn # NoConn \/ at[p].conn = NoConn => conns' = conns
      BY <1>10, LeaveStays DEF Cancel, Leave, ClosedAt
    <2>2. at[p].conn # NoConn => Holds(p)
      BY <1>1 DEF Inv1, AttemptKept, OneAttempt, Waits, Active
    <2> QED
      BY <1>1, <1>2, <1>10, <2>1, <2>2, FinishQuiet DEF Cancel, Quiet, Untouched
  <1>11. CASE ReadBody(p)
    <2> DEFINE rest == Consume(p)
               raw == at[p].got
               method == GetMethod(conf.kind[p])
               kept == Remember(method, raw.eap, mem[p], <<p, raw.state>>, conf.password)
               m == EapRespond(method, raw.eap, kept, conf.password)
    <2>1. pc[p] = "body" /\ Arrived(p) /\ UNCHANGED <<conf, srv>>
      BY <1>11 DEF ReadBody
    <2>2. at[p].conn \in Slots /\ Holds(p)
      BY <2>1, AttemptFacts DEF Waits
    <2>3. Changes(conns, rest) /\ GoodConns(rest)
      BY <1>1, <2>1, <2>2, ConsumeChanges, ChangesKeep
    <2>4. Changes(conns, ClosedAt(rest, at[p].conn)) /\ Changes(conns, Leave(p, rest))
      BY <1>1, <2>3, ClosedChanges, LeaveChanges, ChangesCompose
    <2>5. \/ /\ conns' = ClosedAt(rest, at[p].conn) /\ cli' = NoClient
             /\ Finish(p, Outcome("noreply")) /\ UNCHANGED pkt
          \/ /\ conns' = Leave(p, rest) /\ UNCHANGED cli
             /\ RespondAndSend(p, raw) \/ (Finish(p, raw) /\ UNCHANGED pkt)
      BY <1>11 DEF ReadBody
    <2>6. RespondAndSend(p, raw) =>
              \/ Finish(p, Outcome("raised")) /\ UNCHANGED pkt
              \/ /\ pkt' = [pkt EXCEPT ![p].eap = m, ![p].state = raw.state]
                 /\ pc' = [pc EXCEPT ![p] = "lock"]
                 /\ at' = [at EXCEPT ![p] = NoAttempt]
      BY Zenon DEF RespondAndSend
    <2> HIDE DEF m
    <2>7. (\A q \in Sender : q # p => pc'[q] = pc[q] /\ at'[q] = at[q] /\ pkt'[q] = pkt[q])
          /\ ~Waits(p)'
      BY <1>1, <2>5, <2>6, FinishQuiet DEF Waits
    <2>8. cli' = cli /\ cli.conn # NoConn => Untouched(cli.conn)
      <3> SUFFICES ASSUME cli' = cli, cli.conn # NoConn PROVE Untouched(cli.conn)
        OBVIOUS
      <3>1. conns' = rest /\ cli.conn \in Slots
        BY <1>1, <2>5, LeaveStays
      <3> QED
        BY <1>1, <2>1, <2>2, <3>1, ConsumeUntouched DEF Untouched
    <2> QED
      BY <1>1, <2>1, <2>2, <2>4, <2>5, <2>7, <2>8 DEF Quiet
  <1> QED
    BY <1>3, <1>4, <1>5, <1>6, <1>7, <1>8, <1>9, <1>10, <1>11

LEMMA ReadHeaderVersions ==
    ASSUME Inv1, Inv2, NEW p \in Sender, ReadHeader(p)
    PROVE  Inv2'
  <1>1. /\ pc[p] = "header" /\ Arrived(p) /\ conns' = Consume(p)
        /\ at' = [at EXCEPT ![p].got = NextUnit(p).reply]
        /\ UNCHANGED <<conf, srv, cli, pkt>> /\ pc' = [pc EXCEPT ![p] = "body"]
    BY DEF ReadHeader
  <1>2. /\ at[p].conn \in Slots /\ cli.conn \in Slots \union {NoConn} /\ Waits(p)
        /\ GoodConns(conns)
    BY <1>1, AttemptFacts DEF Waits
  <1>3. \A c \in Slots : conns'[c].ver = conns[c].ver /\ conns'[c].up = conns[c].up
    BY <1>1, <1>2, ConsumeUntouched
  <1>4. Changes(conns, conns')
    BY <1>1, <1>2, ConsumeChanges
  <1>5. ASSUME NEW q \in Sender, Waits(q)'
        PROVE  Waits(q) /\ at'[q].conn = at[q].conn /\ at[q].conn \in Slots
    <2>1. Waits(q)
      BY <1>1, <1>2, <1>5 DEF Waits, Inv1, Typed
    <2>2. at[q].conn \in Slots /\ DOMAIN at = Sender /\ AttemptTyped(at[q])
      BY <2>1, AttemptFacts DEF Inv1, Typed
    <2>3. CASE q = p
      <3>1. at'[p] = [at[p] EXCEPT !.got = NextUnit(p).reply]
        BY <1>1, <2>2
      <3> QED
        BY <2>1, <2>2, <2>3, <3>1 DEF AttemptTyped
    <2>4. CASE q # p
      BY <1>1, <2>1, <2>2, <2>4
    <2> QED
      BY <2>3, <2>4
  <1>6. ServerFloor'
    BY <1>1 DEF Inv2, ServerFloor
  <1> QED
    BY <1>1, <1>2, <1>3, <1>4, <1>5, <1>6, VersionsKept DEF Untouched

LEMMA ReuseVersions ==
    ASSUME Inv1, Inv2, NEW p \in Sender, ReuseConnection(p)
    PROVE  Inv2'
  <1>1. /\ Begins(p) /\ cli.conn # NoConn /\ conns[cli.conn].up = "open"
        /\ Write(p, cli.conn, conns, cli.ver, cli.next, at[p].n + 1)
        /\ UNCHANGED <<conf, srv>>
    BY DEF ReuseConnection, Reusable
  <1>2. /\ cli.conn \in Slots /\ GoodConns(conns) /\ cli.ver \in RadiusVersion
        /\ cli.next \in Tokens \union {None} /\ at[p].n + 1 \in 0..Attempts
    BY <1>1, AttemptFacts DEF Inv1, Typed
  <1>3. Written(p, cli.conn, conns, cli.ver, cli.next, at[p].n + 1)
    BY <1>1, <1>2, Writes, Zenon
  <1>4. conns[cli.conn].ver = cli.ver /\ (cli.ver = V1_1 => cli.next # None)
    BY <1>1 DEF Inv2, ClientVersion
  <1>5. None \notin RadiusVersion
    BY DEF None, RadiusVersion, V1_0, V1_1
  <1>6. PICK c, ver, next, n : c = cli.conn /\ ver = cli.ver /\ next = cli.next /\ n = at[p].n + 1
    OBVIOUS
  <1>7. /\ conns[c].ver \in conf.versions
        /\ conns[c].srv = "serving" => conns[c].sver = conns[c].ver /\ conns[c].ver \in srv.versions
        /\ conns[c].ver = V1_1 => conns[c].tls = 13
    BY <1>2, <1>4, <1>5, <1>6 DEF Inv2, EndsAgreeOnVersion
  <1>8. \A m \in conns[c].sent : m.ver = conns[c].ver /\ (m.token = None <=> m.ver = V1_0)
    BY <1>2, <1>6 DEF Inv2, WireMatchesVersion
  <1>9. Written(p, c, conns, ver, next, n) /\ Holds(p)
    BY <1>1, <1>3, <1>6 DEF Begins
  <1> QED
    BY <1>1, <1>2, <1>4, <1>6, <1>7, <1>8, <1>9, VersionsWritten

LEMMA ConnectedVersions ==
    ASSUME Inv1, Inv2, NEW p \in Sender, NEW c \in Slots, NEW token \in FirstTokens,
           Connected(p, c, token)
    PROVE  Inv2'
  <1> DEFINE cs == [conns EXCEPT ![c] = Handshake]
             next == IF Handshake.ver = V1_1 THEN token ELSE None
  <1>1. /\ next = IF Handshake.ver = V1_1 THEN token ELSE None
        /\ cs[c] = Handshake /\ \A d \in Slots : d # c => cs[d] = conns[d]
        /\ next \in Tokens \union {None}
        /\ Written(p, c, cs, Handshake.ver, next, at[p].n)
        /\ Holds(p) /\ UNCHANGED <<conf, srv>>
    BY ConnectedWrites
  <1> HIDE DEF cs, next
  <1>2. Handshake.ver \in RadiusVersion /\ Handshake.ver # None
    BY HandshakeTyped DEF Connected
  <1>3. token # None
    BY RadSecAssumption, TokenSpaceAssumption DEF FirstTokens, None
  <1>4. /\ Handshake.ver \in conf.versions
        /\ Handshake.srv = "serving" =>
              Handshake.sver = Handshake.ver /\ Handshake.ver \in srv.versions
        /\ Handshake.ver = V1_1 => Handshake.tls = 13
        /\ Handshake.up = "open" /\ Handshake.sent = {}
    BY <1>2, HandshakeAgrees, HandshakeTyped DEF Inv2
  <1>5. PICK ver, n : ver = Handshake.ver /\ n = at[p].n
    OBVIOUS
  <1>6. Written(p, c, cs, ver, next, n)
    BY <1>1, <1>5
  <1> QED
    BY <1>1, <1>2, <1>3, <1>4, <1>5, <1>6, VersionsWritten

\* The server's steps and close() do not touch a connection that is in use.
LEMMA RestingVersions ==
    ASSUME Inv1, Inv2, ServerFloor', Changes(conns, conns'),
           UNCHANGED <<conf, pc, pkt, at>>, cli' = cli \/ cli' = NoClient,
           srv' = srv \/ \A c \in Slots : conns'[c].srv = "closed",
           cli' = cli => \A c \in Slots : conns[c].up # "closed" => Untouched(c),
           \A p \in Sender : Waits(p) => conns'[at[p].conn].ver = conns[at[p].conn].ver
    PROVE  Inv2'
  <1>1. cli'.conn # NoConn => cli' = cli /\ Untouched(cli.conn)
    BY NoClientTyped DEF Inv1, Typed, Inv2, ClientVersion
  <1>2. \A p \in Sender : Waits(p)' =>
                /\ Waits(p) /\ at'[p].conn = at[p].conn /\ pkt'[p].ver = pkt[p].ver
                /\ conns'[at[p].conn].ver = conns[at[p].conn].ver
    BY DEF Waits
  <1> QED
    BY <1>1, <1>2, VersionsKept

\* The server's end of a connection closes: the client's is as it was.
LEMMA ServerEndUntouched ==
    ASSUME NEW c \in Slots, NEW r, ConnTyped(r), CodesKnown(r),
           r.ver = conns[c].ver, r.up = conns[c].up,
           conns'[c] = r \/ conns'[c] = ServerEnd(c, r)
    PROVE  /\ conns[c].up # "closed" => Untouched(c)
           /\ (\E p \in Sender : at[p].conn = c) => conns'[c].ver = conns[c].ver
  BY ServerEndRecord DEF Untouched

LEMMA Inv2Step == Inv1 /\ Inv2 /\ [Next]_vars => Inv2'
  <1> SUFFICES ASSUME Inv1, Inv2, [Next]_vars PROVE Inv2'
    OBVIOUS
  <1>1. GoodConns(conns) /\ \A p \in Sender : Waits(p) => at[p].conn \in Slots
    BY AttemptFacts DEF Inv1, Typed
  <1>2. CASE UNCHANGED vars
    <2>1. ServerFloor'
      BY <1>2 DEF vars, Inv2, ServerFloor
    <2> QED
      BY <1>1, <1>2, <2>1, NoChange, RestingVersions DEF vars, Untouched
  <1>3. ASSUME NEW p \in Sender, SenderStep(p) \/ Cancel(p) PROVE Inv2'
    BY <1>3, SenderQuiet, QuietVersions, ReuseVersions, ConnectedVersions, ReadHeaderVersions, Zenon
       DEF SenderStep
  <1>4. ASSUME NEW c \in Slots, NEW r, ConnTyped(r), CodesKnown(r), r.ver = conns[c].ver,
               conns'[c] = r \/ conns'[c] = ServerEnd(c, r), r.up = conns[c].up,
               \A d \in Slots : d # c => conns'[d] = conns[d],
               Changes(conns, conns'), UNCHANGED <<conf, srv, pc, pkt, at, cli>>
        PROVE  Inv2'
    <2>1. \A d \in Slots : conns[d].up # "closed" => Untouched(d)
      BY <1>4, ServerEndUntouched DEF Untouched
    <2>2. \A p \in Sender : Waits(p) => conns'[at[p].conn].ver = conns[at[p].conn].ver
      BY <1>1, <1>4, ServerEndUntouched
    <2>3. ServerFloor'
      BY <1>4 DEF Inv2, ServerFloor
    <2> QED
      BY <1>4, <2>1, <2>2, <2>3, RestingVersions
  <1>5. ASSUME NEW c \in Slots, Serve(c) PROVE Inv2'
    <2>1. PICK r, x : /\ conns' = [conns EXCEPT ![c] = x] /\ Evolves(conns[c], x)
                      /\ r.ver = conns[c].ver /\ r.up = conns[c].up
                      /\ x = r \/ x = ServerEnd(c, r)
                      /\ ConnTyped(r) /\ CodesKnown(r)
                      /\ UNCHANGED <<conf, srv, clientVars>>
      BY <1>5, ServeRecord, Zenon
    <2>2. conns'[c] = x /\ (\A d \in Slots : d # c => conns'[d] = conns[d]) /\ Changes(conns, conns')
      BY <1>1, <2>1, OneChange
    <2> QED
      BY <1>4, <2>1, <2>2 DEF clientVars
  <1>6. ASSUME NEW c \in Slots, ServerStops(c) PROVE Inv2'
    <2>1. /\ conns' = [conns EXCEPT ![c] = ServerEnd(c, conns[c])]
          /\ UNCHANGED <<conf, srv, clientVars>>
      BY <1>6 DEF ServerStops
    <2>2. ConnTyped(conns[c]) /\ CodesKnown(conns[c])
      BY <1>1 DEF GoodConns
    <2>3. conns'[c] = ServerEnd(c, conns[c]) /\ \A d \in Slots : d # c => conns'[d] = conns[d]
      BY <1>1, <2>1 DEF GoodConns
    <2> QED
      BY <1>4, <1>6, <2>1, <2>2, <2>3, ServerStopsKeeps DEF clientVars
  <1>7. ASSUME NEW c \in Slots, NEW how \in {"eof", "reset"}, PeerGone(c, how) PROVE Inv2'
    <2> DEFINE q == [conns[c] EXCEPT !.up = how, !.out = IF how = "reset" THEN <<>> ELSE @]
    <2>1. UNCHANGED <<conf, srv, clientVars>>
      BY <1>7 DEF PeerGone
    <2>2. conns' = [conns EXCEPT ![c] = q]
      BY <1>1, <1>7 DEF PeerGone, GoodConns
    <2>3. q.up = how /\ q.ver = conns[c].ver
      <3>1. ConnTyped(conns[c])
        BY <1>1 DEF GoodConns
      <3> QED
        BY <3>1 DEF ConnTyped
    <2> HIDE DEF q
    <2>4. conns'[c] = q /\ \A d \in Slots : d # c => conns'[d] = conns[d]
      BY <1>1, <2>2 DEF GoodConns
    <2>5. (\A d \in Slots : Untouched(d)) /\ \A d \in Slots : conns'[d].ver = conns[d].ver
      BY <2>3, <2>4 DEF Untouched
    <2>6. ServerFloor'
      BY <2>1 DEF Inv2, ServerFloor
    <2> QED
      BY <1>1, <1>7, <2>1, <2>5, <2>6, PeerGoneKeeps, RestingVersions DEF clientVars
  <1>8. CASE UserClose
    <2>1. /\ cli.conn # NoConn /\ cli' = NoClient /\ UNCHANGED <<conf, srv, pc, pkt, at>>
          /\ conns' = [conns EXCEPT ![cli.conn] =
                          Settled(cli.conn, [conns[cli.conn] EXCEPT !.up = "closed"])]
      BY <1>8 DEF UserClose
    <2>2. cli' # cli
      BY <2>1, NoClientTyped
    <2>3. ASSUME NEW p \in Sender, Waits(p)
          PROVE  conns'[at[p].conn].ver = conns[at[p].conn].ver
      <3>1. CASE at[p].conn # cli.conn
        BY <1>1, <2>1, <2>3, <3>1 DEF GoodConns
      <3>2. CASE at[p].conn = cli.conn
        <4>1. conns'[cli.conn] = [conns[cli.conn] EXCEPT !.up = "closed"]
          BY <1>1, <2>1, <2>3, <3>2 DEF GoodConns, Settled
        <4>2. ConnTyped(conns[cli.conn])
          BY <1>1, <2>3, <3>2 DEF GoodConns
        <4> QED
          BY <3>2, <4>1, <4>2 DEF ConnTyped
      <3> QED
        BY <3>1, <3>2
    <2>4. ServerFloor'
      BY <2>1 DEF Inv2, ServerFloor
    <2> QED
      BY <1>8, <2>1, <2>2, <2>3, <2>4, UserCloseKeeps, RestingVersions
  <1>9. ASSUME NEW v \in ServerVersions, NEW tls \in TlsVersion, Restart(v, tls) PROVE Inv2'
    <2>1. /\ srv' = [versions |-> v, tls |-> tls] /\ tls >= EnforceTlsVersionFloor(12, v)
          /\ UNCHANGED <<conf, clientVars>>
      BY <1>9 DEF Restart
    <2>2. ServerFloor'
      BY <2>1 DEF ServerFloor, EnforceTlsVersionFloor, TlsVersion
    <2>3. Changes(conns, conns') /\ \A c \in Slots : conns'[c] = ServerEnd(c, conns[c])
      BY <1>9, RestartKeeps
    <2>4. ASSUME NEW c \in Slots
          PROVE  /\ conns'[c].srv = "closed" /\ (conns[c].up # "closed" => Untouched(c))
                 /\ (\E p \in Sender : at[p].conn = c) => conns'[c].ver = conns[c].ver
      <3>1. ConnTyped(conns[c]) /\ CodesKnown(conns[c])
        BY <1>1 DEF GoodConns
      <3> QED
        BY <2>3, <3>1, ServerEndUntouched, ServerEndRecord
    <2> QED
      BY <1>1, <2>1, <2>2, <2>3, <2>4, RestingVersions DEF clientVars
  <1> QED
    BY <1>2, <1>3, <1>5, <1>6, <1>7, <1>8, <1>9, Zenon DEF Next, ServerStep

LEMMA Inv2Starts == Init => Inv2
  <1> SUFFICES ASSUME Init PROVE Inv2
    OBVIOUS
  <1>1. conf.server.tls \in {12, 13} /\ conf \in Config
    BY RadSecAssumption DEF Init, Config, TlsVersion
  <1>2. ServerFloor
    BY <1>1 DEF Init, ServerFloor, EnforceTlsVersionFloor
  <1>3. ClientVersion /\ PacketVersion
    BY DEF Init, ClientVersion, PacketVersion, NoClient, Waits
  <1>4. EndsAgreeOnVersion /\ WireMatchesVersion
    BY DEF Init, EndsAgreeOnVersion, WireMatchesVersion, Dead
  <1> QED
    BY <1>2, <1>3, <1>4 DEF Inv2

LEMMA Inv2Always == Spec => []Inv2
  BY Inv1Always, Inv2Starts, Inv2Step, PTL DEF Spec

\* Whatever versions and TLS versions the two ends are configured for, and
\* whatever the server is restarted with: the ends of a connection that is served
\* agree on the version, each was configured for it, and version 1.1 runs over
\* TLS 1.3 only.
THEOREM RadSecEndsAgree == Spec => []EndsAgreeOnVersion
  BY Inv2Always, PTL DEF Inv2

\* Over all attempts, connections and EAP rounds of a packet: it goes out in the
\* version of the connection, with a Token exactly in version 1.1.
THEOREM RadSecWireMatches == Spec => []WireMatchesVersion
  BY Inv2Always, PTL DEF Inv2

-----------------------------------------------------------------------------
(* What is under way. *)

\* A sender that has nothing to do with a step.
Same(q) == pc'[q] = pc[q] /\ at'[q] = at[q] /\ round'[q] = round[q]

\* A connection loses what is under way, if anything changes.
Shrinks(c) ==
    /\ conns'[c].in \in {conns[c].in, <<>>}
    /\ conns'[c].out \in {conns[c].out, <<>>}
    /\ conns'[c].up = "open" => conns[c].up = "open"

\* Who waits on c goes on waiting or is gone.
Steady(c) ==
    /\ \A q \in Sender : Gone(q) => Gone(q)'
    /\ \A q \in Sender : Waits(q) /\ at[q].conn = c => Gone(q)' \/ Same(q)
    /\ \A q \in Sender : at'[q].conn = c => Same(q)

LEMMA SteadyRequest ==
    ASSUME NEW c \in Slots, Steady(c), NEW m, NEW last, RequestInOrder(c, m, last)
    PROVE  RequestInOrder(c, m, last)'
  <1>1. m.from \in Sender
    BY DEF RequestInOrder
  <1>2. CASE Gone(m.from)
    BY <1>1, <1>2 DEF RequestInOrder, Steady
  <1>3. CASE ~Gone(m.from)
    <2>1. /\ Awaits(m.from, c, m.round) /\ last
          /\ pc[m.from] = "body" => Gone(at[m.from].got.to)
      BY <1>3 DEF RequestInOrder
    <2>2. Gone(m.from)' \/ Same(m.from)
      BY <1>1, <2>1 DEF Steady, Awaits
    <2> QED
      BY <1>1, <2>1, <2>2 DEF RequestInOrder, Awaits, Waits, Same, Steady, Gone
  <1> QED
    BY <1>2, <1>3

LEMMA SteadyUnit ==
    ASSUME NEW c \in Slots, Steady(c), NEW u, NEW i, NEW last, UnitInOrder(c, u, i, last),
           conns'[c].in \in {conns[c].in, <<>>}
    PROVE  UnitInOrder(c, u, i, last)'
  <1>1. u.reply.to \in Sender
    BY DEF UnitInOrder
  <1>2. CASE Gone(u.reply.to)
    BY <1>1, <1>2 DEF UnitInOrder, Steady
  <1>3. CASE ~Gone(u.reply.to)
    <2>1. /\ Awaits(u.reply.to, c, u.reply.round)
          /\ conns[c].in = <<>>
          /\ \/ u.part = "header" /\ i = last - 1
             \/ u.part = "body" /\ i = last /\ (pc[u.reply.to] = "header" => i > 1)
      BY <1>3 DEF UnitInOrder
    <2>2. Gone(u.reply.to)' \/ Same(u.reply.to)
      BY <1>1, <2>1 DEF Steady, Awaits
    <2> QED
      BY <1>1, <2>1, <2>2 DEF UnitInOrder, Awaits, Waits, Same
  <1> QED
    BY <1>2, <1>3

LEMMA SteadyHeader ==
    ASSUME NEW c \in Slots, Steady(c), HeaderInOrder(c), NEW q \in Sender,
           pc'[q] = "body", at'[q].conn = c
    PROVE  /\ at'[q] = at[q] /\ pc[q] = "body" /\ at[q].conn = c
           /\ \/ Gone(at[q].got.to)'
              \/ /\ at[q].got.to = q /\ at[q].got.round = round'[q]
                 /\ conns[c].in = <<>> /\ Len(conns[c].out) <= 1
  <1>1. Same(q)
    BY DEF Steady
  <1>2. pc[q] = "body" /\ at[q].conn = c /\ at'[q] = at[q] /\ round'[q] = round[q]
    BY <1>1 DEF Same
  <1>3. \/ Gone(at[q].got.to)
        \/ /\ at[q].got.to = q /\ at[q].got.round = round[q]
           /\ conns[c].in = <<>> /\ Len(conns[c].out) <= 1
    BY <1>2 DEF HeaderInOrder
  <1>4. Gone(at[q].got.to) => pc'[at[q].got.to] = "done" /\ used'.cancels > 0 /\ at[q].got.to \in Sender
    BY DEF Steady, Gone
  <1> QED
    BY <1>2, <1>3, <1>4 DEF Gone

LEMMA OrderedKept ==
    ASSUME NEW c \in Slots, Ordered(c), Steady(c), Shrinks(c)
    PROVE  Ordered(c)'
  <1>1. DOMAIN <<>> = {} /\ Len(<<>>) = 0
    OBVIOUS
  <1>2. RequestsInOrder(c)'
    <2> SUFFICES ASSUME NEW i \in DOMAIN conns'[c].in
                 PROVE  RequestInOrder(c, conns[c].in[i], i = Len(conns[c].in))'
      BY DEF RequestsInOrder
    <2>1. conns'[c].in = conns[c].in
      BY <1>1 DEF Shrinks
    <2>2. PICK m, last : m = conns[c].in[i] /\ last = (i = Len(conns[c].in))
      OBVIOUS
    <2>3. RequestInOrder(c, m, last)
      BY <2>1, <2>2 DEF Ordered, RequestsInOrder
    <2>4. RequestInOrder(c, m, last)'
      BY <2>3, SteadyRequest
    <2> QED
      BY <2>1, <2>2, <2>4
  <1>3. RepliesInOrder(c)'
    <2> SUFFICES ASSUME NEW i \in DOMAIN conns'[c].out
                 PROVE  UnitInOrder(c, conns[c].out[i], i, Len(conns[c].out))'
      BY DEF RepliesInOrder
    <2>1. conns'[c].out = conns[c].out
      BY <1>1 DEF Shrinks
    <2>2. PICK u, last : u = conns[c].out[i] /\ last = Len(conns[c].out)
      OBVIOUS
    <2>3. UnitInOrder(c, u, i, last)
      BY <2>1, <2>2 DEF Ordered, RepliesInOrder
    <2>4. UnitInOrder(c, u, i, last)'
      BY <2>3, SteadyUnit DEF Shrinks
    <2> QED
      BY <2>1, <2>2, <2>4
  <1>4. HeaderInOrder(c)'
    <2> SUFFICES ASSUME NEW q \in Sender, pc'[q] = "body", at'[q].conn = c
                 PROVE  \/ Gone(at[q].got.to)'
                        \/ /\ at'[q].got.to = q /\ at'[q].got.round = round'[q]
                           /\ conns'[c].in = <<>> /\ Len(conns'[c].out) <= 1
      BY DEF HeaderInOrder
    <2>1. /\ at'[q] = at[q]
          /\ \/ Gone(at[q].got.to)'
             \/ /\ at[q].got.to = q /\ at[q].got.round = round'[q]
                /\ conns[c].in = <<>> /\ Len(conns[c].out) <= 1
      BY SteadyHeader DEF Ordered
    <2>2. Len(conns'[c].out) = Len(conns[c].out) \/ Len(conns'[c].out) = 0
      BY <1>1 DEF Shrinks
    <2> QED
      BY <1>1, <2>1, <2>2 DEF Shrinks
  <1> QED
    BY <1>2, <1>3, <1>4 DEF Ordered

\* The server takes a request off the stream and may answer it: the request
\* that somebody waits on is the last one, so nothing follows its reply.
LEMMA OrderedServed ==
    ASSUME NEW c \in Slots, Ordered(c), Steady(c), ConnTyped(conns[c]), conns[c].in # <<>>,
           conns'[c].in = Tail(conns[c].in) \/ conns'[c].in = <<>>,
           NEW reply, reply.to = Head(conns[c].in).from, reply.round = Head(conns[c].in).round,
           conns'[c].out = conns[c].out \/ conns'[c].out = Framed(conns[c].out, reply)
    PROVE  Ordered(c)'
  <1>0. PICK s, o : s = conns[c].in /\ o = conns[c].out
    OBVIOUS
  <1>1. /\ Len(s) \in Nat /\ Len(s) >= 1 /\ Len(Tail(s)) = Len(s) - 1
        /\ DOMAIN s = 1..Len(s) /\ DOMAIN Tail(s) = 1..(Len(s) - 1)
        /\ \A i \in 1..(Len(s) - 1) : i + 1 \in DOMAIN s /\ Tail(s)[i] = s[i + 1]
        /\ Head(s) = s[1]
    <2>1. s \in Seq({s[i] : i \in DOMAIN s})
      BY <1>0 DEF ConnTyped
    <2>2. s # <<>>
      BY <1>0
    <2> QED
      BY <2>1, <2>2, TailFacts, Zenon
  <1>2. DOMAIN <<>> = {} /\ Len(<<>>) = 0
    OBVIOUS
  <1>3. o \in Seq({o[i] : i \in DOMAIN o})
    BY <1>0 DEF ConnTyped
  <1>4. IsFramed(o, reply, Framed(o, reply))
    BY <1>3, FrameFacts, Zenon
  <1>5. \A i \in DOMAIN s : RequestInOrder(c, s[i], i = Len(s))
    BY <1>0 DEF Ordered, RequestsInOrder
  <1>6. \A i \in DOMAIN o : UnitInOrder(c, o[i], i, Len(o))
    BY <1>0 DEF Ordered, RepliesInOrder
  <1>7. HeaderInOrder(c) /\ s # <<>>
    BY <1>0 DEF Ordered
  <1>8. PICK t : t = conns'[c].in
    OBVIOUS
  <1>9. t = Tail(s) \/ t = <<>>
    BY <1>0, <1>8
  <1>10. PICK f : f = Framed(o, reply)
    OBVIOUS
  <1>11. PICK out : out = conns'[c].out
    OBVIOUS
  <1>12. (out = o \/ out = f) /\ IsFramed(o, reply, f)
    BY <1>0, <1>4, <1>10, <1>11
  <1>13. reply.to = s[1].from /\ reply.round = s[1].round
    BY <1>0, <1>1
  \* Replies that are under way are for senders that have gone.
  <1>14. ASSUME NEW i \in DOMAIN o PROVE o[i].reply.to \in Sender /\ Gone(o[i].reply.to)'
    <2>1. UnitInOrder(c, o[i], i, Len(o)) /\ conns[c].in # <<>>
      BY <1>0, <1>6, <1>7, <1>14
    <2>2. o[i].reply.to \in Sender /\ Gone(o[i].reply.to)
      BY <2>1 DEF UnitInOrder
    <2> QED
      BY <2>2 DEF Steady, Gone
  <1>15. RequestsInOrder(c)'
    <2> SUFFICES ASSUME NEW i \in DOMAIN conns'[c].in
                 PROVE  RequestInOrder(c, conns[c].in[i], i = Len(conns[c].in))'
      BY DEF RequestsInOrder
    <2>1. t = Tail(s) /\ i \in 1..(Len(s) - 1) /\ t[i] = s[i + 1] /\ Len(t) = Len(s) - 1
      BY <1>1, <1>2, <1>8, <1>9
    <2>2. PICK m, last : m = s[i + 1] /\ last = (i + 1 = Len(s))
      OBVIOUS
    <2>3. RequestInOrder(c, m, last)
      BY <1>1, <1>5, <2>1, <2>2
    <2>4. RequestInOrder(c, m, last)'
      BY <2>3, SteadyRequest
    <2>5. last = (i = Len(t)) /\ m = t[i]
      BY <1>1, <2>1, <2>2
    <2> QED
      BY <1>8, <2>4, <2>5
  <1>16. RequestInOrder(c, s[1], 1 = Len(s))
    BY <1>1, <1>5
  <1>17. PICK m, last : m = s[1] /\ last = (1 = Len(s))
    OBVIOUS
  <1>18. RequestInOrder(c, m, last)'
    BY <1>16, <1>17, SteadyRequest
  <1>19. reply.to \in Sender /\ (Gone(reply.to)' \/ (Awaits(reply.to, c, reply.round)' /\ t = <<>>))
    <2>1. m.from \in Sender /\ (Gone(m.from)' \/ (Awaits(m.from, c, m.round)' /\ last))
      BY <1>18 DEF RequestInOrder
    <2>2. last => t = <<>>
      <3> SUFFICES ASSUME Len(s) = 1, t = Tail(s) PROVE t = <<>>
        BY <1>9, <1>17
      <3>1. s \in Seq({s[i] : i \in DOMAIN s})
        BY <1>0 DEF ConnTyped
      <3>2. t \in Seq({t[i] : i \in DOMAIN t})
        BY <1>7, <3>1, TailFacts
      <3>3. Len(t) = 0
        BY <1>1
      <3> QED
        BY <3>2, <3>3, EmptySeq
    <2> QED
      BY <1>13, <1>17, <2>1, <2>2
  <1>20. RepliesInOrder(c)'
    <2> SUFFICES ASSUME NEW i \in DOMAIN out
                 PROVE  /\ out[i].reply.to \in Sender
                        /\ \/ Gone(out[i].reply.to)'
                           \/ /\ Awaits(out[i].reply.to, c, out[i].reply.round)'
                              /\ t = <<>>
                              /\ \/ out[i].part = "header" /\ i = Len(out) - 1
                                 \/ out[i].part = "body" /\ i = Len(out) /\ i > 1
      BY <1>8, <1>11 DEF RepliesInOrder, UnitInOrder
    <2>1. CASE i \in DOMAIN o /\ out[i] = o[i]
      BY <1>14, <2>1 DEF Gone
    <2>2. CASE ~(i \in DOMAIN o /\ out[i] = o[i])
      <3>1. out = f
        BY <1>12, <2>2
      <3>2. /\ Len(o) \in Nat /\ Len(out) = Len(o) + 2
            /\ i = Len(o) + 1 \/ i = Len(o) + 2
            /\ out[Len(o) + 1] = [part |-> "header", reply |-> reply]
            /\ out[Len(o) + 2] = [part |-> "body", reply |-> reply]
        BY <1>12, <2>2, <3>1 DEF IsFramed
      <3>3. /\ out[i].reply = reply
            /\ \/ out[i].part = "header" /\ i = Len(out) - 1
               \/ out[i].part = "body" /\ i = Len(out) /\ i > 1
        <4>1. CASE i = Len(o) + 1
          BY <3>2, <4>1
        <4>2. CASE i = Len(o) + 2
          BY <3>2, <4>2
        <4> QED
          BY <3>2, <4>1, <4>2
      <3> QED
        BY <1>19, <3>3 DEF Gone, Awaits, Waits
    <2> QED
      BY <2>1, <2>2
  <1>21. HeaderInOrder(c)'
    <2> SUFFICES ASSUME NEW q \in Sender, pc'[q] = "body", at'[q].conn = c
                 PROVE  Gone(at[q].got.to)'
      BY DEF HeaderInOrder
    <2> QED
      BY <1>0, <1>7, SteadyHeader
  <1> QED
    BY <1>15, <1>20, <1>21 DEF Ordered

\* A step of p: the others stay where they are.
Acts(p) ==
    /\ pc[p] # "done"
    /\ \A q \in Sender : q # p => Same(q) /\ result'[q] = result[q] /\ pkt'[q] = pkt[q]
    /\ used.cancels \in Nat /\ used'.cancels \in Nat /\ used.cancels <= used'.cancels

LEMMA CleanBefore ==
    ASSUME NEW c \in Slots, Evolves(conns[c], conns'[c]), Clean(c)',
           used.cancels \in Nat, used'.cancels \in Nat, used.cancels <= used'.cancels
    PROVE  Clean(c)
  BY DEF Clean, Evolves, Blank, None, V1_0

LEMMA Elsewhere ==
    ASSUME InOrder, NEW p \in Sender, Acts(p), NEW c \in Slots, at[p].conn # c,
           at'[p].conn # c, Evolves(conns[c], conns'[c]), Shrinks(c), Clean(c)', InUse(c)'
    PROVE  Ordered(c)'
  <1>1. Steady(c)
    BY DEF Acts, Steady, Gone, Same
  <1>2. Clean(c)
    BY CleanBefore DEF Acts
  <1>3. InUse(c)
    BY DEF InUse, Shrinks, Acts, Same
  <1> QED
    BY <1>1, <1>2, <1>3, OrderedKept DEF InOrder

\* Closing a connection takes away what is under way to the client.
LEMMA ClosedShrinks ==
    ASSUME NEW cs, GoodConns(cs), NEW d \in Slots \union {NoConn}, NEW c \in Slots,
           conns' = ClosedAt(cs, d), cs[c].in = conns[c].in, cs[c].up = conns[c].up,
           c # d => cs[c].out = conns[c].out
    PROVE  Shrinks(c) /\ (c = d => conns'[c].up = "closed")
  <1>1. DOMAIN cs = Slots /\ ConnTyped(cs[c])
    BY DEF GoodConns
  <1>4. /\ c # d => ClosedAt(cs, d)[c] = cs[c]
        /\ d \in Slots => ClosedAt(cs, d)[d] = Tidy([cs[d] EXCEPT !.up = "closed", !.out = <<>>])
    BY <1>1, ClosedAtFacts, Zenon
  <1>2. CASE c # d
    <2>1. conns'[c] = cs[c]
      BY <1>2, <1>4
    <2> QED
      BY <1>2, <2>1 DEF Shrinks
  <1>3. CASE c = d
    <2> DEFINE x == [cs[c] EXCEPT !.up = "closed", !.out = <<>>]
    <2>1. conns'[c] = Tidy(x)
      BY <1>3, <1>4, Zenon
    <2>2. x.in = cs[c].in /\ x.out = <<>> /\ x.up = "closed"
      BY <1>1 DEF ConnTyped
    <2> HIDE DEF x
    <2>3. conns'[c] = x \/ conns'[c] = Dead
      BY <2>1 DEF Tidy
    <2>4. Dead.in = <<>> /\ Dead.out = <<>> /\ Dead.up = "closed"
      BY DEF Dead
    <2> QED
      BY <2>2, <2>3, <2>4 DEF Shrinks
  <1> QED
    BY <1>2, <1>3

\* Who finishes, and what the others see of it.
LEMMA FinishActs ==
    ASSUME Inv1, NEW p \in Sender, NEW x, Finish(p, x)
    PROVE  \A q \in Sender : q # p => result'[q] = result[q]
  BY DEF Finish, Inv1, Typed

LEMMA AttemptFailsActs ==
    ASSUME Inv1, NEW p \in Sender, NEW n, AttemptFails(p, n)
    PROVE  \A q \in Sender : q # p => result'[q] = result[q]
  BY FinishActs DEF AttemptFails

LEMMA QuietActs ==
    ASSUME Inv1, NEW p \in Sender, Quiet(p), pc[p] # "done",
           \A q \in Sender : q # p => result'[q] = result[q] /\ round'[q] = round[q],
           used' = used \/ used' = [used EXCEPT !.cancels = @ + 1]
    PROVE  Acts(p)
  <1>1. used \in Budget
    BY DEF Inv1, Typed, Budget
  <1>2. used.cancels \in Nat /\ used'.cancels \in Nat /\ used.cancels <= used'.cancels
    BY <1>1 DEF Budget
  <1> QED
    BY <1>2 DEF Acts, Quiet, Same

LEMMA SenderActs ==
    ASSUME Inv1, NEW p \in Sender,
           \/ Start(p) \/ DropStale(p) \/ OpenConnection(p) \/ ConnectRefused(p)
           \/ ConnectError(p) \/ TransportError(p) \/ ReadTornFrame(p) \/ ReadBody(p) \/ Cancel(p)
    PROVE  Acts(p) /\ at'[p].conn = NoConn
  <1>1. Quiet(p)
    BY SenderQuiet
  <1>2. at'[p].conn = NoConn
    <2>1. Inv1'
      BY StartKeeps, DropStaleKeeps, OpenKeeps, ConnectRefusedKeeps, ConnectErrorKeeps,
         TransportErrorKeeps, ReadTornFrameKeeps, ReadBodyKeeps, CancelKeeps
    <2> QED
      BY <1>1, <2>1 DEF Quiet, Inv1, AttemptKept, OneAttempt
  <1>3. CASE Start(p)
    <2>1. pc[p] = "idle" /\ UNCHANGED used
      BY <1>3 DEF Start
    <2>2. \/ Finish(p, Outcome("raised")) /\ UNCHANGED round
          \/ round' = [round EXCEPT ![p] = 1] /\ UNCHANGED result
      BY <1>3, Zenon DEF Start
    <2>3. \A q \in Sender : q # p => result'[q] = result[q] /\ round'[q] = round[q]
      BY <2>2, FinishActs DEF Inv1, Typed
    <2> QED
      BY <1>1, <1>2, <2>1, <2>3, QuietActs
  <1>4. CASE DropStale(p)
    <2>1. \A q \in Sender : q # p => result'[q] = result[q] /\ round'[q] = round[q]
      BY <1>4, AttemptFailsActs DEF DropStale
    <2> QED
      BY <1>1, <1>2, <1>4, <2>1, QuietActs DEF DropStale, Begins
  <1>5. CASE OpenConnection(p)
    BY <1>1, <1>2, <1>5, QuietActs DEF OpenConnection, Begins
  <1>6. CASE ConnectRefused(p)
    <2>1. \A q \in Sender : q # p => result'[q] = result[q] /\ round'[q] = round[q]
      BY <1>6, FinishActs DEF ConnectRefused
    <2> QED
      BY <1>1, <1>2, <1>6, <2>1, QuietActs DEF ConnectRefused
  <1>7. CASE ConnectError(p)
    <2>1. \A q \in Sender : q # p => result'[q] = result[q] /\ round'[q] = round[q]
      BY <1>7, AttemptFailsActs DEF ConnectError
    <2> QED
      BY <1>1, <1>2, <1>7, <2>1, QuietActs DEF ConnectError
  <1>8. CASE TransportError(p)
    <2>1. \A q \in Sender : q # p => result'[q] = result[q] /\ round'[q] = round[q]
      BY <1>8, AttemptFailsActs, FinishActs DEF TransportError
    <2> QED
      BY <1>1, <1>2, <1>8, <2>1, QuietActs DEF TransportError, Waits
  <1>9. CASE ReadTornFrame(p)
    <2>1. \A q \in Sender : q # p => result'[q] = result[q] /\ round'[q] = round[q]
      BY <1>9, FinishActs DEF ReadTornFrame
    <2> QED
      BY <1>1, <1>2, <1>9, <2>1, QuietActs DEF ReadTornFrame
  <1>10. CASE Cancel(p)
    <2>1. \A q \in Sender : q # p => result'[q] = result[q] /\ round'[q] = round[q]
      BY <1>10, FinishActs DEF Cancel
    <2> QED
      BY <1>1, <1>2, <1>10, <2>1, QuietActs DEF Cancel
  <1>11. CASE ReadBody(p)
    <2>1. pc[p] = "body" /\ UNCHANGED used
      BY <1>11 DEF ReadBody
    <2>2. \/ Finish(p, Outcome("noreply")) /\ UNCHANGED round
          \/ Finish(p, at[p].got) /\ UNCHANGED round
          \/ RespondAndSend(p, at[p].got)
      BY <1>11, Zenon DEF ReadBody
    <2>3. RespondAndSend(p, at[p].got) =>
              \/ Finish(p, Outcome("raised")) /\ UNCHANGED round
              \/ round' = [round EXCEPT ![p] = @ + 1] /\ UNCHANGED result
      BY Zenon DEF RespondAndSend
    <2>4. \A q \in Sender : q # p => result'[q] = result[q] /\ round'[q] = round[q]
      BY <2>2, <2>3, FinishActs DEF Inv1, Typed
    <2> QED
      BY <1>1, <1>2, <2>1, <2>4, QuietActs
  <1> QED
    BY <1>3, <1>4, <1>5, <1>6, <1>7, <1>8, <1>9, <1>10, <1>11

\* The connections that p does not read from.
LEMMA SenderShrinks ==
    ASSUME Inv1, NEW p \in Sender, NEW c \in Slots, c # at[p].conn,
           \/ Start(p) \/ DropStale(p) \/ OpenConnection(p) \/ ConnectRefused(p)
           \/ ConnectError(p) \/ TransportError(p) \/ ReadTornFrame(p) \/ ReadBody(p) \/ Cancel(p)
    PROVE  Shrinks(c)
  <1>1. /\ GoodConns(conns) /\ at[p].conn \in Slots \union {NoConn}
        /\ cli.conn \in Slots \union {NoConn}
    BY AttemptFacts
  <1>2. conns' = conns => Shrinks(c)
    BY DEF Shrinks
  <1>3. ASSUME NEW d \in Slots \union {NoConn}, conns' = ClosedAt(conns, d) PROVE Shrinks(c)
    BY <1>1, <1>3, ClosedShrinks
  <1>4. conns' = Leave(p, conns) => Shrinks(c)
    BY <1>1, <1>2, <1>3 DEF Leave
  <1>5. CASE Start(p) \/ ConnectRefused(p) \/ ConnectError(p)
    BY <1>2, <1>5 DEF Start, ConnectRefused, ConnectError
  <1>6. CASE DropStale(p) \/ OpenConnection(p) \/ TransportError(p)
    BY <1>1, <1>3, <1>6 DEF DropStale, OpenConnection, TransportError
  <1>7. CASE ReadTornFrame(p) \/ Cancel(p)
    BY <1>1, <1>3, <1>4, <1>7 DEF ReadTornFrame, Cancel
  <1>8. CASE ReadBody(p)
    <2>1. pc[p] = "body" /\ Arrived(p)
          /\ \/ conns' = ClosedAt(Consume(p), at[p].conn) \/ conns' = Leave(p, Consume(p))
      BY <1>8, Zenon DEF ReadBody
    <2>2. at[p].conn \in Slots
      BY <2>1, AttemptFacts DEF Waits
    <2>3. GoodConns(Consume(p)) /\ Consume(p)[c] = conns[c]
      BY <1>1, <2>1, <2>2, ConsumeChanges, ChangesKeep
    <2>4. conns' = Consume(p) \/ conns' = ClosedAt(Consume(p), at[p].conn)
      BY <2>1 DEF Leave
    <2>5. PICK cs, d : cs = Consume(p) /\ d = at[p].conn
      OBVIOUS
    <2>6. conns' = ClosedAt(cs, d) => Shrinks(c)
      BY <1>1, <2>3, <2>5, ClosedShrinks
    <2> QED
      BY <2>3, <2>4, <2>5, <2>6 DEF Shrinks
  <1> QED
    BY <1>5, <1>6, <1>7, <1>8

\* A sender leaves the connection that it waited on, which no other one does.
LEMMA WaiterLeaves ==
    ASSUME Inv1, NEW p \in Sender, Acts(p), Waits(p), at'[p].conn = NoConn
    PROVE  /\ at[p].conn \in Slots
           /\ \A q \in Sender : Waits(q) => q = p
           /\ \A q \in Sender : at'[q].conn # at[p].conn
  <1>1. at[p].conn \in Slots /\ Holds(p)
    BY AttemptFacts
  <1>2. ASSUME NEW q \in Sender, q # p PROVE ~Waits(q) /\ at'[q].conn = NoConn
    <2>1. pc'[q] = pc[q] /\ at'[q] = at[q]
      BY <1>2 DEF Acts, Same
    <2>2. ~Waits(q)
      BY <1>1, <1>2, <2>1, OthersDoNotWait
    <2> QED
      BY <2>1, <2>2 DEF Inv1, AttemptKept, OneAttempt
  <1> QED
    BY <1>1, <1>2, SlotFacts

\* If it closes it, nothing is read from it any more; if it may have left
\* something behind, it is one of those that have gone.
LEMMA OwnClosed ==
    ASSUME Inv1, NEW p \in Sender, Acts(p), Waits(p), at'[p].conn = NoConn,
           NEW c, c = at[p].conn, conns'[c].up = "closed"
    PROVE  ~InUse(c)'
  BY WaiterLeaves DEF InUse

LEMMA OwnGone ==
    ASSUME Inv1, InOrder, NEW p \in Sender, Acts(p), Waits(p), at'[p].conn = NoConn,
           NEW c, c = at[p].conn, Gone(p)', Evolves(conns[c], conns'[c]), Shrinks(c), Clean(c)'
    PROVE  Ordered(c)'
  <1>1. /\ c \in Slots
        /\ \A q \in Sender : Waits(q) => q = p
        /\ \A q \in Sender : at'[q].conn # c
    BY WaiterLeaves
  <1>2. Steady(c)
    BY <1>1 DEF Acts, Steady, Gone, Same
  <1>3. Clean(c)
    BY <1>1, CleanBefore DEF Acts
  <1>4. InUse(c)
    BY DEF InUse
  <1> QED
    BY <1>1, <1>2, <1>3, <1>4, OrderedKept DEF InOrder

\* A reply that verify_reply accepts, on a connection where that means something,
\* is the sender's own and the last thing on it.
LEMMA OwnReply ==
    ASSUME Inv1, Inv2, InOrder, NEW p \in Sender, pc[p] = "body", NEW c, c = at[p].conn,
           Clean(c), VerifyReply(p, at[p].got)
    PROVE  /\ at[p].got.to = p /\ at[p].got.round = round[p]
           /\ conns[c].in = <<>> /\ Len(conns[c].out) <= 1
  <1>1. c \in Slots /\ Waits(p)
    BY AttemptFacts DEF Waits
  <1>2. InUse(c)
    BY DEF InUse
  <1>3. \/ Gone(at[p].got.to)
        \/ /\ at[p].got.to = p /\ at[p].got.round = round[p]
           /\ conns[c].in = <<>> /\ Len(conns[c].out) <= 1
    BY <1>1, <1>2 DEF InOrder, Ordered, HeaderInOrder
  <1>4. ~Gone(at[p].got.to)
    <2> SUFFICES ASSUME Gone(at[p].got.to) PROVE FALSE
      OBVIOUS
    <2>1. used.cancels > 0 /\ pc[at[p].got.to] = "done"
      BY DEF Gone
    <2>2. used.cancels \in Nat /\ pkt[p].ver = conns[c].ver
      BY <1>1 DEF Inv1, Typed, Inv2, PacketVersion
    <2>3. pkt[p].ver = V1_0
      BY <2>1, <2>2 DEF Clean
    <2>4. at[p].got.to = p
      BY <2>3 DEF VerifyReply, V1_0, V1_1
    <2> QED
      BY <2>1, <2>4
  <1> QED
    BY <1>3, <1>4

\* The stream of a connection that somebody leaves in order is empty.
LEMMA NothingUnderWay ==
    ASSUME NEW c, conns'[c].in = <<>>, conns'[c].out = <<>>, \A q \in Sender : at'[q].conn # c
    PROVE  Ordered(c)'
  <1>1. DOMAIN conns'[c].in = {} /\ DOMAIN conns'[c].out = {}
    OBVIOUS
  <1> QED
    BY <1>1 DEF Ordered, RequestsInOrder, RepliesInOrder, HeaderInOrder

LEMMA LastUnit ==
    ASSUME NEW s, s \in Seq({s[i] : i \in DOMAIN s}), s # <<>>, Len(s) <= 1
    PROVE  Tail(s) = <<>>
  <1>1. /\ Tail(s) \in Seq({Tail(s)[i] : i \in DOMAIN Tail(s)})
        /\ Len(s) \in Nat /\ Len(s) >= 1 /\ Len(Tail(s)) = Len(s) - 1
    BY TailFacts, Zenon
  <1>2. PICK t : t = Tail(s)
    OBVIOUS
  <1>3. t \in Seq({t[i] : i \in DOMAIN t}) /\ Len(t) = 0
    <2>1. Len(s) = 1
      BY <1>1
    <2> QED
      BY <1>1, <1>2, <2>1
  <1> QED
    BY <1>2, <1>3, EmptySeq

LEMMA StreamTyped ==
    ASSUME NEW cs, GoodConns(cs), NEW c \in Slots, NEW s, s = cs[c].in \/ s = cs[c].out
    PROVE  s \in Seq({s[i] : i \in DOMAIN s})
  <1>1. /\ cs[c].in \in Seq({cs[c].in[i] : i \in DOMAIN cs[c].in})
        /\ cs[c].out \in Seq({cs[c].out[i] : i \in DOMAIN cs[c].out})
    BY DEF GoodConns, ConnTyped
  <1> QED
    BY <1>1, Zenon

LEMMA OwnInOrder ==
    ASSUME Inv1, Inv2, InOrder, NEW p \in Sender, Waits(p), NEW c, c = at[p].conn,
           TransportError(p) \/ ReadTornFrame(p) \/ ReadBody(p) \/ Cancel(p),
           Clean(c)', InUse(c)'
    PROVE  Ordered(c)'
  <1>1. Acts(p) /\ at'[p].conn = NoConn /\ Quiet(p)
    BY SenderActs, SenderQuiet
  <1>2. /\ c \in Slots /\ GoodConns(conns)
        /\ \A q \in Sender : at'[q].conn # c
    BY <1>1, WaiterLeaves, AttemptFacts
  <1>3. Evolves(conns[c], conns'[c])
    BY <1>1, <1>2 DEF Quiet, Changes
  <1>4. conns'[c].up # "closed"
    BY <1>1, OwnClosed
  <1>5. conns' # ClosedAt(conns, c)
    BY <1>2, <1>4, ClosedShrinks
  <1>6. Clean(c) /\ InUse(c) /\ Ordered(c)
    BY <1>1, <1>2, <1>3, CleanBefore DEF InUse, InOrder, Acts
  <1>7. conns' = Leave(p, conns) => Shrinks(c)
    BY <1>5 DEF Leave, Shrinks
  <1>8. ASSUME pc'[p] = "done", used'.cancels > 0, conns' = Leave(p, conns) PROVE Ordered(c)'
    <2>1. Gone(p)'
      BY <1>8 DEF Gone
    <2> QED
      BY <1>1, <1>3, <1>7, <1>8, <2>1, OwnGone
  <1>9. CASE TransportError(p)
    BY <1>5, <1>9 DEF TransportError
  <1>10. CASE Cancel(p)
    <2>1. conns' = Leave(p, conns) /\ pc' = [pc EXCEPT ![p] = "done"]
          /\ used' = [used EXCEPT !.cancels = @ + 1]
      BY <1>10 DEF Cancel, Finish
    <2>2. used \in Budget /\ DOMAIN pc = Sender
      BY DEF Inv1, Typed, Budget
    <2>3. used'.cancels > 0 /\ pc'[p] = "done"
      BY <2>1, <2>2 DEF Budget
    <2> QED
      BY <1>8, <2>1, <2>3
  <1>11. CASE ReadTornFrame(p)
    <2>1. /\ pc[p] = "header" /\ conns[c].out # <<>> /\ Head(conns[c].out).part = "body"
          /\ UNCHANGED used
      BY <1>11 DEF ReadTornFrame, Arrived, NextUnit
    <2>2. conns' = Leave(p, conns) /\ pc' = [pc EXCEPT ![p] = "done"]
      BY <1>5, <1>11 DEF ReadTornFrame, Finish
    <2>3. PICK s : s = conns[c].out
      OBVIOUS
    <2>4. s \in Seq({s[i] : i \in DOMAIN s})
      BY <1>2, <2>3, StreamTyped
    <2>5. Len(s) \in Nat /\ Len(s) >= 1 /\ DOMAIN s = 1..Len(s) /\ Head(s) = s[1]
      BY <2>1, <2>3, <2>4, TailFacts
    <2>6. UnitInOrder(c, s[1], 1, Len(s)) /\ s[1].part = "body"
      BY <1>6, <2>1, <2>3, <2>5 DEF Ordered, RepliesInOrder
    <2>7. Gone(s[1].reply.to)
      <3> SUFFICES ASSUME ~Gone(s[1].reply.to) PROVE FALSE
        OBVIOUS
      <3>1. /\ s[1].reply.to \in Sender /\ Awaits(s[1].reply.to, c, s[1].reply.round)
            /\ pc[s[1].reply.to] # "header"
        BY <2>6 DEF UnitInOrder
      <3>2. s[1].reply.to = p
        BY <1>1, <3>1, WaiterLeaves DEF Awaits
      <3> QED
        BY <2>1, <3>1, <3>2
    <2>8. used'.cancels > 0 /\ pc'[p] = "done"
      BY <2>1, <2>2, <2>7 DEF Gone, Inv1, Typed
    <2> QED
      BY <1>8, <2>2, <2>8
  <1>12. CASE ReadBody(p)
    <2>1. /\ pc[p] = "body" /\ Arrived(p) /\ GoodConns(Consume(p))
      BY <1>2, <1>12, ConsumeChanges, ChangesKeep DEF ReadBody
    <2>2. conns' # ClosedAt(Consume(p), c)
      <3>1. Consume(p)[c].in = conns[c].in /\ Consume(p)[c].up = conns[c].up
        BY <1>2, <2>1, ConsumeUntouched
      <3>2. PICK cs : cs = Consume(p)
        OBVIOUS
      <3> QED
        BY <1>2, <1>4, <2>1, <3>1, <3>2, ClosedShrinks
    <2>3. VerifyReply(p, at[p].got) /\ conns' = Leave(p, Consume(p))
      BY <1>12, <2>2, Zenon DEF ReadBody
    <2>4. conns' = Consume(p)
      BY <2>2, <2>3 DEF Leave
    <2>5. conns[c].in = <<>> /\ Len(conns[c].out) <= 1
      BY <1>6, <2>1, <2>3, OwnReply
    <2>6. conns'[c].in = <<>> /\ conns'[c].out = Tail(conns[c].out)
      BY <1>2, <2>1, <2>4, <2>5, ConsumeUntouched
    <2>7. PICK s : s = conns[c].out
      OBVIOUS
    <2>8. s \in Seq({s[i] : i \in DOMAIN s}) /\ s # <<>>
      BY <1>2, <2>1, <2>7, StreamTyped DEF Arrived
    <2>9. Tail(s) = <<>>
      BY <2>5, <2>7, <2>8, LastUnit
    <2> QED
      BY <1>2, <2>6, <2>7, <2>9, NothingUnderWay
  <1> QED
    BY <1>9, <1>10, <1>11, <1>12

\* A header is read: what follows moves up by one.
LEMMA ReadHeaderInOrder ==
    ASSUME Inv1, InOrder, NEW p \in Sender, ReadHeader(p), NEW c, c = at[p].conn, Clean(c)'
    PROVE  Ordered(c)'
  <1>1. /\ pc[p] = "header" /\ Arrived(p) /\ NextUnit(p).part = "header" /\ conns' = Consume(p)
        /\ at' = [at EXCEPT ![p].got = NextUnit(p).reply] /\ pc' = [pc EXCEPT ![p] = "body"]
        /\ UNCHANGED <<round, used>>
    BY DEF ReadHeader
  <1>2. c \in Slots /\ Waits(p) /\ Holds(p) /\ GoodConns(conns)
    BY <1>1, AttemptFacts DEF Waits
  <1>3. PICK s : s = conns[c].out
    OBVIOUS
  <1>4. s \in Seq({s[i] : i \in DOMAIN s}) /\ s # <<>> /\ NextUnit(p) = Head(s)
    BY <1>1, <1>2, <1>3, StreamTyped DEF Arrived, NextUnit
  <1>5. PICK t : t = Tail(s)
    OBVIOUS
  <1>6. /\ Len(s) \in Nat /\ Len(s) >= 1 /\ Len(t) = Len(s) - 1
        /\ DOMAIN s = 1..Len(s) /\ DOMAIN t = 1..(Len(s) - 1)
        /\ \A i \in 1..(Len(s) - 1) : i + 1 \in DOMAIN s /\ t[i] = s[i + 1]
        /\ Head(s) = s[1]
    BY <1>4, <1>5, TailFacts
  <1>7. PICK u : u = s[1]
    OBVIOUS
  <1>8. u.part = "header" /\ NextUnit(p) = u /\ 1 \in DOMAIN s
    BY <1>1, <1>4, <1>6, <1>7
  <1>9. /\ conns'[c].ver = conns[c].ver /\ conns'[c].in = conns[c].in /\ conns'[c].out = t
    BY <1>1, <1>2, <1>3, <1>5, ConsumeUntouched
  <1>10. Ordered(c)
    BY <1>1, <1>2, <1>9 DEF InOrder, InUse, Clean
  <1>11. /\ pc'[p] = "body" /\ at'[p].got = u.reply /\ at'[p].conn = c
         /\ \A q \in Sender : q # p => pc'[q] = pc[q] /\ at'[q] = at[q]
    <2>1. DOMAIN at = Sender /\ DOMAIN pc = Sender /\ AttemptTyped(at[p])
      BY DEF Inv1, Typed
    <2>2. at'[p] = [at[p] EXCEPT !.got = u.reply]
      BY <1>1, <1>8, <2>1
    <2> QED
      BY <1>1, <2>1, <2>2 DEF AttemptTyped
  <1>12. \A q \in Sender : Waits(q) => q = p
    BY <1>2, <1>11, OthersDoNotWait
  <1>13. \A q : Gone(q) => pc'[q] = "done" /\ used'.cancels > 0 /\ q \in Sender
    BY <1>1, <1>11 DEF Gone
  <1>14. UnitInOrder(c, u, 1, Len(s))
    BY <1>3, <1>7, <1>8, <1>10 DEF Ordered, RepliesInOrder
  <1>15. \/ Gone(u.reply.to)
         \/ /\ u.reply.to = p /\ u.reply.round = round[p] /\ conns[c].in = <<>> /\ Len(s) = 2
    <2>1. \/ Gone(u.reply.to)
          \/ /\ u.reply.to \in Sender /\ Awaits(u.reply.to, c, u.reply.round)
             /\ conns[c].in = <<>> /\ 1 = Len(s) - 1
      BY <1>8, <1>14 DEF UnitInOrder
    <2> QED
      BY <1>6, <1>12, <2>1 DEF Awaits
  <1>16. RequestsInOrder(c)'
    <2> SUFFICES ASSUME NEW i \in DOMAIN conns'[c].in
                 PROVE  RequestInOrder(c, conns[c].in[i], i = Len(conns[c].in))'
      BY DEF RequestsInOrder
    <2>1. PICK m, last : m = conns[c].in[i] /\ last = (i = Len(conns[c].in))
      OBVIOUS
    <2>2. RequestInOrder(c, m, last) /\ conns[c].in # <<>>
      <3>1. DOMAIN <<>> = {}
        OBVIOUS
      <3> QED
        BY <1>9, <1>10, <2>1, <3>1 DEF Ordered, RequestsInOrder
    <2>3. Gone(u.reply.to)
      BY <1>15, <2>2
    <2>4. m.from \in Sender /\ (Gone(m.from) \/ (m.from = p /\ m.round = round[p] /\ last))
      BY <1>12, <2>2 DEF RequestInOrder, Awaits
    <2>5. RequestInOrder(c, m, last)'
      BY <1>1, <1>11, <1>13, <2>3, <2>4 DEF RequestInOrder, Awaits, Waits, Gone
    <2> QED
      BY <1>9, <2>1, <2>5
  <1>17. RepliesInOrder(c)'
    <2> SUFFICES ASSUME NEW i \in DOMAIN t
                 PROVE  UnitInOrder(c, t[i], i, Len(t))'
      BY <1>9 DEF RepliesInOrder
    <2>1. PICK v : v = t[i]
      OBVIOUS
    <2>2. i \in Nat /\ UnitInOrder(c, v, i + 1, Len(s))
      <3>1. i \in Nat /\ i + 1 \in DOMAIN s /\ v = s[i + 1]
        BY <1>6, <2>1
      <3>2. \A j \in DOMAIN s : UnitInOrder(c, s[j], j, Len(s))
        BY <1>3, <1>10 DEF Ordered, RepliesInOrder
      <3> QED
        BY <3>1, <3>2
    <2>3. /\ v.reply.to \in Sender
          /\ \/ Gone(v.reply.to)
             \/ /\ v.reply.to = p /\ v.reply.round = round[p]
                /\ conns[c].in = <<>>
                /\ \/ v.part = "header" /\ i + 1 = Len(s) - 1
                   \/ v.part = "body" /\ i + 1 = Len(s)
      BY <1>12, <2>2 DEF UnitInOrder, Awaits
    <2>4. i + 1 = Len(s) - 1 => i = Len(t) - 1
      BY <1>6, <2>2
    <2>5. i + 1 = Len(s) => i = Len(t)
      BY <1>6, <2>2
    <2> QED
      BY <1>1, <1>9, <1>11, <1>13, <2>1, <2>3, <2>4, <2>5 DEF UnitInOrder, Awaits, Waits, Gone
  <1>18. HeaderInOrder(c)'
    <2> SUFFICES ASSUME NEW q \in Sender, pc'[q] = "body", at'[q].conn = c
                 PROVE  \/ Gone(at[q].got.to)'
                        \/ /\ at'[q].got.to = q /\ at'[q].got.round = round'[q]
                           /\ conns'[c].in = <<>> /\ Len(conns'[c].out) <= 1
      BY DEF HeaderInOrder
    <2>1. q = p
      BY <1>11, <1>12 DEF Waits
    <2> QED
      BY <1>1, <1>6, <1>9, <1>11, <1>13, <1>15, <2>1, SMTT(30) DEF Gone
  <1> QED
    BY <1>16, <1>17, <1>18 DEF Ordered

\* A request is written to a connection on which all that is under way is from
\* senders that have gone.
LEMMA WrittenInOrder ==
    ASSUME Inv1, NEW p \in Sender, Holds(p), NEW c \in Slots, NEW cs, GoodConns(cs),
           NEW ver, NEW next, NEW n, Written(p, c, cs, ver, next, n),
           pc[p] # "done", UNCHANGED <<round, used>>,
           \A i \in DOMAIN cs[c].in : Gone(cs[c].in[i].from),
           \A i \in DOMAIN cs[c].out : Gone(cs[c].out[i].reply.to)
    PROVE  Ordered(c)'
  <1>1. /\ pc' = [pc EXCEPT ![p] = "header"] /\ at' = [at EXCEPT ![p] = at'[p]]
        /\ at'[p].conn = c /\ conns'[c].out = cs[c].out
        /\ \/ conns'[c].in = cs[c].in
           \/ \E m : m.from = p /\ m.round = round[p] /\ conns'[c].in = Append(cs[c].in, m)
    BY DEF Written, Carries
  <1>2. pc'[p] = "header" /\ \A q \in Sender : q # p => pc'[q] = pc[q]
    BY <1>1 DEF Inv1, Typed
  <1>3. \A q : Gone(q) => pc'[q] = "done" /\ used'.cancels > 0 /\ q \in Sender
    BY <1>2 DEF Gone
  <1>4. PICK s, t : s = cs[c].in /\ t = conns'[c].in
    OBVIOUS
  <1>5. s \in Seq({s[i] : i \in DOMAIN s}) /\ \A i \in DOMAIN s : Gone(s[i].from)
    BY <1>4, StreamTyped
  <1>6. ASSUME NEW i \in DOMAIN t
        PROVE  Gone(t[i].from) \/ (t[i].from = p /\ t[i].round = round[p] /\ i = Len(t))
    <2>1. CASE t = s
      BY <1>5, <1>6, <2>1
    <2>2. CASE t # s
      <3>1. PICK m : m.from = p /\ m.round = round[p] /\ t = Append(s, m)
        BY <1>1, <1>4, <2>2
      <3>2. /\ Len(s) \in Nat /\ Len(t) = Len(s) + 1
            /\ DOMAIN s = 1..Len(s) /\ DOMAIN t = 1..(Len(s) + 1)
            /\ \A j \in 1..Len(s) : t[j] = s[j]
            /\ t[Len(s) + 1] = m
        BY <1>5, <3>1, AppendFacts
      <3>3. i \in DOMAIN s \/ i = Len(s) + 1
        BY <1>6, <3>2
      <3>4. CASE i \in DOMAIN s
        BY <1>5, <3>2, <3>4
      <3>5. CASE i = Len(s) + 1
        <4>1. t[i] = m /\ i = Len(t)
          BY <3>2, <3>5
        <4> QED
          BY <3>1, <4>1
      <3> QED
        BY <3>3, <3>4, <3>5
    <2> QED
      BY <2>1, <2>2
  <1>7. RequestsInOrder(c)'
    <2> SUFFICES ASSUME NEW i \in DOMAIN t
                 PROVE  RequestInOrder(c, t[i], i = Len(t))'
      BY <1>4 DEF RequestsInOrder
    <2> QED
      BY <1>1, <1>2, <1>3, <1>6 DEF RequestInOrder, Awaits, Waits, Gone
  <1>8. RepliesInOrder(c)'
    <2> SUFFICES ASSUME NEW i \in DOMAIN cs[c].out
                 PROVE  UnitInOrder(c, cs[c].out[i], i, Len(cs[c].out))'
      BY <1>1 DEF RepliesInOrder
    <2> QED
      BY <1>3 DEF UnitInOrder, Gone
  <1>9. HeaderInOrder(c)'
    <2> SUFFICES ASSUME NEW q \in Sender, pc'[q] = "body" PROVE FALSE
      BY DEF HeaderInOrder
    <2>1. q # p
      BY <1>2
    <2> QED
      BY <1>2, <2>1, HolderAlone DEF Active
  <1> QED
    BY <1>7, <1>8, <1>9 DEF Ordered

LEMMA WrittenActs ==
    ASSUME Inv1, NEW p \in Sender, pc[p] # "done", NEW c, NEW cs, NEW ver, NEW next, NEW n,
           Written(p, c, cs, ver, next, n), UNCHANGED <<round, result, used>>
    PROVE  Acts(p) /\ at'[p].conn = c /\ (\A d \in Slots : d # c => conns'[d] = cs[d])
           /\ result'[p] = result[p]
  <1>1. /\ pc' = [pc EXCEPT ![p] = "header"] /\ at' = [at EXCEPT ![p] = at'[p]]
        /\ \A q \in Sender : q # p => pkt'[q] = pkt[q]
        /\ at'[p].conn = c /\ \A d \in Slots : d # c => conns'[d] = cs[d]
    BY DEF Written
  <1>2. used \in Budget
    BY DEF Inv1, Typed, Budget
  <1>3. used.cancels \in Nat /\ used'.cancels \in Nat /\ used.cancels <= used'.cancels
    BY <1>2 DEF Budget
  <1>4. DOMAIN pc = Sender /\ DOMAIN at = Sender
    BY DEF Inv1, Typed
  <1>5. \A q \in Sender : q # p => pc'[q] = pc[q] /\ at'[q] = at[q]
    BY <1>1, <1>4
  <1> QED
    BY <1>1, <1>3, <1>5 DEF Acts, Same

LEMMA ReuseInOrder ==
    ASSUME Inv1, Inv2, InOrder, NEW p \in Sender, ReuseConnection(p)
    PROVE  InOrder' /\ Acts(p) /\ result'[p] = result[p]
  <1>1. /\ Begins(p) /\ cli.conn # NoConn /\ conns[cli.conn].up = "open"
        /\ Write(p, cli.conn, conns, cli.ver, cli.next, at[p].n + 1)
        /\ UNCHANGED <<round, result, used>>
    BY DEF ReuseConnection, Reusable
  <1>2. /\ cli.conn \in Slots /\ GoodConns(conns) /\ cli.ver \in RadiusVersion
        /\ cli.next \in Tokens \union {None} /\ at[p].n + 1 \in 0..Attempts
    BY <1>1, AttemptFacts DEF Inv1, Typed
  <1>3. Written(p, cli.conn, conns, cli.ver, cli.next, at[p].n + 1)
    BY <1>1, <1>2, Writes, Zenon
  <1>4. PICK c, ver, next, n : c = cli.conn /\ ver = cli.ver /\ next = cli.next /\ n = at[p].n + 1
    OBVIOUS
  <1>5. Written(p, c, conns, ver, next, n) /\ Holds(p) /\ pc[p] # "done" /\ c \in Slots
    BY <1>1, <1>2, <1>3, <1>4 DEF Begins
  <1>6. /\ Acts(p) /\ at'[p].conn = c /\ result'[p] = result[p]
        /\ \A d \in Slots : d # c => conns'[d] = conns[d]
    BY <1>1, <1>5, WrittenActs
  <1>7. ~Waits(p) /\ at[p].conn = NoConn
    BY <1>1 DEF Begins, Waits, Inv1, AttemptKept, OneAttempt
  <1>8. \A q \in Sender : ~Waits(q)
    BY <1>5, <1>7, HolderAlone DEF Waits, Active
  <1> SUFFICES ASSUME NEW d \in Slots, Clean(d)', InUse(d)' PROVE Ordered(d)'
    BY <1>6 DEF InOrder
  <1>9. CASE d # c
    <2>1. conns'[d] = conns[d] /\ Evolves(conns[d], conns[d]) /\ Shrinks(d)
      BY <1>2, <1>6, <1>9 DEF Shrinks, Evolves, GoodConns
    <2>2. at[p].conn # d
      BY <1>7, SlotFacts
    <2> QED
      BY <1>6, <1>9, <2>1, <2>2, Elsewhere
  <1>10. CASE d = c
    <2>1. conns'[c].ver = conns[c].ver
      BY <1>5 DEF Written
    <2>2. Clean(c) /\ InUse(c)
      BY <1>1, <1>4, <1>10, <2>1 DEF Clean, InUse
    <2>3. Ordered(c)
      BY <1>5, <2>2 DEF InOrder
    <2>4. \A i \in DOMAIN conns[c].in : Gone(conns[c].in[i].from)
      BY <1>8, <2>3 DEF Ordered, RequestsInOrder, RequestInOrder, Awaits
    <2>5. \A i \in DOMAIN conns[c].out : Gone(conns[c].out[i].reply.to)
      BY <1>8, <2>3 DEF Ordered, RepliesInOrder, UnitInOrder, Awaits
    <2> QED
      BY <1>1, <1>2, <1>5, <1>10, <2>4, <2>5, WrittenInOrder
  <1> QED
    BY <1>9, <1>10

LEMMA ConnectedInOrder ==
    ASSUME Inv1, Inv2, InOrder, NEW p \in Sender, NEW c \in Slots, NEW token \in FirstTokens,
           Connected(p, c, token)
    PROVE  InOrder' /\ Acts(p) /\ result'[p] = result[p]
  <1> DEFINE csx == [conns EXCEPT ![c] = Handshake]
             nextx == IF Handshake.ver = V1_1 THEN token ELSE None
  <1>1. /\ GoodConns(csx) /\ csx[c] = Handshake /\ \A d \in Slots : d # c => csx[d] = conns[d]
        /\ Written(p, c, csx, Handshake.ver, nextx, at[p].n)
        /\ Holds(p) /\ pc[p] = "connect" /\ UNCHANGED <<round, result, used>>
    BY ConnectedWrites
  <1>2. PICK cs, ver, next, n :
            cs = csx /\ ver = Handshake.ver /\ next = nextx /\ n = at[p].n
    OBVIOUS
  <1> HIDE DEF csx, nextx
  <1>3. /\ GoodConns(cs) /\ cs[c] = Handshake /\ (\A d \in Slots : d # c => cs[d] = conns[d])
        /\ Written(p, c, cs, ver, next, n)
    BY <1>1, <1>2
  <1>4. /\ Acts(p) /\ at'[p].conn = c /\ result'[p] = result[p]
        /\ \A d \in Slots : d # c => conns'[d] = conns[d]
    BY <1>1, <1>3, WrittenActs
  <1>5. at[p].conn = NoConn /\ GoodConns(conns)
    BY <1>1 DEF Waits, Inv1, AttemptKept, OneAttempt, Typed
  <1> SUFFICES ASSUME NEW d \in Slots, Clean(d)', InUse(d)' PROVE Ordered(d)'
    BY <1>4 DEF InOrder
  <1>6. CASE d # c
    <2>1. conns'[d] = conns[d] /\ Evolves(conns[d], conns[d]) /\ Shrinks(d)
      BY <1>4, <1>5, <1>6 DEF Shrinks, Evolves, GoodConns
    <2>2. at[p].conn # d
      BY <1>5, SlotFacts
    <2> QED
      BY <1>4, <1>6, <2>1, <2>2, Elsewhere
  <1>7. CASE d = c
    <2>1. Handshake.in = <<>> /\ Handshake.out = <<>>
      BY DEF Handshake, Dead
    <2>2. DOMAIN cs[c].in = {} /\ DOMAIN cs[c].out = {}
      BY <1>3, <2>1
    <2> QED
      BY <1>1, <1>3, <1>7, <2>2, WrittenInOrder
  <1> QED
    BY <1>6, <1>7

LEMMA SenderInOrder ==
    ASSUME Inv1, Inv2, InOrder, NEW p \in Sender,
           \/ Start(p) \/ DropStale(p) \/ OpenConnection(p) \/ ConnectRefused(p)
           \/ ConnectError(p) \/ TransportError(p) \/ ReadTornFrame(p) \/ ReadBody(p) \/ Cancel(p)
    PROVE  InOrder'
  <1>1. Acts(p) /\ at'[p].conn = NoConn /\ Quiet(p)
    BY SenderActs, SenderQuiet
  <1> SUFFICES ASSUME NEW c \in Slots, Clean(c)', InUse(c)' PROVE Ordered(c)'
    BY DEF InOrder
  <1>2. CASE at[p].conn # c
    <2>1. Evolves(conns[c], conns'[c])
      BY <1>1 DEF Quiet, Changes
    <2>2. Shrinks(c)
      BY <1>2, SenderShrinks
    <2> QED
      BY <1>1, <1>2, <2>1, <2>2, SlotFacts, Elsewhere
  <1>3. CASE at[p].conn = c
    <2>1. Waits(p)
      BY <1>3, SlotFacts DEF Inv1, AttemptKept, OneAttempt
    <2>2. ~(Start(p) \/ DropStale(p) \/ OpenConnection(p) \/ ConnectRefused(p) \/ ConnectError(p))
      BY <2>1 DEF Waits, Start, DropStale, OpenConnection, ConnectRefused, ConnectError, Begins
    <2> QED
      BY <1>3, <2>1, <2>2, OwnInOrder
  <1> QED
    BY <1>2, <1>3

LEMMA HeaderReadInOrder ==
    ASSUME Inv1, InOrder, NEW p \in Sender, ReadHeader(p)
    PROVE  InOrder' /\ Acts(p) /\ result'[p] = result[p]
  <1>1. /\ pc[p] = "header" /\ Arrived(p) /\ conns' = Consume(p)
        /\ at' = [at EXCEPT ![p].got = NextUnit(p).reply] /\ pc' = [pc EXCEPT ![p] = "body"]
        /\ UNCHANGED <<pkt, result, round, used>>
    BY DEF ReadHeader
  <1>2. GoodConns(conns) /\ at[p].conn \in Slots
    BY <1>1, AttemptFacts DEF Waits
  <1>3. DOMAIN at = Sender /\ DOMAIN pc = Sender /\ used \in Budget /\ AttemptTyped(at[p])
    BY DEF Inv1, Typed, Budget
  <1>4. Acts(p)
    <2>1. used.cancels \in Nat /\ used'.cancels \in Nat /\ used.cancels <= used'.cancels
      BY <1>1, <1>3 DEF Budget
    <2>2. \A q \in Sender : q # p => pc'[q] = pc[q] /\ at'[q] = at[q]
      BY <1>1, <1>3
    <2> QED
      BY <1>1, <2>1, <2>2 DEF Acts, Same
  <1>5. at'[p].conn = at[p].conn
    <2>1. at'[p] = [at[p] EXCEPT !.got = NextUnit(p).reply]
      BY <1>1, <1>3
    <2> QED
      BY <1>3, <2>1 DEF AttemptTyped
  <1> SUFFICES ASSUME NEW c \in Slots, Clean(c)', InUse(c)' PROVE Ordered(c)'
    BY <1>1, <1>4 DEF InOrder
  <1>6. CASE at[p].conn = c
    BY <1>6, ReadHeaderInOrder
  <1>7. CASE at[p].conn # c
    <2>1. conns'[c] = conns[c]
      BY <1>1, <1>2, <1>7, ConsumeChanges
    <2>2. Evolves(conns[c], conns'[c]) /\ Shrinks(c)
      BY <1>2, <2>1 DEF Shrinks, Evolves, GoodConns
    <2> QED
      BY <1>4, <1>5, <1>7, <2>2, Elsewhere
  <1> QED
    BY <1>6, <1>7

\* Steps beside the senders: the server's, and close() by the user.
Still == UNCHANGED <<pc, at, round>> /\ used'.cancels = used.cancels

LEMMA StillSteady ==
    ASSUME Still, NEW c
    PROVE  Steady(c)
  BY DEF Still, Steady, Gone, Same

LEMMA RestingInOrder ==
    ASSUME Inv1, InOrder, Still, Changes(conns, conns'), NEW c \in Slots, Clean(c)', InUse(c)',
           conns'[c].up = "open" => conns[c].up = "open"
    PROVE  Ordered(c)
  <1>1. used.cancels \in Nat /\ used'.cancels = used.cancels
    BY DEF Inv1, Typed, Still
  <1>2. Clean(c)
    BY <1>1, CleanBefore DEF Changes
  <1>3. InUse(c)
    BY DEF InUse, Still
  <1> QED
    BY <1>2, <1>3 DEF InOrder

LEMMA ServerEndInOrder ==
    ASSUME Inv1, InOrder, Still, Changes(conns, conns'), NEW c \in Slots, Clean(c)', InUse(c)',
           conns'[c] = ServerEnd(c, conns[c])
    PROVE  Ordered(c)'
  <1>1. ConnTyped(conns[c]) /\ CodesKnown(conns[c])
    BY DEF Inv1, Typed, GoodConns
  <1>2. Dead.out = <<>>
    BY DEF Dead
  <1>3. Shrinks(c)
    BY <1>1, <1>2, ServerEndRecord DEF Shrinks
  <1> QED
    BY <1>3, RestingInOrder, StillSteady, OrderedKept DEF Shrinks

LEMMA ServeInOrder ==
    ASSUME Inv1, InOrder, NEW c \in Slots, Serve(c)
    PROVE  InOrder' /\ Still
  <1>1. PICK r, x, reply :
            /\ conns' = [conns EXCEPT ![c] = x] /\ Evolves(conns[c], x)
            /\ reply.to = Head(conns[c].in).from /\ reply.round = Head(conns[c].in).round
            /\ r.ver = conns[c].ver /\ r.up = conns[c].up
            /\ \/ x = r /\ r.in = Tail(conns[c].in)
               \/ x = ServerEnd(c, r)
            /\ \/ r.out = conns[c].out
               \/ conns[c].up = "open" /\ r.out = Framed(conns[c].out, reply)
            /\ ConnTyped(r) /\ CodesKnown(r)
    BY ServeRecord, Zenon
  <1>2. conns[c].in # <<>> /\ UNCHANGED <<clientVars, used>>
    BY ServeRecord, Zenon
  <1>3. GoodConns(conns) /\ ConnTyped(conns[c])
    BY DEF Inv1, Typed, GoodConns
  <1>4. /\ conns'[c] = x /\ Changes(conns, conns')
        /\ \A d \in Slots : d # c => conns'[d] = conns[d]
    BY <1>1, <1>3, OneChange
  <1>5. Still
    BY <1>2 DEF Still, clientVars
  <1> SUFFICES ASSUME NEW d \in Slots, Clean(d)', InUse(d)' PROVE Ordered(d)'
    BY <1>5 DEF InOrder
  <1>6. CASE d # c
    <2>1. Shrinks(d)
      BY <1>4, <1>6 DEF Shrinks
    <2> QED
      BY <1>4, <1>5, <2>1, RestingInOrder, StillSteady, OrderedKept DEF Shrinks
  <1>7. CASE d = c
    <2>1. /\ x.up = r.up
          /\ x.in = Tail(conns[c].in) \/ x.in = <<>>
          /\ x.out = r.out \/ (x = Dead /\ r.up = "closed")
      BY <1>1, ServerEndRecord
    <2>2. Ordered(c)
      BY <1>1, <1>4, <1>5, <1>7, <2>1, RestingInOrder
    <2>3. CASE x.out = r.out
      BY <1>1, <1>2, <1>3, <1>4, <1>5, <1>7, <2>1, <2>2, <2>3, StillSteady, OrderedServed
    <2>4. CASE x = Dead /\ r.up = "closed"
      <3>1. Shrinks(c)
        BY <1>4, <2>4 DEF Shrinks, Dead
      <3> QED
        BY <1>5, <1>7, <2>2, <3>1, StillSteady, OrderedKept
    <2> QED
      BY <2>1, <2>3, <2>4
  <1> QED
    BY <1>6, <1>7

LEMMA PeerGoneInOrder ==
    ASSUME Inv1, InOrder, NEW c \in Slots, NEW how \in {"eof", "reset"}, PeerGone(c, how)
    PROVE  InOrder' /\ Still
  <1> DEFINE q == [conns[c] EXCEPT !.up = how, !.out = IF how = "reset" THEN <<>> ELSE @]
  <1>1. GoodConns(conns) /\ ConnTyped(conns[c]) /\ CodesKnown(conns[c])
    BY DEF Inv1, Typed, GoodConns
  <1>2. conns' = [conns EXCEPT ![c] = q] /\ conns[c].up = "open" /\ Still
    BY <1>1 DEF PeerGone, GoodConns, Still, clientVars
  <1>3. q.in = conns[c].in /\ q.out \in {conns[c].out, <<>>}
    BY <1>1, PeerGoneRecord, ZenonT(30)
  <1> HIDE DEF q
  <1>4. conns'[c] = q /\ \A d \in Slots : d # c => conns'[d] = conns[d]
    BY <1>1, <1>2 DEF GoodConns
  <1>5. \A d \in Slots : Shrinks(d)
    BY <1>2, <1>3, <1>4 DEF Shrinks
  <1> SUFFICES ASSUME NEW d \in Slots, Clean(d)', InUse(d)' PROVE Ordered(d)'
    BY <1>2 DEF InOrder
  <1> QED
    BY <1>2, <1>5, PeerGoneKeeps, RestingInOrder, StillSteady, OrderedKept DEF Shrinks

LEMMA UserCloseInOrder ==
    ASSUME Inv1, InOrder, UserClose
    PROVE  InOrder' /\ Still
  <1> DEFINE x == [conns[cli.conn] EXCEPT !.up = "closed"]
             q == Settled(cli.conn, x)
  <1>1. /\ cli.conn # NoConn /\ conns' = [conns EXCEPT ![cli.conn] = q]
        /\ used' = [used EXCEPT !.closes = @ + 1] /\ UNCHANGED <<pc, at, round>>
    BY DEF UserClose
  <1>2. cli.conn \in Slots /\ GoodConns(conns) /\ ConnTyped(conns[cli.conn]) /\ used \in Budget
    BY <1>1 DEF Inv1, Typed, GoodConns, Budget
  <1>3. Still
    BY <1>1, <1>2 DEF Still, Budget
  <1>4. x.up = "closed" /\ x.in = conns[cli.conn].in /\ x.out = conns[cli.conn].out
    BY <1>2 DEF ConnTyped
  <1>5. q = x \/ q = Dead
    BY DEF Settled, Tidy
  <1> HIDE DEF q, x
  <1>6. conns'[cli.conn] = q /\ \A d \in Slots : d # cli.conn => conns'[d] = conns[d]
    BY <1>1, <1>2 DEF GoodConns
  <1>7. \A d \in Slots : Shrinks(d)
    BY <1>4, <1>5, <1>6 DEF Shrinks, Dead
  <1> SUFFICES ASSUME NEW d \in Slots, Clean(d)', InUse(d)' PROVE Ordered(d)'
    BY <1>3 DEF InOrder
  <1> QED
    BY <1>3, <1>7, UserCloseKeeps, RestingInOrder, StillSteady, OrderedKept DEF Shrinks

\* A step of one sender leaves the replies of the others alone.
LEMMA RepliesStay ==
    ASSUME Inv1, ReturnsOwnReply, NEW p \in Sender, Acts(p),
           IsReply(result[p])' /\ ~TokensUnchecked(p)' =>
                result'[p].to = p /\ result'[p].round = round'[p]
    PROVE  ReturnsOwnReply'
  <1> SUFFICES ASSUME NEW q \in Sender, q # p, IsReply(result[q])', ~TokensUnchecked(q)'
               PROVE  result'[q].to = q /\ result'[q].round = round'[q]
    BY DEF ReturnsOwnReply
  <1>1. result'[q] = result[q] /\ round'[q] = round[q] /\ pkt'[q] = pkt[q]
    BY DEF Acts, Same
  <1>2. IsReply(result[q])
    BY <1>1 DEF IsReply
  <1>3. ~TokensUnchecked(q)
    BY <1>1 DEF TokensUnchecked, Acts
  <1> QED
    BY <1>1, <1>2, <1>3 DEF ReturnsOwnReply

\* A send that ends without a reply returns none.
LEMMA NoReplyYet ==
    ASSUME Inv1, NEW p \in Sender, pc[p] # "done", result'[p] = result[p]
    PROVE  ~IsReply(result[p])'
  BY DEF Inv1, Finished, IsReply

LEMMA NoReply ==
    ASSUME Inv1, NEW p \in Sender, NEW how \in {"noreply", "raised", "cancelled"},
           Finish(p, Outcome(how))
    PROVE  ~IsReply(result[p])'
  <1>1. result'[p] = Outcome(how)
    BY DEF Finish, Inv1, Typed
  <1>2. result'[p].code = how
    BY <1>1 DEF Outcome
  <1> QED
    BY <1>2 DEF IsReply

LEMMA FailsWithoutReply ==
    ASSUME Inv1, NEW p \in Sender, pc[p] # "done", NEW n, AttemptFails(p, n)
    PROVE  ~IsReply(result[p])'
  <1>1. CASE Exhausted(n)
    BY <1>1, NoReply DEF AttemptFails
  <1>2. CASE ~Exhausted(n)
    BY <1>2, NoReplyYet DEF AttemptFails
  <1> QED
    BY <1>1, <1>2

LEMMA ReadBodyReplies ==
    ASSUME Inv1, Inv2, InOrder, NEW p \in Sender, ReadBody(p),
           IsReply(result[p])', ~TokensUnchecked(p)'
    PROVE  result'[p].to = p /\ result'[p].round = round'[p]
  <1>1. pc[p] = "body" /\ UNCHANGED used
    BY DEF ReadBody
  <1>2. \/ Finish(p, Outcome("noreply"))
        \/ /\ VerifyReply(p, at[p].got)
           /\ \/ Finish(p, at[p].got) /\ UNCHANGED <<pkt, round>>
              \/ RespondAndSend(p, at[p].got)
    BY Zenon DEF ReadBody
  <1>3. RespondAndSend(p, at[p].got) => Finish(p, Outcome("raised")) \/ UNCHANGED result
    BY Zenon DEF RespondAndSend
  <1>4. VerifyReply(p, at[p].got) /\ Finish(p, at[p].got) /\ UNCHANGED <<pkt, round>>
    BY <1>1, <1>2, <1>3, NoReply, NoReplyYet
  <1>5. result'[p] = at[p].got
    BY <1>4 DEF Finish, Inv1, Typed
  <1>6. PICK c : c = at[p].conn
    OBVIOUS
  <1>7. Waits(p) /\ used.cancels \in Nat /\ pkt[p].ver \in RadiusVersion
    BY <1>1 DEF Waits, Inv1, Typed, PacketTyped
  <1>8. pkt[p].ver = conns[c].ver
    BY <1>6, <1>7 DEF Inv2, PacketVersion
  <1>9. Clean(c)
    BY <1>1, <1>4, <1>7, <1>8 DEF TokensUnchecked, Clean, RadiusVersion
  <1> QED
    BY <1>1, <1>4, <1>5, <1>6, <1>9, OwnReply

\* Only a complete reply is returned as one.
LEMMA NothingReturned ==
    ASSUME Inv1, NEW p \in Sender, pc[p] # "done",
           \/ Start(p) \/ DropStale(p) \/ OpenConnection(p) \/ ConnectRefused(p)
           \/ ConnectError(p) \/ TransportError(p) \/ ReadTornFrame(p) \/ Cancel(p)
    PROVE  ~IsReply(result[p])'
  <1>1. CASE Start(p)
    <2>1. Finish(p, Outcome("raised")) \/ UNCHANGED result
      BY <1>1, Zenon DEF Start
    <2> QED
      BY <2>1, NoReply, NoReplyYet
  <1>2. CASE OpenConnection(p)
    BY <1>2, NoReplyYet DEF OpenConnection
  <1>3. CASE DropStale(p) \/ ConnectError(p)
    BY <1>3, FailsWithoutReply DEF DropStale, ConnectError
  <1>4. CASE ConnectRefused(p) \/ ReadTornFrame(p) \/ Cancel(p)
    BY <1>4, NoReply DEF ConnectRefused, ReadTornFrame, Cancel
  <1>5. CASE TransportError(p)
    BY <1>5, NoReply, FailsWithoutReply DEF TransportError
  <1> QED
    BY <1>1, <1>2, <1>3, <1>4, <1>5

LEMMA SenderReplies ==
    ASSUME Inv1, Inv2, InOrder, ReturnsOwnReply, NEW p \in Sender,
           \/ Start(p) \/ DropStale(p) \/ OpenConnection(p) \/ ConnectRefused(p)
           \/ ConnectError(p) \/ TransportError(p) \/ ReadTornFrame(p) \/ ReadBody(p) \/ Cancel(p)
    PROVE  ReturnsOwnReply'
  <1>1. Acts(p) /\ pc[p] # "done"
    BY SenderActs DEF Acts
  <1>2. CASE ReadBody(p)
    BY <1>1, <1>2, ReadBodyReplies, RepliesStay
  <1>3. CASE ~ReadBody(p)
    <2>1. ~IsReply(result[p])'
      BY <1>1, <1>3, NothingReturned
    <2> QED
      BY <1>1, <2>1, RepliesStay
  <1> QED
    BY <1>2, <1>3

\* The third part is inductive.
LEMMA Inv3Step == Inv1 /\ Inv2 /\ Inv3 /\ [Next]_vars => Inv3'
  <1> SUFFICES ASSUME Inv1, Inv2, Inv3, [Next]_vars PROVE Inv3'
    OBVIOUS
  <1> USE DEF Inv3
  <1>1. ASSUME NEW p \in Sender, SenderStep(p) \/ Cancel(p) PROVE Inv3'
    <2>1. CASE \/ ReuseConnection(p) \/ ReadHeader(p)
               \/ \E c \in Slots, t \in FirstTokens : Connected(p, c, t)
      <3>1. InOrder' /\ Acts(p) /\ result'[p] = result[p]
        BY <2>1, ReuseInOrder, HeaderReadInOrder, ConnectedInOrder, Zenon
      <3>2. ~IsReply(result[p])'
        BY <3>1, NoReplyYet DEF Acts
      <3> QED
        BY <3>1, <3>2, RepliesStay
    <2>2. CASE ~(\/ ReuseConnection(p) \/ ReadHeader(p)
                 \/ \E c \in Slots, t \in FirstTokens : Connected(p, c, t))
      <3>1. \/ Start(p) \/ DropStale(p) \/ OpenConnection(p) \/ ConnectRefused(p)
            \/ ConnectError(p) \/ TransportError(p) \/ ReadTornFrame(p) \/ ReadBody(p) \/ Cancel(p)
        BY <1>1, <2>2, Zenon DEF SenderStep
      <3> QED
        BY <3>1, SenderInOrder, SenderReplies
    <2> QED
      BY <2>1, <2>2
  <1>2. ASSUME Still, UNCHANGED <<pkt, result>> PROVE ReturnsOwnReply'
    BY <1>2 DEF Still, ReturnsOwnReply, IsReply, TokensUnchecked
  <1>3. ASSUME NEW c \in Slots, Serve(c) PROVE Inv3'
    BY <1>2, <1>3, ServeInOrder DEF Serve, clientVars
  <1>4. ASSUME NEW c \in Slots, NEW how \in {"eof", "reset"}, PeerGone(c, how) PROVE Inv3'
    BY <1>2, <1>4, PeerGoneInOrder DEF PeerGone, clientVars
  <1>5. ASSUME NEW c \in Slots, ServerStops(c) PROVE Inv3'
    <2>1. /\ conns' = [conns EXCEPT ![c] = ServerEnd(c, conns[c])]
          /\ UNCHANGED <<clientVars, used>>
      BY <1>5 DEF ServerStops
    <2>2. Still /\ UNCHANGED <<pkt, result>>
      BY <2>1 DEF Still, clientVars
    <2>3. conns'[c] = ServerEnd(c, conns[c]) /\ \A d \in Slots : d # c => conns'[d] = conns[d]
      BY <2>1 DEF Inv1, Typed, GoodConns
    <2>4. Changes(conns, conns')
      BY <1>5, ServerStopsKeeps
    <2>5. InOrder'
      <3> SUFFICES ASSUME NEW d \in Slots, Clean(d)', InUse(d)' PROVE Ordered(d)'
        BY DEF InOrder
      <3>1. CASE d = c
        BY <2>2, <2>3, <2>4, <3>1, ServerEndInOrder
      <3>2. CASE d # c
        <4>1. Shrinks(d)
          BY <2>3, <3>2 DEF Shrinks
        <4> QED
          BY <2>2, <2>4, <4>1, RestingInOrder, StillSteady, OrderedKept DEF Shrinks
      <3> QED
        BY <3>1, <3>2
    <2> QED
      BY <1>2, <2>2, <2>5
  <1>6. CASE UserClose
    BY <1>2, <1>6, UserCloseInOrder DEF UserClose
  <1>7. ASSUME NEW v \in ServerVersions, NEW tls \in TlsVersion, Restart(v, tls) PROVE Inv3'
    <2>1. used' = [used EXCEPT !.restarts = @ + 1] /\ UNCHANGED clientVars
      BY <1>7 DEF Restart
    <2>2. used \in Budget
      BY DEF Inv1, Typed, Budget
    <2>3. Still /\ UNCHANGED <<pkt, result>>
      BY <2>1, <2>2 DEF Still, clientVars, Budget
    <2>4. Changes(conns, conns') /\ \A c \in Slots : conns'[c] = ServerEnd(c, conns[c])
      BY <1>7, RestartKeeps
    <2>5. InOrder'
      BY <2>3, <2>4, ServerEndInOrder DEF InOrder
    <2> QED
      BY <1>2, <2>3, <2>5
  <1>8. CASE UNCHANGED vars
    <2>1. Still /\ UNCHANGED <<pkt, result, conns>>
      BY <1>8 DEF vars, Still
    <2>2. \A c \in Slots : Shrinks(c)
      BY <2>1 DEF Shrinks
    <2>3. Changes(conns, conns')
      BY <2>1, NoChange DEF Inv1, Typed
    <2>4. InOrder'
      <3> SUFFICES ASSUME NEW d \in Slots, Clean(d)', InUse(d)' PROVE Ordered(d)'
        BY DEF InOrder
      <3> QED
        BY <2>1, <2>2, <2>3, RestingInOrder, StillSteady, OrderedKept DEF Shrinks
    <2> QED
      BY <1>2, <2>1, <2>4
  <1> QED
    BY <1>1, <1>3, <1>4, <1>5, <1>6, <1>7, <1>8, Zenon DEF Next, ServerStep

LEMMA Inv3Starts == Init => Inv3
  <1> SUFFICES ASSUME Init PROVE Inv3
    OBVIOUS
  <1>1. \A c \in Slots : ~InUse(c)
    BY SlotFacts DEF Init, InUse, Dead, NoAttempt
  <1>2. ReturnsOwnReply
    BY DEF Init, ReturnsOwnReply, IsReply, Outcome
  <1> QED
    BY <1>1, <1>2 DEF Inv3, InOrder

LEMMA Inv3Always == Spec => []Inv3
  BY Inv1Always, Inv2Always, Inv3Starts, Inv3Step, PTL DEF Spec

\* What send_packet returns answers the packet and the round it was sent in,
\* whatever timed out, was retried, cancelled or closed before, in every number
\* of senders that share the client: with version 1.0 always, with version 1.1,
\* where verify_reply accepts any reply, as long as no send was cancelled.
THEOREM RadSecReturnsOwnReply == Spec => []ReturnsOwnReply
  BY Inv3Always, PTL DEF Inv3

\* As long as no send is cancelled there is on an open connection nothing but
\* the request or the reply of the sender that holds _io_lock, of the round it
\* is in: a timeout never leaves a late reply for the next sender.
THEOREM RadSecOneExchange == Spec => []OneExchangeAtATime
  <1>1. Inv1 /\ Inv3 => OneExchangeAtATime
    <2> SUFFICES ASSUME Inv1, Inv3, used.cancels = 0, NEW c \in Slots, conns[c].up = "open"
                 PROVE  /\ \A m \in Underway(c) : Holds(m.from) /\ m.round = round[m.from]
                        /\ \A r \in UnderwayBack(c) : Holds(r.to) /\ r.round = round[r.to]
      BY DEF OneExchangeAtATime
    <2>1. Ordered(c)
      BY DEF Inv3, InOrder, Clean, InUse
    <2>2. \A q : ~Gone(q)
      BY DEF Gone
    <2>3. \A q \in Sender : \A n : Awaits(q, c, n) => Holds(q) /\ n = round[q]
      BY AttemptFacts DEF Awaits
    <2>4. \A m \in Underway(c) : Holds(m.from) /\ m.round = round[m.from]
      BY <2>1, <2>2, <2>3 DEF Underway, Ordered, RequestsInOrder, RequestInOrder
    <2>5. \A r \in UnderwayBack(c) : Holds(r.to) /\ r.round = round[r.to]
      BY <2>1, <2>2, <2>3 DEF UnderwayBack, Ordered, RepliesInOrder, UnitInOrder
    <2> QED
      BY <2>4, <2>5
  <1> QED
    BY <1>1, Inv1Always, Inv3Always, PTL

-----------------------------------------------------------------------------
(* Tokens. *)

LEMMA DistanceValue ==
    ASSUME NEW a \in Tokens, NEW b \in Tokens
    PROVE  /\ Distance(a, b) = IF b <= a THEN a - b ELSE (a - b) + TokenSpace
           /\ NextToken(b) = IF b + 1 = TokenSpace THEN 0 ELSE b + 1
           /\ NextToken(b) \in Tokens
           /\ TokenSpace \in Nat \ {0} /\ a \in Nat /\ b \in Nat
           /\ a < TokenSpace /\ b < TokenSpace
  <1>1. /\ TokenSpace \in Nat \ {0} /\ a \in Nat /\ b \in Nat
        /\ a < TokenSpace /\ b < TokenSpace
    BY TokenSpaceAssumption DEF Tokens
  <1>2. ASSUME NEW x \in 0..(TokenSpace - 1) PROVE x % TokenSpace = x
    BY <1>1
  <1>3. ASSUME NEW x \in (-TokenSpace)..(-1) PROVE x % TokenSpace = x + TokenSpace
    BY <1>1
  <1>4. TokenSpace % TokenSpace = 0
    BY <1>1
  <1>5. Distance(a, b) = IF b <= a THEN a - b ELSE (a - b) + TokenSpace
    <2>1. CASE b <= a
      <3>1. a - b \in 0..(TokenSpace - 1)
        BY <1>1, <2>1
      <3> QED
        BY <1>2, <2>1, <3>1 DEF Distance
    <2>2. CASE ~(b <= a)
      <3>1. a - b \in (-TokenSpace)..(-1)
        BY <1>1, <2>2
      <3> QED
        BY <1>3, <2>2, <3>1 DEF Distance
    <2> QED
      BY <2>1, <2>2
  <1>7. NextToken(b) = IF b + 1 = TokenSpace THEN 0 ELSE b + 1
    <2>1. CASE b + 1 = TokenSpace
      BY <1>4, <2>1 DEF NextToken
    <2>2. CASE b + 1 # TokenSpace
      <3>1. b + 1 \in 0..(TokenSpace - 1)
        BY <1>1, <2>2
      <3> QED
        BY <1>2, <2>2, <3>1 DEF NextToken
    <2> QED
      BY <2>1, <2>2
  <1>8. NextToken(b) \in Tokens
    BY <1>1, <1>7 DEF Tokens
  <1> QED
    BY <1>1, <1>5, <1>7, <1>8

\* Drawing a Token brings the counter one nearer to those in use, and puts the
\* one drawn at the far end.
LEMMA DistanceDrawn ==
    ASSUME NEW a \in Tokens, NEW b \in Tokens
    PROVE  /\ Distance(a, b) \in Nat
           /\ Distance(a, b) >= 1 => a # b /\ Distance(a, NextToken(b)) = Distance(a, b) - 1
           /\ Distance(b, NextToken(b)) = TokenSpace - 1
  <1>1. /\ Distance(a, b) = IF b <= a THEN a - b ELSE (a - b) + TokenSpace
        /\ NextToken(b) = IF b + 1 = TokenSpace THEN 0 ELSE b + 1
        /\ NextToken(b) \in Tokens
        /\ TokenSpace \in Nat \ {0} /\ a \in Nat /\ b \in Nat
        /\ a < TokenSpace /\ b < TokenSpace
    BY DistanceValue
  <1>2. PICK n : n = NextToken(b)
    OBVIOUS
  <1>3. /\ Distance(a, n) = IF n <= a THEN a - n ELSE (a - n) + TokenSpace
        /\ Distance(b, n) = IF n <= b THEN b - n ELSE (b - n) + TokenSpace
        /\ n = IF b + 1 = TokenSpace THEN 0 ELSE b + 1
    BY <1>1, <1>2, DistanceValue
  <1> QED
    BY <1>1, <1>2, <1>3

\* A step that writes nothing.
LEMMA TokensKept ==
    ASSUME Inv4, Changes(conns, conns'), cli'.conn # NoConn => cli' = cli,
           GoodConns(conns), cli.conn \in Slots \union {NoConn},
           \A q \in Sender : pkt'[q].token = pkt[q].token
    PROVE  Inv4'
  <1> USE DEF Inv4
  <1>1. Without11' = Without11
    BY DEF Without11
  <1>2. CounterAhead'
    BY <1>1 DEF CounterAhead, Distance
  <1>3. PacketTokensDistinct'
    BY DEF PacketTokensDistinct
  <1>4. \A c \in Slots : conns'[c].sent = conns[c].sent \/ conns'[c].sent = {}
    BY DEF Changes, Evolves, Blank
  <1>5. TokensDistinct'
    BY <1>4 DEF TokensDistinct
  <1>6. SentTokensCurrent'
    <2> SUFFICES ASSUME cli'.conn # NoConn, NEW m \in conns'[cli'.conn].sent, m.token # None
                 PROVE  m.token = pkt'[m.from].token
      BY DEF SentTokensCurrent
    <2>1. cli.conn \in Slots /\ cli' = cli
      OBVIOUS
    <2>2. m \in conns[cli.conn].sent
      BY <1>4, <2>1
    <2>3. m.from \in Sender
      BY <2>1, <2>2 DEF GoodConns, ConnTyped, Sent
    <2> QED
      BY <2>1, <2>2, <2>3 DEF SentTokensCurrent
  <1> QED
    BY <1>2, <1>3, <1>5, <1>6

\* Enough Tokens for all senders.
EnoughTokens == Cardinality(Sender) <= TokenSpace

LEMMA FewWithout ==
    /\ IsFiniteSet(Without11) /\ Cardinality(Without11) \in Nat
    /\ Cardinality(Without11) <= Cardinality(Sender) /\ Cardinality(Sender) \in Nat
  <1>1. Without11 \subseteq Sender /\ IsFiniteSet(Sender)
    BY RadSecAssumption DEF Without11
  <1> QED
    BY <1>1, FS_Subset, FS_CardinalityType

\* The Tokens that the packets carry keep apart, from each other and from the
\* counter, when p draws the next one or keeps its own.
LEMMA TokensApart ==
    ASSUME Inv1, PacketTokensDistinct, EnoughTokens, NEW p \in Sender, NEW next \in Tokens,
           \A q \in Sender : q # p => pkt'[q].token = pkt[q].token,
           pkt'[p].token = IF pkt[p].token = None THEN next ELSE pkt[p].token,
           \A q \in Sender : pkt[q].token # None =>
                Distance(pkt[q].token, next) >= Cardinality(Without11),
           NEW after, after = IF pkt[p].token = None THEN NextToken(next) ELSE next
    PROVE  /\ PacketTokensDistinct'
           /\ \A q \in Sender : pkt'[q].token # None =>
                Distance(pkt'[q].token, after) >= Cardinality(Without11')
           /\ \A q \in Sender : pkt[q].token # None => pkt'[q].token = pkt[q].token
  <1>1. \A q \in Sender : pkt[q].token \in Tokens \union {None}
    BY DEF Inv1, Typed, PacketTyped
  <1>2. None \notin Tokens
    BY TokenSpaceAssumption DEF Tokens, None
  <1>3. CASE pkt[p].token # None
    <2>1. \A q \in Sender : pkt'[q].token = pkt[q].token
      BY <1>3
    <2>2. Without11' = Without11
      BY <2>1 DEF Without11
    <2>3. after = next
      BY <1>3
    <2> QED
      BY <2>1, <2>2, <2>3 DEF PacketTokensDistinct
  <1>4. CASE pkt[p].token = None
    <2>1. pkt'[p].token = next /\ after = NextToken(next) /\ next # None
      BY <1>2, <1>4
    <2>2. PICK k : k = Cardinality(Without11)
      OBVIOUS
    <2>3. /\ k \in Nat /\ k >= 1 /\ k <= TokenSpace
          /\ Cardinality(Without11') = k - 1
      <3>1. p \in Without11 /\ IsFiniteSet(Without11)
        BY <1>4, FewWithout DEF Without11
      <3>2. Without11' = Without11 \ {p}
        BY <2>1 DEF Without11
      <3>3. Cardinality(Without11 \ {p}) = Cardinality(Without11) - 1
            /\ Cardinality(Without11 \ {p}) \in Nat
        BY <3>1, FS_RemoveElement, FS_CardinalityType
      <3>4. Cardinality(Without11) \in Nat /\ Cardinality(Without11) <= Cardinality(Sender)
            /\ Cardinality(Sender) \in Nat /\ TokenSpace \in Nat
        BY FewWithout, TokenSpaceAssumption
      <3> QED
        BY <2>2, <3>2, <3>3, <3>4 DEF EnoughTokens
    <2>4. ASSUME NEW q \in Sender, pkt[q].token # None
          PROVE  /\ q # p /\ pkt[q].token # next /\ pkt[q].token \in Tokens
                 /\ Distance(pkt[q].token, after) >= k - 1
      <3>1. PICK t : t = pkt[q].token
        OBVIOUS
      <3>2. t \in Tokens /\ q # p /\ Distance(t, next) >= k
        BY <1>1, <1>4, <2>2, <2>4, <3>1
      <3>3. /\ Distance(t, next) \in Nat
            /\ Distance(t, next) >= 1 =>
                  t # next /\ Distance(t, NextToken(next)) = Distance(t, next) - 1
        BY <3>2, DistanceDrawn
      <3> QED
        BY <2>1, <2>3, <3>1, <3>2, <3>3
    <2>5. Distance(next, after) >= k - 1
      <3>1. Distance(next, NextToken(next)) = TokenSpace - 1
        BY DistanceDrawn
      <3>2. TokenSpace \in Nat
        BY TokenSpaceAssumption
      <3> QED
        BY <2>1, <2>3, <3>1, <3>2
    <2>6. PacketTokensDistinct'
      BY <2>1, <2>4 DEF PacketTokensDistinct
    <2>7. ASSUME NEW q \in Sender, pkt'[q].token # None
          PROVE  Distance(pkt'[q].token, after) >= Cardinality(Without11')
      <3>1. CASE q = p
        BY <2>1, <2>3, <2>5, <3>1
      <3>2. CASE q # p
        <4>1. pkt'[q].token = pkt[q].token
          BY <3>2
        <4> QED
          BY <2>3, <2>4, <2>7, <4>1
      <3> QED
        BY <3>1, <3>2
    <2> QED
      BY <1>4, <2>6, <2>7
  <1> QED
    BY <1>3, <1>4

LEMMA TokensWritten ==
    ASSUME Inv1, Inv4, EnoughTokens, NEW p \in Sender, NEW c \in Slots, NEW cs, GoodConns(cs),
           NEW ver \in RadiusVersion, NEW next \in Tokens \union {None}, NEW n,
           Written(p, c, cs, ver, next, n),
           \A d \in Slots : d # c => cs[d] = conns[d],
           ver = V1_1 => next # None,
           ver = V1_1 => \A q \in Sender : pkt[q].token # None =>
                             Distance(pkt[q].token, next) >= Cardinality(Without11),
           \A m \in cs[c].sent : m.token # None => ver = V1_1 /\ m.token = pkt[m.from].token
    PROVE  Inv4'
  <1> USE DEF Inv4
  <1> DEFINE one == [from |-> p, ver |-> ver, token |-> TokenOf(p, ver, next)]
  <1>1. /\ \A q \in Sender : q # p => pkt'[q] = pkt[q]
        /\ pkt'[p].token = TokenOf(p, ver, next)
        /\ cli'.conn \in {c, NoConn} /\ cli'.ver = ver
        /\ cli'.next = IF ver = V1_1 /\ pkt[p].token = None THEN NextToken(next) ELSE next
        /\ \A d \in Slots : d # c => conns'[d] = cs[d]
        /\ conns'[c].sent = cs[c].sent \union {one}
    BY DEF Written
  <1>2. one.from = p /\ one.token = pkt'[p].token
    BY <1>1
  <1> HIDE DEF one
  <1>3. \A m \in cs[c].sent : m.from \in Sender
    BY DEF GoodConns, ConnTyped, Sent
  <1>4. ver = V1_0 \/ ver = V1_1
    BY DEF RadiusVersion
  <1>5. /\ PacketTokensDistinct' /\ CounterAhead'
        /\ \A m \in cs[c].sent : m.token # None => m.token = pkt'[m.from].token
    <2>1. CASE ver = V1_0
      <3>1. pkt'[p].token = None /\ ver # V1_1
        BY <1>1, <2>1 DEF TokenOf, V1_0, V1_1
      <3>2. PacketTokensDistinct'
        BY <1>1, <3>1 DEF PacketTokensDistinct
      <3>3. CounterAhead'
        BY <1>1, <3>1 DEF CounterAhead
      <3> QED
        BY <3>1, <3>2, <3>3
    <2>2. CASE ver = V1_1
      <3>1. next \in Tokens /\ V1_0 # V1_1
        BY <2>2 DEF V1_0, V1_1
      <3>2. pkt'[p].token = IF pkt[p].token = None THEN next ELSE pkt[p].token
        BY <1>1, <2>2, <3>1 DEF TokenOf
      <3>3. PICK after : after = IF pkt[p].token = None THEN NextToken(next) ELSE next
        OBVIOUS
      <3>4. cli'.next = after
        BY <1>1, <2>2, <3>3
      <3>5. \A q \in Sender : q # p => pkt'[q].token = pkt[q].token
        BY <1>1
      <3>6. /\ PacketTokensDistinct'
            /\ \A q \in Sender : pkt'[q].token # None =>
                 Distance(pkt'[q].token, after) >= Cardinality(Without11')
            /\ \A q \in Sender : pkt[q].token # None => pkt'[q].token = pkt[q].token
        BY <2>2, <3>1, <3>2, <3>3, <3>5, TokensApart
      <3>7. CounterAhead'
        BY <3>4, <3>6 DEF CounterAhead, Distance
      <3> QED
        BY <1>3, <3>6, <3>7
    <2> QED
      BY <1>4, <2>1, <2>2
  <1>6. \A m \in conns'[c].sent : m.token # None => m.from \in Sender /\ m.token = pkt'[m.from].token
    BY <1>1, <1>2, <1>3, <1>5
  <1>7. SentTokensCurrent'
    BY <1>1, <1>6 DEF SentTokensCurrent
  <1>8. TokensDistinct'
    <2> SUFFICES ASSUME NEW d \in Slots, NEW m \in conns'[d].sent, NEW l \in conns'[d].sent,
                        m.token # None, m.token = l.token
                 PROVE  m.from = l.from
      BY DEF TokensDistinct
    <2>1. CASE d # c
      BY <1>1, <2>1 DEF TokensDistinct
    <2>2. CASE d = c
      BY <1>5, <1>6, <2>2 DEF PacketTokensDistinct
    <2> QED
      BY <2>1, <2>2
  <1> QED
    BY <1>5, <1>7, <1>8

LEMMA ReuseTokens ==
    ASSUME Inv1, Inv2, Inv4, EnoughTokens, NEW p \in Sender, ReuseConnection(p)
    PROVE  Inv4'
  <1>1. /\ Begins(p) /\ cli.conn # NoConn
        /\ Write(p, cli.conn, conns, cli.ver, cli.next, at[p].n + 1)
    BY DEF ReuseConnection, Reusable
  <1>2. /\ cli.conn \in Slots /\ GoodConns(conns) /\ cli.ver \in RadiusVersion
        /\ cli.next \in Tokens \union {None} /\ at[p].n + 1 \in 0..Attempts
    BY <1>1, AttemptFacts DEF Inv1, Typed
  <1>3. Written(p, cli.conn, conns, cli.ver, cli.next, at[p].n + 1)
    BY <1>1, <1>2, Writes, Zenon
  <1>4. conns[cli.conn].ver = cli.ver /\ (cli.ver = V1_1 => cli.next # None)
    BY <1>1 DEF Inv2, ClientVersion
  <1>5. PICK c, ver, next, n : c = cli.conn /\ ver = cli.ver /\ next = cli.next /\ n = at[p].n + 1
    OBVIOUS
  <1>6. ver = V1_1 => \A q \in Sender : pkt[q].token # None =>
                             Distance(pkt[q].token, next) >= Cardinality(Without11)
    BY <1>1, <1>5 DEF Inv4, CounterAhead
  <1>7. \A m \in conns[c].sent : m.token # None => ver = V1_1 /\ m.token = pkt[m.from].token
    <2> SUFFICES ASSUME NEW m \in conns[c].sent, m.token # None
                 PROVE  ver = V1_1 /\ m.token = pkt[m.from].token
      OBVIOUS
    <2>1. m.ver = conns[c].ver /\ m.ver # V1_0
      BY <1>2, <1>5 DEF Inv2, WireMatchesVersion
    <2> QED
      BY <1>1, <1>2, <1>4, <1>5, <2>1 DEF Inv4, SentTokensCurrent, RadiusVersion
  <1>8. Written(p, c, conns, ver, next, n) /\ c \in Slots /\ ver \in RadiusVersion
        /\ next \in Tokens \union {None} /\ (ver = V1_1 => next # None)
    BY <1>2, <1>3, <1>4, <1>5
  <1> QED
    BY <1>2, <1>6, <1>7, <1>8, TokensWritten

LEMMA ConnectedTokens ==
    ASSUME Inv1, Inv4, EnoughTokens, NEW p \in Sender, NEW c \in Slots, NEW token \in FirstTokens,
           Connected(p, c, token)
    PROVE  Inv4'
  <1> DEFINE csx == [conns EXCEPT ![c] = Handshake]
             nextx == IF Handshake.ver = V1_1 THEN token ELSE None
  <1>1. /\ GoodConns(csx) /\ csx[c] = Handshake /\ \A d \in Slots : d # c => csx[d] = conns[d]
        /\ Handshake.ver \in RadiusVersion /\ nextx \in Tokens \union {None}
        /\ Written(p, c, csx, Handshake.ver, nextx, at[p].n)
    BY ConnectedWrites
  <1>2. PICK cs, ver, next, n :
            cs = csx /\ ver = Handshake.ver /\ next = nextx /\ n = at[p].n
    OBVIOUS
  <1>3. ver = V1_1 => next = token
    BY <1>2
  <1> HIDE DEF csx, nextx
  <1>4. /\ GoodConns(cs) /\ cs[c] = Handshake /\ (\A d \in Slots : d # c => cs[d] = conns[d])
        /\ Written(p, c, cs, ver, next, n) /\ ver \in RadiusVersion
        /\ next \in Tokens \union {None}
    BY <1>1, <1>2
  <1>5. token \in Tokens /\ token # None
    BY RadSecAssumption, TokenSpaceAssumption DEF FirstTokens, Tokens, None
  <1>6. \A q \in Sender : pkt[q].token # None =>
            Distance(pkt[q].token, token) >= Cardinality(Without11)
    <2> SUFFICES ASSUME NEW q \in Sender, pkt[q].token # None
                 PROVE  Distance(pkt[q].token, token) >= Cardinality(Without11)
      OBVIOUS
    <2>1. Distance(pkt[q].token, token) >= Cardinality(Sender)
      BY DEF FirstTokens, Distance
    <2>2. pkt[q].token \in Tokens
      BY DEF Inv1, Typed, PacketTyped
    <2>3. PICK t : t = pkt[q].token
      OBVIOUS
    <2>4. Distance(t, token) \in Nat
      BY <1>5, <2>2, <2>3, DistanceDrawn
    <2> QED
      BY <2>1, <2>3, <2>4, FewWithout
  <1>7. \A m \in cs[c].sent : m.token # None => ver = V1_1 /\ m.token = pkt[m.from].token
    BY <1>4 DEF Handshake, Dead
  <1> QED
    BY <1>3, <1>4, <1>5, <1>6, <1>7, TokensWritten

\* Only a write changes the Token of a packet.
LEMMA SenderTokens ==
    ASSUME Inv1, NEW p \in Sender,
           \/ Start(p) \/ DropStale(p) \/ OpenConnection(p) \/ ConnectRefused(p)
           \/ ConnectError(p) \/ TransportError(p) \/ ReadTornFrame(p) \/ ReadBody(p) \/ Cancel(p)
    PROVE  \A q \in Sender : pkt'[q].token = pkt[q].token
  <1>1. DOMAIN pkt = Sender /\ PacketTyped(pkt[p])
    BY DEF Inv1, Typed
  <1>2. ASSUME NEW m, pkt' = [pkt EXCEPT ![p].eap = m]
        PROVE  \A q \in Sender : pkt'[q].token = pkt[q].token
    <2>1. pkt'[p] = [pkt[p] EXCEPT !.eap = m] /\ \A q \in Sender : q # p => pkt'[q] = pkt[q]
      BY <1>1, <1>2
    <2>2. pkt'[p].token = pkt[p].token
      BY <1>1, <2>1 DEF PacketTyped
    <2> QED
      BY <2>1, <2>2
  <1>3. ASSUME NEW m, NEW s, pkt' = [pkt EXCEPT ![p].eap = m, ![p].state = s]
        PROVE  \A q \in Sender : pkt'[q].token = pkt[q].token
    <2>1. /\ pkt'[p] = [pkt[p] EXCEPT !.eap = m, !.state = s]
          /\ \A q \in Sender : q # p => pkt'[q] = pkt[q]
      BY <1>1, <1>3
    <2>2. pkt'[p].token = pkt[p].token
      BY <1>1, <2>1 DEF PacketTyped
    <2> QED
      BY <2>1, <2>2
  <1>4. UNCHANGED pkt => \A q \in Sender : pkt'[q].token = pkt[q].token
    OBVIOUS
  <1>5. CASE Start(p)
    <2>1. UNCHANGED pkt \/ \E m : pkt' = [pkt EXCEPT ![p].eap = m]
      BY <1>5, Zenon DEF Start
    <2> QED
      BY <1>2, <1>4, <2>1, Zenon
  <1>6. CASE ReadBody(p)
    <2> DEFINE raw == at[p].got
               method == GetMethod(conf.kind[p])
               kept == Remember(method, raw.eap, mem[p], <<p, raw.state>>, conf.password)
               x == EapRespond(method, raw.eap, kept, conf.password)
    <2>1. UNCHANGED pkt \/ RespondAndSend(p, raw)
      BY <1>6, Zenon DEF ReadBody
    <2>2. RespondAndSend(p, raw) =>
              UNCHANGED pkt \/ pkt' = [pkt EXCEPT ![p].eap = x, ![p].state = raw.state]
      BY Zenon DEF RespondAndSend
    <2> HIDE DEF x
    <2> QED
      BY <1>3, <1>4, <2>1, <2>2, Zenon
  <1>7. CASE ~(Start(p) \/ ReadBody(p))
    BY <1>4, <1>7 DEF DropStale, OpenConnection, ConnectRefused, ConnectError, TransportError,
                      ReadTornFrame, Cancel
  <1> QED
    BY <1>5, <1>6, <1>7

\* The fourth part is inductive.
LEMMA Inv4Step == EnoughTokens /\ Inv1 /\ Inv2 /\ Inv4 /\ [Next]_vars => Inv4'
  <1> SUFFICES ASSUME EnoughTokens, Inv1, Inv2, Inv4, [Next]_vars PROVE Inv4'
    OBVIOUS
  <1>1. GoodConns(conns) /\ cli.conn \in Slots \union {NoConn} /\ NoClient.conn = NoConn
    BY NoClientTyped DEF Inv1, Typed
  <1>2. ASSUME NEW p \in Sender, SenderStep(p) \/ Cancel(p) PROVE Inv4'
    <2>1. CASE ReuseConnection(p)
      BY <2>1, ReuseTokens
    <2>2. ASSUME NEW c \in Slots, NEW t \in FirstTokens, Connected(p, c, t) PROVE Inv4'
      BY <2>2, ConnectedTokens
    <2>3. CASE ReadHeader(p)
      <3>1. Arrived(p) /\ conns' = Consume(p) /\ UNCHANGED <<cli, pkt>> /\ pc[p] = "header"
        BY <2>3 DEF ReadHeader
      <3>2. Changes(conns, conns')
        BY <1>1, <3>1, AttemptFacts, ConsumeChanges DEF Waits
      <3> QED
        BY <1>1, <3>1, <3>2, TokensKept
    <2>4. CASE \/ Start(p) \/ DropStale(p) \/ OpenConnection(p) \/ ConnectRefused(p)
               \/ ConnectError(p) \/ TransportError(p) \/ ReadTornFrame(p) \/ ReadBody(p) \/ Cancel(p)
      <3>1. Changes(conns, conns') /\ (cli'.conn # NoConn => cli' = cli)
        BY <2>4, SenderQuiet DEF Quiet
      <3> QED
        BY <1>1, <2>4, <3>1, SenderTokens, TokensKept
    <2> QED
      BY <1>2, <2>1, <2>2, <2>3, <2>4, Zenon DEF SenderStep
  <1>3. ASSUME NEW c \in Slots, ServerStep(c) PROVE Inv4'
    <2>1. Changes(conns, conns')
      BY <1>3, ServeKeeps, ServerStopsKeeps, PeerGoneKeeps, Zenon DEF ServerStep
    <2>2. UNCHANGED <<cli, pkt>>
      BY <1>3 DEF ServerStep, Serve, ServerStops, PeerGone, clientVars
    <2> QED
      BY <1>1, <2>1, <2>2, TokensKept
  <1>4. CASE UserClose
    <2>1. Changes(conns, conns') /\ cli' = NoClient /\ UNCHANGED pkt
      BY <1>4, UserCloseKeeps DEF UserClose
    <2> QED
      BY <1>1, <2>1, TokensKept
  <1>5. ASSUME NEW v \in ServerVersions, NEW tls \in TlsVersion, Restart(v, tls) PROVE Inv4'
    <2>1. Changes(conns, conns') /\ UNCHANGED <<cli, pkt>>
      BY <1>5, RestartKeeps DEF Restart, clientVars
    <2> QED
      BY <1>1, <2>1, TokensKept
  <1>6. CASE UNCHANGED vars
    <2>1. UNCHANGED <<conns, cli, pkt>>
      BY <1>6 DEF vars
    <2> QED
      BY <1>1, <2>1, NoChange, TokensKept
  <1> QED
    BY <1>2, <1>3, <1>4, <1>5, <1>6, Zenon DEF Next

LEMMA Inv4Starts == Init => Inv4
  <1> SUFFICES ASSUME Init PROVE Inv4
    OBVIOUS
  <1>1. \A p \in Sender : pkt[p].token = None
    BY DEF Init
  <1>2. \A c \in Slots : conns[c].sent = {}
    BY DEF Init, Dead
  <1>3. cli.conn = NoConn
    BY DEF Init, NoClient
  <1> QED
    BY <1>1, <1>2, <1>3
       DEF Inv4, CounterAhead, PacketTokensDistinct, SentTokensCurrent, TokensDistinct

\* If there are no more senders than Tokens (2^32 in the code), no two packets
\* on a connection ever share a Token: whatever the counter starts with, also
\* when it wraps, when packets keep the Token of an earlier connection, and when
\* connections of version 1.0 come between.
THEOREM RadSecTokensDistinct == EnoughTokens => (Spec => []TokensDistinct)
  <1> SUFFICES ASSUME EnoughTokens PROVE Spec => []TokensDistinct
    OBVIOUS
  <1>1. Inv1 /\ Inv2 /\ Inv4 /\ [Next]_vars => Inv4'
    BY Inv4Step
  <1>2. Inv4 => TokensDistinct
    BY DEF Inv4
  <1> QED
    BY <1>1, <1>2, Inv1Always, Inv2Always, Inv4Starts, PTL DEF Spec

-----------------------------------------------------------------------------
(* Fifth part: EAP conversations. *)

\* Until the server is restarted every connection settles on this version.
AgreedVersion == Negotiate(conf.versions, Alpn)
OneVersion ==
    used.restarts = 0 =>
        /\ \A c \in Slots : conns[c].ver \in {None, AgreedVersion}
        /\ \A p \in Sender : IsReply(result[p]) => pkt[p].ver = AgreedVersion

\* Where senders keep to their own conversations: the server remembers its
\* sessions, and what verify_reply accepts is the sender's own reply.
Undisturbed == used.restarts = 0 /\ (used.cancels = 0 \/ AgreedVersion = V1_0)

\* The user has the right password, and the client the server's method.
Right(p) == conf.password = Password /\ conf.kind[p] = conf.backend
OneShot == conf.backend \in {"md5", "gtc"}

\* What such a client asks in its k-th round: EAP message e with State s.
AsksIdentity(e, s) ==
    s = None /\ e.type = "identity" /\ (conf.backend = "mschapv2" => e.identity = UserName)
AsksVerdict(e, s) ==
    /\ s # None /\ e.type = conf.backend
    /\ conf.backend = "md5" => e.digest = Md5Digest(e.id, Password, s)
    /\ conf.backend = "gtc" => e.password = Password
    /\ conf.backend = "mschapv2" =>
          e.op = "response" /\ e.nt = GenerateNtResponse(s, e.peer, UserName, Password)
AsksEnd(e) == conf.backend = "mschapv2" /\ e.type = "mschapv2" /\ e.op = "success"
Asks(k, e, s) ==
    \/ k = 0 /\ s = None
    \/ k = 1 /\ AsksIdentity(e, s)
    \/ k = 2 /\ AsksVerdict(e, s)
    \/ k = 3 /\ AsksEnd(e)

\* The session of a State is there, for the user.
Alive(s) ==
    \E x \in sessions : x.state = s /\ (conf.backend = "mschapv2" => x.identity = UserName)

\* A one-shot session was used up by an earlier copy of the request.
Excused(p, k) == OneShot /\ <<p, k>> \in served.again

\* What such a client is answered.
Challenges(r) ==
    /\ r.round = 1 /\ Alive(r.state) /\ r.eap.type = conf.backend
    /\ conf.backend # "gtc" => r.eap.challenge = r.state
    /\ conf.backend = "mschapv2" => r.eap.op = "challenge"
Succeeds(r) ==
    r.round = 2 /\ conf.backend = "mschapv2" /\ r.eap.type = "mschapv2" /\ r.eap.op = "success"
Answers(r) ==
    /\ r.code = "reject" => Excused(r.to, r.round)
    /\ r.code = "challenge" => Challenges(r) \/ Succeeds(r)

\* All requests, and all replies that can still be read.
Requests == UNION {Underway(c) : c \in Slots}
Pending ==
    (UNION {UnderwayBack(c) : c \in Slots})
        \union {at[p].got : p \in {q \in Sender : pc[q] = "body"}}

\* The State cookies handed out are the numbers below fresh.
SessionsKept ==
    /\ fresh \in Nat \ {0}
    /\ \A x \in sessions : x.state \in 1..(fresh - 1)
    /\ \A x, y \in sessions : x.state = y.state => x = y

\* Each cookie belongs to one sender, wherever it is found.
Claim(owner, p, s) == s # None => s \in 1..(fresh - 1) /\ owner[s] = p

PacketFits(owner, p) ==
    /\ pc[p] = "idle" => round[p] = 0
    /\ pc[p] \in Active => round[p] >= 1
    /\ Claim(owner, p, pkt[p].state)
    /\ Right(p) =>
          /\ Asks(round[p], pkt[p].eap, pkt[p].state)
          /\ round[p] = 2 => Alive(pkt[p].state) \/ (OneShot /\ <<p, 2>> \in served.once)
RequestFits(owner, m) ==
    /\ m.from \in Sender /\ m.round \in 1..round[m.from]
    /\ Claim(owner, m.from, m.state) /\ m.kind = conf.kind[m.from]
    /\ m.round = round[m.from] => m.state = pkt[m.from].state
    /\ Right(m.from) => Asks(m.round, m.eap, m.state)
ReplyFits(owner, r) ==
    /\ r.to \in Sender /\ r.round \in 1..round[r.to]
    /\ Claim(owner, r.to, r.state)
    /\ Right(r.to) /\ r.round = round[r.to] => Answers(r)
ResultFits(p) == Right(p) /\ result[p].code = "reject" => Excused(p, round[p])

Fits(owner) ==
    /\ \A p \in Sender : PacketFits(owner, p)
    /\ \A m \in Requests : RequestFits(owner, m)
    /\ \A r \in Pending : ReplyFits(owner, r)

Talks ==
    /\ SessionsKept
    /\ \A p \in Sender : ResultFits(p)
    /\ \E owner \in [1..(fresh - 1) -> Sender] : Fits(owner)
Conversations == Undisturbed => Talks

Inv5 == OneVersion /\ Conversations

\* The kinds of answers of a handler to a request with State st: no session is
\* touched but that of st, and a new one gets the next cookie, n.
Ended(a, st, ss) ==
    /\ a.code # "challenge" /\ a.state = None
    /\ a.sessions = ss \/ a.sessions = {x \in ss : x.state # st}
Opened(a, n, ss) ==
    a.state = n /\ \E id : a.sessions = ss \union {[state |-> n, identity |-> id]}
Resumed(a, st, ss) == a.state = st /\ a.sessions = ss
Known(a, st, n, ss) == Ended(a, st, ss) \/ Opened(a, n, ss) \/ Resumed(a, st, ss)

LEMMA AnswerKinds ==
    ASSUME NEW b \in Method, NEW m, NEW st, NEW n, NEW ss
    PROVE  Known(EapServe(b, m, st, n, ss), st, n, ss)
  <1> DEFINE rest == {x \in ss : x.state # st}
  <1>1. ss \ {x \in ss : x.state = st} = rest
    OBVIOUS
  <1>2. /\ \A eap, code : code # "challenge" =>
              /\ Ended(EapAnswer(code, eap, Nothing, ss), st, ss)
              /\ Ended(EapAnswer(code, eap, Nothing, rest), st, ss)
        /\ \A eap : Opened(Challenge(eap, m, n, ss), n, ss)
        /\ \A eap : Resumed(EapAnswer("challenge", eap, st, ss), st, ss)
    BY DEF Ended, Opened, Resumed, EapAnswer, Challenge, Nothing, None
  <1> DEFINE K(a) == Known(a, st, n, ss)
  <1>3. /\ \A eap, code : code # "challenge" =>
              K(EapAnswer(code, eap, Nothing, ss)) /\ K(EapAnswer(code, eap, Nothing, rest))
        /\ \A eap : K(Challenge(eap, m, n, ss)) /\ K(EapAnswer("challenge", eap, st, ss))
    BY <1>2, Zenon DEF Known
  <1> HIDE DEF K
  <1>4. K(RejectWith(ss)) /\ K(RejectWith(rest)) /\ K(SendAccessAccept(st, ss))
    <2>1. "reject" # "challenge" /\ "accept" # "challenge"
      OBVIOUS
    <2> QED
      BY <1>3, <2>1, Zenon DEF RejectWith, SendAccessAccept
  <1>5. \A right : K(Decide(right, st, ss))
    <2>1. "accept" # "challenge"
      OBVIOUS
    <2> QED
      BY <1>1, <1>3, <1>4, <2>1, Zenon DEF Decide
  <1>6. K(VerifyNtResponse(m, st, ss))
    BY <1>1, <1>3, <1>4, Zenon DEF VerifyNtResponse
  <1>7. K(EapAnswer("raised", NoEap, Nothing, ss))
    BY <1>3
  <1>8. K(Md5Serve(m, st, n, ss))
    <2>1. \/ Md5Serve(m, st, n, ss) = SendMd5Challenge(m, n, ss)
          \/ Md5Serve(m, st, n, ss) = VerifyMd5Response(m, st, ss)
          \/ Md5Serve(m, st, n, ss) = RejectWith(ss)
      BY Zenon DEF Md5Serve
    <2> QED
      BY <1>3, <1>4, <1>5, <2>1, Zenon DEF SendMd5Challenge, VerifyMd5Response
  <1>9. K(GtcServe(m, st, n, ss))
    <2>1. \/ GtcServe(m, st, n, ss) = SendGtcPrompt(m, n, ss)
          \/ GtcServe(m, st, n, ss) = VerifyGtcResponse(m, st, ss)
          \/ GtcServe(m, st, n, ss) = RejectWith(ss)
      BY Zenon DEF GtcServe
    <2> QED
      BY <1>3, <1>4, <1>5, <2>1, Zenon DEF SendGtcPrompt, VerifyGtcResponse
  <1>10. K(MschapV2Serve(m, st, n, ss))
    <2>1. \/ MschapV2Serve(m, st, n, ss) = SendMschapChallenge(m, n, ss)
          \/ MschapV2Serve(m, st, n, ss) = VerifyNtResponse(m, st, ss)
          \/ MschapV2Serve(m, st, n, ss) = SendAccessAccept(st, ss)
          \/ MschapV2Serve(m, st, n, ss) = RejectWith(ss)
      BY Zenon DEF MschapV2Serve
    <2> QED
      BY <1>3, <1>4, <1>6, <2>1, Zenon DEF SendMschapChallenge
  <1>11. \/ EapServe(b, m, st, n, ss) = EapAnswer("raised", NoEap, Nothing, ss)
         \/ EapServe(b, m, st, n, ss) = Md5Serve(m, st, n, ss)
         \/ EapServe(b, m, st, n, ss) = GtcServe(m, st, n, ss)
         \/ EapServe(b, m, st, n, ss) = MschapV2Serve(m, st, n, ss)
    <2>1. b = "md5" \/ b = "gtc" \/ b = "mschapv2"
      BY DEF Method
    <2> QED
      BY <2>1, Zenon DEF EapServe
  <1>12. K(EapServe(b, m, st, n, ss))
    BY <1>7, <1>8, <1>9, <1>10, <1>11, Zenon
  <1> QED
    BY <1>12 DEF K

\* What the three handlers answer to what the user's client asks.
LEMMA IdentityAnswer ==
    ASSUME conf.backend \in Method, NEW e, NEW st, AsksIdentity(e, st),
           NEW a, a = EapServe(conf.backend, e, st, fresh, sessions)
    PROVE  /\ a.code = "challenge" /\ a.state = fresh
           /\ a.sessions = sessions \union {[state |-> fresh, identity |-> e.identity]}
           /\ a.eap.type = conf.backend
           /\ conf.backend # "gtc" => a.eap.challenge = fresh
           /\ conf.backend = "mschapv2" => a.eap.op = "challenge"
  <1>1. e.type = "identity"
    BY DEF AsksIdentity
  <1>2. CASE conf.backend = "md5"
    <2>1. a = SendMd5Challenge(e, fresh, sessions)
      BY <1>1, <1>2 DEF EapServe, Md5Serve
    <2> QED
      BY <1>2, <2>1 DEF SendMd5Challenge, Challenge, EapAnswer
  <1>3. CASE conf.backend = "gtc"
    <2>1. a = SendGtcPrompt(e, fresh, sessions)
      BY <1>1, <1>3 DEF EapServe, GtcServe
    <2> QED
      BY <1>3, <2>1 DEF SendGtcPrompt, Challenge, EapAnswer
  <1>4. CASE conf.backend = "mschapv2"
    <2>1. a = SendMschapChallenge(e, fresh, sessions)
      BY <1>1, <1>4 DEF EapServe, MschapV2Serve
    <2> QED
      BY <1>4, <2>1 DEF SendMschapChallenge, Challenge, EapAnswer
  <1> QED
    BY <1>2, <1>3, <1>4 DEF Method

LEMMA VerdictAnswer ==
    ASSUME NEW e, NEW st, AsksVerdict(e, st), OneShot,
           NEW a, a = EapServe(conf.backend, e, st, fresh, sessions)
    PROVE  a.code \in {"accept", "reject"} /\ (Alive(st) => a.code = "accept")
  <1> DEFINE found == {x \in sessions : x.state = st}
  <1>1. Alive(st) => found # {}
    BY DEF Alive
  <1>2. a = Decide(TRUE, st, sessions)
    <2>1. CASE conf.backend = "md5"
      BY <2>1 DEF AsksVerdict, EapServe, Md5Serve, VerifyMd5Response
    <2>2. CASE conf.backend = "gtc"
      BY <2>2 DEF AsksVerdict, EapServe, GtcServe, VerifyGtcResponse
    <2> QED
      BY <2>1, <2>2 DEF OneShot
  <1>3. \/ found # {} /\ a = EapAnswer("accept", NoEap, Nothing, sessions \ found)
        \/ found = {} /\ a = RejectWith(sessions \ found)
    BY <1>2, Zenon DEF Decide
  <1> QED
    BY <1>1, <1>3 DEF EapAnswer, RejectWith

LEMMA NtAnswer ==
    ASSUME SessionsKept, conf.backend = "mschapv2", NEW e, NEW st, AsksVerdict(e, st), Alive(st),
           NEW a, a = EapServe(conf.backend, e, st, fresh, sessions)
    PROVE  /\ a.code = "challenge" /\ a.state = st /\ a.sessions = sessions
           /\ a.eap.type = "mschapv2" /\ a.eap.op = "success"
  <1> DEFINE s == {x \in sessions : x.state = st}
             x == CHOOSE y \in s : TRUE
             proof == GenerateAuthenticatorResponse(Password, e.nt, e.peer, st, x.identity)
  <1>1. PICK y \in sessions : y.state = st /\ y.identity = UserName
    BY DEF Alive
  <1>2. s = {y}
    BY <1>1 DEF SessionsKept
  <1>3. x = y /\ s # {}
    BY <1>2
  <1>4. e.nt = GenerateNtResponse(st, e.peer, x.identity, Password)
    BY <1>1, <1>3 DEF AsksVerdict
  <1>5. a = VerifyNtResponse(e, st, sessions)
    BY DEF AsksVerdict, EapServe, MschapV2Serve
  <1>6. a = EapAnswer("challenge", [id |-> (e.id + 1) % EapIds, type |-> "mschapv2",
                                    op |-> "success", proof |-> proof], st, sessions)
    <2>1. VerifyNtResponse(e, st, sessions) =
            IF s = {} THEN RejectWith(sessions)
            ELSE IF e.nt # GenerateNtResponse(st, e.peer, x.identity, Password)
            THEN RejectWith(sessions \ s)
            ELSE EapAnswer("challenge", [id |-> (e.id + 1) % EapIds, type |-> "mschapv2",
                                         op |-> "success", proof |-> proof], st, sessions)
      BY Zenon DEF VerifyNtResponse
    <2> HIDE DEF s, x, proof
    <2> QED
      BY <1>3, <1>4, <1>5, <2>1
  <1> QED
    BY <1>6 DEF EapAnswer

LEMMA EndAnswer ==
    ASSUME NEW e, AsksEnd(e), NEW st, NEW a, a = EapServe(conf.backend, e, st, fresh, sessions)
    PROVE  a.code = "accept"
  <1>1. a = SendAccessAccept(st, sessions)
    BY DEF AsksEnd, EapServe, MschapV2Serve
  <1> QED
    BY <1>1 DEF SendAccessAccept, EapAnswer

\* packet_received as the sessions see it.
LEMMA ReceivedKinds ==
    ASSUME conf.backend \in Method, NEW msg, NEW a, a = PacketReceived(msg)
    PROVE  Known(a, msg.state, fresh, sessions)
  <1>1. \/ a = EapAnswer("raised", NoEap, None, sessions)
        \/ a = EapAnswer("accept", NoEap, None, sessions)
        \/ a = EapAnswer("accounting", NoEap, None, sessions)
        \/ a = EapAnswer("nak", NoEap, None, sessions)
        \/ a = EapServe(conf.backend, msg.eap, msg.state, fresh, sessions)
    BY Zenon DEF PacketReceived
  <1>2. CASE a = EapServe(conf.backend, msg.eap, msg.state, fresh, sessions)
    BY <1>2, AnswerKinds
  <1>3. CASE a # EapServe(conf.backend, msg.eap, msg.state, fresh, sessions)
    BY <1>1, <1>3 DEF EapAnswer, Known, Ended
  <1> QED
    BY <1>2, <1>3

LEMMA ReceivedEap ==
    ASSUME NEW msg, msg.kind \in Method, NEW a, a = PacketReceived(msg)
    PROVE  \/ a = EapServe(conf.backend, msg.eap, msg.state, fresh, sessions)
           \/ a.code = "raised" /\ a.sessions = sessions
  <1>1. msg.kind # "status" /\ msg.kind # "accounting" /\ msg.kind # "coa"
    BY DEF Method
  <1>2. \/ a = EapAnswer("raised", NoEap, None, sessions)
        \/ a = EapServe(conf.backend, msg.eap, msg.state, fresh, sessions)
    BY <1>1, Zenon DEF PacketReceived
  <1> QED
    BY <1>2 DEF EapAnswer

-----------------------------------------------------------------------------
(* What is under way, as sets. *)

\* Every element of s is one of t.
Within(s, t) == \A i \in DOMAIN s : \E j \in DOMAIN t : s[i] = t[j]

LEMMA WithinFacts ==
    /\ \A s : Within(s, s)
    /\ \A s : Within(<<>>, s)
    /\ \A s : s \in Seq({s[i] : i \in DOMAIN s}) /\ s # <<>> => Within(Tail(s), s)
  <1>1. \A s : Within(s, s) /\ Within(<<>>, s)
    BY DEF Within
  <1>2. ASSUME NEW s, s \in Seq({s[i] : i \in DOMAIN s}), s # <<>> PROVE Within(Tail(s), s)
    BY <1>2, TailFacts DEF Within
  <1> QED
    BY <1>1, <1>2

LEMMA RequestsShrink ==
    ASSUME \A d \in Slots : Within(conns'[d].in, conns[d].in)
    PROVE  Requests' \subseteq Requests
  <1> SUFFICES ASSUME NEW d \in Slots, NEW i \in DOMAIN conns'[d].in
               PROVE  conns'[d].in[i] \in Requests
    BY DEF Requests, Underway
  <1>1. PICK j \in DOMAIN conns[d].in : conns'[d].in[i] = conns[d].in[j]
    BY DEF Within
  <1>2. conns[d].in[j] \in Requests
    BY DEF Requests, Underway
  <1> QED
    BY <1>1, <1>2

LEMMA PendingWithin ==
    ASSUME NEW S, Pending \subseteq S,
           \A d \in Slots : \A i \in DOMAIN conns'[d].out :
               conns'[d].out[i].reply \in S \/ \E j \in DOMAIN conns[d].out :
                                                   conns'[d].out[i] = conns[d].out[j],
           \A q \in Sender : pc'[q] = "body" => at'[q].got \in S
    PROVE  Pending' \subseteq S
  <1>1. ASSUME NEW d \in Slots, NEW i \in DOMAIN conns'[d].out PROVE conns'[d].out[i].reply \in S
    <2>1. \A j \in DOMAIN conns[d].out : conns[d].out[j].reply \in S
      BY DEF Pending, UnderwayBack
    <2> QED
      BY <2>1
  <1> QED
    BY <1>1 DEF Pending, UnderwayBack

LEMMA PendingShrinks ==
    ASSUME \A d \in Slots : Within(conns'[d].out, conns[d].out),
           \A q \in Sender : pc'[q] = "body" => at'[q].got \in Pending
    PROVE  Pending' \subseteq Pending
  BY PendingWithin DEF Within

LEMMA HeaderPending ==
    ASSUME NEW q \in Sender, pc[q] = "body"
    PROVE  at[q].got \in Pending
  BY DEF Pending

-----------------------------------------------------------------------------
(* The steps of the senders. *)

\* What the conversations depend on at the server stands still.
LEMMA ServerStands ==
    ASSUME UNCHANGED <<conf, sessions, fresh, served>>
    PROVE  /\ \A p : Right(p)' <=> Right(p)
           /\ \A k, e, s : Asks(k, e, s)' <=> Asks(k, e, s)
           /\ \A s : Alive(s)' <=> Alive(s)
           /\ \A p, k : Excused(p, k)' <=> Excused(p, k)
           /\ \A r : Answers(r)' <=> Answers(r)
           /\ \A owner, p, s : Claim(owner, p, s)' <=> Claim(owner, p, s)
           /\ SessionsKept' <=> SessionsKept
           /\ OneShot' <=> OneShot
  <1>1. \A s : Alive(s)' <=> Alive(s)
    BY DEF Alive
  <1>2. OneShot' <=> OneShot
    BY DEF OneShot
  <1>3. \A p, k : Excused(p, k)' <=> Excused(p, k)
    BY <1>2 DEF Excused
  <1>4. \A k, e, s : Asks(k, e, s)' <=> Asks(k, e, s)
    <2>1. \A e, s : AsksIdentity(e, s)' <=> AsksIdentity(e, s)
      BY DEF AsksIdentity
    <2>2. \A e, s : AsksVerdict(e, s)' <=> AsksVerdict(e, s)
      BY DEF AsksVerdict
    <2>3. \A e : AsksEnd(e)' <=> AsksEnd(e)
      BY DEF AsksEnd
    <2> QED
      BY <2>1, <2>2, <2>3 DEF Asks
  <1>5. \A r : Answers(r)' <=> Answers(r)
    <2>1. \A r : Challenges(r)' <=> Challenges(r)
      BY <1>1 DEF Challenges
    <2>2. \A r : Succeeds(r)' <=> Succeeds(r)
      BY DEF Succeeds
    <2> QED
      BY <1>3, <2>1, <2>2 DEF Answers
  <1> QED
    BY <1>1, <1>2, <1>3, <1>4, <1>5 DEF Right, Claim, SessionsKept

\* A step of sender p at the client.
ClientStep(p) ==
    /\ \A q \in Sender : q # p =>
          /\ pc'[q] = pc[q] /\ round'[q] = round[q] /\ result'[q] = result[q]
          /\ pkt'[q].eap = pkt[q].eap /\ pkt'[q].state = pkt[q].state
    /\ UNCHANGED <<conf, sessions, fresh, served>>
    /\ Pending' \subseteq Pending

\* It does not begin a new round.
SameRound(p) ==
    /\ round'[p] = round[p] /\ pkt'[p].eap = pkt[p].eap /\ pkt'[p].state = pkt[p].state
    /\ pc'[p] # "idle" /\ (pc'[p] \in Active => pc[p] \in Active)
    /\ \A m \in Requests' : m \in Requests \/ (Carries(p, m) /\ pc[p] \in Active)
    /\ result'[p].code = "reject" =>
          /\ result'[p] \in Pending
          /\ result'[p].to = p /\ result'[p].round = round[p]

LEMMA SameRoundFits ==
    ASSUME round \in [Sender -> Nat], NEW p \in Sender, ClientStep(p), SameRound(p),
           NEW owner, Fits(owner), SessionsKept, \A q \in Sender : ResultFits(q)
    PROVE  Fits(owner)' /\ SessionsKept' /\ \A q \in Sender : ResultFits(q)'
  <1> USE DEF ClientStep
  <1>1. \A q \in Sender :
            round'[q] = round[q] /\ pkt'[q].eap = pkt[q].eap /\ pkt'[q].state = pkt[q].state
    BY DEF SameRound
  <1>2. ASSUME NEW q \in Sender PROVE PacketFits(owner, q)'
    <2>1. PacketFits(owner, q)
      BY DEF Fits
    <2>2. pc'[q] = "idle" => pc[q] = "idle"
      BY DEF SameRound
    <2>3. pc'[q] \in Active => pc[q] \in Active
      BY DEF SameRound
    <2>4. served' = served
      OBVIOUS
    <2> QED
      BY <1>1, <2>1, <2>2, <2>3, <2>4, ServerStands DEF PacketFits
  <1>3. ASSUME NEW m \in Requests' PROVE RequestFits(owner, m)'
    <2>1. CASE m \in Requests
      <3>1. RequestFits(owner, m)
        BY <2>1 DEF Fits
      <3>2. m.from \in Sender
        BY <3>1 DEF RequestFits
      <3> QED
        BY <1>1, <3>1, <3>2, ServerStands DEF RequestFits
    <2>2. CASE Carries(p, m) /\ pc[p] \in Active
      <3>1. PacketFits(owner, p)
        BY DEF Fits
      <3>2. round[p] >= 1 /\ round[p] \in Nat
        BY <2>2, <3>1 DEF PacketFits
      <3>3. m.from = p /\ m.round = round[p] /\ m.kind = conf.kind[p] /\ m.eap = pkt[p].eap
            /\ m.state = pkt[p].state
        BY <2>2 DEF Carries
      <3>4. Claim(owner, p, m.state) /\ (Right(p) => Asks(m.round, m.eap, m.state))
        BY <3>1, <3>3 DEF PacketFits
      <3>5. m.round \in 1..round'[p] /\ m.state = pkt'[p].state /\ m.kind = conf'.kind[p]
        BY <1>1, <3>2, <3>3
      <3> QED
        BY <3>3, <3>4, <3>5, ServerStands DEF RequestFits
    <2> QED
      BY <2>1, <2>2 DEF SameRound
  <1>4. ASSUME NEW r \in Pending' PROVE ReplyFits(owner, r)'
    <2>1. ReplyFits(owner, r)
      BY DEF Fits
    <2>2. r.to \in Sender
      BY <2>1 DEF ReplyFits
    <2> QED
      BY <1>1, <2>1, <2>2, ServerStands DEF ReplyFits
  <1>5. ASSUME NEW q \in Sender PROVE ResultFits(q)'
    <2>1. CASE q # p
      BY <1>1, <2>1, ServerStands DEF ResultFits
    <2>2. CASE q = p
      <3> SUFFICES ASSUME Right(p), result'[p].code = "reject" PROVE Excused(p, round[p])
        BY <1>1, <2>2, ServerStands DEF ResultFits
      <3>1. ReplyFits(owner, result'[p]) /\ result'[p].to = p /\ result'[p].round = round[p]
        BY DEF Fits, SameRound
      <3> QED
        BY <3>1 DEF ReplyFits, Answers
    <2> QED
      BY <2>1, <2>2
  <1> QED
    BY <1>2, <1>3, <1>4, <1>5, ServerStands DEF Fits

\* It begins a new round.
NewRound(p) ==
    /\ round'[p] = round[p] + 1 /\ pc'[p] = "lock" /\ result'[p].code = NONE
    /\ Requests' \subseteq Requests

LEMMA NewRoundFits ==
    ASSUME round \in [Sender -> Nat], NEW p \in Sender, ClientStep(p), NewRound(p),
           NEW owner, Fits(owner), SessionsKept, \A q \in Sender : ResultFits(q),
           Claim(owner, p, pkt'[p].state),
           Right(p) => Asks(round[p] + 1, pkt'[p].eap, pkt'[p].state),
           Right(p) /\ round[p] = 1 => Alive(pkt'[p].state)
    PROVE  Fits(owner)' /\ SessionsKept' /\ \A q \in Sender : ResultFits(q)'
  <1> USE DEF ClientStep
  <1>1. \A q \in Sender : round[q] \in Nat /\ round[q] <= round'[q] /\ round'[q] \in Nat
    BY DEF NewRound
  <1>2. ASSUME NEW q \in Sender PROVE PacketFits(owner, q)'
    <2>1. CASE q # p
      <3>1. PacketFits(owner, q) /\ served' = served
        BY DEF Fits
      <3>2. /\ pc'[q] = pc[q] /\ round'[q] = round[q]
            /\ pkt'[q].eap = pkt[q].eap /\ pkt'[q].state = pkt[q].state
        BY <2>1
      <3> QED
        BY <3>1, <3>2, ServerStands DEF PacketFits
    <2>2. CASE q = p
      <3>1. pc'[p] # "idle" /\ round'[p] = round[p] + 1 /\ round'[p] >= 1
        BY <1>1 DEF NewRound
      <3>2. round'[p] = 2 => round[p] = 1
        BY <1>1, <3>1
      <3> QED
        BY <2>2, <3>1, <3>2, ServerStands DEF PacketFits
    <2> QED
      BY <2>1, <2>2
  <1>3. ASSUME NEW m \in Requests' PROVE RequestFits(owner, m)'
    <2>1. RequestFits(owner, m)
      BY DEF Fits, NewRound
    <2>2. m.from \in Sender /\ m.round \in 1..round[m.from]
      BY <2>1 DEF RequestFits
    <2>3. m.round \in 1..round'[m.from]
      BY <1>1, <2>2
    <2>4. m.round = round'[m.from] => m.from # p
      BY <1>1, <2>2 DEF NewRound
    <2> QED
      BY <2>1, <2>2, <2>3, <2>4, ServerStands DEF RequestFits
  <1>4. ASSUME NEW r \in Pending' PROVE ReplyFits(owner, r)'
    <2>1. ReplyFits(owner, r)
      BY DEF Fits
    <2>2. r.to \in Sender /\ r.round \in 1..round[r.to]
      BY <2>1 DEF ReplyFits
    <2>3. r.round \in 1..round'[r.to]
      BY <1>1, <2>2
    <2>4. r.round = round'[r.to] => r.to # p
      BY <1>1, <2>2 DEF NewRound
    <2> QED
      BY <2>1, <2>2, <2>3, <2>4, ServerStands DEF ReplyFits
  <1>5. ASSUME NEW q \in Sender PROVE ResultFits(q)'
    <2>1. CASE q # p
      BY <2>1, ServerStands DEF ResultFits
    <2>2. CASE q = p
      BY <2>2 DEF ResultFits, NewRound, NONE
    <2> QED
      BY <2>1, <2>2
  <1> QED
    BY <1>2, <1>3, <1>4, <1>5, ServerStands DEF Fits

-----------------------------------------------------------------------------
(* The server handles a request. *)

\* Request msg is answered a; conf and the client stand still.
Handles(msg, a) ==
    LET key == <<msg.from, msg.round>> IN
    /\ msg \in Requests /\ a = PacketReceived(msg)
    /\ sessions' = a.sessions
    /\ fresh' = IF a.state = fresh THEN fresh + 1 ELSE fresh
    /\ served' = [once |-> served.once \union {key},
                  again |-> IF key \in served.once THEN served.again \union {key}
                            ELSE served.again]
    /\ UNCHANGED <<conf, pc, pkt, at, result, round>>
    /\ Requests' \subseteq Requests
    /\ Pending' \subseteq Pending \union {ReplyTo(msg, a)}

\* Nothing that depends on conf or on the history of the server is lost.
LEMMA HandledStands ==
    ASSUME NEW msg, NEW a, Handles(msg, a)
    PROVE  /\ \A p : Right(p)' <=> Right(p)
           /\ \A k, e, s : Asks(k, e, s)' <=> Asks(k, e, s)
           /\ \A p, k : Excused(p, k) => Excused(p, k)'
           /\ OneShot' <=> OneShot
           /\ \A r : Succeeds(r)' <=> Succeeds(r)
           /\ \A x : x \in served.once => x \in served'.once
           /\ <<msg.from, msg.round>> \in served'.once
           /\ <<msg.from, msg.round>> \in served.once => <<msg.from, msg.round>> \in served'.again
  <1>1. OneShot' <=> OneShot
    BY DEF OneShot, Handles
  <1>2. /\ \A x : x \in served.once => x \in served'.once
        /\ \A x : x \in served.again => x \in served'.again
        /\ <<msg.from, msg.round>> \in served'.once
        /\ <<msg.from, msg.round>> \in served.once => <<msg.from, msg.round>> \in served'.again
    BY DEF Handles
  <1>3. \A p, k : Excused(p, k) => Excused(p, k)'
    BY <1>1, <1>2 DEF Excused
  <1>4. \A k, e, s : Asks(k, e, s)' <=> Asks(k, e, s)
    <2>1. conf' = conf
      BY DEF Handles
    <2>2. \A e, s : AsksIdentity(e, s)' <=> AsksIdentity(e, s)
      BY <2>1 DEF AsksIdentity
    <2>3. \A e, s : AsksVerdict(e, s)' <=> AsksVerdict(e, s)
      BY <2>1 DEF AsksVerdict
    <2>4. \A e : AsksEnd(e)' <=> AsksEnd(e)
      BY <2>1 DEF AsksEnd
    <2> QED
      BY <2>2, <2>3, <2>4 DEF Asks
  <1> QED
    BY <1>1, <1>2, <1>3, <1>4 DEF Right, Succeeds, Handles

\* The cookies and their owners: a new one belongs to the sender of the request.
LEMMA CookiesKept ==
    ASSUME conf.backend \in Method, SessionsKept, NEW owner \in [1..(fresh - 1) -> Sender],
           NEW msg, NEW a, Handles(msg, a), RequestFits(owner, msg)
    PROVE  /\ SessionsKept'
           /\ \E new \in [1..(fresh' - 1) -> Sender] :
                 /\ \A p, s : Claim(owner, p, s) => Claim(new, p, s)'
                 /\ Claim(new, msg.from, a.state)'
  <1>1. fresh \in Nat /\ fresh >= 1
    BY DEF SessionsKept
  <1>2. Known(a, msg.state, fresh, sessions)
    BY ReceivedKinds DEF Handles
  <1>3. fresh' = (IF a.state = fresh THEN fresh + 1 ELSE fresh) /\ sessions' = a.sessions
    BY DEF Handles
  <1>4. msg.from \in Sender /\ Claim(owner, msg.from, msg.state)
    BY DEF RequestFits
  <1>5. msg.state # fresh
    BY <1>1, <1>4 DEF Claim, None
  <1>6. /\ fresh' \in Nat /\ fresh' >= fresh /\ (a.state = fresh => fresh' = fresh + 1)
        /\ a.state # fresh => fresh' = fresh
    BY <1>1, <1>3
  <1>7. PICK new : new = [n \in 1..(fresh' - 1) |-> IF n = fresh THEN msg.from ELSE owner[n]]
    OBVIOUS
  <1>8. \A n \in 1..(fresh - 1) : n \in 1..(fresh' - 1) /\ n # fresh
    <2>1. \A f, g \in Nat : g >= f => \A n \in 1..(f - 1) : n \in 1..(g - 1) /\ n # f
      OBVIOUS
    <2>2. fresh \in Nat /\ fresh' \in Nat /\ fresh' >= fresh
      BY <1>1, <1>6
    <2> QED
      BY <2>1, <2>2, Zenon
  <1>9. \A n \in 1..(fresh - 1) : n \in 1..(fresh' - 1) /\ new[n] = owner[n]
    BY <1>7, <1>8
  <1>10. new \in [1..(fresh' - 1) -> Sender]
    <2>1. \A n \in 1..(fresh' - 1) : n = fresh \/ n \in 1..(fresh - 1)
      BY <1>1, <1>3
    <2> QED
      BY <1>4, <1>7, <2>1
  <1>11. ASSUME NEW p, NEW s, Claim(owner, p, s) PROVE Claim(new, p, s)'
    BY <1>9, <1>11 DEF Claim, None
  <1>12. a.state = fresh => fresh \in 1..(fresh' - 1) /\ new[fresh] = msg.from
    BY <1>1, <1>6, <1>7
  <1>13. CASE a.state # fresh
    <2>1. a.sessions \subseteq sessions
      BY <1>2, <1>13 DEF Known, Ended, Opened, Resumed
    <2>2. SessionsKept'
      BY <1>3, <1>6, <1>13, <2>1 DEF SessionsKept
    <2>3. Claim(new, msg.from, a.state)'
      <3>1. a.state = None \/ a.state = msg.state
        BY <1>2, <1>13 DEF Known, Ended, Opened, Resumed
      <3>2. CASE a.state = None
        BY <3>2 DEF Claim, None
      <3>3. CASE a.state = msg.state
        BY <1>4, <1>11, <3>3
      <3> QED
        BY <3>1, <3>2, <3>3
    <2> QED
      BY <1>10, <1>11, <2>2, <2>3
  <1>14. CASE a.state = fresh
    <2>1. PICK id : a.sessions = sessions \union {[state |-> fresh, identity |-> id]}
      <3>1. Opened(a, fresh, sessions)
        BY <1>1, <1>2, <1>5, <1>14 DEF Known, Ended, Resumed, None
      <3> QED
        BY <3>1, Zenon DEF Opened
    <2> DEFINE y == [state |-> fresh, identity |-> id]
    <2>2. y.state = fresh
      OBVIOUS
    <2> HIDE DEF y
    <2>3. \A x \in sessions' : x \in sessions \/ x = y
      BY <1>3, <2>1 DEF y
    <2>4. \A x \in sessions : x.state \in 1..(fresh - 1) /\ x.state # fresh
      BY <1>1 DEF SessionsKept
    <2>5. \A x \in sessions' : x.state \in 1..(fresh' - 1)
      BY <1>1, <1>6, <1>14, <2>2, <2>3, <2>4
    <2>6. \A x, z \in sessions' : x.state = z.state => x = z
      BY <2>2, <2>3, <2>4 DEF SessionsKept
    <2>7. SessionsKept'
      BY <1>1, <1>6, <1>14, <2>5, <2>6 DEF SessionsKept
    <2>8. Claim(new, msg.from, a.state)'
      BY <1>12, <1>14 DEF Claim
    <2> QED
      BY <1>10, <1>11, <2>7, <2>8
  <1> QED
    BY <1>13, <1>14

\* A session ends only with a request that carries its cookie.
LEMMA SessionStays ==
    ASSUME conf.backend \in Method, NEW msg, NEW a, Handles(msg, a),
           NEW s, Alive(s), ~Alive(s)'
    PROVE  s = msg.state /\ a.sessions # sessions /\ \E x \in sessions : x.state = s
  <1>1. PICK x \in sessions : x.state = s /\ (conf.backend = "mschapv2" => x.identity = UserName)
    BY DEF Alive
  <1>2. x \notin a.sessions
    BY <1>1 DEF Alive, Handles
  <1>3. Known(a, msg.state, fresh, sessions)
    BY ReceivedKinds DEF Handles
  <1> QED
    BY <1>1, <1>2, <1>3 DEF Known, Ended, Opened, Resumed

\* A right client's session ends by its own request for a verdict, in round 2.
LEMMA SessionEnds ==
    ASSUME conf \in Config, round \in [Sender -> Nat], SessionsKept,
           NEW owner, NEW msg, NEW a, Handles(msg, a), RequestFits(owner, msg),
           NEW p \in Sender, Right(p), NEW s, Claim(owner, p, s), Alive(s), ~Alive(s)',
           round[p] <= 2
    PROVE  round[p] = 2 /\ msg.from = p /\ msg.round = 2 /\ OneShot
  <1>1. conf.backend \in Method /\ conf.kind[p] = conf.backend
    BY DEF Config, Right
  <1>2. s = msg.state /\ a.sessions # sessions
    BY <1>1, SessionStays
  <1>3. s # None
    <2>1. PICK x \in sessions : x.state = s
      BY DEF Alive
    <2>2. s \in 1..(fresh - 1) /\ fresh \in Nat
      BY <2>1 DEF SessionsKept
    <2> QED
      BY <2>2 DEF None
  <1>4. msg.from = p
    BY <1>2, <1>3 DEF RequestFits, Claim
  <1>5. msg.round \in 1..round[p] /\ Asks(msg.round, msg.eap, s) /\ msg.kind \in Method
    BY <1>1, <1>2, <1>4 DEF RequestFits
  <1>6. msg.round \in {1, 2} /\ round[p] \in Nat
    BY <1>5
  <1>7. msg.round = 2 /\ AsksVerdict(msg.eap, s)
    BY <1>3, <1>5, <1>6 DEF Asks, AsksIdentity
  <1>8. round[p] = 2
    BY <1>5, <1>6, <1>7
  <1>9. ASSUME conf.backend = "mschapv2" PROVE FALSE
    <2>1. a = EapServe(conf.backend, msg.eap, msg.state, fresh, sessions)
      BY <1>2, <1>5, ReceivedEap DEF Handles
    <2> QED
      BY <1>2, <1>7, <1>9, <2>1, NtAnswer
  <1> QED
    BY <1>1, <1>4, <1>7, <1>8, <1>9 DEF Method, OneShot

\* What a right client is answered.
LEMMA RightAnswered ==
    ASSUME conf \in Config, round \in [Sender -> Nat], SessionsKept,
           NEW owner, NEW msg, NEW a, Handles(msg, a), RequestFits(owner, msg),
           PacketFits(owner, msg.from), Right(msg.from), msg.round = round[msg.from]
    PROVE  Answers(ReplyTo(msg, a))'
  <1> DEFINE p == msg.from
             reply == ReplyTo(msg, a)
  <1>1. conf.backend \in Method /\ conf.kind[p] = conf.backend
    BY DEF Config, Right
  <1>2. /\ msg.round \in 1..round[p] /\ Asks(msg.round, msg.eap, msg.state) /\ msg.kind \in Method
        /\ msg.state = pkt[p].state /\ p \in Sender
    BY <1>1 DEF RequestFits
  <1>3. /\ reply.to = p /\ reply.round = msg.round /\ reply.code = a.code
        /\ reply.eap = a.eap /\ reply.state = a.state
    BY DEF ReplyTo
  <1>4. conf' = conf /\ sessions' = a.sessions
    BY DEF Handles
  <1> HIDE DEF reply
  <1>5. CASE a.code = "raised"
    BY <1>3, <1>5 DEF Answers, reply
  <1>6. CASE a.code # "raised"
    <2>1. a = EapServe(conf.backend, msg.eap, msg.state, fresh, sessions)
      BY <1>2, <1>6, ReceivedEap DEF Handles
    <2>2. CASE msg.round = 1
      <3>1. AsksIdentity(msg.eap, msg.state)
        BY <1>2, <2>2 DEF Asks
      <3>2. /\ a.code = "challenge" /\ a.state = fresh
            /\ a.sessions = sessions \union {[state |-> fresh, identity |-> msg.eap.identity]}
            /\ a.eap.type = conf.backend
            /\ conf.backend # "gtc" => a.eap.challenge = fresh
            /\ conf.backend = "mschapv2" => a.eap.op = "challenge"
        BY <1>1, <2>1, <3>1, IdentityAnswer
      <3>3. Alive(a.state)'
        <4> DEFINE y == [state |-> fresh, identity |-> msg.eap.identity]
        <4>1. y \in sessions' /\ y.state = fresh /\ y.identity = msg.eap.identity
          BY <1>4, <3>2
        <4>2. conf.backend = "mschapv2" => msg.eap.identity = UserName
          BY <3>1 DEF AsksIdentity
        <4> HIDE DEF y
        <4> QED
          BY <1>4, <3>2, <4>1, <4>2 DEF Alive
      <3>4. Challenges(reply)'
        BY <1>3, <1>4, <2>2, <3>2, <3>3 DEF Challenges
      <3> QED
        BY <1>3, <3>2, <3>4 DEF Answers, reply
    <2>3. CASE msg.round = 2
      <3>1. AsksVerdict(msg.eap, msg.state)
        BY <1>2, <2>3 DEF Asks
      <3>2. Alive(msg.state) \/ (OneShot /\ <<p, 2>> \in served.once)
        BY <1>2, <2>3 DEF PacketFits
      <3>3. CASE OneShot
        <4>1. a.code \in {"accept", "reject"} /\ (Alive(msg.state) => a.code = "accept")
          BY <2>1, <3>1, <3>3, VerdictAnswer
        <4>2. a.code = "reject" => Excused(p, 2)'
          BY <2>3, <3>2, <3>3, <4>1, HandledStands DEF Excused
        <4> QED
          BY <1>3, <2>3, <4>1, <4>2 DEF Answers, reply
      <3>4. CASE ~OneShot
        <4>1. conf.backend = "mschapv2"
          BY <1>1, <3>4 DEF OneShot, Method
        <4>2. a.code = "challenge" /\ a.eap.type = "mschapv2" /\ a.eap.op = "success"
          BY <2>1, <3>1, <3>2, <3>4, <4>1, NtAnswer
        <4>3. Succeeds(reply)'
          BY <1>3, <1>4, <2>3, <4>1, <4>2 DEF Succeeds
        <4> QED
          BY <1>3, <4>2, <4>3 DEF Answers, reply
      <3> QED
        BY <3>3, <3>4
    <2>4. CASE msg.round = 3
      <3>1. AsksEnd(msg.eap)
        BY <1>2, <2>4 DEF Asks
      <3>2. a.code = "accept"
        BY <2>1, <3>1, EndAnswer
      <3> QED
        BY <1>3, <3>2 DEF Answers, reply
    <2>5. msg.round \in {1, 2, 3}
      BY <1>2 DEF Asks
    <2> QED
      BY <2>2, <2>3, <2>4, <2>5
  <1> QED
    BY <1>5, <1>6

LEMMA HandledFits ==
    ASSUME conf \in Config, round \in [Sender -> Nat], SessionsKept,
           NEW owner \in [1..(fresh - 1) -> Sender], Fits(owner), \A p \in Sender : ResultFits(p),
           NEW msg, NEW a, Handles(msg, a)
    PROVE  /\ SessionsKept' /\ \A p \in Sender : ResultFits(p)'
           /\ \E new \in [1..(fresh' - 1) -> Sender] : Fits(new)'
  <1>1. RequestFits(owner, msg) /\ conf.backend \in Method
    BY DEF Fits, Handles, Config
  <1>2. SessionsKept'
    BY <1>1, CookiesKept
  <1>3. PICK new \in [1..(fresh' - 1) -> Sender] :
            /\ \A p, s : Claim(owner, p, s) => Claim(new, p, s)'
            /\ Claim(new, msg.from, a.state)'
    BY <1>1, CookiesKept
  <1>4. UNCHANGED <<conf, pc, pkt, at, result, round>>
    BY DEF Handles
  <1>5. \A p \in Sender : ResultFits(p)'
    BY <1>4, HandledStands DEF ResultFits
  <1>6. ASSUME NEW p \in Sender PROVE PacketFits(new, p)'
    <2>1. PacketFits(owner, p)
      BY DEF Fits
    <2>2. Claim(new, p, pkt[p].state)'
      <3>1. Claim(owner, p, pkt[p].state)
        BY <2>1 DEF PacketFits
      <3>2. PICK s : s = pkt[p].state
        OBVIOUS
      <3>3. Claim(new, p, s)'
        BY <1>3, <3>1, <3>2
      <3> QED
        BY <1>4, <3>2, <3>3
    <2>3. ASSUME Right(p), round[p] = 2
          PROVE  Alive(pkt[p].state)' \/ (OneShot /\ <<p, 2>> \in served.once)'
      <3>1. PICK s : s = pkt[p].state
        OBVIOUS
      <3>2. Alive(s) \/ (OneShot /\ <<p, 2>> \in served.once)
        BY <2>1, <2>3, <3>1 DEF PacketFits
      <3>3. CASE Alive(s) /\ ~Alive(s)'
        <4>1. Claim(owner, p, s)
          BY <2>1, <3>1 DEF PacketFits
        <4>2. msg.from = p /\ msg.round = 2 /\ OneShot
          BY <1>1, <2>3, <3>3, <4>1, SessionEnds
        <4> QED
          BY <4>2, HandledStands
      <3>4. CASE Alive(s)'
        BY <1>4, <3>1, <3>4
      <3>5. CASE OneShot /\ <<p, 2>> \in served.once
        BY <3>5, HandledStands
      <3> QED
        BY <3>2, <3>3, <3>4, <3>5
    <2> QED
      BY <1>4, <2>1, <2>2, <2>3, HandledStands DEF PacketFits
  <1>7. ASSUME NEW m \in Requests' PROVE RequestFits(new, m)'
    <2>1. RequestFits(owner, m)
      BY DEF Fits, Handles
    <2> QED
      BY <1>3, <1>4, <2>1, HandledStands DEF RequestFits
  <1>8. ASSUME NEW r \in Pending PROVE ReplyFits(new, r)'
    <2>1. ReplyFits(owner, r)
      BY DEF Fits
    <2>2. ASSUME Right(r.to), r.round = round[r.to] PROVE Answers(r)'
      <3>1. Answers(r) /\ r.to \in Sender /\ Claim(owner, r.to, r.state)
        BY <2>1, <2>2 DEF ReplyFits
      <3>2. Challenges(r) => Challenges(r)'
        <4> SUFFICES ASSUME Challenges(r), ~Alive(r.state)' PROVE FALSE
          BY <1>4 DEF Challenges
        <4>1. Alive(r.state) /\ round[r.to] = 1
          BY <2>2 DEF Challenges
        <4> QED
          BY <1>1, <2>2, <3>1, <4>1, SessionEnds
      <3> QED
        BY <3>1, <3>2, HandledStands DEF Answers
    <2> QED
      BY <1>3, <1>4, <2>1, <2>2, HandledStands DEF ReplyFits
  <1>9. PICK reply : reply = ReplyTo(msg, a)
    OBVIOUS
  <1>10. ReplyFits(new, reply)'
    <2>1. reply.to = msg.from /\ reply.round = msg.round /\ reply.state = a.state
      BY <1>9 DEF ReplyTo
    <2>2. msg.from \in Sender /\ msg.round \in 1..round[msg.from]
      BY <1>1 DEF RequestFits
    <2>3. ASSUME Right(msg.from), msg.round = round[msg.from] PROVE Answers(reply)'
      <3>1. PacketFits(owner, msg.from)
        BY <2>2 DEF Fits
      <3>2. Answers(ReplyTo(msg, a))'
        BY <1>1, <2>3, <3>1, RightAnswered
      <3> QED
        BY <1>9, <3>2
    <2> QED
      BY <1>3, <1>4, <2>1, <2>2, <2>3, HandledStands DEF ReplyFits
  <1>11. \A r \in Pending' : ReplyFits(new, r)'
    BY <1>8, <1>9, <1>10 DEF Handles
  <1>12. Fits(new)'
    BY <1>6, <1>7, <1>11 DEF Fits
  <1> QED
    BY <1>2, <1>5, <1>12

-----------------------------------------------------------------------------
(* The actions, as such steps. *)

\* Nothing new is under way.
Less(cs, ds) ==
    \A c \in Slots : Within(ds[c].in, cs[c].in) /\ Within(ds[c].out, cs[c].out)

LEMMA LessComposes ==
    ASSUME NEW cs, NEW ds, NEW es, Less(cs, ds), Less(ds, es)
    PROVE  Less(cs, es)
  <1>1. ASSUME NEW s, NEW t, NEW u, Within(t, s), Within(u, t) PROVE Within(u, s)
    <2> SUFFICES ASSUME NEW i \in DOMAIN u PROVE \E j \in DOMAIN s : u[i] = s[j]
      BY DEF Within
    <2>1. PICK k \in DOMAIN t : u[i] = t[k]
      BY <1>1 DEF Within
    <2>2. PICK j \in DOMAIN s : t[k] = s[j]
      BY <1>1 DEF Within
    <2> QED
      BY <2>1, <2>2
  <1> QED
    BY <1>1, Zenon DEF Less

LEMMA LessItself == \A cs : Less(cs, cs)
  BY WithinFacts DEF Less

LEMMA ClosedLess ==
    ASSUME NEW cs, GoodConns(cs), NEW d \in Slots \union {NoConn}
    PROVE  Less(cs, ClosedAt(cs, d))
  <1> SUFFICES ASSUME NEW c \in Slots
               PROVE  /\ Within(ClosedAt(cs, d)[c].in, cs[c].in)
                      /\ Within(ClosedAt(cs, d)[c].out, cs[c].out)
    BY Zenon DEF Less
  <1>1. DOMAIN cs = Slots /\ ConnTyped(cs[c])
    BY DEF GoodConns
  <1>2. /\ c # d => ClosedAt(cs, d)[c] = cs[c]
        /\ d \in Slots => ClosedAt(cs, d)[d] = Tidy([cs[d] EXCEPT !.up = "closed", !.out = <<>>])
    BY <1>1, ClosedAtFacts, Zenon
  <1>3. CASE c # d
    BY <1>2, <1>3, WithinFacts
  <1>4. CASE c = d
    <2> DEFINE x == [cs[c] EXCEPT !.up = "closed", !.out = <<>>]
    <2>1. ClosedAt(cs, d)[c] = Tidy(x)
      BY <1>2, <1>4, Zenon
    <2>2. x.in = cs[c].in /\ x.out = <<>>
      BY <1>1 DEF ConnTyped
    <2> HIDE DEF x
    <2>3. ClosedAt(cs, d)[c] = x \/ ClosedAt(cs, d)[c] = Dead
      BY <2>1 DEF Tidy
    <2>4. Dead.in = <<>> /\ Dead.out = <<>>
      BY DEF Dead
    <2> QED
      BY <2>2, <2>3, <2>4, WithinFacts
  <1> QED
    BY <1>3, <1>4

LEMMA ConsumeLess ==
    ASSUME GoodConns(conns), NEW p \in Sender, at[p].conn \in Slots, Arrived(p)
    PROVE  Less(conns, Consume(p)) /\ GoodConns(Consume(p)) /\ NextUnit(p).reply \in Pending
  <1>1. GoodConns(Consume(p))
    BY ConsumeChanges, ChangesKeep
  <1>2. conns[at[p].conn].out # <<>>
    BY DEF Arrived
  <1>3. ASSUME NEW c \in Slots
        PROVE  Within(Consume(p)[c].in, conns[c].in) /\ Within(Consume(p)[c].out, conns[c].out)
    <2>1. conns[c].out \in Seq({conns[c].out[i] : i \in DOMAIN conns[c].out})
      BY StreamTyped
    <2>2. /\ Consume(p)[c].in = conns[c].in
          /\ Consume(p)[c].out = IF c = at[p].conn THEN Tail(conns[c].out) ELSE conns[c].out
      BY ConsumeUntouched
    <2> QED
      BY <1>2, <2>1, <2>2, WithinFacts
  <1>4. NextUnit(p).reply \in Pending
    <2>1. PICK c \in Slots : c = at[p].conn
      OBVIOUS
    <2>2. PICK s : s = conns[c].out
      OBVIOUS
    <2>3. s \in Seq({s[i] : i \in DOMAIN s}) /\ s # <<>>
      BY <1>2, <2>1, <2>2, StreamTyped
    <2>4. 1 \in DOMAIN s /\ Head(s) = s[1]
      BY <2>3, TailFacts
    <2>5. s[1].reply \in UnderwayBack(c)
      BY <2>2, <2>4 DEF UnderwayBack
    <2> QED
      BY <2>1, <2>2, <2>4, <2>5 DEF NextUnit, Pending
  <1> QED
    BY <1>1, <1>3, <1>4, Zenon DEF Less

LEMMA SenderLess ==
    ASSUME Inv1, NEW p \in Sender,
           \/ Start(p) \/ DropStale(p) \/ OpenConnection(p) \/ ConnectRefused(p)
           \/ ConnectError(p) \/ TransportError(p) \/ ReadTornFrame(p) \/ ReadBody(p) \/ Cancel(p)
    PROVE  Less(conns, conns')
  <1>1. /\ GoodConns(conns) /\ at[p].conn \in Slots \union {NoConn}
        /\ cli.conn \in Slots \union {NoConn}
    BY AttemptFacts
  <1>2. ASSUME NEW cs, GoodConns(cs), NEW d \in Slots \union {NoConn},
               conns' = cs \/ conns' = ClosedAt(cs, d)
        PROVE  Less(cs, conns')
    BY <1>2, ClosedLess, LessItself
  <1>3. ASSUME NEW cs, GoodConns(cs), conns' = Leave(p, cs) PROVE Less(cs, conns')
    <2>1. conns' = cs \/ conns' = ClosedAt(cs, at[p].conn)
      BY <1>3 DEF Leave
    <2> QED
      BY <1>1, <1>2, <1>3, <2>1
  <1>4. CASE Start(p) \/ ConnectRefused(p) \/ ConnectError(p)
    <2>1. conns' = conns
      BY <1>4 DEF Start, ConnectRefused, ConnectError
    <2> QED
      BY <2>1, LessItself
  <1>5. CASE DropStale(p) \/ OpenConnection(p) \/ TransportError(p)
    <2>1. conns' = ClosedAt(conns, cli.conn) \/ conns' = ClosedAt(conns, at[p].conn)
      BY <1>5 DEF DropStale, OpenConnection, TransportError
    <2> QED
      BY <1>1, <1>2, <2>1
  <1>6. CASE ReadTornFrame(p) \/ Cancel(p)
    <2>1. conns' = Leave(p, conns) \/ conns' = ClosedAt(conns, at[p].conn)
      BY <1>6 DEF ReadTornFrame, Cancel
    <2> QED
      BY <1>1, <1>2, <1>3, <2>1
  <1>7. CASE ReadBody(p)
    <2>1. /\ pc[p] = "body" /\ Arrived(p)
          /\ conns' = ClosedAt(Consume(p), at[p].conn) \/ conns' = Leave(p, Consume(p))
      BY <1>7, Zenon DEF ReadBody
    <2>2. at[p].conn \in Slots
      BY <2>1, AttemptFacts DEF Waits
    <2>3. PICK cs : cs = Consume(p)
      OBVIOUS
    <2>4. Less(conns, cs) /\ GoodConns(cs)
      BY <1>1, <2>1, <2>2, <2>3, ConsumeLess
    <2>5. Less(cs, conns')
      BY <1>1, <1>2, <1>3, <2>1, <2>3, <2>4
    <2> QED
      BY <2>4, <2>5, LessComposes
  <1> QED
    BY <1>4, <1>5, <1>6, <1>7

LEMMA LessUnderway ==
    ASSUME Less(conns, conns'), \A q \in Sender : pc'[q] = "body" => at'[q].got \in Pending
    PROVE  Requests' \subseteq Requests /\ Pending' \subseteq Pending
  BY RequestsShrink, PendingShrinks DEF Less

LEMMA SenderClient ==
    ASSUME Inv1, NEW p \in Sender,
           \/ Start(p) \/ DropStale(p) \/ OpenConnection(p) \/ ConnectRefused(p)
           \/ ConnectError(p) \/ TransportError(p) \/ ReadTornFrame(p) \/ ReadBody(p) \/ Cancel(p)
    PROVE  ClientStep(p) /\ Requests' \subseteq Requests
  <1>1. Acts(p)
    BY SenderActs
  <1>2. UNCHANGED <<conf, sessions, fresh, served>>
    BY DEF Start, DropStale, OpenConnection, ConnectRefused, ConnectError, TransportError,
           ReadTornFrame, ReadBody, Cancel
  <1>3. ASSUME NEW q \in Sender, pc'[q] = "body" PROVE at'[q].got \in Pending
    <2>1. ~Waits(p)'
      BY SenderQuiet DEF Quiet
    <2>2. q # p
      BY <1>3, <2>1 DEF Waits
    <2>3. pc[q] = "body" /\ at'[q] = at[q]
      BY <1>1, <1>3, <2>2 DEF Acts, Same
    <2> QED
      BY <2>3, HeaderPending
  <1>4. Requests' \subseteq Requests /\ Pending' \subseteq Pending
    BY <1>3, SenderLess, LessUnderway
  <1> QED
    BY <1>1, <1>2, <1>4 DEF Acts, Same, ClientStep

LEMMA SameRoundTalks ==
    ASSUME Inv1, Talks, NEW p \in Sender, ClientStep(p), SameRound(p)
    PROVE  Talks'
  <1>1. PICK owner \in [1..(fresh - 1) -> Sender] : Fits(owner)
    BY DEF Talks
  <1>2. SessionsKept /\ \A q \in Sender : ResultFits(q)
    BY DEF Talks
  <1>3. round \in [Sender -> Nat] /\ fresh' = fresh
    BY DEF Inv1, Typed, ClientStep
  <1>4. Fits(owner)' /\ SessionsKept' /\ \A q \in Sender : ResultFits(q)'
    BY <1>1, <1>2, <1>3, SameRoundFits
  <1> QED
    BY <1>1, <1>3, <1>4 DEF Talks

LEMMA NotRejected ==
    ASSUME NEW p, ~IsReply(result[p])'
    PROVE  result'[p].code # "reject"
  BY DEF IsReply, NONE

\* A step that ends the send or an attempt of it, without a reply.
LEMMA SilentTalks ==
    ASSUME Inv1, Talks, NEW p \in Sender,
           \/ DropStale(p) \/ OpenConnection(p) \/ ConnectRefused(p)
           \/ ConnectError(p) \/ TransportError(p) \/ ReadTornFrame(p) \/ Cancel(p)
    PROVE  Talks'
  <1>1. UNCHANGED <<pkt, round>>
    BY DEF DropStale, OpenConnection, ConnectRefused, ConnectError, TransportError,
           ReadTornFrame, Cancel
  <1>2. pc[p] \in Active
    BY DEF DropStale, OpenConnection, ConnectRefused, ConnectError, TransportError,
           ReadTornFrame, Cancel, Begins, Waits, Active
  <1>3. ClientStep(p) /\ Requests' \subseteq Requests
    BY SenderClient
  <1>4. pc'[p] # "idle"
    BY NoLongerIdle DEF SenderStep
  <1>5. ~IsReply(result[p])'
    BY <1>2, NothingReturned DEF Active
  <1>6. SameRound(p)
    BY <1>1, <1>2, <1>3, <1>4, <1>5, NotRejected DEF SameRound
  <1> QED
    BY <1>3, <1>6, SameRoundTalks

LEMMA StartTalks ==
    ASSUME Inv1, Talks, NEW p \in Sender, Start(p)
    PROVE  Talks'
  <1> DEFINE method == GetMethod(conf.kind[p])
             m == IF method = "none" THEN NoEap ELSE EapStart(method, 0, conf.password)
  <1>1. ClientStep(p) /\ Requests' \subseteq Requests
    BY SenderClient
  <1>2. pc'[p] # "idle" /\ pc[p] = "idle"
    BY NoLongerIdle DEF SenderStep, Start
  <1>3. ~IsReply(result[p])'
    BY <1>2, NothingReturned
  <1>4. \/ m = Raised /\ Finish(p, Outcome("raised")) /\ UNCHANGED <<pkt, round>>
        \/ /\ m # Raised /\ pkt' = [pkt EXCEPT ![p].eap = m] /\ pc' = [pc EXCEPT ![p] = "lock"]
           /\ round' = [round EXCEPT ![p] = 1] /\ UNCHANGED result
    BY Zenon DEF Start
  <1>5. PICK owner \in [1..(fresh - 1) -> Sender] : Fits(owner)
    BY DEF Talks
  <1>6. PacketFits(owner, p)
    BY <1>5 DEF Fits
  <1>7. round[p] = 0
    BY <1>2, <1>6 DEF PacketFits
  <1>8. /\ round \in [Sender -> Nat] /\ pc \in [Sender -> PC] /\ DOMAIN pkt = Sender
        /\ PacketTyped(pkt[p]) /\ conf \in Config
    BY DEF Inv1, Typed
  <1>9. CASE m = Raised /\ Finish(p, Outcome("raised")) /\ UNCHANGED <<pkt, round>>
    <2>1. pc'[p] = "done"
      BY <1>8, <1>9 DEF Finish
    <2>2. SameRound(p)
      BY <1>1, <1>2, <1>3, <1>9, <2>1, NotRejected DEF SameRound, Active
    <2> QED
      BY <1>1, <2>2, SameRoundTalks
  <1>10. CASE /\ m # Raised /\ pkt' = [pkt EXCEPT ![p].eap = m] /\ pc' = [pc EXCEPT ![p] = "lock"]
              /\ round' = [round EXCEPT ![p] = 1] /\ UNCHANGED result
    <2>1. pkt'[p].eap = m /\ pkt'[p].state = pkt[p].state
      <3>1. pkt'[p] = [pkt[p] EXCEPT !.eap = m]
        BY <1>8, <1>10
      <3> QED
        BY <1>8, <3>1 DEF PacketTyped
    <2>2. result[p].code = NONE
      BY <1>2 DEF Inv1, Finished
    <2>3. NewRound(p)
      BY <1>1, <1>7, <1>8, <1>10, <2>2 DEF NewRound
    <2>4. Claim(owner, p, pkt'[p].state)
      BY <1>6, <2>1 DEF PacketFits
    <2>5. ASSUME Right(p) PROVE Asks(1, m, pkt[p].state)
      <3>1. pkt[p].state = None
        BY <1>6, <1>7, <2>5 DEF PacketFits, Asks
      <3>2. conf.backend \in Method /\ conf.kind[p] = conf.backend
        BY <1>8, <2>5 DEF Config, Right
      <3>3. method = conf.backend /\ m = EapStart(conf.backend, 0, conf.password)
        BY <3>2 DEF GetMethod, Method
      <3>4. m.type = "identity" /\ (conf.backend = "mschapv2" => m.identity = UserName)
        <4>1. EapStart(conf.backend, 0, conf.password) # Raised
          BY <1>10, <3>3
        <4>2. \/ EapStart(conf.backend, 0, conf.password) = Identity(0, UserName)
              \/ /\ conf.backend # "mschapv2"
                 /\ EapStart(conf.backend, 0, conf.password) = Identity(0, conf.password)
          BY <4>1 DEF EapStart, MschapV2Start, InjectEapIdentity
        <4> QED
          BY <3>3, <4>2 DEF Identity
      <3> HIDE DEF m
      <3> QED
        BY <3>1, <3>4 DEF Asks, AsksIdentity
    <2> HIDE DEF m
    <2>6. Fits(owner)' /\ SessionsKept' /\ \A q \in Sender : ResultFits(q)'
      <3>1. SessionsKept /\ \A q \in Sender : ResultFits(q)
        BY DEF Talks
      <3>2. Right(p) => Asks(round[p] + 1, pkt'[p].eap, pkt'[p].state)
        BY <1>7, <2>1, <2>5
      <3>3. round[p] # 1
        BY <1>7
      <3> QED
        BY <1>1, <1>5, <1>8, <2>3, <2>4, <3>1, <3>2, <3>3, NewRoundFits
    <2>7. fresh' = fresh
      BY <1>1 DEF ClientStep
    <2> QED
      BY <1>5, <2>6, <2>7 DEF Talks
  <1> QED
    BY <1>4, <1>9, <1>10

\* What a right client responds to a challenge.
LEMMA RightResponse ==
    ASSUME conf \in Config, SessionsKept, NEW p \in Sender, Right(p), NEW raw, raw.code = "challenge",
           Answers(raw), NEW peer, NEW kept,
           kept = Remember(conf.backend, raw.eap, mem[p], peer, conf.password),
           NEW m, m = EapRespond(conf.backend, raw.eap, kept, conf.password), m # Raised
    PROVE  \/ raw.round = 1 /\ Alive(raw.state) /\ AsksVerdict(m, raw.state)
           \/ raw.round = 2 /\ AsksEnd(m)
  <1>1. conf.backend \in Method /\ conf.password = Password
    BY DEF Config, Right
  <1>2. CASE Challenges(raw)
    <2>1. raw.round = 1 /\ Alive(raw.state)
      BY <1>2 DEF Challenges
    <2>2. raw.state # None
      <3>1. raw.state \in 1..(fresh - 1) /\ fresh \in Nat
        BY <2>1 DEF Alive, SessionsKept
      <3> QED
        BY <3>1 DEF None
    <2>3. CASE conf.backend = "md5"
      BY <1>1, <1>2, <2>1, <2>2, <2>3 DEF Challenges, AsksVerdict, EapRespond, Md5Respond
    <2>4. CASE conf.backend = "gtc"
      BY <1>1, <1>2, <2>1, <2>2, <2>4 DEF Challenges, AsksVerdict, EapRespond, GtcRespond
    <2>5. CASE conf.backend = "mschapv2"
      <3>1. raw.eap.type = "mschapv2" /\ raw.eap.op = "challenge" /\ raw.eap.challenge = raw.state
        BY <1>2, <2>5 DEF Challenges
      <3>2. kept = [peer |-> peer, auth |-> raw.state,
                    nt |-> GenerateNtResponse(raw.state, peer, UserName, Password)]
        BY <1>1, <2>5, <3>1 DEF Remember
      <3>3. m = [id |-> raw.eap.id, type |-> "mschapv2", op |-> "response",
                 peer |-> kept.peer, nt |-> kept.nt]
        BY <2>5, <3>1 DEF EapRespond, MschapV2Respond
      <3> QED
        BY <2>1, <2>2, <2>5, <3>2, <3>3 DEF AsksVerdict
    <2> QED
      BY <1>1, <2>3, <2>4, <2>5 DEF Method
  <1>3. CASE Succeeds(raw)
    <2>1. /\ raw.round = 2 /\ conf.backend = "mschapv2"
          /\ raw.eap.type = "mschapv2" /\ raw.eap.op = "success"
      BY <1>3 DEF Succeeds
    <2>2. m = MschapV2Respond(raw.eap, kept, conf.password)
      BY <2>1 DEF EapRespond
    <2>3. m = [id |-> raw.eap.id, type |-> "mschapv2", op |-> raw.eap.op]
      BY <2>1, <2>2 DEF MschapV2Respond
    <2> QED
      BY <2>1, <2>3 DEF AsksEnd
  <1> QED
    BY <1>2, <1>3 DEF Answers

LEMMA RespondTalks ==
    ASSUME Inv1, Talks, NEW p \in Sender, ReadBody(p), pc[p] = "body", NEW raw, raw = at[p].got,
           raw.to = p, raw.round = round[p], raw.code = "challenge", RespondAndSend(p, raw)
    PROVE  Talks'
  <1> DEFINE method == GetMethod(conf.kind[p])
             kept == Remember(method, raw.eap, mem[p], <<p, raw.state>>, conf.password)
             m == EapRespond(method, raw.eap, kept, conf.password)
  <1>1. ClientStep(p) /\ Requests' \subseteq Requests
    BY SenderClient
  <1>2. \/ Finish(p, Outcome("raised")) /\ UNCHANGED <<pkt, round>>
        \/ /\ m # Raised /\ pkt' = [pkt EXCEPT ![p].eap = m, ![p].state = raw.state]
           /\ pc' = [pc EXCEPT ![p] = "lock"]
           /\ round' = [round EXCEPT ![p] = @ + 1] /\ UNCHANGED result
    BY Zenon DEF RespondAndSend
  <1>3. /\ round \in [Sender -> Nat] /\ pc \in [Sender -> PC] /\ DOMAIN pkt = Sender
        /\ PacketTyped(pkt[p]) /\ conf \in Config
    BY DEF Inv1, Typed
  <1>4. CASE Finish(p, Outcome("raised")) /\ UNCHANGED <<pkt, round>>
    <2>1. pc'[p] = "done"
      BY <1>3, <1>4 DEF Finish
    <2>2. result'[p].code # "reject"
      BY <1>4, NoReply, NotRejected
    <2>3. SameRound(p)
      BY <1>1, <1>4, <2>1, <2>2 DEF SameRound, Active
    <2> QED
      BY <1>1, <2>3, SameRoundTalks
  <1>5. CASE /\ m # Raised /\ pkt' = [pkt EXCEPT ![p].eap = m, ![p].state = raw.state]
             /\ pc' = [pc EXCEPT ![p] = "lock"]
             /\ round' = [round EXCEPT ![p] = @ + 1] /\ UNCHANGED result
    <2>1. pkt'[p].eap = m /\ pkt'[p].state = raw.state
      <3>1. pkt'[p] = [pkt[p] EXCEPT !.eap = m, !.state = raw.state]
        BY <1>3, <1>5, Zenon
      <3> HIDE DEF m
      <3> QED
        BY <1>3, <3>1 DEF PacketTyped
    <2>2. result[p].code = NONE
      BY DEF Inv1, Finished
    <2>3. NewRound(p)
      BY <1>1, <1>3, <1>5, <2>2 DEF NewRound
    <2>4. PICK owner \in [1..(fresh - 1) -> Sender] : Fits(owner)
      BY DEF Talks
    <2>5. ReplyFits(owner, raw)
      BY <2>4, HeaderPending DEF Fits
    <2>6. SessionsKept /\ \A q \in Sender : ResultFits(q)
      BY DEF Talks
    <2>7. ASSUME Right(p)
          PROVE  Asks(round[p] + 1, m, raw.state) /\ (round[p] = 1 => Alive(raw.state))
      <3>1. Answers(raw)
        BY <2>5, <2>7 DEF ReplyFits
      <3>2. method = conf.backend
        BY <1>3, <2>7 DEF Config, Right, GetMethod
      <3>3. \/ raw.round = 1 /\ Alive(raw.state) /\ AsksVerdict(m, raw.state)
            \/ raw.round = 2 /\ AsksEnd(m)
        <4>1. PICK k, e : k = kept /\ e = m
          OBVIOUS
        <4>2. PICK peer : peer = <<p, raw.state>>
          OBVIOUS
        <4>3. /\ k = Remember(conf.backend, raw.eap, mem[p], peer, conf.password)
              /\ e = EapRespond(conf.backend, raw.eap, k, conf.password) /\ e # Raised
          BY <1>5, <3>2, <4>1, <4>2
        <4>4. \/ raw.round = 1 /\ Alive(raw.state) /\ AsksVerdict(e, raw.state)
              \/ raw.round = 2 /\ AsksEnd(e)
          BY <1>3, <2>6, <2>7, <3>1, <4>3, RightResponse
        <4> QED
          BY <4>1, <4>4
      <3> HIDE DEF m
      <3> QED
        BY <3>3 DEF Asks
    <2> HIDE DEF m
    <2>8. Claim(owner, p, raw.state)
      BY <2>5 DEF ReplyFits
    <2>9. Fits(owner)' /\ SessionsKept' /\ \A q \in Sender : ResultFits(q)'
      BY <1>1, <1>3, <2>1, <2>3, <2>4, <2>6, <2>7, <2>8, NewRoundFits
    <2>10. fresh' = fresh
      BY <1>1 DEF ClientStep
    <2> QED
      BY <2>4, <2>9, <2>10 DEF Talks
  <1> QED
    BY <1>2, <1>4, <1>5

LEMMA UndisturbedClean ==
    ASSUME Inv1, Inv2, OneVersion, Undisturbed, NEW p \in Sender, Waits(p)
    PROVE  Clean(at[p].conn) /\ pkt[p].ver = AgreedVersion
  <1>1. PICK c \in Slots : c = at[p].conn
    BY AttemptFacts
  <1>2. pkt[p].ver = conns[c].ver /\ pkt[p].ver \in RadiusVersion
    BY <1>1 DEF Inv1, Typed, PacketTyped, Inv2, PacketVersion
  <1>3. conns[c].ver \in {None, AgreedVersion}
    BY DEF OneVersion, Undisturbed
  <1>4. conns[c].ver = AgreedVersion
    BY <1>2, <1>3 DEF RadiusVersion, V1_0, V1_1, None
  <1> QED
    BY <1>1, <1>2, <1>4 DEF Clean, Undisturbed

LEMMA ReadBodyTalks ==
    ASSUME Inv1, Inv2, InOrder, OneVersion, Undisturbed, Talks, NEW p \in Sender, ReadBody(p)
    PROVE  Talks'
  <1>1. pc[p] = "body"
    BY DEF ReadBody
  <1>2. \/ Finish(p, Outcome("noreply")) /\ UNCHANGED <<pkt, round>>
        \/ /\ VerifyReply(p, at[p].got)
           /\ \/ Finish(p, at[p].got) /\ UNCHANGED <<pkt, round>>
              \/ RespondAndSend(p, at[p].got) /\ at[p].got.code = "challenge"
    BY Zenon DEF ReadBody
  <1>3. ClientStep(p) /\ Requests' \subseteq Requests
    BY SenderClient
  <1>4. PICK raw, c : raw = at[p].got /\ c = at[p].conn
    OBVIOUS
  <1>5. VerifyReply(p, raw) => raw.to = p /\ raw.round = round[p]
    <2>1. Clean(c)
      BY <1>1, <1>4, UndisturbedClean DEF Waits
    <2> QED
      BY <1>1, <1>4, <2>1, OwnReply
  <1>6. ASSUME NEW x, Finish(p, x), UNCHANGED <<pkt, round>>,
               x.code = "reject" => x \in Pending /\ x.to = p /\ x.round = round[p]
        PROVE  Talks'
    <2>1. pc'[p] = "done" /\ result'[p] = x
      BY <1>6 DEF Finish, Inv1, Typed
    <2>2. SameRound(p)
      BY <1>3, <1>6, <2>1 DEF SameRound, Active
    <2> QED
      BY <1>3, <2>2, SameRoundTalks
  <1>7. CASE Finish(p, Outcome("noreply")) /\ UNCHANGED <<pkt, round>>
    <2>1. Outcome("noreply").code # "reject"
      BY DEF Outcome
    <2> QED
      BY <1>6, <1>7, <2>1
  <1>8. CASE VerifyReply(p, raw) /\ Finish(p, raw) /\ UNCHANGED <<pkt, round>>
    <2>1. raw \in Pending
      BY <1>1, <1>4, HeaderPending
    <2> QED
      BY <1>5, <1>6, <1>8, <2>1
  <1>9. CASE VerifyReply(p, raw) /\ RespondAndSend(p, raw) /\ raw.code = "challenge"
    BY <1>1, <1>4, <1>5, <1>9, RespondTalks
  <1> QED
    BY <1>2, <1>4, <1>7, <1>8, <1>9

LEMMA WrittenTalks ==
    ASSUME Inv1, Talks, NEW p \in Sender, pc[p] \in Active, NEW c \in Slots, NEW cs, GoodConns(cs),
           NEW ver, NEW next, NEW n, Written(p, c, cs, ver, next, n), Less(conns, cs),
           UNCHANGED <<conf, sessions, fresh, served, round, result, used>>
    PROVE  Talks'
  <1>1. pc[p] # "done"
    BY DEF Active
  <1>2. /\ Acts(p) /\ result'[p] = result[p] /\ \A d \in Slots : d # c => conns'[d] = cs[d]
    BY <1>1, WrittenActs
  <1>3. /\ pkt'[p].eap = pkt[p].eap /\ pkt'[p].state = pkt[p].state
        /\ pc' = [pc EXCEPT ![p] = "header"] /\ conns'[c].out = cs[c].out
    BY DEF Written
  <1>4. \/ conns'[c].in = cs[c].in
        \/ \E m : Carries(p, m) /\ conns'[c].in = Append(cs[c].in, m)
    BY DEF Written
  <1>5. pc'[p] = "header"
    BY <1>3 DEF Inv1, Typed
  <1>6. \A d \in Slots : \A i \in DOMAIN cs[d].in : cs[d].in[i] \in Requests
    <2> SUFFICES ASSUME NEW d \in Slots, NEW i \in DOMAIN cs[d].in PROVE cs[d].in[i] \in Requests
      OBVIOUS
    <2>1. PICK j \in DOMAIN conns[d].in : cs[d].in[i] = conns[d].in[j]
      BY DEF Less, Within
    <2> QED
      BY <2>1 DEF Requests, Underway
  <1>7. \A m \in Requests' : m \in Requests \/ Carries(p, m)
    <2>1. ASSUME NEW d \in Slots, NEW i \in DOMAIN conns'[d].in
          PROVE  conns'[d].in[i] \in Requests \/ Carries(p, conns'[d].in[i])
      <3>1. CASE d # c \/ conns'[c].in = cs[c].in
        <4>1. conns'[d].in = cs[d].in
          BY <1>2, <3>1
        <4> QED
          BY <1>6, <4>1
      <3>2. CASE d = c /\ \E m : Carries(p, m) /\ conns'[c].in = Append(cs[c].in, m)
        <4>1. PICK m : Carries(p, m) /\ conns'[c].in = Append(cs[c].in, m)
          BY <3>2
        <4>2. PICK s, t : s = cs[c].in /\ t = conns'[c].in
          OBVIOUS
        <4>3. s \in Seq({s[j] : j \in DOMAIN s})
          BY <4>2, StreamTyped
        <4>4. /\ Len(s) \in Nat /\ DOMAIN s = 1..Len(s) /\ DOMAIN t = 1..(Len(s) + 1)
              /\ (\A j \in 1..Len(s) : t[j] = s[j]) /\ t[Len(s) + 1] = m
          BY <4>1, <4>2, <4>3, AppendFacts
        <4>5. i \in 1..Len(s) \/ i = Len(s) + 1
          <5>1. i \in 1..(Len(s) + 1) /\ Len(s) \in Nat
            BY <2>1, <3>2, <4>2, <4>4
          <5> QED
            BY <5>1
        <4>6. CASE i = Len(s) + 1
          BY <3>2, <4>1, <4>2, <4>4, <4>6
        <4>7. CASE i \in 1..Len(s)
          BY <1>6, <3>2, <4>2, <4>4, <4>7
        <4> QED
          BY <4>5, <4>6, <4>7
      <3> QED
        BY <1>4, <3>1, <3>2
    <2> QED
      BY <2>1 DEF Requests, Underway
  <1>8. Pending' \subseteq Pending
    <2>1. \A d \in Slots : conns'[d].out = cs[d].out
      BY <1>2, <1>3
    <2>2. \A d \in Slots : Within(conns'[d].out, conns[d].out)
      BY <2>1 DEF Less
    <2>3. ASSUME NEW q \in Sender, pc'[q] = "body" PROVE at'[q].got \in Pending
      <3>1. q # p
        BY <1>5, <2>3
      <3> QED
        BY <1>2, <2>3, <3>1, HeaderPending DEF Acts, Same
    <2> QED
      BY <2>2, <2>3, PendingShrinks
  <1>9. ClientStep(p)
    BY <1>2, <1>8 DEF ClientStep, Acts, Same
  <1>10. result'[p].code # "reject"
    <2>1. ~IsReply(result[p])'
      BY <1>1, <1>2, NoReplyYet
    <2> QED
      BY <2>1, NotRejected
  <1>11. SameRound(p)
    BY <1>3, <1>5, <1>7, <1>10 DEF SameRound
  <1> QED
    BY <1>9, <1>11, SameRoundTalks

LEMMA ReuseTalks ==
    ASSUME Inv1, Talks, NEW p \in Sender, ReuseConnection(p)
    PROVE  Talks'
  <1>1. /\ Begins(p) /\ cli.conn # NoConn
        /\ Write(p, cli.conn, conns, cli.ver, cli.next, at[p].n + 1)
        /\ UNCHANGED <<conf, sessions, fresh, served, round, result, used>>
    BY DEF ReuseConnection, Reusable
  <1>2. /\ cli.conn \in Slots /\ GoodConns(conns) /\ cli.ver \in RadiusVersion
        /\ cli.next \in Tokens \union {None} /\ at[p].n + 1 \in 0..Attempts
    BY <1>1, AttemptFacts DEF Inv1, Typed
  <1>3. Written(p, cli.conn, conns, cli.ver, cli.next, at[p].n + 1)
    BY <1>1, <1>2, Writes, Zenon
  <1>4. PICK c, ver, next, n : c = cli.conn /\ ver = cli.ver /\ next = cli.next /\ n = at[p].n + 1
    OBVIOUS
  <1>5. Written(p, c, conns, ver, next, n) /\ pc[p] \in Active /\ c \in Slots
    BY <1>1, <1>2, <1>3, <1>4 DEF Begins, Active
  <1> QED
    BY <1>1, <1>2, <1>5, LessItself, WrittenTalks

LEMMA ConnectedTalks ==
    ASSUME Inv1, Talks, NEW p \in Sender, NEW c \in Slots, NEW token \in FirstTokens,
           Connected(p, c, token)
    PROVE  Talks'
  <1>1. PICK cs : cs = [conns EXCEPT ![c] = Handshake]
    OBVIOUS
  <1>2. PICK next : next = IF Handshake.ver = V1_1 THEN token ELSE None
    OBVIOUS
  <1>3. /\ GoodConns(cs) /\ cs[c] = Handshake /\ \A d \in Slots : d # c => cs[d] = conns[d]
        /\ Written(p, c, cs, Handshake.ver, next, at[p].n) /\ pc[p] = "connect"
    BY <1>1, <1>2, ConnectedWrites, Zenon
  <1>4. UNCHANGED <<conf, sessions, fresh, served, round, result, used>>
    BY DEF Connected
  <1>5. Less(conns, cs)
    BY <1>3, HandshakeTyped, WithinFacts DEF Less
  <1>6. PICK ver, n : ver = Handshake.ver /\ n = at[p].n
    OBVIOUS
  <1>7. Written(p, c, cs, ver, next, n) /\ pc[p] \in Active
    BY <1>3, <1>6 DEF Active
  <1> QED
    BY <1>3, <1>4, <1>5, <1>7, WrittenTalks

LEMMA ReadHeaderTalks ==
    ASSUME Inv1, InOrder, Talks, NEW p \in Sender, ReadHeader(p)
    PROVE  Talks'
  <1>1. /\ pc[p] = "header" /\ Arrived(p) /\ conns' = Consume(p)
        /\ at' = [at EXCEPT ![p].got = NextUnit(p).reply] /\ pc' = [pc EXCEPT ![p] = "body"]
        /\ UNCHANGED <<conf, sessions, fresh, served, pkt, round>>
    BY DEF ReadHeader
  <1>2. GoodConns(conns) /\ at[p].conn \in Slots
    BY <1>1, AttemptFacts DEF Waits
  <1>3. Acts(p) /\ result'[p] = result[p]
    BY HeaderReadInOrder
  <1>4. Less(conns, conns') /\ NextUnit(p).reply \in Pending
    BY <1>1, <1>2, ConsumeLess
  <1>5. pc'[p] = "body" /\ at'[p].got = NextUnit(p).reply
    <2>1. DOMAIN at = Sender /\ AttemptTyped(at[p]) /\ DOMAIN pc = Sender
      BY DEF Inv1, Typed
    <2>2. at'[p] = [at[p] EXCEPT !.got = NextUnit(p).reply]
      BY <1>1, <2>1
    <2> QED
      BY <1>1, <2>1, <2>2 DEF AttemptTyped
  <1>6. ASSUME NEW q \in Sender, pc'[q] = "body" PROVE at'[q].got \in Pending
    <2>1. CASE q = p
      BY <1>4, <1>5, <2>1
    <2>2. CASE q # p
      BY <1>3, <1>6, <2>2, HeaderPending DEF Acts, Same
    <2> QED
      BY <2>1, <2>2
  <1>7. Requests' \subseteq Requests /\ Pending' \subseteq Pending
    BY <1>4, <1>6, LessUnderway
  <1>8. ClientStep(p)
    BY <1>1, <1>3, <1>7 DEF ClientStep, Acts, Same
  <1>9. result'[p].code # "reject"
    BY <1>1, <1>3, NoReplyYet, NotRejected
  <1>10. SameRound(p)
    BY <1>1, <1>5, <1>7, <1>9 DEF SameRound, Active
  <1> QED
    BY <1>8, <1>10, SameRoundTalks

\* Steps that only take away from what is under way.
LEMMA RestTalks ==
    ASSUME Talks, UNCHANGED <<conf, sessions, fresh, served, pc, pkt, at, result, round>>,
           Less(conns, conns')
    PROVE  Talks'
  <1>1. Requests' \subseteq Requests /\ Pending' \subseteq Pending
    BY HeaderPending, LessUnderway
  <1>2. PICK owner \in [1..(fresh - 1) -> Sender] : Fits(owner)
    BY DEF Talks
  <1>3. ASSUME NEW p \in Sender PROVE PacketFits(owner, p)'
    <2>1. PacketFits(owner, p) /\ served' = served
      BY <1>2 DEF Fits
    <2> QED
      BY <2>1, ServerStands DEF PacketFits
  <1>4. ASSUME NEW m \in Requests' PROVE RequestFits(owner, m)'
    <2>1. RequestFits(owner, m)
      BY <1>1, <1>2 DEF Fits
    <2> QED
      BY <2>1, ServerStands DEF RequestFits
  <1>5. ASSUME NEW r \in Pending' PROVE ReplyFits(owner, r)'
    <2>1. ReplyFits(owner, r)
      BY <1>1, <1>2 DEF Fits
    <2> QED
      BY <2>1, ServerStands DEF ReplyFits
  <1>6. \A p \in Sender : ResultFits(p)'
    BY ServerStands DEF Talks, ResultFits
  <1>7. Fits(owner)'
    BY <1>3, <1>4, <1>5 DEF Fits
  <1> QED
    BY <1>2, <1>6, <1>7, ServerStands DEF Talks

LEMMA ServeTalks ==
    ASSUME Inv1, Talks, NEW c \in Slots, Serve(c)
    PROVE  Talks'
  <1>1. PICK msg, a : msg = Head(conns[c].in) /\ a = PacketReceived(msg)
    OBVIOUS
  <1>2. PICK reply : reply = ReplyTo(msg, a)
    OBVIOUS
  <1>3. PICK r, x :
            /\ conns' = [conns EXCEPT ![c] = x] /\ Evolves(conns[c], x)
            /\ \/ x = r /\ r.in = Tail(conns[c].in)
               \/ x = ServerEnd(c, r)
            /\ \/ r.out = conns[c].out
               \/ r.out = Framed(conns[c].out, reply)
            /\ ConnTyped(r) /\ CodesKnown(r)
    BY <1>1, <1>2, ServeRecord, Zenon
  <1>4. conns[c].in # <<>> /\ UNCHANGED <<conf, clientVars, used>>
    BY ServeRecord, Zenon
  <1>5. GoodConns(conns)
    BY DEF Inv1, Typed
  <1>6. conns'[c] = x /\ \A d \in Slots : d # c => conns'[d] = conns[d]
    BY <1>3, <1>5, OneChange
  <1>7. /\ x.in = Tail(conns[c].in) \/ x.in = <<>>
        /\ x.out = r.out \/ x.out = <<>>
    BY <1>3, ServerEndRecord DEF Dead
  <1>8. PICK s, t : s = conns[c].in /\ t = conns[c].out
    OBVIOUS
  <1>9. s \in Seq({s[i] : i \in DOMAIN s}) /\ t \in Seq({t[i] : i \in DOMAIN t})
    BY <1>5, <1>8, StreamTyped
  <1>10. msg \in Requests
    <2>1. 1 \in DOMAIN s /\ Head(s) = s[1]
      BY <1>4, <1>8, <1>9, TailFacts
    <2>2. s[1] \in Underway(c)
      BY <1>8, <2>1 DEF Underway
    <2> QED
      BY <1>1, <1>8, <2>1, <2>2 DEF Requests
  <1>11. Requests' \subseteq Requests
    <2>1. Within(conns'[c].in, conns[c].in)
      BY <1>4, <1>6, <1>7, <1>8, <1>9, WithinFacts
    <2>2. \A d \in Slots : Within(conns'[d].in, conns[d].in)
      BY <1>6, <2>1, WithinFacts
    <2> QED
      BY <2>2, RequestsShrink
  <1>12. Pending' \subseteq Pending \union {reply}
    <2>1. ASSUME NEW i \in DOMAIN conns'[c].out
          PROVE  conns'[c].out[i].reply = reply \/ \E j \in DOMAIN conns[c].out :
                                                       conns'[c].out[i] = conns[c].out[j]
      <3>1. PICK u : u = Framed(t, reply)
        OBVIOUS
      <3>2. IsFramed(t, reply, u)
        BY <1>9, <3>1, FrameFacts
      <3>3. conns'[c].out = t \/ conns'[c].out = u
        <4>1. DOMAIN (<<>>) = {}
          OBVIOUS
        <4> QED
          BY <1>3, <1>6, <1>7, <1>8, <2>1, <3>1, <4>1
      <3>4. CASE conns'[c].out = t
        BY <1>8, <2>1, <3>4
      <3>5. CASE conns'[c].out = u
        <4>1. i \in 1..(Len(t) + 2) /\ Len(t) \in Nat /\ DOMAIN t = 1..Len(t)
          BY <2>1, <3>2, <3>5 DEF IsFramed
        <4>2. i \in 1..Len(t) \/ i = Len(t) + 1 \/ i = Len(t) + 2
          BY <4>1
        <4>3. CASE i \in 1..Len(t)
          BY <1>8, <3>2, <3>5, <4>1, <4>3 DEF IsFramed
        <4>4. CASE i = Len(t) + 1 \/ i = Len(t) + 2
          BY <3>2, <3>5, <4>4 DEF IsFramed
        <4> QED
          BY <4>2, <4>3, <4>4
      <3> QED
        BY <3>3, <3>4, <3>5
    <2>2. PICK S : S = Pending \union {reply}
      OBVIOUS
    <2>3. \A d \in Slots : \A i \in DOMAIN conns'[d].out :
             conns'[d].out[i].reply \in S \/ \E j \in DOMAIN conns[d].out :
                                                 conns'[d].out[i] = conns[d].out[j]
      BY <1>6, <2>1, <2>2
    <2>4. \A q \in Sender : pc'[q] = "body" => at'[q].got \in S
      BY <1>4, <2>2, HeaderPending DEF clientVars
    <2>5. Pending \subseteq S
      BY <2>2
    <2> QED
      BY <2>2, <2>3, <2>4, <2>5, PendingWithin
  <1>13. Handles(msg, a)
    <2>1. /\ sessions' = a.sessions
          /\ fresh' = IF a.state = fresh THEN fresh + 1 ELSE fresh
          /\ served' = [once |-> served.once \union {<<msg.from, msg.round>>},
                        again |-> IF <<msg.from, msg.round>> \in served.once
                                  THEN served.again \union {<<msg.from, msg.round>>}
                                  ELSE served.again]
      BY <1>1, Zenon DEF Serve
    <2> QED
      BY <1>1, <1>2, <1>4, <1>10, <1>11, <1>12, <2>1 DEF Handles, clientVars
  <1>14. PICK owner \in [1..(fresh - 1) -> Sender] : Fits(owner)
    BY DEF Talks
  <1>15. conf \in Config /\ round \in [Sender -> Nat]
    BY DEF Inv1, Typed
  <1> QED
    BY <1>13, <1>14, <1>15, HandledFits DEF Talks

-----------------------------------------------------------------------------
(* The fifth part is inductive. *)

\* No restart: the version agreed on stays.
Continues ==
    /\ UNCHANGED <<conf, srv>> /\ used'.restarts = used.restarts
    /\ used.cancels \in Nat /\ used'.cancels \in Nat /\ used.cancels <= used'.cancels

LEMMA ContinuesUndisturbed ==
    ASSUME Continues, Undisturbed'
    PROVE  Undisturbed
  BY DEF Continues, Undisturbed, AgreedVersion, Alpn

LEMMA VersionStays ==
    ASSUME OneVersion, Continues,
           \A c \in Slots : conns'[c].ver \in {None, conns[c].ver, AgreedVersion},
           \A p \in Sender : used.restarts = 0 /\ IsReply(result[p])' =>
               \/ IsReply(result[p]) /\ pkt'[p].ver = pkt[p].ver
               \/ pkt'[p].ver = AgreedVersion
    PROVE  OneVersion'
  <1>1. AgreedVersion' = AgreedVersion /\ used'.restarts = used.restarts
    BY DEF Continues, AgreedVersion, Alpn
  <1> QED
    BY <1>1 DEF OneVersion

LEMMA ChangedVersions ==
    ASSUME Changes(conns, conns')
    PROVE  \A c \in Slots : conns'[c].ver \in {None, conns[c].ver, AgreedVersion}
  BY DEF Changes, Evolves, Blank

LEMMA SenderVersion ==
    ASSUME Inv1, Inv2, OneVersion, NEW p \in Sender,
           \/ Start(p) \/ DropStale(p) \/ OpenConnection(p) \/ ConnectRefused(p)
           \/ ConnectError(p) \/ TransportError(p) \/ ReadTornFrame(p) \/ ReadBody(p) \/ Cancel(p)
    PROVE  OneVersion' /\ Continues
  <1>1. Acts(p) /\ pc[p] # "done"
    BY SenderActs DEF Acts
  <1>2. Changes(conns, conns') /\ UNCHANGED <<conf, srv>>
    BY SenderQuiet DEF Quiet
  <1>3. used' = used \/ used' = [used EXCEPT !.cancels = @ + 1]
    BY DEF Start, DropStale, OpenConnection, ConnectRefused, ConnectError, TransportError,
           ReadTornFrame, ReadBody, Cancel
  <1>4. Continues
    <2>1. used \in Budget
      BY DEF Inv1, Typed, Budget
    <2>2. used'.restarts = used.restarts
      BY <1>3, <2>1 DEF Budget
    <2> QED
      BY <1>1, <1>2, <2>2 DEF Continues, Acts
  <1>5. ASSUME used.restarts = 0, IsReply(result[p])' PROVE pkt'[p].ver = AgreedVersion
    <2>1. ReadBody(p)
      BY <1>1, <1>5, NothingReturned
    <2>2. pc[p] = "body"
      BY <2>1 DEF ReadBody
    <2>3. \/ Finish(p, Outcome("noreply"))
          \/ Finish(p, at[p].got) /\ UNCHANGED pkt
          \/ RespondAndSend(p, at[p].got)
      BY <2>1, Zenon DEF ReadBody
    <2>4. RespondAndSend(p, at[p].got) => Finish(p, Outcome("raised")) \/ UNCHANGED result
      BY Zenon DEF RespondAndSend
    <2>5. UNCHANGED pkt
      BY <1>1, <1>5, <2>3, <2>4, NoReply, NoReplyYet
    <2>6. PICK c \in Slots : c = at[p].conn
      BY <2>2, AttemptFacts DEF Waits
    <2>7. pkt[p].ver = conns[c].ver /\ pkt[p].ver \in RadiusVersion
      BY <2>2, <2>6 DEF Inv1, Typed, PacketTyped, Inv2, PacketVersion, Waits
    <2>8. conns[c].ver \in {None, AgreedVersion}
      BY <1>5 DEF OneVersion
    <2> QED
      BY <2>5, <2>7, <2>8 DEF RadiusVersion, V1_0, V1_1, None
  <1>6. \A q \in Sender : q # p =>
            (IsReply(result[q])' <=> IsReply(result[q])) /\ pkt'[q].ver = pkt[q].ver
    BY <1>1 DEF Acts, IsReply
  <1> QED
    BY <1>2, <1>4, <1>5, <1>6, ChangedVersions, VersionStays

\* A step of one sender that returns nothing, or of none.
LEMMA UnreturnedVersion ==
    ASSUME Inv1, OneVersion, Continues,
           \A c \in Slots : conns'[c].ver \in {None, conns[c].ver, AgreedVersion},
           \A q \in Sender : result'[q] = result[q] /\ (pc[q] = "done" => pkt'[q].ver = pkt[q].ver)
    PROVE  OneVersion'
  <1>1. ASSUME NEW q \in Sender, IsReply(result[q])'
        PROVE  IsReply(result[q]) /\ pkt'[q].ver = pkt[q].ver
    <2>1. IsReply(result[q])
      BY <1>1 DEF IsReply
    <2>2. pc[q] = "done"
      BY <2>1 DEF IsReply, Inv1, Finished
    <2> QED
      BY <2>1, <2>2
  <1> QED
    BY <1>1, VersionStays

LEMMA ActsVersion ==
    ASSUME Inv1, OneVersion, NEW p \in Sender, Acts(p), result'[p] = result[p],
           UNCHANGED <<conf, srv, used>>,
           \A c \in Slots : conns'[c].ver \in {None, conns[c].ver, AgreedVersion}
    PROVE  OneVersion' /\ Continues
  <1>1. Continues
    BY DEF Continues, Acts
  <1>2. \A q \in Sender : result'[q] = result[q] /\ (pc[q] = "done" => pkt'[q].ver = pkt[q].ver)
    BY DEF Acts
  <1> QED
    BY <1>1, <1>2, UnreturnedVersion

LEMMA ReuseVersion ==
    ASSUME Inv1, Inv2, InOrder, OneVersion, NEW p \in Sender, ReuseConnection(p)
    PROVE  OneVersion' /\ Continues
  <1>1. Acts(p) /\ result'[p] = result[p]
    BY ReuseInOrder
  <1>2. /\ cli.conn # NoConn /\ UNCHANGED <<conf, srv, used>> /\ Begins(p)
        /\ Write(p, cli.conn, conns, cli.ver, cli.next, at[p].n + 1)
    BY DEF ReuseConnection, Reusable
  <1>3. /\ cli.conn \in Slots /\ GoodConns(conns) /\ cli.ver \in RadiusVersion
        /\ cli.next \in Tokens \union {None} /\ at[p].n + 1 \in 0..Attempts
    BY <1>2, AttemptFacts DEF Inv1, Typed
  <1>4. Written(p, cli.conn, conns, cli.ver, cli.next, at[p].n + 1)
    BY <1>2, <1>3, Writes, Zenon
  <1>5. \A c \in Slots : conns'[c].ver = conns[c].ver
    BY <1>4 DEF Written
  <1> QED
    BY <1>1, <1>2, <1>5, ActsVersion

LEMMA ConnectedVersion ==
    ASSUME Inv1, Inv2, InOrder, OneVersion, NEW p \in Sender, NEW c \in Slots,
           NEW token \in FirstTokens, Connected(p, c, token)
    PROVE  OneVersion' /\ Continues
  <1>1. Acts(p) /\ result'[p] = result[p]
    BY ConnectedInOrder
  <1>2. PICK cs, next : /\ cs = [conns EXCEPT ![c] = Handshake]
                        /\ next = IF Handshake.ver = V1_1 THEN token ELSE None
    OBVIOUS
  <1>3. /\ cs[c] = Handshake /\ \A d \in Slots : d # c => cs[d] = conns[d]
        /\ Written(p, c, cs, Handshake.ver, next, at[p].n)
        /\ UNCHANGED <<conf, srv, used>>
    BY <1>2, ConnectedWrites, Zenon
  <1>4. Handshake.ver = AgreedVersion
    BY HandshakeTyped DEF AgreedVersion
  <1>5. \A d \in Slots : conns'[d].ver = cs[d].ver
    BY <1>3 DEF Written
  <1> QED
    BY <1>1, <1>3, <1>4, <1>5, ActsVersion

LEMMA ReadHeaderVersion ==
    ASSUME Inv1, InOrder, OneVersion, NEW p \in Sender, ReadHeader(p)
    PROVE  OneVersion' /\ Continues
  <1>1. Acts(p) /\ result'[p] = result[p]
    BY HeaderReadInOrder
  <1>2. /\ pc[p] = "header" /\ Arrived(p) /\ conns' = Consume(p)
        /\ UNCHANGED <<conf, srv, used>>
    BY DEF ReadHeader
  <1>3. GoodConns(conns) /\ at[p].conn \in Slots
    BY <1>2, AttemptFacts DEF Waits
  <1>4. Changes(conns, conns')
    BY <1>2, <1>3, ConsumeChanges
  <1> QED
    BY <1>1, <1>2, <1>4, ChangedVersions, ActsVersion

\* Who acts is a sender, or the connections change beside them.
LEMMA RestingVersion ==
    ASSUME Inv1, OneVersion, Changes(conns, conns'), UNCHANGED <<conf, srv, pkt, result>>,
           used' = used \/ used' = [used EXCEPT !.closes = @ + 1]
    PROVE  OneVersion' /\ Continues
  <1>1. used \in Budget
    BY DEF Inv1, Typed, Budget
  <1>2. Continues
    BY <1>1 DEF Continues, Budget
  <1> QED
    BY <1>2, ChangedVersions, UnreturnedVersion

LEMMA Inv5Step == Inv1 /\ Inv2 /\ Inv3 /\ Inv5 /\ [Next]_vars => Inv5'
  <1> SUFFICES ASSUME Inv1, Inv2, Inv3, Inv5, [Next]_vars PROVE Inv5'
    OBVIOUS
  <1>1. OneVersion /\ InOrder /\ (Undisturbed => Talks)
    BY DEF Inv5, Inv3, Conversations
  <1>2. ASSUME OneVersion', Continues, Undisturbed /\ Talks => Talks' PROVE Inv5'
    BY <1>1, <1>2, ContinuesUndisturbed DEF Inv5, Conversations
  <1>3. ASSUME NEW p \in Sender, SenderStep(p) \/ Cancel(p) PROVE Inv5'
    <2>1. CASE ReuseConnection(p)
      BY <1>1, <1>2, <2>1, ReuseVersion, ReuseTalks
    <2>2. CASE ReadHeader(p)
      BY <1>1, <1>2, <2>2, ReadHeaderVersion, ReadHeaderTalks
    <2>3. ASSUME NEW c \in Slots, NEW t \in FirstTokens, Connected(p, c, t) PROVE Inv5'
      BY <1>1, <1>2, <2>3, ConnectedVersion, ConnectedTalks
    <2>4. CASE \/ Start(p) \/ DropStale(p) \/ OpenConnection(p) \/ ConnectRefused(p)
               \/ ConnectError(p) \/ TransportError(p) \/ ReadTornFrame(p) \/ ReadBody(p) \/ Cancel(p)
      <3>1. OneVersion' /\ Continues
        BY <1>1, <2>4, SenderVersion
      <3>2. ASSUME Undisturbed, Talks PROVE Talks'
        BY <1>1, <2>4, <3>2, StartTalks, SilentTalks, ReadBodyTalks
      <3> QED
        BY <1>2, <3>1, <3>2
    <2> QED
      BY <1>3, <2>1, <2>2, <2>3, <2>4, Zenon DEF SenderStep
  <1>4. ASSUME Still, UNCHANGED <<conf, srv, sessions, fresh, served, pkt, result>>,
               used' = used \/ used' = [used EXCEPT !.closes = @ + 1],
               Changes(conns, conns'), Less(conns, conns')
        PROVE  Inv5'
    BY <1>1, <1>2, <1>4, RestingVersion, RestTalks DEF Still
  <1>5. ASSUME NEW c \in Slots, Serve(c) PROVE Inv5'
    <2>1. Changes(conns, conns')
      BY <1>5, ServeKeeps
    <2>2. UNCHANGED <<conf, srv, pkt, result, used>>
      BY <1>5 DEF Serve, clientVars
    <2> QED
      BY <1>1, <1>2, <1>5, <2>1, <2>2, RestingVersion, ServeTalks
  <1>6. ASSUME NEW c \in Slots, NEW r, \A d \in Slots : d # c => conns'[d] = conns[d],
               conns'[c] = r, r.in \in {conns[c].in, <<>>}, r.out \in {conns[c].out, <<>>}
        PROVE  Less(conns, conns')
    BY <1>6, WithinFacts DEF Less
  <1>7. GoodConns(conns) /\ \A c \in Slots : ConnTyped(conns[c]) /\ CodesKnown(conns[c])
    BY DEF Inv1, Typed, GoodConns
  <1>8. ASSUME NEW c \in Slots, NEW how \in {"eof", "reset"}, PeerGone(c, how) PROVE Inv5'
    <2> DEFINE q == [conns[c] EXCEPT !.up = how, !.out = IF how = "reset" THEN <<>> ELSE @]
    <2>1. conns' = [conns EXCEPT ![c] = q]
      BY <1>7, <1>8 DEF PeerGone, GoodConns
    <2>2. q.in = conns[c].in /\ q.out \in {conns[c].out, <<>>}
      BY <1>7, PeerGoneRecord, ZenonT(30)
    <2> HIDE DEF q
    <2>3. conns'[c] = q /\ \A d \in Slots : d # c => conns'[d] = conns[d]
      BY <1>7, <2>1 DEF GoodConns
    <2>4. Less(conns, conns')
      BY <1>6, <2>2, <2>3
    <2>5. Still /\ UNCHANGED <<conf, srv, sessions, fresh, served, pkt, result, used>>
      BY <1>8 DEF PeerGone, clientVars, Still
    <2> QED
      BY <1>4, <1>8, <2>4, <2>5, PeerGoneKeeps
  <1>9. ASSUME NEW c \in Slots, ServerStops(c) PROVE Inv5'
    <2>1. /\ conns' = [conns EXCEPT ![c] = ServerEnd(c, conns[c])]
          /\ UNCHANGED <<conf, srv, sessions, fresh, clientVars, served, used>>
      BY <1>9 DEF ServerStops
    <2>2. conns'[c] = ServerEnd(c, conns[c]) /\ \A d \in Slots : d # c => conns'[d] = conns[d]
      BY <1>7, <2>1 DEF GoodConns
    <2>3. PICK r : r = ServerEnd(c, conns[c])
      OBVIOUS
    <2>4. r.in = <<>> /\ r.out \in {conns[c].out, <<>>}
      BY <1>7, <2>3, ServerEndRecord DEF Dead
    <2>5. Less(conns, conns')
      BY <1>6, <2>2, <2>3, <2>4
    <2>6. Still /\ UNCHANGED <<conf, srv, sessions, fresh, served, pkt, result, used>>
      BY <2>1 DEF clientVars, Still
    <2> QED
      BY <1>4, <1>9, <2>5, <2>6, ServerStopsKeeps
  <1>10. CASE UserClose
    <2> DEFINE x == [conns[cli.conn] EXCEPT !.up = "closed"]
               q == Settled(cli.conn, x)
    <2>1. /\ cli.conn # NoConn /\ conns' = [conns EXCEPT ![cli.conn] = q]
          /\ used' = [used EXCEPT !.closes = @ + 1]
          /\ UNCHANGED <<conf, srv, sessions, fresh, served, pkt, result>>
      BY <1>10 DEF UserClose
    <2>2. cli.conn \in Slots /\ ConnTyped(conns[cli.conn])
      BY <1>7, <2>1 DEF Inv1, Typed
    <2>3. x.in = conns[cli.conn].in /\ x.out = conns[cli.conn].out
      BY <2>2 DEF ConnTyped
    <2>4. q = x \/ q = Dead
      BY DEF Settled, Tidy
    <2> HIDE DEF q, x
    <2>5. conns'[cli.conn] = q /\ \A d \in Slots : d # cli.conn => conns'[d] = conns[d]
      BY <1>7, <2>1, <2>2 DEF GoodConns
    <2>6. q.in \in {conns[cli.conn].in, <<>>} /\ q.out \in {conns[cli.conn].out, <<>>}
      BY <2>3, <2>4 DEF Dead
    <2>7. Less(conns, conns')
      BY <1>6, <2>2, <2>5, <2>6
    <2>8. Still
      BY <1>1, <1>10, UserCloseInOrder
    <2> QED
      BY <1>4, <1>10, <2>1, <2>7, <2>8, UserCloseKeeps
  <1>11. ASSUME NEW v \in ServerVersions, NEW tls \in TlsVersion, Restart(v, tls) PROVE Inv5'
    <2>1. used' = [used EXCEPT !.restarts = @ + 1] /\ used \in Budget
      BY <1>11 DEF Restart, Inv1, Typed, Budget
    <2>2. used'.restarts # 0
      BY <2>1 DEF Budget
    <2> QED
      BY <2>2 DEF Inv5, OneVersion, Conversations, Undisturbed
  <1>12. CASE UNCHANGED vars
    <2>1. /\ Still /\ Changes(conns, conns') /\ Less(conns, conns')
          /\ UNCHANGED <<conf, srv, sessions, fresh, served, pkt, result, used>>
      BY <1>7, <1>12, NoChange, LessItself DEF vars, Still
    <2> QED
      BY <1>4, <2>1
  <1> QED
    BY <1>3, <1>5, <1>8, <1>9, <1>10, <1>11, <1>12, Zenon DEF Next, ServerStep

LEMMA Inv5Starts == Init => Inv5
  <1> SUFFICES ASSUME Init PROVE Inv5
    OBVIOUS
  <1>1. OneVersion
    BY DEF Init, OneVersion, Dead, IsReply, Outcome
  <1>2. fresh = 1 /\ sessions = {} /\ 1..(fresh - 1) = {}
    BY DEF Init
  <1>3. Requests = {} /\ Pending = {}
    BY DEF Init, Requests, Pending, Underway, UnderwayBack, Dead
  <1>4. \A p \in Sender : ResultFits(p)
    BY DEF Init, ResultFits, Outcome, NONE
  <1>5. PICK owner : owner = [n \in 1..(fresh - 1) |-> n]
    OBVIOUS
  <1>6. owner \in [1..(fresh - 1) -> Sender]
    BY <1>2, <1>5
  <1>7. \A p \in Sender : PacketFits(owner, p)
    BY DEF Init, PacketFits, Claim, Asks, Active
  <1>8. SessionsKept
    BY <1>2 DEF SessionsKept
  <1>9. Fits(owner)
    BY <1>3, <1>7 DEF Fits
  <1> QED
    BY <1>1, <1>4, <1>6, <1>8, <1>9 DEF Inv5, Conversations, Talks

LEMMA Inv5Always == Spec => []Inv5
  BY Inv1Always, Inv2Always, Inv3Always, Inv5Starts, Inv5Step, PTL DEF Spec

\* A user with the right password whose client speaks the server's EAP method is
\* not rejected, in every number of senders that share the client, however often
\* their requests are repeated on new connections, time out or are cancelled: a
\* session is found by the State cookie, which no other sender gets, and only the
\* sender's own request for a verdict can end it.  What is left out is a server
\* that has been restarted, a one-shot session that an earlier copy of the same
\* request has used up, and replies that version 1.1 takes unchecked.
THEOREM RadSecRightPasswordAccepted == Spec => []RightPasswordAccepted
  <1>1. Inv1 /\ Inv5 => RightPasswordAccepted
    <2> SUFFICES ASSUME Inv1, Inv5, NEW p \in Sender, result[p].code = "reject", ~TokensUnchecked(p),
                        Right(p), ~(used.restarts > 0)
                 PROVE  OneShot /\ <<p, round[p]>> \in served.again
      BY DEF RightPasswordAccepted, Right, OneShot
    <2>1. used.restarts = 0 /\ used.cancels \in Nat
      BY DEF Inv1, Typed
    <2>2. IsReply(result[p])
      BY DEF IsReply, NONE
    <2>3. pkt[p].ver = AgreedVersion /\ pkt[p].ver \in RadiusVersion
      BY <2>1, <2>2 DEF Inv5, OneVersion, Inv1, Typed, PacketTyped
    <2>4. Undisturbed
      BY <2>1, <2>3 DEF Undisturbed, TokensUnchecked, RadiusVersion
    <2> QED
      BY <2>4 DEF Inv5, Conversations, Talks, ResultFits, Excused
  <1> QED
    BY <1>1, Inv1Always, Inv5Always, PTL

=============================================================================
