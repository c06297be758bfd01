----------------------- MODULE BridgeTransportProofs -----------------------
(***************************************************************************)
(* Theorems about BridgeTransport, for any number of commands, sockets,    *)
(* connections and faults.                                                 *)
(***************************************************************************)
EXTENDS BridgeTransport, SequenceTheorems, FiniteSetTheorems, TLAPS

(* The ACKs that take an envelope out of the outbox tell the truth.         *)
AcksTrue ==
    \A n \in 1 .. Len(down) :
        down[n].kind = "ack" /\ Delivered(down[n].reason) /\ down[n].cmd \in Commands
            => down[n].cmd \in known

(* What the hub remembers was handled, and what it counted it remembers.    *)
SeenIsKnown == hub.seen \subseteq known
CountedIsSeen == \A c \in Commands : hub.count[c] <= 1 /\ (hub.count[c] = 1 => c \in hub.seen)

(* All envelopes wait in one queue; the one whose handler runs would still  *)
(* be accepted.                                                             *)
StillAccepted ==
    \A k \in Keys : busy[k] # <<>> => k = 0 /\ busy[k][2].msg # "hello" /\ Verdict(busy[k][2]) = ""

IInv ==
    /\ TypeOK
    /\ RemovedIsHandled
    /\ AcksTrue
    /\ SeenIsKnown
    /\ CountedIsSeen
    /\ StillAccepted
-----------------------------------------------------------------------------
(* Sequences                                                                *)

LEMMA AppendIs ==
  ASSUME NEW S, NEW s \in Seq(S), NEW x \in S
  PROVE  /\ Append(s, x) \in Seq(S)
         /\ Len(s) \in Nat /\ Len(Append(s, x)) = Len(s) + 1
         /\ \A i \in 1 .. Len(s) : Append(s, x)[i] = s[i]
         /\ Append(s, x)[Len(s) + 1] = x
         /\ \A i \in 1 .. Len(s) + 1 : i \in 1 .. Len(s) \/ i = Len(s) + 1
BY AppendProperties, LenProperties

(* What follows a place of a sequence was in it.                            *)
LEMMA RestIs ==
  ASSUME NEW S, NEW s \in Seq(S), NEW k \in 1 .. Len(s) + 1
  PROVE  /\ SubSeq(s, k, Len(s)) \in Seq(S)
         /\ \A i \in 1 .. Len(SubSeq(s, k, Len(s))) :
               \E j \in 1 .. Len(s) : SubSeq(s, k, Len(s))[i] = s[j]
<1>1. Len(s) \in Nat /\ \A j \in 1 .. Len(s) : s[j] \in S
  BY LenProperties, ElementOfSeq
<1>2. \A j \in k .. Len(s) : s[j] \in S /\ j \in 1 .. Len(s)
  BY <1>1
<1>3. /\ SubSeq(s, k, Len(s)) \in Seq(S)
      /\ Len(SubSeq(s, k, Len(s))) = IF k <= Len(s) THEN Len(s) - k + 1 ELSE 0
      /\ \A i \in 1 .. Len(s) - k + 1 : SubSeq(s, k, Len(s))[i] = s[k + i - 1]
  BY <1>1, <1>2, SubSeqProperties
<1>4. ASSUME NEW i \in 1 .. Len(SubSeq(s, k, Len(s)))
      PROVE  k + i - 1 \in 1 .. Len(s) /\ SubSeq(s, k, Len(s))[i] = s[k + i - 1]
  BY <1>1, <1>3
<1> QED
  BY <1>3, <1>4

LEMMA FrontIs ==
  ASSUME NEW S, NEW s \in Seq(S), NEW k \in 0 .. Len(s)
  PROVE  SubSeq(s, 1, k) \in Seq(S)
<1>1. Len(s) \in Nat /\ \A j \in 1 .. Len(s) : s[j] \in S
  BY LenProperties, ElementOfSeq
<1>2. \A j \in 1 .. k : s[j] \in S
  BY <1>1
<1> QED
  BY <1>1, <1>2, SubSeqProperties

(* Taking one place out leaves all the others.                              *)
LEMMA RemovedIs ==
  ASSUME NEW S, NEW s \in Seq(S), NEW i \in 1 .. Len(s)
  PROVE  /\ RemoveAt(s, i) \in Seq(S)
         /\ \A x : Contains(s, x) /\ x # s[i] => Contains(RemoveAt(s, i), x)
<1> DEFINE a == SubSeq(s, 1, i - 1)
           b == SubSeq(s, i + 1, Len(s))
<1>1. Len(s) \in Nat /\ i \in Int /\ \A j \in 1 .. Len(s) : s[j] \in S
  BY LenProperties, ElementOfSeq
<1>2. /\ a \in Seq(S) /\ Len(a) = i - 1
      /\ \A j \in 1 .. i - 1 : a[j] = s[j]
  <2>1. \A j \in 1 .. i - 1 : s[j] \in S
    BY <1>1
  <2> QED
    BY <1>1, <2>1, SubSeqProperties
<1>3. /\ b \in Seq(S) /\ Len(b) = Len(s) - i
      /\ \A j \in 1 .. Len(s) - i : b[j] = s[i + j]
  <2>1. \A j \in i + 1 .. Len(s) : s[j] \in S
    BY <1>1
  <2> QED
    BY <1>1, <2>1, SubSeqProperties
<1> HIDE DEF a, b
<1>4. /\ a \o b \in Seq(S)
      /\ Len(a \o b) = Len(s) - 1
      /\ \A j \in 1 .. Len(a) + Len(b) :
            (a \o b)[j] = IF j <= Len(a) THEN a[j] ELSE b[j - Len(a)]
  BY <1>1, <1>2, <1>3, ConcatProperties
<1>5. ASSUME NEW j \in 1 .. Len(s), j # i
      PROVE  \E k \in 1 .. Len(a \o b) : (a \o b)[k] = s[j]
  <2>1. CASE j < i
    <3>1. /\ j \in 1 .. Len(a) + Len(b) /\ j <= Len(a) /\ j \in 1 .. i - 1
          /\ j \in 1 .. Len(a \o b)
      BY <2>1, <1>1, <1>2, <1>3, <1>4
    <3> QED
      BY <3>1, <1>2, <1>4
  <2>2. CASE i < j
    <3>1. /\ j - 1 \in 1 .. Len(a) + Len(b) /\ ~(j - 1 <= Len(a))
          /\ j - 1 \in 1 .. Len(a \o b)
          /\ (j - 1) - Len(a) \in 1 .. Len(s) - i
          /\ i + ((j - 1) - Len(a)) = j
      BY <2>2, <1>1, <1>2, <1>3, <1>4
    <3> QED
      BY <3>1, <1>3, <1>4
  <2> QED
    BY <1>1, <1>5, <2>1, <2>2
<1>6. RemoveAt(s, i) = a \o b
  BY DEF RemoveAt, a, b
<1> QED
  BY <1>4, <1>5, <1>6 DEF Contains

(* A finite set as a sequence has all its elements.                         *)
LEMMA ListIs ==
  ASSUME NEW S, IsFiniteSet(S)
  PROVE  SetToSeq(S) \in Seq(S) /\ \A x \in S : Contains(SetToSeq(S), x)
<1> DEFINE n == Cardinality(S)
           f == SetToSeq(S)
<1>1. n \in Nat /\ ExistsBijection(1 .. n, S)
  BY FS_CardinalityType
<1>2. PICK g \in [1 .. n -> S] : IsInjective(g)
  BY <1>1 DEF ExistsBijection, Bijection, Injection
<1>3. f \in [1 .. n -> S] /\ IsInjective(f)
  BY <1>2 DEF SetToSeq
<1>4. f \in Injection(1 .. n, S) /\ Cardinality(1 .. n) = n
  BY <1>1, <1>3, FS_Interval DEF Injection
<1>5. f \in Surjection(1 .. n, S)
  BY <1>4, FS_Injection
<1>6. Len(f) = n /\ f \in Seq(S)
  BY <1>1, <1>3
<1> QED
  BY <1>5, <1>6 DEF Surjection, Contains

LEMMA JoinIs ==
  ASSUME NEW S, NEW s \in Seq(S), NEW t \in Seq(S)
  PROVE  /\ s \o t \in Seq(S)
         /\ \A x : Contains(s, x) \/ Contains(t, x) => Contains(s \o t, x)
<1>1. /\ s \o t \in Seq(S) /\ Len(s) \in Nat /\ Len(t) \in Nat
      /\ Len(s \o t) = Len(s) + Len(t)
      /\ \A j \in 1 .. Len(s) + Len(t) :
            (s \o t)[j] = IF j <= Len(s) THEN s[j] ELSE t[j - Len(s)]
  BY ConcatProperties, LenProperties
<1>2. \A j \in 1 .. Len(s) : j \in 1 .. Len(s) + Len(t) /\ (s \o t)[j] = s[j]
  BY <1>1
<1>3. ASSUME NEW j \in 1 .. Len(t)
      PROVE  Len(s) + j \in 1 .. Len(s) + Len(t) /\ (s \o t)[Len(s) + j] = t[j]
  <2>1. /\ Len(s) + j \in 1 .. Len(s) + Len(t) /\ ~(Len(s) + j <= Len(s))
        /\ (Len(s) + j) - Len(s) = j
    BY <1>1
  <2> QED
    BY <1>1, <2>1
<1> QED
  BY <1>1, <1>2, <1>3 DEF Contains

-----------------------------------------------------------------------------
(* Types                                                                    *)

Stores == [bg: Epochs, ct: Epochs, seq: Nat, outbox: Seq(Commands),
           cmd: [Commands -> {"new", "sent", "running", "settled"}]]
Conns  == [up: BOOLEAN, ws: {0} \union Sockets, opening: 0..MaxOpening,
           timer: BOOLEAN, ready: BOOLEAN, hellos: Nat, ended: SUBSET Sockets]
Ops    == [kind: {"none", "hello", "await"}, left: Seq(Commands), env: Seq(Env)]
Flushes == [on: BOOLEAN, dirty: BOOLEAN, retry: BOOLEAN, left: Seq(Commands), env: Seq(Env)]
Links  == [Sockets -> {"unused", "connecting", "open", "closed"}]
Hub(h) == /\ h \in [clients: [Sockets -> {"none", "fallback", "ready", "gone"}], shut: SUBSET Sockets,
                    named: {0} \union Sockets, owner: Source \union {None}, last: {h.last},
                    seen: SUBSET Commands, count: [Commands -> Nat]]
          /\ h.last \in [DOMAIN h.last -> Nat]
Turns  == [Keys -> {<<>>} \union Sockets \X Env]

LEMMA Types ==
  TypeOK <=> /\ store \in Stores /\ conn \in Conns /\ op \in Ops /\ flush \in Flushes
             /\ link \in Links /\ up \in [Sockets -> Seq(Env)] /\ down \in Seq(Posts)
             /\ Hub(hub) /\ busy \in Turns /\ known \subseteq Commands
             /\ watching \in BOOLEAN /\ faults \in 0..MaxFaults
BY DEF TypeOK, Stores, Conns, Ops, Flushes, Links, Hub, Turns

LEMMA NextTypes ==
  ASSUME store' \in Stores, conn' \in Conns, op' \in Ops, flush' \in Flushes, link' \in Links,
         up' \in [Sockets -> Seq(Env)], down' \in Seq(Posts), Hub(hub'), busy' \in Turns,
         known' \subseteq Commands, watching' \in BOOLEAN, faults' \in 0..MaxFaults
  PROVE  TypeOK'
BY DEF TypeOK, Stores, Conns, Ops, Flushes, Links, Hub, Turns

LEMMA Empty == \A S : <<>> \in Seq(S)
BY EmptySeq

LEMMA Starts ==
  /\ NoConn \in Conns /\ Idle \in Ops /\ Quiet \in Flushes /\ Hub(Fresh) /\ NoTurn \in Turns
  /\ MaxSockets \in Nat /\ Sockets \subseteq Nat /\ 0 \notin Sockets
  /\ {"hello", "telemetry", ""} \intersect Commands = {}
<1>1. MaxOpening \in Nat \ {0} /\ MaxSockets \in Nat
  BY TransportAssumption DEF TransportAssumption
<1>2. NoConn \in Conns
  BY <1>1 DEF NoConn, Conns
<1>3. Idle \in Ops /\ Quiet \in Flushes
  BY Empty DEF Idle, Ops, Quiet, Flushes
<1>4. Hub(Fresh)
  BY DEF Fresh, Hub
<1>5. NoTurn \in Turns
  BY DEF NoTurn, Turns
<1>6. Sockets \subseteq Nat /\ 0 \notin Sockets
  BY <1>1 DEF Sockets
<1>7. {"hello", "telemetry", ""} \intersect Commands = {}
  BY TransportAssumption DEF TransportAssumption
<1> QED
  BY <1>1, <1>2, <1>3, <1>4, <1>5, <1>6, <1>7

LEMMA FaultType == faults \in 0..MaxFaults /\ Fault => faults' \in 0..MaxFaults
<1>1. MaxFaults \in Nat
  BY TransportAssumption DEF TransportAssumption
<1> QED
  BY <1>1 DEF Fault

(* What the tab sends, settles and takes out of its outbox.                 *)
LEMMA SendsType ==
  ASSUME TypeOK
  PROVE  /\ Numbered \in Stores /\ Numbered.cmd = store.cmd /\ Numbered.outbox = store.outbox
         /\ \A m \in Names : Envelope(m) \in Env
         /\ \A e \in Env : Put(e) \in [Sockets -> Seq(Env)]
<1>1. store \in Stores /\ up \in [Sockets -> Seq(Env)]
  BY Types
<1>2. Numbered \in Stores /\ Numbered.cmd = store.cmd /\ Numbered.outbox = store.outbox
  BY <1>1 DEF Numbered, Stores
<1>3. \A m \in Names : Envelope(m) \in Env
  BY <1>1 DEF Envelope, Here, Env, Source, Stores
<1>4. ASSUME NEW e \in Env PROVE Put(e) \in [Sockets -> Seq(Env)]
  <2>1. \A i \in Sockets : Append(up[i], e) \in Seq(Env)
    BY <1>1, <1>4, AppendIs
  <2> QED
    BY <1>1, <2>1 DEF Put
<1> QED
  BY <1>2, <1>3, <1>4

LEMMA SettleType ==
  ASSUME TypeOK, NEW cs \in SUBSET Commands
  PROVE  /\ Settle(cs) \in Stores
         /\ \A c \in Commands : Settle(cs).cmd[c] = IF c \in cs THEN "settled" ELSE store.cmd[c]
         /\ \A c \in cs : Contains(Settle(cs).outbox, c)
         /\ \A c \in Commands : Contains(store.outbox, c) => Contains(Settle(cs).outbox, c)
<1>1. store \in Stores /\ store.outbox \in Seq(Commands)
  BY Types DEF Stores
<1>2. IsFiniteSet(cs)
  BY TransportAssumption, FS_Subset DEF TransportAssumption
<1>3. SetToSeq(cs) \in Seq(Commands) /\ \A c \in cs : Contains(SetToSeq(cs), c)
  <2>1. SetToSeq(cs) \in Seq(cs) /\ \A c \in cs : Contains(SetToSeq(cs), c)
    BY <1>2, ListIs
  <2> QED
    BY <2>1, SeqDef
<1>4. /\ store.outbox \o SetToSeq(cs) \in Seq(Commands)
      /\ \A c : Contains(store.outbox, c) \/ Contains(SetToSeq(cs), c)
            => Contains(store.outbox \o SetToSeq(cs), c)
  <2> DEFINE s == store.outbox
             t == SetToSeq(cs)
  <2>1. s \in Seq(Commands) /\ t \in Seq(Commands)
    BY <1>1, <1>3
  <2> HIDE DEF s, t
  <2>2. s \o t \in Seq(Commands) /\ \A c : Contains(s, c) \/ Contains(t, c) => Contains(s \o t, c)
    BY <2>1, JoinIs
  <2> QED
    BY <2>2 DEF s, t
<1>5. /\ Settle(cs).outbox = store.outbox \o SetToSeq(cs)
      /\ Settle(cs).cmd = [c \in Commands |-> IF c \in cs THEN "settled" ELSE store.cmd[c]]
  BY <1>1 DEF Settle, Stores
<1>6. Settle(cs) \in Stores
  BY <1>1, <1>4 DEF Settle, Stores
<1> QED
  BY <1>3, <1>4, <1>5, <1>6

LEMMA AckedType ==
  ASSUME TypeOK, NEW m
  PROVE  /\ Acked(m) \in Stores /\ Acked(m).cmd = store.cmd
         /\ \A c : Contains(store.outbox, c) /\ c # m => Contains(Acked(m).outbox, c)
         /\ m \notin Commands => Acked(m).outbox = store.outbox
<1>1. store \in Stores /\ store.outbox \in Seq(Commands)
  BY Types DEF Stores
<1>2. CASE Contains(store.outbox, m)
  <2> DEFINE s == store.outbox
             i == Place(m)
  <2>1. s \in Seq(Commands) /\ Len(s) \in Nat /\ DOMAIN s = 1 .. Len(s)
    BY <1>1, LenProperties
  <2>2. i \in 1 .. Len(s) /\ s[i] = m
    BY <1>2, <2>1 DEF Place, Contains
  <2>3. m \in Commands
    BY <2>1, <2>2, ElementOfSeq
  <2>4. Acked(m) = [store EXCEPT !.outbox = RemoveAt(s, i)]
    BY <1>2 DEF Acked
  <2> HIDE DEF s, i
  <2>5. RemoveAt(s, i) \in Seq(Commands)
        /\ \A c : Contains(s, c) /\ c # m => Contains(RemoveAt(s, i), c)
    BY <2>1, <2>2, RemovedIs
  <2>6. Acked(m).outbox = RemoveAt(s, i) /\ Acked(m).cmd = store.cmd /\ Acked(m) \in Stores
    BY <1>1, <2>4, <2>5 DEF Stores
  <2> QED
    BY <2>3, <2>5, <2>6 DEF s
<1>3. CASE ~Contains(store.outbox, m)
  BY <1>1, <1>3 DEF Acked, Stores
<1> QED
  BY <1>2, <1>3

LEMMA FlushType ==
  ASSUME flush \in Flushes, NEW out \in Seq(Commands)
  PROVE  Flush(out) \in Flushes
BY DEF Flush, Flushes

(* Sockets that end.                                                        *)
LEMMA DeadType ==
  ASSUME link \in Links, NEW sockets, NEW u \in [Sockets -> Seq(Env)], Dead(sockets, u)
  PROVE  link' \in Links /\ up' \in [Sockets -> Seq(Env)]
<1>1. link' \in Links
  BY DEF Dead, Links
<1>2. /\ up' \in [Sockets -> UNION {Prefixes(u[i]) : i \in Sockets}]
      /\ \A i \in Sockets : IF i \in sockets THEN up'[i] \in Prefixes(u[i]) ELSE up'[i] = u[i]
  BY DEF Dead
<1>3. ASSUME NEW i \in Sockets PROVE Prefixes(u[i]) \subseteq Seq(Env)
  BY FrontIs DEF Prefixes
<1>4. \A i \in Sockets : up'[i] \in Seq(Env)
  BY <1>2, <1>3
<1> QED
  BY <1>1, <1>2, <1>4

(* The hub's clients, its memory and what it answers.                       *)
LEMMA CommitType ==
  ASSUME NEW h, Hub(h), NEW e \in Env
  PROVE  /\ Hub(Commit(h, e))
         /\ Commit(h, e).seen = IF e.msg \in Commands THEN h.seen \union {e.msg} ELSE h.seen
         /\ Commit(h, e).count = h.count
<1> DEFINE l == [s \in DOMAIN h.last \union {e.src} |-> IF s = e.src THEN e.seq ELSE h.last[s]]
<1>1. e.msg \in Names /\ e.src \in Source /\ e.seq \in Nat
  BY DEF Env
<1>2. l \in [DOMAIN l -> Nat]
  BY <1>1 DEF Hub
<1>3. Commit(h, e) = [h EXCEPT !.last = l, !.owner = IF e.msg = "hello" THEN e.src ELSE h.owner,
                               !.seen = IF e.msg \in Commands THEN h.seen \union {e.msg} ELSE h.seen]
  BY DEF Commit, Hub
<1> HIDE DEF l
<1>4. IF e.msg \in Commands THEN h.seen \union {e.msg} \in SUBSET Commands ELSE h.seen \in SUBSET Commands
  BY DEF Hub
<1>5. (IF e.msg = "hello" THEN e.src ELSE h.owner) \in Source \union {None}
  BY <1>1 DEF Hub
<1> QED
  BY <1>2, <1>3, <1>4, <1>5 DEF Hub

LEMMA CountedType ==
  ASSUME NEW h, Hub(h), NEW e \in Env
  PROVE  /\ Hub(Counted(h, e)) /\ Counted(h, e).seen = h.seen
         /\ \A c \in Commands : Counted(h, e).count[c] = IF c = e.msg THEN h.count[c] + 1 ELSE h.count[c]
<1>1. CASE e.msg \in Commands
  <2> DEFINE k == [h.count EXCEPT ![e.msg] = @ + 1]
  <2>1. /\ k \in [Commands -> Nat]
        /\ \A c \in Commands : k[c] = IF c = e.msg THEN h.count[c] + 1 ELSE h.count[c]
    BY <1>1 DEF Hub
  <2>2. Counted(h, e) = [h EXCEPT !.count = k]
    BY <1>1 DEF Counted, Hub
  <2> HIDE DEF k
  <2> QED
    BY <2>1, <2>2 DEF Hub
<1>2. CASE e.msg \notin Commands
  BY <1>2 DEF Counted, Hub
<1> QED
  BY <1>1, <1>2

(* Removing and greeting clients leave the memory of the hub alone.         *)
Remembers(h, g) == /\ g.seen = h.seen /\ g.count = h.count
                   /\ g.owner = h.owner /\ g.last = h.last

LEMMA ClientType ==
  ASSUME NEW h, Hub(h), NEW i \in Sockets
  PROVE  /\ Hub(Unregister(h, i)) /\ Remembers(h, Unregister(h, i))
         /\ Hub(Greet(h, i)) /\ Remembers(h, Greet(h, i))
<1>1. Hub(Unregister(h, i)) /\ Remembers(h, Unregister(h, i))
  <2> DEFINE n == IF h.clients[i] = "ready" THEN 0 ELSE h.named
             k == [h.clients EXCEPT ![i] = IF @ = "ready" THEN @ ELSE "gone"]
  <2>1. n \in {0} \union Sockets /\ k \in [Sockets -> {"none", "fallback", "ready", "gone"}]
    BY DEF Hub
  <2>2. Unregister(h, i) = [h EXCEPT !.named = n, !.clients = k]
    BY DEF Unregister, Hub
  <2> HIDE DEF n, k
  <2> QED
    BY <2>1, <2>2 DEF Hub, Remembers
<1>2. Hub(Greet(h, i)) /\ Remembers(h, Greet(h, i))
  <2> DEFINE k == [h.clients EXCEPT ![i] = "ready"]
  <2>1. k \in [Sockets -> {"none", "fallback", "ready", "gone"}]
    BY DEF Hub
  <2>2. Greet(h, i) = [h EXCEPT !.clients = k, !.named = i]
    BY DEF Greet, Hub
  <2> HIDE DEF k
  <2> QED
    BY <2>1, <2>2 DEF Hub, Remembers
<1> QED
  BY <1>1, <1>2

LEMMA PostType ==
  ASSUME TypeOK, NEW m \in Posts
  PROVE  /\ Append(down, m) \in Seq(Posts)
         /\ \A n \in 1 .. Len(Append(down, m)) :
               Append(down, m)[n] = m \/ (n \in 1 .. Len(down) /\ Append(down, m)[n] = down[n])
BY AppendIs DEF TypeOK

LEMMA AckType ==
  ASSUME TypeOK, NEW i \in Sockets, NEW e \in Env, NEW reason \in Reasons
  PROVE  /\ Ack(i, e, reason) \in Seq(Posts)
         /\ \A n \in 1 .. Len(Ack(i, e, reason)) :
               \/ Ack(i, e, reason)[n] = [sock |-> i, kind |-> "ack", cmd |-> e.msg, reason |-> reason]
               \/ n \in 1 .. Len(down) /\ Ack(i, e, reason)[n] = down[n]
<1> DEFINE m == [sock |-> i, kind |-> "ack", cmd |-> e.msg, reason |-> reason]
<1>1. m \in Posts
  BY DEF Posts, Env
<1>2. Ack(i, e, reason) = Append(down, m) \/ Ack(i, e, reason) = down
  BY DEF Ack
<1>3. down \in Seq(Posts)
  BY Types
<1> DEFINE a == Ack(i, e, reason)
<1>4. a = Append(down, m) \/ a = down
  BY <1>2
<1> HIDE DEF m, a
<1>5. a \in Seq(Posts) /\ \A n \in 1 .. Len(a) : a[n] = m \/ (n \in 1 .. Len(down) /\ a[n] = down[n])
  <2>1. CASE a = down
    BY <1>3, <2>1
  <2>2. CASE a = Append(down, m)
    BY <1>1, <2>2, PostType
  <2> QED
    BY <1>4, <2>1, <2>2
<1> QED
  BY <1>5 DEF m, a

LEMMA VerdictType == \A e : Verdict(e) \in Reasons
BY DEF Verdict, Reasons

-----------------------------------------------------------------------------
(* Types are kept                                                           *)

LEMMA ConnectingType ==
  ASSUME TypeOK, Connecting \/ Refuse
  PROVE  TypeOK'
<1>0. /\ store \in Stores /\ conn \in Conns /\ op \in Ops /\ flush \in Flushes
      /\ link \in Links /\ up \in [Sockets -> Seq(Env)] /\ down \in Seq(Posts)
      /\ Hub(hub) /\ busy \in Turns /\ known \subseteq Commands
      /\ watching \in BOOLEAN /\ faults \in 0..MaxFaults /\ MaxOpening \in Nat \ {0}
  BY Types, TransportAssumption DEF TransportAssumption
<1>c. conn \in Conns /\ MaxOpening \in Nat \ {0}
  BY <1>0
<1>l. link \in Links
  BY <1>0
<1>1. CASE Attach
  <2>1. conn' \in Conns
    <3>1. \E e \in SUBSET Sockets : conn' = [NoConn EXCEPT !.up = TRUE, !.opening = 1, !.ended = e]
      BY <1>1 DEF Attach
    <3>2. 1 \in 0..MaxOpening
      BY <1>c
    <3>3. NoConn \in Conns
      BY Starts
    <3> QED
      BY <3>1, <3>2, <3>3 DEF Conns
  <2> QED
    BY <1>0, <1>1, <2>1, Types DEF Attach, net, server, TypeOK, Stores, Conns
<1>2. CASE Connect
  <2>1. conn' \in Conns
    <3>1. PICK i \in Sockets : conn' = [conn EXCEPT !.opening = @ - 1, !.ws = i, !.ready = FALSE]
      BY <1>2 DEF Connect
    <3>2. conn.opening - 1 \in 0..MaxOpening
      BY <1>c, <1>2 DEF Connect, Conns
    <3> QED
      BY <1>c, <3>1, <3>2 DEF Conns
  <2>2. link' \in Links
    BY <1>l, <1>2 DEF Connect, Links
  <2> QED
    BY <1>0, <1>2, <2>1, <2>2 DEF Connect, server, TypeOK, Conns, Links
<1>3. CASE Refuse
  <2>1. conn' \in Conns
    <3>1. PICK b \in BOOLEAN : conn' = [conn EXCEPT !.opening = @ - 1, !.timer = @ \/ b]
      BY <1>3 DEF Refuse
    <3>2. conn.opening - 1 \in 0..MaxOpening
      <4>1. conn.opening > 0
        BY <1>3 DEF Refuse
      <4> QED
        BY <1>c, <4>1 DEF Conns
    <3>3. (conn.timer \/ b) \in BOOLEAN
      OBVIOUS
    <3> QED
      BY <1>c, <3>1, <3>2, <3>3 DEF Conns
  <2> QED
    BY <1>0, <1>3, <2>1, FaultType DEF Refuse, net, server, TypeOK, Conns
<1>4. CASE Reconnect
  <2>1. Reopen \in Conns
    <3>1. conn.opening + 1 \in 0..MaxOpening
      BY <1>c, <1>4 DEF Reconnect, Conns
    <3> QED
      BY <1>c, <3>1 DEF Reopen, Conns
  <2>2. conn' \in Conns
    BY <1>4, <2>1 DEF Reconnect, Conns
  <2>3. link' \in Links
    BY <1>0, <1>4 DEF Reconnect, Links
  <2> QED
    BY <1>0, <1>4, <2>2, <2>3 DEF Reconnect, server, TypeOK, Conns, Links
<1>5. CASE Watchdog
  <2>1. conn' \in Conns
    <3>1. conn.opening + 1 \in 0..MaxOpening
      BY <1>c, <1>5 DEF Watchdog, Conns
    <3>2. conn' = Reopen
      BY <1>5 DEF Watchdog
    <3> QED
      BY <1>c, <3>1, <3>2 DEF Reopen, Conns
  <2> QED
    BY <1>0, <1>5, <2>1 DEF Watchdog, net, server, TypeOK, Conns
<1>6. ASSUME NEW i \in Sockets, Opens(i) PROVE TypeOK'
  <2>1. conn' \in Conns /\ link' \in Links
    <3>1. conn' \in Conns
      <4>1. conn' \in {conn, [conn EXCEPT !.hellos = @ + 1]}
        BY <1>6 DEF Opens
      <4> QED
        BY <1>c, <4>1 DEF Conns
    <3>2. link' \in Links
      BY <1>l, <1>6 DEF Opens, Links
    <3> QED
      BY <3>1, <3>2
  <2>2. down' \in Seq(Posts)
    <3>1. [sock |-> i, kind |-> "hello", cmd |-> ""] \in Posts
      BY DEF Posts
    <3> QED
      BY <1>6, <3>1, PostType DEF Opens
  <2>3. Hub(hub')
    <3> DEFINE k == [hub.clients EXCEPT ![i] = "fallback"]
    <3>1. k \in [Sockets -> {"none", "fallback", "ready", "gone"}] /\ hub' = [hub EXCEPT !.clients = k]
      BY <1>0, <1>6 DEF Opens, Hub
    <3> HIDE DEF k
    <3> QED
      BY <1>0, <3>1 DEF Hub
  <2> QED
    BY <1>0, <1>6, <2>1, <2>2, <2>3 DEF Opens, TypeOK, Hub, Conns, Links
<1>7. ASSUME NEW i \in Sockets, Ended(i) PROVE TypeOK'
  <2>1. conn' \in Conns
    <3>1. conn' = [conn EXCEPT !.ended = @ \union {i}, !.timer = TRUE]
      BY <1>7 DEF Ended
    <3> QED
      BY <1>c, <3>1 DEF Conns
  <2> QED
    BY <1>0, <1>7, <2>1 DEF Ended, net, server, TypeOK, Conns
<1> QED
  BY <1>1, <1>2, <1>3, <1>4, <1>5, <1>6, <1>7 DEF Connecting

(* A replay numbers and stores its envelopes one by one.                    *)
LEMMA ReplayType ==
  ASSUME TypeOK, NEW r, r \in Ops \/ r \in Flushes
  PROVE  /\ \A r2 : Replays(r, r2) => /\ store' \in Stores /\ store'.cmd = store.cmd
                                      /\ store'.outbox = store.outbox
                                      /\ r \in Ops => r2 \in Ops
                                      /\ r \in Flushes => r2 \in Flushes
         /\ \A r2 : Transmits(r, r2) => /\ up' \in [Sockets -> Seq(Env)]
                                        /\ r \in Ops => r2 \in Ops
                                        /\ r \in Flushes => r2 \in Flushes
<1>1. store \in Stores /\ store.outbox \in Seq(Commands)
  BY Types DEF Stores
<1>2. r.left \in Seq(Commands) /\ r.env \in Seq(Env) /\ <<>> \in Seq(Commands) /\ <<>> \in Seq(Env)
  BY Empty DEF Ops, Flushes
<1>3. ASSUME NEW r2, Replays(r, r2)
      PROVE  /\ store' \in Stores /\ store'.cmd = store.cmd /\ store'.outbox = store.outbox
             /\ r \in Ops => r2 \in Ops
             /\ r \in Flushes => r2 \in Flushes
  <2>1. r.left # <<>>
    BY <1>3 DEF Replays
  <2>2. Tail(r.left) \in Seq(Commands) /\ Head(r.left) \in Commands
    <3> DEFINE s == r.left
    <3>1. s \in Seq(Commands) /\ s # <<>>
      BY <1>2, <2>1
    <3> HIDE DEF s
    <3>2. Tail(s) \in Seq(Commands) /\ Head(s) \in Commands
      BY <3>1, HeadTailProperties
    <3> QED
      BY <3>2 DEF s
  <2>3. Head(r.left) \in Names /\ <<Envelope(Head(r.left))>> \in Seq(Env)
    <3>1. Head(r.left) \in Names /\ Envelope(Head(r.left)) \in Env
      BY <2>2, SendsType DEF Names
    <3> QED
      BY <3>1
  <2>4. \/ r2 = [r EXCEPT !.left = <<>>] /\ store' = store
        \/ /\ store' = Numbered
           /\ \E e \in Seq(Env) : r2 = [r EXCEPT !.left = Tail(@), !.env = e]
    BY <1>2, <1>3, <2>3 DEF Replays
  <2>5. store' \in Stores /\ store'.cmd = store.cmd /\ store'.outbox = store.outbox
    BY <1>1, <2>4, SendsType
  <2>6. r \in Ops => r2 \in Ops
    BY <1>2, <2>2, <2>4 DEF Ops
  <2>7. r \in Flushes => r2 \in Flushes
    BY <1>2, <2>2, <2>4 DEF Flushes
  <2> QED
    BY <2>5, <2>6, <2>7
<1>4. ASSUME NEW r2, Transmits(r, r2)
      PROVE  /\ up' \in [Sockets -> Seq(Env)]
             /\ r \in Ops => r2 \in Ops
             /\ r \in Flushes => r2 \in Flushes
  <2>1. r.env # <<>> /\ up' = Put(r.env[1]) /\ r2 = [r EXCEPT !.env = <<>>]
    BY <1>4 DEF Transmits
  <2>2. r.env[1] \in Env
    <3> DEFINE s == r.env
    <3>1. s \in Seq(Env) /\ s # <<>>
      BY <1>2, <2>1
    <3> HIDE DEF s
    <3>2. s[1] \in Env
      BY <3>1, EmptySeq, LenProperties, ElementOfSeq
    <3> QED
      BY <3>2 DEF s
  <2>3. up' \in [Sockets -> Seq(Env)]
    BY <2>1, <2>2, SendsType
  <2>4. r \in Ops => r2 \in Ops
    BY <1>2, <2>1 DEF Ops
  <2>5. r \in Flushes => r2 \in Flushes
    BY <1>2, <2>1 DEF Flushes
  <2> QED
    BY <2>3, <2>4, <2>5
<1> QED
  BY <1>3, <1>4

LEMMA OutboxType ==
  ASSUME TypeOK, Outbox \/ FlushFails
  PROVE  TypeOK'
<1>0. flush \in Flushes /\ op \in Ops /\ store.outbox \in Seq(Commands)
  BY Types DEF Stores
<1>1. CASE FlushStep
  <2>1. CASE Replays(flush, flush') /\ UNCHANGED up
    <3>1. store' \in Stores /\ flush' \in Flushes
      BY <1>0, <2>1, ReplayType
    <3> QED
      BY <1>1, <2>1, <3>1 DEF FlushStep, server, TypeOK, Stores, Flushes
  <2>2. CASE Transmits(flush, flush') /\ UNCHANGED store
    <3>1. up' \in [Sockets -> Seq(Env)] /\ flush' \in Flushes
      BY <1>0, <2>2, ReplayType
    <3> QED
      BY <1>1, <2>2, <3>1 DEF FlushStep, server, TypeOK, Flushes
  <2> QED
    BY <1>1, <2>1, <2>2 DEF FlushStep
<1>2. Awaited \in Ops /\ Quiet \in Flushes
  BY <1>0, Starts DEF Awaited
<1>3. CASE FlushEnds
  <2>1. op' \in Ops
    BY <1>0, <1>2, <1>3 DEF FlushEnds
  <2>2. flush' \in Flushes
    <3>1. flush' \in {Quiet, [flush EXCEPT !.dirty = FALSE, !.left = store.outbox]}
      BY <1>3 DEF FlushEnds
    <3> QED
      BY <1>0, <1>2, <3>1 DEF Flushes
  <2> QED
    BY <1>3, <2>1, <2>2 DEF FlushEnds, net, server, TypeOK, Ops, Flushes
<1>4. CASE FlushRetry
  <2>1. flush' \in Flushes
    <3>1. flush' = [Quiet EXCEPT !.on = TRUE, !.left = store.outbox]
      BY <1>4 DEF FlushRetry
    <3> QED
      BY <1>0, <1>2, <3>1 DEF Flushes
  <2> QED
    BY <1>4, <2>1 DEF FlushRetry, net, server, TypeOK, Flushes
<1>5. CASE FlushFails
  <2>1. op' \in Ops
    BY <1>0, <1>2, <1>5 DEF FlushFails
  <2>2. flush' \in Flushes
    <3>1. flush' = [Quiet EXCEPT !.retry = TRUE]
      BY <1>5 DEF FlushFails
    <3> QED
      BY <1>2, <3>1 DEF Flushes
  <2>3. faults' \in 0..MaxFaults
    BY <1>5, FaultType DEF FlushFails, TypeOK
  <2> QED
    BY <1>5, <2>1, <2>2, <2>3 DEF FlushFails, net, server, TypeOK, Ops, Flushes
<1> QED
  BY <1>1, <1>3, <1>4, <1>5 DEF Outbox

LEMMA TabType ==
  ASSUME TypeOK, Tabs \/ HelloFails \/ \E c \in Commands : Answer(c)
  PROVE  TypeOK'
<1>0. /\ store \in Stores /\ op \in Ops /\ flush \in Flushes /\ store.outbox \in Seq(Commands)
      /\ Idle \in Ops
  BY Types, Starts DEF Stores
<1>c. conn \in Conns
  BY Types
<1>1. CASE Hello
  <2>1. conn' \in Conns
    <3>1. conn.hellos > 0 /\ conn' = [conn EXCEPT !.hellos = @ - 1]
      BY <1>1 DEF Hello
    <3>2. conn.hellos - 1 \in Nat
      BY <1>c, <3>1 DEF Conns
    <3> QED
      BY <1>c, <3>1, <3>2 DEF Conns
  <2>2. store' \in Stores /\ up' \in [Sockets -> Seq(Env)]
    <3>1. "hello" \in Names
      BY DEF Names
    <3> QED
      BY <1>1, <3>1, SendsType DEF Hello
  <2>3. op' \in Ops
    <3>1. op' = [Idle EXCEPT !.kind = "hello", !.left = store.outbox]
      BY <1>1 DEF Hello
    <3> QED
      BY <1>0, <3>1 DEF Ops
  <2> QED
    <3>1. UNCHANGED <<flush, link, down, hub, busy, known, watching, faults>>
      BY <1>1 DEF Hello, server
    <3> QED
      BY <2>1, <2>2, <2>3, <3>1, Types, NextTypes
<1>2. CASE HelloStep
  <2>0. UNCHANGED <<conn, flush, link, down, hub, busy, known, watching, faults>>
    BY <1>2 DEF HelloStep, server
  <2>1. CASE Replays(op, op') /\ UNCHANGED up
    <3>1. store' \in Stores /\ op' \in Ops
      BY <1>0, <2>1, ReplayType
    <3> QED
      BY <2>1, <2>0, <3>1, Types, NextTypes
  <2>2. CASE Transmits(op, op') /\ UNCHANGED store
    <3>1. up' \in [Sockets -> Seq(Env)] /\ op' \in Ops
      BY <1>0, <2>2, ReplayType
    <3> QED
      BY <2>2, <2>0, <3>1, Types, NextTypes
  <2> QED
    BY <1>2, <2>1, <2>2 DEF HelloStep
<1>3. ASSUME NEW cs \in SUBSET Commands, store' = Settle(cs), flush' = Flush(Settle(cs).outbox),
             op' = [Idle EXCEPT !.kind = "await"]
      PROVE  store' \in Stores /\ flush' \in Flushes /\ op' \in Ops
  <2>1. Settle(cs) \in Stores /\ Settle(cs).outbox \in Seq(Commands)
    BY SettleType DEF Stores
  <2>2. flush' \in Flushes
    BY <1>0, <1>3, <2>1, FlushType
  <2>3. op' \in Ops
    BY <1>0, <1>3 DEF Ops
  <2> QED
    BY <1>3, <2>1, <2>2, <2>3
<1>4. CASE HelloEnds
  <2>1. Running \in SUBSET Commands
    BY DEF Running
  <2>2. store' \in Stores /\ flush' \in Flushes /\ op' \in Ops
    BY <1>3, <1>4, <2>1 DEF HelloEnds
  <2>3. conn' \in Conns
    <3>1. conn' = [conn EXCEPT !.ready = TRUE]
      BY <1>4 DEF HelloEnds
    <3> QED
      BY <1>c, <3>1 DEF Conns
  <2> QED
    <3>1. UNCHANGED <<link, up, down, hub, busy, known, watching, faults>>
      BY <1>4 DEF HelloEnds, net, server
    <3> QED
      BY <2>2, <2>3, <3>1, Types, NextTypes
<1>5. CASE Telemetry
  <2>1. "telemetry" \in Names
    BY DEF Names
  <2>2. store' \in Stores /\ up' \in [Sockets -> Seq(Env)]
    BY <1>5, <2>1, SendsType DEF Telemetry
  <2>3. UNCHANGED <<conn, op, flush, link, down, hub, busy, known, watching, faults>>
    BY <1>5 DEF Telemetry, server
  <2> QED
    BY <2>2, <2>3, Types, NextTypes
<1>6. CASE HelloFails
  <2>1. op' \in Ops /\ faults' \in 0..MaxFaults
    BY <1>0, <1>6, FaultType DEF HelloFails, TypeOK
  <2>2. UNCHANGED <<store, conn, flush, link, up, down, hub, busy, known, watching>>
    BY <1>6 DEF HelloFails, net, server
  <2> QED
    BY <2>1, <2>2, Types, NextTypes
<1>7. ASSUME NEW c \in Commands, Answer(c) PROVE TypeOK'
  <2>1. {c} \in SUBSET Commands
    BY <1>7
  <2>2. store' \in Stores /\ flush' \in Flushes /\ op' \in Ops
    BY <1>3, <1>7, <2>1 DEF Answer
  <2> QED
    BY <1>7, <2>2 DEF Answer, net, server, TypeOK, Stores, Ops, Flushes
<1> QED
  BY <1>1, <1>2, <1>4, <1>5, <1>6, <1>7 DEF Tabs

LEMMA LossType ==
  ASSUME TypeOK, PortLost \/ WorkerStops \/ ServerRestarts \/ \E i \in Sockets : SocketDies(i)
  PROVE  TypeOK'
<1>0. /\ link \in Links /\ up \in [Sockets -> Seq(Env)] /\ store \in Stores
      /\ faults \in 0..MaxFaults /\ <<>> \in Seq(Posts) /\ <<>> \in Seq(Env)
  BY Types, Empty
<1>1. CASE PortLost \/ WorkerStops
  <2>1. Fault /\ Detach /\ UNCHANGED server /\ watching' = FALSE
    BY <1>1 DEF PortLost, WorkerStops, Detach
  <2>2. link' \in Links /\ up' \in [Sockets -> Seq(Env)]
    BY <1>0, <2>1, DeadType DEF Detach
  <2>3. conn' \in Conns /\ op' \in Ops /\ flush' \in Flushes
    BY <2>1, Starts DEF Detach
  <2>4. store' \in Stores
    <3>1. \E b, c \in Epochs : store' = [store EXCEPT !.bg = b, !.ct = c]
      <4>1. /\ store.bg \in Epochs /\ store.bg + 1 \in Epochs
            /\ store.ct \in Epochs /\ store.ct + 1 \in Epochs
        BY <1>0 DEF Stores, Epochs
      <4>2. \/ store' = [store EXCEPT !.ct = store.ct] \/ store' = [store EXCEPT !.ct = store.ct + 1]
            \/ store' = [store EXCEPT !.bg = store.bg + 1]
        BY <1>1 DEF PortLost, WorkerStops
      <4>3. \/ store' = [store EXCEPT !.bg = store.bg, !.ct = store.ct]
            \/ store' = [store EXCEPT !.bg = store.bg, !.ct = store.ct + 1]
            \/ store' = [store EXCEPT !.bg = store.bg + 1, !.ct = store.ct]
        BY <1>0, <4>2 DEF Stores
      <4> QED
        BY <4>1, <4>3
    <3> QED
      BY <1>0, <3>1 DEF Stores
  <2>5. faults' \in 0..MaxFaults /\ down' = <<>>
    BY <1>0, <2>1, FaultType DEF Detach
  <2> QED
    BY <1>0, <2>1, <2>2, <2>3, <2>4, <2>5 DEF server, TypeOK, Links, Conns, Ops, Flushes, Stores
<1>2. CASE ServerRestarts
  <2>1. [i \in Sockets |-> <<>>] \in [Sockets -> Seq(Env)]
    BY <1>0
  <2>2. link' \in Links /\ up' \in [Sockets -> Seq(Env)]
    BY <1>0, <1>2, <2>1, DeadType DEF ServerRestarts
  <2>3. Hub(hub') /\ busy' \in Turns /\ faults' \in 0..MaxFaults
    BY <1>0, <1>2, Starts, FaultType DEF ServerRestarts
  <2> QED
    BY <1>0, <1>2, <2>2, <2>3 DEF ServerRestarts, tab, TypeOK, Links, Hub, Turns
<1>3. ASSUME NEW i \in Sockets, SocketDies(i) PROVE TypeOK'
  <2>1. link' \in Links /\ up' \in [Sockets -> Seq(Env)] /\ faults' \in 0..MaxFaults
    BY <1>0, <1>3, DeadType, FaultType DEF SocketDies
  <2> QED
    <3>1. UNCHANGED <<store, conn, op, flush, down, hub, busy, known, watching>>
      BY <1>3 DEF SocketDies, tab, server
    <3> QED
      BY <2>1, <3>1, Types, NextTypes
<1> QED
  BY <1>1, <1>2, <1>3

LEMMA ReceiveType ==
  ASSUME TypeOK, NEW n \in DOMAIN down, Receive(n)
  PROVE  TypeOK'
<1>0. /\ store \in Stores /\ flush \in Flushes /\ op \in Ops /\ Idle \in Ops
      /\ down \in Seq(Posts) /\ n \in 1 .. Len(down) /\ Len(down) \in Nat
  BY Types, Starts, LenProperties
<1>1. /\ UNCHANGED <<conn, link, up, hub, busy, known, faults>>
      /\ down' = SubSeq(down, n + 1, Len(down))
  BY DEF Receive, server
<1>2. down' \in Seq(Posts)
  <2>1. n + 1 \in 1 .. Len(down) + 1
    BY <1>0
  <2> QED
    BY <1>0, <1>1, <2>1, RestIs
<1>3. [Idle EXCEPT !.kind = "await"] \in Ops
  BY <1>0 DEF Ops
<1>4. down[n] \in Posts
  BY <1>0, ElementOfSeq
<1>5. CASE down[n].kind = "hello"
  <2>1. watching' = TRUE /\ UNCHANGED <<store, op, flush>>
    BY <1>5 DEF Receive
  <2> QED
    BY <1>1, <1>2, <2>1, Types, NextTypes
<1>6. CASE down[n].kind = "command"
  <2>1. store' = [store EXCEPT !.cmd[down[n].cmd] = "running"] /\ UNCHANGED <<op, flush, watching>>
    BY <1>6 DEF Receive
  <2>2. store' \in Stores
    BY <1>0, <2>1 DEF Stores
  <2> QED
    BY <1>1, <1>2, <2>1, <2>2, Types, NextTypes
<1>7. CASE down[n].kind = "ack" /\ Delivered(down[n].reason)
  <2>1. /\ store' = Acked(down[n].cmd) /\ UNCHANGED watching
        /\ flush' = Flush(Acked(down[n].cmd).outbox)
        /\ op' \in {Idle, [Idle EXCEPT !.kind = "await"]}
    BY <1>7 DEF Receive
  <2>2. Acked(down[n].cmd) \in Stores /\ Acked(down[n].cmd).outbox \in Seq(Commands)
    BY AckedType DEF Stores
  <2>3. store' \in Stores /\ flush' \in Flushes /\ op' \in Ops
    BY <1>0, <1>3, <2>1, <2>2, FlushType
  <2> QED
    BY <1>1, <1>2, <2>1, <2>3, Types, NextTypes
<1>8. CASE /\ down[n].kind \notin {"hello", "command"}
           /\ ~(down[n].kind = "ack" /\ Delivered(down[n].reason))
  <2>1. UNCHANGED <<store, op, flush, watching>>
    BY <1>8 DEF Receive
  <2> QED
    BY <1>1, <1>2, <2>1, Types, NextTypes
<1> QED
  BY <1>5, <1>6, <1>7, <1>8

(* What a socket brings up.                                                 *)
LEMMA ArrivesType ==
  ASSUME TypeOK, NEW i \in Sockets, up[i] # <<>>
  PROVE  /\ Head(up[i]) \in Env
         /\ [up EXCEPT ![i] = Tail(@)] \in [Sockets -> Seq(Env)]
<1> DEFINE s == up[i]
<1>1. up \in [Sockets -> Seq(Env)] /\ s \in Seq(Env) /\ s # <<>>
  BY Types
<1> HIDE DEF s
<1>2. Head(s) \in Env /\ Tail(s) \in Seq(Env)
  BY <1>1, HeadTailProperties
<1> QED
  BY <1>1, <1>2 DEF s

(* Take is one of four: the client is stale, it says hello, its envelope is *)
(* refused, or it waits for the canonical handler.                          *)
LEMMA TakeCases ==
  ASSUME TypeOK, NEW i \in Sockets, Take(i)
  PROVE  /\ busy[0] = <<>> /\ Head(up[i]) \in Env
         /\ UNCHANGED <<tab, known, watching, faults>>
         /\ [up EXCEPT ![i] = Tail(@)] \in [Sockets -> Seq(Env)]
         /\ \/ /\ Dead({i}, [up EXCEPT ![i] = Tail(@)])
               /\ UNCHANGED <<down, hub, busy>>
            \/ /\ Head(up[i]).msg = "hello" /\ Verdict(Head(up[i])) = ""
               /\ hub' = Commit(Greet(hub, i), Head(up[i])) /\ UNCHANGED busy
               /\ Dead(Replaced(i), [up EXCEPT ![i] = Tail(@)])
               /\ down' = Ack(i, Head(up[i]), "")
            \/ /\ Verdict(Head(up[i])) # ""
               /\ up' = [up EXCEPT ![i] = Tail(@)] /\ UNCHANGED <<link, hub, busy>>
               /\ down' = Ack(i, Head(up[i]), Verdict(Head(up[i])))
            \/ /\ Verdict(Head(up[i])) = "" /\ Head(up[i]).msg # "hello"
               /\ up' = [up EXCEPT ![i] = Tail(@)] /\ UNCHANGED <<link, hub, down>>
               /\ busy' = [busy EXCEPT ![0] = <<i, Head(up[i])>>]
<1>1. /\ busy[0] = <<>> /\ up[i] # <<>> /\ UNCHANGED <<tab, known, watching, faults>>
      /\ LET e == Head(up[i])  rest == [up EXCEPT ![i] = Tail(@)] IN
         IF Stale(i) THEN Dead({i}, rest) /\ UNCHANGED <<down, hub, busy>>
         ELSE IF e.msg = "hello" /\ Verdict(e) = ""
           THEN /\ hub' = Commit(Greet(hub, i), e) /\ UNCHANGED busy
                /\ Dead(Replaced(i), rest) /\ down' = Ack(i, e, "")
         ELSE /\ up' = rest /\ UNCHANGED <<link, hub>>
              /\ IF Verdict(e) # "" THEN down' = Ack(i, e, Verdict(e)) /\ UNCHANGED busy
                 ELSE busy' = [busy EXCEPT ![0] = <<i, e>>] /\ UNCHANGED down
  BY DEF Take, Key
<1>2. Head(up[i]) \in Env /\ [up EXCEPT ![i] = Tail(@)] \in [Sockets -> Seq(Env)]
  BY <1>1, ArrivesType
<1> QED
  BY <1>1, <1>2, Zenon

LEMMA TakeType ==
  ASSUME TypeOK, NEW i \in Sockets, Take(i)
  PROVE  TypeOK'
<1> DEFINE e    == Head(up[i])
           rest == [up EXCEPT ![i] = Tail(@)]
<1>1. /\ UNCHANGED <<store, conn, op, flush, known, watching, faults>>
      /\ e \in Env /\ rest \in [Sockets -> Seq(Env)]
  BY TakeCases DEF tab
<1>2. CASE Dead({i}, rest) /\ UNCHANGED <<down, hub, busy>>
  <2>1. link' \in Links /\ up' \in [Sockets -> Seq(Env)]
    BY <1>1, <1>2, Types, DeadType
  <2> QED
    BY <1>1, <1>2, <2>1, Types, NextTypes
<1>3. CASE /\ hub' = Commit(Greet(hub, i), e) /\ UNCHANGED busy
           /\ Dead(Replaced(i), rest) /\ down' = Ack(i, e, "")
  <2>1. link' \in Links /\ up' \in [Sockets -> Seq(Env)]
    BY <1>1, <1>3, Types, DeadType
  <2>2. Hub(hub')
    BY <1>1, <1>3, Types, ClientType, CommitType
  <2>3. "" \in Reasons
    BY DEF Reasons
  <2>4. down' \in Seq(Posts)
    BY <1>1, <1>3, <2>3, AckType
  <2> QED
    BY <1>1, <1>3, <2>1, <2>2, <2>4, Types, NextTypes
<1>4. CASE up' = rest /\ UNCHANGED <<link, hub, busy>> /\ down' = Ack(i, e, Verdict(e))
  <2>1. down' \in Seq(Posts)
    BY <1>1, <1>4, VerdictType, AckType
  <2> QED
    BY <1>1, <1>4, <2>1, Types, NextTypes
<1>5. CASE up' = rest /\ UNCHANGED <<link, hub, down>> /\ busy' = [busy EXCEPT ![0] = <<i, e>>]
  <2>1. busy' \in Turns
    BY <1>1, <1>5, Types DEF Turns
  <2> QED
    BY <1>1, <1>5, <2>1, Types, NextTypes
<1> HIDE DEF e, rest
<1> QED
  BY <1>2, <1>3, <1>4, <1>5, TakeCases DEF e, rest

(* The envelope whose handler runs.                                         *)
LEMMA HandledType ==
  ASSUME TypeOK, NEW k \in Keys, busy[k] # <<>>
  PROVE  /\ busy[k][1] \in Sockets /\ busy[k][2] \in Env
         /\ [busy EXCEPT ![k] = <<>>] \in Turns
BY Types DEF Turns

LEMMA ServingType ==
  ASSUME TypeOK, Serving \/ (\E k \in Keys : HandlerFails(k)) \/ (\E c \in Commands : Send(c))
  PROVE  TypeOK'
<1>1. ASSUME NEW i \in Sockets, Take(i) PROVE TypeOK'
  BY <1>1, TakeType
<1>2. ASSUME NEW i \in Sockets, Closed(i) PROVE TypeOK'
  <2>1. UNCHANGED <<store, conn, op, flush, link, up, down, busy, known, watching, faults>>
    BY <1>2 DEF Closed, tab, net
  <2>2. Hub(hub')
    <3>1. Hub(Unregister(hub, i)) /\ hub' = [Unregister(hub, i) EXCEPT !.shut = @ \union {i}]
      BY <1>2, Types, ClientType DEF Closed
    <3> DEFINE h == Unregister(hub, i)
    <3>2. Hub(h) /\ hub' = [h EXCEPT !.shut = @ \union {i}]
      BY <3>1
    <3> HIDE DEF h
    <3> QED
      BY <3>2 DEF Hub
  <2> QED
    BY <2>1, <2>2, Types, NextTypes
<1>3. ASSUME NEW i \in Sockets, Heartbeat(i) PROVE TypeOK'
  <2>1. UNCHANGED <<store, conn, op, flush, down, busy, known, watching, faults>>
    BY <1>3 DEF Heartbeat, tab
  <2>2. link' \in Links /\ up' \in [Sockets -> Seq(Env)] /\ Hub(hub')
    BY <1>3, Types, DeadType, ClientType DEF Heartbeat
  <2> QED
    BY <2>1, <2>2, Types, NextTypes
<1>4. ASSUME NEW k \in Keys, Handle(k) PROVE TypeOK'
  <2> DEFINE i == busy[k][1]
             e == busy[k][2]
  <2>1. /\ UNCHANGED <<store, conn, op, flush, link, up, watching, faults>>
        /\ busy[k] # <<>> /\ busy' = [busy EXCEPT ![k] = <<>>]
        /\ known' = known \union ({e.msg} \intersect Commands)
        /\ hub' \in {Commit(Counted(hub, e), e), Counted(hub, e)}
        /\ down' = Ack(i, e, Verdict(e))
    BY <1>4 DEF Handle, tab
  <2>2. i \in Sockets /\ e \in Env /\ busy' \in Turns
    BY <2>1, HandledType
  <2> HIDE DEF i, e
  <2>3. Hub(hub')
    <3>1. Hub(Counted(hub, e))
      BY <2>2, Types, CountedType
    <3>2. Hub(Commit(Counted(hub, e), e))
      BY <2>2, <3>1, CommitType
    <3>3. CASE hub' = Counted(hub, e)
      BY <3>1, <3>3
    <3>4. CASE hub' = Commit(Counted(hub, e), e)
      BY <3>2, <3>4
    <3> QED
      BY <2>1, <3>3, <3>4
  <2>4. down' \in Seq(Posts) /\ known' \subseteq Commands
    BY <2>1, <2>2, VerdictType, AckType, Types
  <2> QED
    BY <2>1, <2>2, <2>3, <2>4, Types, NextTypes
<1>5. ASSUME NEW k \in Keys, HandlerFails(k) PROVE TypeOK'
  <2>1. /\ UNCHANGED <<store, conn, op, flush, link, up, hub, known, watching>>
        /\ busy[k] # <<>> /\ busy' = [busy EXCEPT ![k] = <<>>]
        /\ down' = Ack(busy[k][1], busy[k][2], "canonical_commit_failed") /\ Fault
    BY <1>5 DEF HandlerFails, tab
  <2>2. "canonical_commit_failed" \in Reasons
    BY DEF Reasons
  <2>3. busy[k][1] \in Sockets /\ busy[k][2] \in Env /\ busy' \in Turns
    BY <2>1, HandledType
  <2>4. down' \in Seq(Posts) /\ faults' \in 0..MaxFaults
    BY <2>1, <2>2, <2>3, AckType, Types, FaultType
  <2> QED
    BY <2>1, <2>3, <2>4, Types, NextTypes
<1>6. ASSUME NEW c \in Commands, Send(c) PROVE TypeOK'
  <2>1. /\ UNCHANGED <<conn, op, flush, link, up, hub, busy, known, watching, faults>>
        /\ store' = [store EXCEPT !.cmd[c] = "sent"] /\ hub.named # 0
        /\ down' = Append(down, [sock |-> hub.named, kind |-> "command", cmd |-> c])
    BY <1>6 DEF Send, server
  <2>2. store' \in Stores
    BY <2>1, Types DEF Stores
  <2>3. down' \in Seq(Posts)
    <3>1. hub.named \in Sockets
      BY <2>1, Types DEF Hub
    <3>2. [sock |-> hub.named, kind |-> "command", cmd |-> c] \in Posts
      BY <3>1 DEF Posts
    <3> QED
      BY <2>1, <3>2, PostType
  <2> QED
    BY <2>1, <2>2, <2>3, Types, NextTypes
<1> QED
  BY <1>1, <1>2, <1>3, <1>4, <1>5, <1>6 DEF Serving

LEMMA TypeKept ==
  ASSUME TypeOK, Next
  PROVE  TypeOK'
BY ConnectingType, OutboxType, TabType, LossType, ReceiveType, ServingType
   DEF Next, Arrivals, Faulty, Work

-----------------------------------------------------------------------------
(* No step loses a result                                                   *)

SameStore == store'.cmd = store.cmd /\ store'.outbox = store.outbox
SameHub   == Remembers(hub, hub') /\ UNCHANGED <<busy, known>>
OldPosts  ==
    \A n \in 1 .. Len(down') : down'[n].kind # "ack" \/ \E m \in 1 .. Len(down) : down'[n] = down[m]

(* Each part of the invariant depends on a part of the state.               *)
LEMMA StoreKept ==
  ASSUME RemovedIsHandled, SameStore, known \subseteq known'
  PROVE  RemovedIsHandled'
BY DEF RemovedIsHandled, SameStore

LEMMA PostsKept ==
  ASSUME AcksTrue, OldPosts, known \subseteq known'
  PROVE  AcksTrue'
BY DEF AcksTrue, OldPosts

LEMMA HubKept ==
  ASSUME SeenIsKnown, CountedIsSeen, StillAccepted, SameHub
  PROVE  SeenIsKnown' /\ CountedIsSeen' /\ StillAccepted'
<1>1. /\ hub'.seen = hub.seen /\ hub'.count = hub.count /\ hub'.owner = hub.owner
      /\ hub'.last = hub.last /\ known' = known /\ busy' = busy
  BY DEF SameHub, Remembers
<1>2. SeenIsKnown' /\ CountedIsSeen'
  BY <1>1 DEF SeenIsKnown, CountedIsSeen
<1>3. StillAccepted'
  BY <1>1 DEF StillAccepted, Verdict, Duplicate, Stranger, LastOf
<1> QED
  BY <1>2, <1>3

Kept == RemovedIsHandled' /\ AcksTrue' /\ SeenIsKnown' /\ CountedIsSeen' /\ StillAccepted'

LEMMA QuietStep ==
  ASSUME IInv, SameStore, SameHub, OldPosts
  PROVE  Kept
BY StoreKept, PostsKept, HubKept DEF IInv, Kept, SameHub

LEMMA SamePosts == ASSUME down' = down PROVE OldPosts
BY DEF OldPosts

LEMMA NoPosts == ASSUME down' = <<>> PROVE OldPosts
BY DEF OldPosts

(* Connections, losses and what is sent again change nothing of it.         *)
LEMMA ConnectingKeeps ==
  ASSUME IInv, Connecting \/ Refuse
  PROVE  Kept
<1>1. TypeOK /\ Hub(hub)
  BY Types DEF IInv
<1>2. CASE \E i \in Sockets : Opens(i)
  <2>1. PICK i \in Sockets : Opens(i)
    BY <1>2
  <2>2. /\ UNCHANGED <<store, busy, known>> /\ hub' = [hub EXCEPT !.clients[i] = "fallback"]
        /\ down' = Append(down, [sock |-> i, kind |-> "hello", cmd |-> ""])
    BY <2>1 DEF Opens
  <2>3. SameStore /\ SameHub
    BY <1>1, <2>2 DEF SameStore, SameHub, Remembers, Hub
  <2>4. [sock |-> i, kind |-> "hello", cmd |-> ""] \in Posts
    BY DEF Posts
  <2>5. OldPosts
    <3> DEFINE m == [sock |-> i, kind |-> "hello", cmd |-> ""]
    <3>1. m.kind # "ack" /\ m \in Posts /\ down' = Append(down, m)
      BY <2>2, <2>4
    <3> HIDE DEF m
    <3>2. \A n \in 1 .. Len(down') :
             down'[n] = m \/ (n \in 1 .. Len(down) /\ down'[n] = down[n])
      BY <1>1, <3>1, PostType
    <3> QED
      BY <3>1, <3>2 DEF OldPosts
  <2> QED
    BY <2>3, <2>5, QuietStep
<1>3. CASE \/ Attach \/ Connect \/ Reconnect \/ Watchdog \/ Refuse
           \/ \E i \in Sockets : Ended(i)
  <2>1. UNCHANGED <<store, down, hub, busy, known>>
    BY <1>3 DEF Attach, Connect, Reconnect, Watchdog, Refuse, Ended, net, server
  <2>2. SameStore /\ SameHub /\ OldPosts
    BY <2>1, SamePosts DEF SameStore, SameHub, Remembers
  <2> QED
    BY <2>2, QuietStep
<1> QED
  BY <1>2, <1>3 DEF Connecting

LEMMA OutboxKeeps ==
  ASSUME IInv, Outbox \/ FlushFails \/ Hello \/ HelloStep \/ Telemetry \/ HelloFails
  PROVE  Kept
<1>1. TypeOK /\ flush \in Flushes /\ op \in Ops
  BY Types DEF IInv
<1>2. UNCHANGED <<down, hub, busy, known>>
  BY DEF Outbox, FlushStep, FlushEnds, FlushRetry, FlushFails, Hello, HelloStep, Telemetry,
         HelloFails, net, server
<1>3. SameStore
  <2>1. ASSUME NEW r, r \in Ops \/ r \in Flushes, NEW r2, Replays(r, r2)
        PROVE  store'.cmd = store.cmd /\ store'.outbox = store.outbox
    BY <1>1, <2>1, ReplayType
  <2>2. CASE FlushStep \/ HelloStep
    BY <1>1, <2>1, <2>2 DEF FlushStep, HelloStep, SameStore
  <2>3. CASE Hello \/ Telemetry
    BY <1>1, <2>3, SendsType DEF Hello, Telemetry, SameStore
  <2>4. CASE FlushEnds \/ FlushRetry \/ FlushFails \/ HelloFails
    BY <2>4 DEF FlushEnds, FlushRetry, FlushFails, HelloFails, SameStore
  <2> QED
    BY <2>2, <2>3, <2>4 DEF Outbox
<1> QED
  BY <1>2, <1>3, SamePosts, QuietStep DEF SameHub, Remembers

LEMMA LossKeeps ==
  ASSUME IInv, PortLost \/ WorkerStops \/ \E i \in Sockets : SocketDies(i)
  PROVE  Kept
<1>1. store \in Stores
  BY Types DEF IInv
<1>2. CASE PortLost \/ WorkerStops
  <2>1. down' = <<>> /\ UNCHANGED <<hub, busy, known>>
    BY <1>2 DEF PortLost, WorkerStops, Detach, server
  <2>2. SameStore
    BY <1>1, <1>2 DEF PortLost, WorkerStops, SameStore, Stores
  <2> QED
    BY <2>1, <2>2, NoPosts, QuietStep DEF SameHub, Remembers
<1>3. CASE \E i \in Sockets : SocketDies(i)
  <2>1. UNCHANGED <<store, down, hub, busy, known>>
    BY <1>3 DEF SocketDies, tab, server
  <2> QED
    BY <2>1, SamePosts, QuietStep DEF SameHub, Remembers, SameStore
<1> QED
  BY <1>2, <1>3

(* A result that is settled enters the outbox in the same transition.       *)
LEMMA SettleKeeps ==
  ASSUME IInv, HelloEnds \/ \E c \in Commands : Answer(c)
  PROVE  Kept
<1>1. PICK cs \in SUBSET Commands : store' = Settle(cs)
  BY DEF HelloEnds, Answer, Running
<1>2. UNCHANGED <<down, hub, busy, known>>
  BY DEF HelloEnds, Answer, net, server
<1>3. ASSUME NEW c \in Commands, store'.cmd[c] = "settled"
      PROVE  Contains(store'.outbox, c) \/ c \in known'
  <2>1. CASE c \in cs
    BY <1>1, <2>1, SettleType DEF IInv
  <2>2. CASE c \notin cs
    <3>1. store.cmd[c] = "settled"
      BY <1>1, <1>3, <2>2, SettleType DEF IInv
    <3> QED
      BY <1>1, <1>2, <3>1, SettleType DEF IInv, RemovedIsHandled
  <2> QED
    BY <2>1, <2>2
<1>4. RemovedIsHandled'
  BY <1>3 DEF RemovedIsHandled
<1> QED
  BY <1>2, <1>4, SamePosts, PostsKept, HubKept DEF IInv, Kept, SameHub, Remembers

(* An ACK takes out what it names, and it names what a server has handled.  *)
LEMMA ReceiveKeeps ==
  ASSUME IInv, NEW n \in DOMAIN down, Receive(n)
  PROVE  Kept
<1>1. TypeOK /\ store \in Stores /\ down \in Seq(Posts) /\ n \in 1 .. Len(down) /\ Len(down) \in Nat
  BY Types, LenProperties DEF IInv
<1>2. UNCHANGED <<hub, busy, known>> /\ down' = SubSeq(down, n + 1, Len(down))
  BY DEF Receive, server
<1>3. OldPosts
  <2>1. n + 1 \in 1 .. Len(down) + 1
    BY <1>1
  <2>2. \A i \in 1 .. Len(SubSeq(down, n + 1, Len(down))) :
           \E j \in 1 .. Len(down) : SubSeq(down, n + 1, Len(down))[i] = down[j]
    BY <1>1, <2>1, RestIs
  <2> QED
    BY <1>2, <2>2 DEF OldPosts
<1>4. ASSUME NEW c \in Commands, store'.cmd[c] = "settled"
      PROVE  Contains(store'.outbox, c) \/ c \in known
  <2>1. CASE down[n].kind = "command"
    <3>1. store' = [store EXCEPT !.cmd[down[n].cmd] = "running"]
      BY <2>1 DEF Receive
    <3>2. store'.outbox = store.outbox /\ store.cmd[c] = "settled"
      BY <1>1, <1>4, <3>1 DEF Stores
    <3> QED
      BY <3>2 DEF IInv, RemovedIsHandled
  <2>2. CASE down[n].kind = "ack" /\ Delivered(down[n].reason)
    <3>1. store' = Acked(down[n].cmd)
      BY <2>2 DEF Receive
    <3>2. store'.cmd = store.cmd
      BY <1>1, <3>1, AckedType
    <3>3. CASE c = down[n].cmd
      BY <1>1, <2>2, <3>3 DEF IInv, AcksTrue
    <3>4. CASE c # down[n].cmd
      BY <1>1, <1>4, <3>1, <3>2, <3>4, AckedType DEF IInv, RemovedIsHandled
    <3> QED
      BY <3>3, <3>4
  <2>3. CASE down[n].kind # "command" /\ ~(down[n].kind = "ack" /\ Delivered(down[n].reason))
    <3>1. UNCHANGED store
      BY <2>3 DEF Receive
    <3> QED
      BY <1>4, <3>1 DEF IInv, RemovedIsHandled
  <2> QED
    BY <2>1, <2>2, <2>3
<1>5. RemovedIsHandled'
  BY <1>2, <1>4 DEF RemovedIsHandled
<1> QED
  BY <1>2, <1>3, <1>5, PostsKept, HubKept DEF IInv, Kept, SameHub, Remembers

-----------------------------------------------------------------------------
(* No step handles a result twice, and every ACK tells the truth            *)

(* Verdict, with the hub it is about.                                       *)
Accepted(h, e) ==
    /\ e.msg \notin h.seen
    /\ e.msg = "hello" \/ h.owner = e.src
    /\ ~(e.seq <= IF e.src \in DOMAIN h.last THEN h.last[e.src] ELSE 0)

LEMMA AcceptedIs == \A e : Verdict(e) = "" <=> Accepted(hub, e)
BY DEF Verdict, Duplicate, Stranger, LastOf, Accepted

LEMMA AcceptedNext ==
  StillAccepted' <=> \A k \in Keys : busy'[k] # <<>>
                        => k = 0 /\ busy'[k][2].msg # "hello" /\ Accepted(hub', busy'[k][2])
BY DEF StillAccepted, Verdict, Duplicate, Stranger, LastOf, Accepted

(* One ACK is sent: all that is to be shown is that it is true.             *)
LEMMA AckKeeps ==
  ASSUME TypeOK, AcksTrue, NEW i \in Sockets, NEW e \in Env, NEW reason \in Reasons,
         down' = Ack(i, e, reason), known \subseteq known',
         Delivered(reason) /\ e.msg \in Commands => e.msg \in known'
  PROVE  AcksTrue'
<1> DEFINE m == [sock |-> i, kind |-> "ack", cmd |-> e.msg, reason |-> reason]
<1>1. m.cmd = e.msg /\ m.reason = reason
  OBVIOUS
<1>2. \A n \in 1 .. Len(down') :
         down'[n] = m \/ (n \in 1 .. Len(down) /\ down'[n] = down[n])
  BY AckType
<1> HIDE DEF m
<1>3. ASSUME NEW n \in 1 .. Len(down'), down'[n].kind = "ack", Delivered(down'[n].reason),
             down'[n].cmd \in Commands
      PROVE  down'[n].cmd \in known'
  <2>1. CASE down'[n] = m
    BY <1>1, <1>3, <2>1
  <2>2. CASE n \in 1 .. Len(down) /\ down'[n] = down[n]
    BY <1>3, <2>2 DEF AcksTrue
  <2> QED
    BY <1>2, <2>1, <2>2
<1> QED
  BY <1>3 DEF AcksTrue

LEMMA TakeKeeps ==
  ASSUME IInv, NEW i \in Sockets, Take(i)
  PROVE  Kept
<1> DEFINE e    == Head(up[i])
           rest == [up EXCEPT ![i] = Tail(@)]
<1>1. /\ TypeOK /\ Hub(hub) /\ busy \in Turns /\ busy[0] = <<>> /\ e \in Env
      /\ UNCHANGED <<store, known>>
      /\ \/ UNCHANGED <<down, hub, busy>>
         \/ /\ e.msg = "hello" /\ Verdict(e) = ""
            /\ hub' = Commit(Greet(hub, i), e) /\ UNCHANGED busy /\ down' = Ack(i, e, "")
         \/ /\ Verdict(e) # "" /\ UNCHANGED <<hub, busy>> /\ down' = Ack(i, e, Verdict(e))
         \/ /\ Verdict(e) = "" /\ e.msg # "hello" /\ UNCHANGED <<hub, down>>
            /\ busy' = [busy EXCEPT ![0] = <<i, e>>]
  BY TakeCases, Types DEF IInv, tab
<1> HIDE DEF e, rest
<1>2. CASE UNCHANGED <<down, hub, busy>>
  BY <1>1, <1>2, SamePosts, QuietStep DEF SameStore, SameHub, Remembers
<1>3. CASE /\ e.msg = "hello" /\ Verdict(e) = ""
           /\ hub' = Commit(Greet(hub, i), e) /\ UNCHANGED busy /\ down' = Ack(i, e, "")
  <2>1. e.msg \notin Commands /\ "" \in Reasons
    BY <1>3, Starts DEF Reasons
  <2>2. hub'.seen = hub.seen /\ hub'.count = hub.count
    <3>1. Hub(Greet(hub, i)) /\ Remembers(hub, Greet(hub, i))
      BY <1>1, ClientType
    <3>2. /\ Commit(Greet(hub, i), e).seen = Greet(hub, i).seen
          /\ Commit(Greet(hub, i), e).count = Greet(hub, i).count
      BY <1>1, <2>1, <3>1, CommitType
    <3> QED
      BY <1>3, <3>1, <3>2 DEF Remembers
  <2>3. AcksTrue'
    BY <1>1, <1>3, <2>1, AckKeeps DEF IInv
  <2>4. SeenIsKnown' /\ CountedIsSeen'
    BY <1>1, <2>2 DEF IInv, SeenIsKnown, CountedIsSeen
  <2>5. StillAccepted'
    BY <1>1, <1>3 DEF IInv, StillAccepted
  <2>6. RemovedIsHandled'
    BY <1>1, StoreKept DEF IInv, SameStore
  <2> QED
    BY <2>3, <2>4, <2>5, <2>6 DEF Kept
<1>4. CASE Verdict(e) # "" /\ UNCHANGED <<hub, busy>> /\ down' = Ack(i, e, Verdict(e))
  <2>1. Delivered(Verdict(e)) => e.msg \in known
    BY <1>4 DEF Delivered, Verdict, Duplicate, IInv, SeenIsKnown
  <2>2. AcksTrue'
    BY <1>1, <1>4, <2>1, VerdictType, AckKeeps DEF IInv
  <2> QED
    BY <1>1, <1>4, <2>2, StoreKept, HubKept DEF IInv, SameStore, SameHub, Remembers, Kept
<1>5. CASE /\ Verdict(e) = "" /\ e.msg # "hello" /\ UNCHANGED <<hub, down>>
           /\ busy' = [busy EXCEPT ![0] = <<i, e>>]
  <2>1. ASSUME NEW k \in Keys, busy'[k] # <<>>
        PROVE  k = 0 /\ busy'[k][2] = e
    <3>1. k = 0
      BY <1>1, <1>5, <2>1 DEF IInv, StillAccepted, Turns
    <3> QED
      BY <1>1, <1>5, <3>1 DEF Turns
  <2>2. StillAccepted'
    <3>1. Accepted(hub', e) /\ e.msg # "hello"
      BY <1>5, AcceptedIs
    <3>2. \A k \in Keys : busy'[k] # <<>>
             => k = 0 /\ busy'[k][2].msg # "hello" /\ Accepted(hub', busy'[k][2])
      BY <2>1, <3>1
    <3> QED
      BY <3>2, AcceptedNext
  <2>3. SeenIsKnown' /\ CountedIsSeen'
    BY <1>1, <1>5 DEF IInv, SeenIsKnown, CountedIsSeen
  <2>4. RemovedIsHandled' /\ AcksTrue'
    BY <1>1, <1>5, SamePosts, StoreKept, PostsKept DEF IInv, SameStore
  <2> QED
    BY <2>2, <2>3, <2>4 DEF Kept
<1> QED
  BY <1>1, <1>2, <1>3, <1>4, <1>5

(* The handled envelope is new, so its command is counted for the first time *)
(* and remembered with it.                                                  *)
LEMMA HandleKeeps ==
  ASSUME IInv, NEW k \in Keys, Handle(k)
  PROVE  Kept
<1> DEFINE i == busy[k][1]
           e == busy[k][2]
<1>1. /\ busy[k] # <<>> /\ busy' = [busy EXCEPT ![k] = <<>>] /\ busy \in Turns
      /\ known' = known \union ({e.msg} \intersect Commands)
      /\ hub' = IF Verdict(e) = "" THEN Commit(Counted(hub, e), e) ELSE Counted(hub, e)
      /\ down' = Ack(i, e, Verdict(e)) /\ UNCHANGED store
      /\ TypeOK /\ Hub(hub)
  BY Types DEF Handle, tab, IInv
<1>2. i \in Sockets /\ e \in Env /\ k = 0 /\ Verdict(e) = ""
  BY <1>1, HandledType DEF IInv, StillAccepted
<1> HIDE DEF i, e
<1>3. hub' = Commit(Counted(hub, e), e) /\ e.msg \notin hub.seen
  BY <1>1, <1>2 DEF Verdict, Duplicate
<1>4. /\ hub'.seen = IF e.msg \in Commands THEN hub.seen \union {e.msg} ELSE hub.seen
      /\ \A c \in Commands : hub'.count[c] = IF c = e.msg THEN hub.count[c] + 1 ELSE hub.count[c]
  <2>1. /\ Hub(Counted(hub, e)) /\ Counted(hub, e).seen = hub.seen
        /\ \A c \in Commands : Counted(hub, e).count[c] = IF c = e.msg THEN hub.count[c] + 1 ELSE hub.count[c]
    BY <1>1, <1>2, CountedType
  <2>2. /\ Commit(Counted(hub, e), e).count = Counted(hub, e).count
        /\ Commit(Counted(hub, e), e).seen
             = IF e.msg \in Commands THEN Counted(hub, e).seen \union {e.msg} ELSE Counted(hub, e).seen
    BY <1>2, <2>1, CommitType
  <2> QED
    BY <1>3, <2>1, <2>2
<1>5. SeenIsKnown'
  BY <1>1, <1>4 DEF IInv, SeenIsKnown
<1>6. CountedIsSeen'
  <2>1. ASSUME NEW c \in Commands PROVE hub'.count[c] <= 1 /\ (hub'.count[c] = 1 => c \in hub'.seen)
    <3>1. hub.count[c] \in Nat /\ hub.count[c] <= 1 /\ (hub.count[c] = 1 => c \in hub.seen)
      BY <1>1 DEF IInv, CountedIsSeen, Hub
    <3>2. CASE c = e.msg
      BY <1>3, <1>4, <3>1, <3>2
    <3>3. CASE c # e.msg
      BY <1>4, <3>1, <3>3
    <3> QED
      BY <3>2, <3>3
  <2> QED
    BY <2>1 DEF CountedIsSeen
<1>7. StillAccepted'
  <2>1. \A j \in Keys : busy'[j] = <<>>
    BY <1>1, <1>2 DEF IInv, StillAccepted, Turns
  <2> QED
    BY <2>1 DEF StillAccepted
<1>8. AcksTrue'
  BY <1>1, <1>2, VerdictType, AckKeeps DEF IInv
<1>9. RemovedIsHandled'
  BY <1>1, StoreKept DEF IInv, SameStore
<1> QED
  BY <1>5, <1>6, <1>7, <1>8, <1>9 DEF Kept

LEMMA HandlerFailsKeeps ==
  ASSUME IInv, NEW k \in Keys, HandlerFails(k)
  PROVE  Kept
<1>1. /\ busy[k] # <<>> /\ busy' = [busy EXCEPT ![k] = <<>>] /\ busy \in Turns
      /\ down' = Ack(busy[k][1], busy[k][2], "canonical_commit_failed")
      /\ UNCHANGED <<store, hub, known>> /\ TypeOK
  BY Types DEF HandlerFails, tab, IInv
<1>2. "canonical_commit_failed" \in Reasons /\ ~Delivered("canonical_commit_failed")
  BY DEF Reasons, Delivered
<1>3. AcksTrue'
  BY <1>1, <1>2, HandledType, AckKeeps DEF IInv
<1>4. StillAccepted'
  <2>1. \A j \in Keys : busy'[j] = <<>>
    BY <1>1 DEF IInv, StillAccepted, Turns
  <2> QED
    BY <2>1 DEF StillAccepted
<1>5. RemovedIsHandled' /\ SeenIsKnown' /\ CountedIsSeen'
  BY <1>1, StoreKept DEF IInv, SeenIsKnown, CountedIsSeen, SameStore
<1> QED
  BY <1>3, <1>4, <1>5 DEF Kept

(* A client that is removed takes nothing out of the memory of the hub.     *)
LEMMA ClientKeeps ==
  ASSUME IInv, NEW i \in Sockets, Closed(i) \/ Heartbeat(i)
  PROVE  Kept
<1>1. Hub(hub) /\ Hub(Unregister(hub, i)) /\ Remembers(hub, Unregister(hub, i))
  BY Types, ClientType DEF IInv
<1>2. /\ UNCHANGED <<store, down, busy, known>>
      /\ \/ hub' = [Unregister(hub, i) EXCEPT !.shut = @ \union {i}]
         \/ hub' = Unregister(hub, i)
  BY DEF Closed, Heartbeat, tab, net
<1>3. Remembers(hub, hub')
  <2> DEFINE h == Unregister(hub, i)
  <2>1. Hub(h) /\ Remembers(hub, h) /\ (hub' = h \/ hub' = [h EXCEPT !.shut = @ \union {i}])
    BY <1>1, <1>2
  <2> HIDE DEF h
  <2> QED
    BY <2>1 DEF Remembers, Hub
<1> QED
  BY <1>2, <1>3, SamePosts, QuietStep DEF SameStore, SameHub

LEMMA SendKeeps ==
  ASSUME IInv, NEW c \in Commands, Send(c)
  PROVE  Kept
<1>1. /\ UNCHANGED <<hub, busy, known>> /\ TypeOK /\ store \in Stores
      /\ store' = [store EXCEPT !.cmd[c] = "sent"]
      /\ down' = Append(down, [sock |-> hub.named, kind |-> "command", cmd |-> c])
      /\ hub.named \in Sockets
  BY Types DEF Send, server, IInv, Hub
<1>2. RemovedIsHandled'
  BY <1>1 DEF IInv, RemovedIsHandled, Stores
<1>3. OldPosts
  <2> DEFINE m == [sock |-> hub.named, kind |-> "command", cmd |-> c]
  <2>1. m.kind # "ack" /\ m \in Posts /\ down' = Append(down, m)
    BY <1>1 DEF Posts
  <2> HIDE DEF m
  <2>2. \A n \in 1 .. Len(down') :
           down'[n] = m \/ (n \in 1 .. Len(down) /\ down'[n] = down[n])
    BY <1>1, <2>1, PostType
  <2> QED
    BY <2>1, <2>2 DEF OldPosts
<1> QED
  BY <1>1, <1>2, <1>3, PostsKept, HubKept DEF IInv, SameHub, Remembers, Kept

(* A server that starts again remembers nothing, and has sent no ACK.       *)
LEMMA RestartKeeps ==
  ASSUME IInv, ServerRestarts
  PROVE  Kept
<1>1. hub' = Fresh /\ busy' = NoTurn /\ down' = <<>> /\ UNCHANGED <<store, known>>
  BY DEF ServerRestarts, tab
<1>2. SeenIsKnown' /\ CountedIsSeen'
  BY <1>1 DEF SeenIsKnown, CountedIsSeen, Fresh
<1>3. StillAccepted'
  BY <1>1 DEF StillAccepted, NoTurn
<1>4. RemovedIsHandled' /\ AcksTrue'
  BY <1>1, NoPosts, StoreKept, PostsKept DEF IInv, SameStore
<1> QED
  BY <1>2, <1>3, <1>4 DEF Kept

-----------------------------------------------------------------------------
(* Theorems                                                                 *)

LEMMA InitIInv == Init => IInv
<1> SUFFICES ASSUME Init PROVE IInv
  OBVIOUS
<1>1. TypeOK
  <2>1. /\ MaxFaults \in Nat /\ <<>> \in Seq(Commands) /\ <<>> \in Seq(Posts) /\ <<>> \in Seq(Env)
    BY TransportAssumption, Empty DEF TransportAssumption
  <2>2. store \in Stores
    BY <2>1 DEF Init, Stores, Epochs
  <2>3. link \in Links /\ up \in [Sockets -> Seq(Env)]
    BY <2>1 DEF Init, Links
  <2>4. faults \in 0..MaxFaults /\ watching \in BOOLEAN /\ known \subseteq Commands
    <3>1. faults = MaxFaults /\ watching = FALSE /\ known = {}
      BY DEF Init
    <3>2. faults \in 0..MaxFaults
      BY <2>1, <3>1
    <3>3. watching \in BOOLEAN
      BY <3>1
    <3> QED
      BY <3>1, <3>2, <3>3
  <2>5. /\ conn \in Conns /\ op \in Ops /\ flush \in Flushes /\ Hub(hub) /\ busy \in Turns
        /\ down \in Seq(Posts)
    BY <2>1, Starts DEF Init
  <2> QED
    BY <2>2, <2>3, <2>4, <2>5, Types
<1>2. RemovedIsHandled
  BY DEF Init, RemovedIsHandled
<1>3. AcksTrue
  BY DEF Init, AcksTrue
<1>4. SeenIsKnown /\ CountedIsSeen
  BY DEF Init, Fresh, SeenIsKnown, CountedIsSeen
<1>5. StillAccepted
  BY DEF Init, NoTurn, StillAccepted
<1> QED
  BY <1>1, <1>2, <1>3, <1>4, <1>5 DEF IInv

LEMMA NextKeeps == IInv /\ [Next]_vars => IInv'
<1> SUFFICES ASSUME IInv, [Next]_vars PROVE IInv'
  OBVIOUS
<1>1. CASE Next
  <2>1. Kept
    BY <1>1, ConnectingKeeps, OutboxKeeps, LossKeeps, SettleKeeps, ReceiveKeeps, TakeKeeps,
       HandleKeeps, HandlerFailsKeeps, ClientKeeps, SendKeeps, RestartKeeps
       DEF Next, Tabs, Arrivals, Serving, Faulty, Work
  <2>2. TypeOK'
    BY <1>1, TypeKept DEF IInv
  <2> QED
    BY <2>1, <2>2 DEF IInv, Kept
<1>2. CASE UNCHANGED vars
  <2>1. UNCHANGED <<store, conn, op, flush, link, up, down, hub, busy, known, watching, faults>>
    BY <1>2 DEF vars
  <2>2. Kept
    BY <2>1, SamePosts, QuietStep DEF SameStore, SameHub, Remembers
  <2>3. TypeOK'
    BY <2>1, Types, NextTypes DEF IInv
  <2> QED
    BY <2>2, <2>3 DEF IInv, Kept
<1> QED
  BY <1>1, <1>2

(* The invariant of the stream: what the outbox, the messages under way and *)
(* the memory of the hub say of a result agree with what was handled        *)
(* (outboxV5.js, protocolV5Adapter.js).                                     *)
THEOREM Inductive == Spec => []IInv
<1> QED
  BY InitIInv, NextKeeps, PTL DEF Spec

(* The variables keep their forms, for any number of commands and sockets.  *)
THEOREM TypeCorrect == Spec => []TypeOK
<1>1. IInv => TypeOK
  BY DEF IInv
<1> QED
  BY <1>1, Inductive, PTL

(* No result is lost: what is settled stays in the outbox until a server    *)
(* has handled it, through deaths, restarts, reloads and late ACKs          *)
(* (outboxV5.js acknowledge, transportRuntime.js).                          *)
THEOREM NothingLost == Spec => []RemovedIsHandled
<1>1. IInv => RemovedIsHandled
  BY DEF IInv
<1> QED
  BY <1>1, Inductive, PTL

(* A running server handles a result once, however often it is sent again   *)
(* and on whatever socket (protocolV5Adapter.js prepare and commit).        *)
THEOREM Once == Spec => []HandledOnce
<1>1. IInv => HandledOnce
  BY DEF IInv, CountedIsSeen, HandledOnce
<1> QED
  BY <1>1, Inductive, PTL

(* A step counts a result only for the source that owns the hub now.        *)
LEMMA OwnerStep ==
  ASSUME IInv, [Next]_vars, NEW k \in Keys,
         busy[k] # <<>>, hub'.count # hub.count, busy'[k] = <<>>
  PROVE  hub.owner = busy[k][2].src
BY AcceptedIs DEF IInv, StillAccepted, Accepted

(* The envelope that is counted comes from the owner: whoever takes the hub *)
(* over while a handler runs cannot be mixed up with who sent it            *)
(* (protocolV5Adapter.js, browserExtensionHub.js).                          *)
THEOREM OwnerHandled == Spec => OnlyOwnerHandled
<1> DEFINE Owned == \A k \in Keys : busy[k] # <<>> /\ hub.count' # hub.count /\ busy'[k] = <<>>
                        => hub.owner = busy[k][2].src
<1>1. IInv /\ [Next]_vars => [Owned]_vars
  BY OwnerStep
<1>2. Spec => [][Owned]_vars
  BY <1>1, Inductive, PTL DEF Spec
<1> QED
  BY <1>2 DEF OnlyOwnerHandled
=============================================================================
