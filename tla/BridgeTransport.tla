-------------------------- MODULE BridgeTransport --------------------------
(***************************************************************************)
(* The stream between one browser tab and the bridge server: the port of   *)
(* the content script, the background worker with its durable outbox       *)
(* (background.js, background/outboxV5.js, stateV6TransportReducer.js),    *)
(* its WebSockets, and the hub with its protocol adapter                   *)
(* (browserExtensionHub.js, hub/, adapters/protocolV5Adapter.js).          *)
(*                                                                         *)
(* A command stands for its terminal envelope, the one critical message    *)
(* the tab owes for it.  The operation queue of the tab runs one operation *)
(* at a time (module TabOperationQueue); an operation that awaits a flush  *)
(* or replays the outbox is cut there.  External: the network, which       *)
(* delivers each direction of a socket in order until the socket dies, and *)
(* may still deliver what was under way then.                              *)
(***************************************************************************)
EXTENDS Naturals, Sequences, FiniteSets, SequencesExt

CONSTANTS
    Commands,      \* commands the server may send to the tab
    MaxSockets,    \* bound: sockets the tab opens
    MaxOpening,    \* bound: openConnection calls that run at a time
    MaxFaults      \* bound: deaths, restarts, reloads and failures

ASSUME TransportAssumption ==
    /\ IsFiniteSet(Commands) /\ {"hello", "telemetry", ""} \intersect Commands = {}
    /\ {MaxSockets, MaxOpening, MaxFaults} \subseteq Nat \ {0}

Sockets == 1..MaxSockets

VARIABLES
    store,     \* the tab's runtime in chrome.storage.session, and the epochs
    conn,      \* the connection state of the content script's port
    op,        \* where the running operation of the tab stands
    flush,     \* the flush of the outbox
    link,      \* the sockets
    up,        \* what each socket carries to the server
    down,      \* what the server sent, in the order of its sequence
    hub,       \* the clients of the hub and its protocol adapter
    busy,      \* what awaits the canonical handler, per incoming queue
    known,     \* commands whose envelope a server has handled
    watching,  \* does the content script observe the page (bridgeConnected)?
    faults     \* what the bound has left

vars == <<store, conn, op, flush, link, up, down, hub, busy, known, watching, faults>>
tab  == <<store, conn, op, flush>>
net  == <<link, up, down>>
server == <<hub, busy, known>>

Epochs == Nat \ {0}
Source == [bg: Epochs, ct: Epochs]
None   == [bg |-> 0, ct |-> 0]
Names  == Commands \union {"hello", "telemetry"}
Env    == [msg: Names, src: Source, seq: Nat]

\* What the server sends: its hello, a command, or the ACK of an envelope.
Reasons == {"", "duplicate_message", "stale_owner", "stale_sequence", "canonical_commit_failed"}
Posts   == [sock: Sockets, kind: {"hello", "command"}, cmd: Commands \union {""}]
           \union [sock: Sockets, kind: {"ack"}, cmd: Names, reason: Reasons]

\* Mutant: an incoming queue per socket.
OwnQueue(i) == i

\* Incoming queues of the hub: every envelope of a tab goes through the tab's, 0,
\* whatever socket carries it.
Keys   == 0..MaxSockets
Key(i) == 0

Idle    == [kind |-> "none", left |-> <<>>, env |-> <<>>]
Quiet   == [on |-> FALSE, dirty |-> FALSE, retry |-> FALSE, left |-> <<>>, env |-> <<>>]
NoConn  == [up |-> FALSE, ws |-> 0, opening |-> 0, timer |-> FALSE,
            ready |-> FALSE, hellos |-> 0, ended |-> {}]
Fresh   == [clients |-> [i \in Sockets |-> "none"], shut |-> {}, named |-> 0,
            owner |-> None, last |-> [s \in {} |-> 0], seen |-> {},
            count |-> [c \in Commands |-> 0]]
NoTurn  == [k \in Keys |-> <<>>]

\* The forms of the durable runtime, the connection and the hub.
TypeOK ==
    /\ store \in [bg: Epochs, ct: Epochs, seq: Nat, outbox: Seq(Commands),
                  cmd: [Commands -> {"new", "sent", "running", "settled"}]]
    /\ conn \in [up: BOOLEAN, ws: {0} \union Sockets, opening: 0..MaxOpening,
                 timer: BOOLEAN, ready: BOOLEAN, hellos: Nat, ended: SUBSET Sockets]
    /\ op \in [kind: {"none", "hello", "await"}, left: Seq(Commands), env: Seq(Env)]
    /\ flush \in [on: BOOLEAN, dirty: BOOLEAN, retry: BOOLEAN, left: Seq(Commands), env: Seq(Env)]
    /\ link \in [Sockets -> {"unused", "connecting", "open", "closed"}]
    /\ up \in [Sockets -> Seq(Env)] /\ down \in Seq(Posts)
    /\ hub \in [clients: [Sockets -> {"none", "fallback", "ready", "gone"}], shut: SUBSET Sockets,
                named: {0} \union Sockets, owner: Source \union {None}, last: {hub.last},
                seen: SUBSET Commands, count: [Commands -> Nat]]
    /\ hub.last \in [DOMAIN hub.last -> Nat]
    /\ busy \in [Keys -> {<<>>} \union Sockets \X Env]
    /\ known \subseteq Commands /\ watching \in BOOLEAN /\ faults \in 0..MaxFaults

Init ==
    /\ store = [bg |-> 1, ct |-> 1, seq |-> 0, outbox |-> <<>>,
                cmd |-> [c \in Commands |-> "new"]]
    /\ conn = NoConn /\ op = Idle /\ flush = Quiet
    /\ link = [i \in Sockets |-> "unused"]
    /\ up = [i \in Sockets |-> <<>>] /\ down = <<>>
    /\ hub = Fresh /\ busy = NoTurn /\ known = {}
    /\ watching = FALSE /\ faults = MaxFaults

Fault == faults > 0 /\ faults' = faults - 1
Exhausted == \A i \in Sockets : link[i] = "closed"
Here  == [bg |-> store.bg, ct |-> store.ct]
Open(i) == i # 0 /\ link[i] = "open"
Alive == conn.ws # 0 /\ link[conn.ws] \in {"connecting", "open"}

---------------------------------------------------------------------------
(* Connecting.                                                             *)

\* The content script connects its port, and the worker starts to connect.
Attach ==
    /\ ~conn.up /\ op = Idle /\ conn' = [NoConn EXCEPT !.up = TRUE, !.opening = 1,
                                        !.ended = {i \in Sockets : link[i] # "unused"}]
    /\ watching' = FALSE
    /\ UNCHANGED <<store, op, flush, net, server, faults>>

\* openConnection after its preflight: a new socket becomes the current one.
Connect ==
    /\ conn.up /\ conn.opening > 0
    /\ \E i \in Sockets :
         /\ link[i] = "unused" /\ \A j \in 1..(i - 1) : link[j] # "unused"
         /\ link' = [link EXCEPT ![i] = "connecting"]
         /\ conn' = [conn EXCEPT !.opening = @ - 1, !.ws = i, !.ready = FALSE]
    /\ watching' = FALSE
    /\ UNCHANGED <<store, op, flush, up, down, server, faults>>

\* The server is offline, or refuses the token: only the former is retried.
Refuse ==
    /\ Fault /\ conn.up /\ conn.opening > 0 /\ watching' = FALSE
    /\ \E offline \in BOOLEAN :
         conn' = [conn EXCEPT !.opening = @ - 1, !.timer = @ \/ offline]
    /\ UNCHANGED <<store, op, flush, net, server>>

\* The hub greets a new socket; the worker lets the content script say hello.
Opens(i) ==
    /\ link[i] = "connecting" /\ link' = [link EXCEPT ![i] = "open"]
    /\ hub' = [hub EXCEPT !.clients[i] = "fallback"]
    /\ down' = Append(down, [sock |-> i, kind |-> "hello", cmd |-> ""])
    /\ conn' = IF i \in conn.ended THEN conn ELSE [conn EXCEPT !.hellos = @ + 1]
    /\ UNCHANGED <<store, op, flush, up, busy, known, watching, faults>>

\* The close event of a socket of this connection, current or not.
Ended(i) ==
    /\ conn.up /\ link[i] = "closed" /\ i \notin conn.ended
    /\ conn' = [conn EXCEPT !.ended = @ \union {i}, !.timer = TRUE]
    /\ watching' = FALSE
    /\ UNCHANGED <<store, op, flush, net, server, faults>>

Reopen == [conn EXCEPT !.timer = FALSE, !.opening = @ + 1]

\* The timer of scheduleReconnect closes the current socket, whatever it is.
Reconnect ==
    /\ conn.up /\ conn.timer /\ conn.opening < MaxOpening
    /\ conn' = [Reopen EXCEPT !.ws = 0]
    /\ link' = IF Alive THEN [link EXCEPT ![conn.ws] = "closed"] ELSE link
    /\ UNCHANGED <<store, op, flush, up, down, server, watching, faults>>

\* The alarm of the watchdog: a connection without a living socket is retried.
Watchdog ==
    /\ conn.up /\ ~Alive /\ conn.opening < MaxOpening /\ conn' = Reopen
    /\ UNCHANGED <<store, op, flush, net, server, watching, faults>>

\* Sockets end.  Of what they carry up (u) the server still gets a first part;
\* what they carry down is not received any more.
Dead(sockets, u) ==
    /\ link' = [i \in Sockets |-> IF i \in sockets /\ link[i] # "unused"
                                     THEN "closed" ELSE link[i]]
    /\ \E v \in [Sockets -> UNION {Prefixes(u[i]) : i \in Sockets}] :
         /\ \A i \in Sockets : IF i \in sockets THEN v[i] \in Prefixes(u[i]) ELSE v[i] = u[i]
         /\ up' = v

Detach ==
    /\ conn' = NoConn /\ op' = Idle /\ flush' = Quiet /\ Dead(Sockets, up)
    /\ down' = <<>> /\ UNCHANGED server /\ watching' = FALSE

\* The port is lost; with it the document, or only the connection.
PortLost ==
    /\ Fault /\ conn.up /\ Detach
    /\ \E ct \in {store.ct, store.ct + 1} : store' = [store EXCEPT !.ct = ct]

\* The browser stops the worker; a new one has a new epoch.
WorkerStops ==
    /\ Fault /\ conn.up /\ Detach /\ store' = [store EXCEPT !.bg = @ + 1]

SocketDies(i) ==
    /\ Fault /\ link[i] \in {"connecting", "open"} /\ Dead({i}, up)
    /\ UNCHANGED <<tab, down, server, watching>>

---------------------------------------------------------------------------
(* The outbox.                                                             *)

Put(e) == IF Open(conn.ws) THEN [up EXCEPT ![conn.ws] = Append(@, e)] ELSE up
Envelope(m) == [msg |-> m, src |-> Here, seq |-> store.seq + 1]

\* Mutant: the number of the source stays.
SameNumber == store
Numbered == [store EXCEPT !.seq = @ + 1]

\* flushCriticalOutbox: a flush that runs is told to look again.
Flush(out) == IF flush.on THEN [flush EXCEPT !.dirty = TRUE]
              ELSE [flush EXCEPT !.on = TRUE, !.left = out]

\* replayCriticalOutbox for one envelope: r is the flush or the hello.
Replays(r, r2) ==
    /\ r.env = <<>> /\ r.left # <<>>
    /\ IF ~Open(conn.ws) THEN r2 = [r EXCEPT !.left = <<>>] /\ store' = store
       ELSE /\ store' = Numbered
            /\ r2 = [r EXCEPT !.left = Tail(@),
                              !.env = IF Contains(store.outbox, Head(r.left))
                                        THEN <<Envelope(Head(r.left))>> ELSE <<>>]
Transmits(r, r2) == r.env # <<>> /\ up' = Put(r.env[1]) /\ r2 = [r EXCEPT !.env = <<>>]

FlushStep ==
    /\ flush.on
    /\ \/ Replays(flush, flush') /\ UNCHANGED up
       \/ Transmits(flush, flush') /\ UNCHANGED store
    /\ UNCHANGED <<conn, op, link, down, server, watching, faults>>

Awaited == IF op.kind = "await" THEN Idle ELSE op

FlushEnds ==
    /\ flush.on /\ flush.left = <<>> /\ flush.env = <<>>
    /\ IF flush.dirty
         THEN flush' = [flush EXCEPT !.dirty = FALSE, !.left = store.outbox] /\ op' = op
         ELSE flush' = Quiet /\ op' = Awaited
    /\ UNCHANGED <<store, conn, net, server, watching, faults>>

\* A transition of the flush fails: it is deferred, and a status is shown.
FlushFails ==
    /\ Fault /\ flush.on /\ flush.left # <<>> /\ flush.env = <<>>
    /\ flush' = [Quiet EXCEPT !.retry = TRUE] /\ op' = Awaited /\ watching' = FALSE
    /\ UNCHANGED <<store, conn, net, server>>

FlushRetry ==
    /\ flush.retry /\ conn.up /\ ~flush.on
    /\ flush' = [Quiet EXCEPT !.on = TRUE, !.left = store.outbox]
    /\ UNCHANGED <<store, conn, op, net, server, watching, faults>>

---------------------------------------------------------------------------
(* Operations of the tab.                                                  *)

Settle(cs) == [store EXCEPT !.cmd = [c \in Commands |-> IF c \in cs THEN "settled" ELSE @[c]],
                            !.outbox = @ \o SetToSeq(cs)]

Running == {c \in Commands : store.cmd[c] = "running"}

\* The content script says hello once for every socket that opened.
Hello ==
    /\ op = Idle /\ conn.hellos > 0 /\ conn' = [conn EXCEPT !.hellos = @ - 1]
    /\ store' = Numbered /\ up' = Put(Envelope("hello"))
    /\ op' = [Idle EXCEPT !.kind = "hello", !.left = store.outbox]
    /\ UNCHANGED <<flush, link, down, server, watching, faults>>

HelloStep ==
    /\ op.kind = "hello"
    /\ \/ Replays(op, op') /\ UNCHANGED up
       \/ Transmits(op, op') /\ UNCHANGED store
    /\ UNCHANGED <<conn, flush, link, down, server, watching, faults>>

\* What still runs is settled as uncertain, unless a payload held back so far
\* has the answer: in both cases its envelope is in the outbox now.
HelloEnds ==
    /\ op.kind = "hello" /\ op.left = <<>> /\ op.env = <<>>
    /\ conn' = [conn EXCEPT !.ready = TRUE]
    /\ store' = Settle(Running) /\ flush' = Flush(Settle(Running).outbox)
    /\ op' = [Idle EXCEPT !.kind = "await"]
    /\ UNCHANGED <<net, server, watching, faults>>

\* The replay of a hello is not deferred when it fails: the port stays shut.
HelloFails ==
    /\ Fault /\ op.kind = "hello" /\ op.left # <<>> /\ op.env = <<>> /\ op' = Idle
    /\ UNCHANGED <<store, conn, flush, net, server, watching>>

\* A terminal payload is settled and its envelope stored in one transition.
Answer(c) ==
    /\ op = Idle /\ conn.ready /\ store.cmd[c] = "running"
    /\ store' = Settle({c}) /\ flush' = Flush(Settle({c}).outbox)
    /\ op' = [Idle EXCEPT !.kind = "await"]
    /\ UNCHANGED <<conn, net, server, watching, faults>>

Calm == /\ busy = NoTurn /\ \A i \in Sockets : up[i] = <<>>
        /\ \A n \in DOMAIN down : ~Open(down[n].sock)
        /\ op = Idle /\ flush = Quiet

\* Observations and pongs matter here when nothing else is under way.
Telemetry ==
    /\ Calm /\ conn.ready /\ Open(conn.ws) /\ store.outbox # <<>>
    /\ store' = Numbered /\ up' = Put(Envelope("telemetry"))
    /\ UNCHANGED <<conn, op, flush, link, down, server, watching, faults>>

\* Mutant: every ACK takes the envelope out.
AnyAck(reason) == TRUE

\* Which ACKs take an envelope out of the outbox.
Delivered(reason) == reason \in {"", "duplicate_message"}

Place(m) == CHOOSE n \in DOMAIN store.outbox : store.outbox[n] = m
Acked(m) == [store EXCEPT !.outbox = IF Contains(@, m) THEN RemoveAt(@, Place(m)) ELSE @]

\* handleServerEnvelope.  Only a growing sequence is accepted: what the server
\* sent before, on another socket, is void when this arrives.
Receive(n) ==
    /\ op = Idle /\ conn.up /\ Open(down[n].sock) /\ down[n].sock \notin conn.ended
    /\ \A k \in 1..(n - 1) : down[k].sock # down[n].sock
    /\ down' = SubSeq(down, n + 1, Len(down))
    /\ CASE down[n].kind = "hello" ->
              watching' = TRUE /\ UNCHANGED <<store, op, flush>>
         [] down[n].kind = "command" ->
              /\ store' = [store EXCEPT !.cmd[down[n].cmd] = "running"]
              /\ UNCHANGED <<op, flush, watching>>
         [] down[n].kind = "ack" /\ Delivered(down[n].reason) ->
              /\ store' = Acked(down[n].cmd)
              /\ flush' = Flush(Acked(down[n].cmd).outbox)
              /\ op' = IF flush'.on THEN [Idle EXCEPT !.kind = "await"] ELSE Idle
              /\ UNCHANGED watching
         [] OTHER -> UNCHANGED <<store, op, flush, watching>>
    /\ UNCHANGED <<conn, link, up, server, faults>>

---------------------------------------------------------------------------
(* The hub.                                                                *)

Ack(i, e, reason) ==
    IF Open(i) THEN Append(down, [sock |-> i, kind |-> "ack", cmd |-> e.msg, reason |-> reason])
    ELSE down

LastOf(s) == IF s \in DOMAIN hub.last THEN hub.last[s] ELSE 0

\* Mutant: the ids of the messages are not kept.
NeverSeen(e) == FALSE

Duplicate(e) == e.msg \in hub.seen
Stranger(e)  == e.msg # "hello" /\ hub.owner # e.src

\* prepare, and commit once more: why an envelope is rejected.
Verdict(e) ==
    IF Duplicate(e) THEN "duplicate_message"
    ELSE IF Stranger(e) THEN "stale_owner"
    ELSE IF e.seq <= LastOf(e.src) THEN "stale_sequence" ELSE ""

Commit(h, e) == [h EXCEPT !.last = [s \in DOMAIN @ \union {e.src} |->
                                      IF s = e.src THEN e.seq ELSE @[s]],
                          !.owner = IF e.msg = "hello" THEN e.src ELSE @,
                          !.seen = IF e.msg \in Commands THEN @ \union {e.msg} ELSE @]

\* #removeClient: the entry is deleted by the client's id, and the tab has one.
Unregister(h, i) == [h EXCEPT !.named = IF h.clients[i] = "ready" THEN 0 ELSE @,
                          !.clients[i] = IF @ = "ready" THEN @ ELSE "gone"]

\* #hello: the client takes the tab's id, and who has it is removed.
Greet(h, i) == [h EXCEPT !.clients[i] = "ready", !.named = i]
Replaced(i) == IF hub.named \in {0, i} \/ hub.clients[i] = "ready" THEN {} ELSE {hub.named}

\* A client that took the id and does not have it any more is stale.
Stale(i) == hub.clients[i] = "ready" /\ hub.named # i

Take(i) ==
    /\ up[i] # <<>> /\ busy[Key(i)] = <<>> /\ hub.clients[i] # "none"
    /\ LET e == Head(up[i])  rest == [up EXCEPT ![i] = Tail(@)] IN
         IF Stale(i) THEN Dead({i}, rest) /\ UNCHANGED <<down, hub, busy>>
         ELSE IF e.msg = "hello" /\ Verdict(e) = ""
           THEN /\ hub' = Commit(Greet(hub, i), e) /\ UNCHANGED busy
                /\ Dead(Replaced(i), rest) /\ down' = Ack(i, e, "")
         ELSE /\ up' = rest /\ UNCHANGED <<link, hub>>
              /\ IF Verdict(e) # "" THEN down' = Ack(i, e, Verdict(e)) /\ UNCHANGED busy
                 ELSE busy' = [busy EXCEPT ![Key(i)] = <<i, e>>] /\ UNCHANGED down
    /\ UNCHANGED <<tab, known, watching, faults>>

Counted(h, e) == IF e.msg \in Commands THEN [h EXCEPT !.count[e.msg] = @ + 1] ELSE h

\* The canonical handler is done: the message is applied, then committed.
Handle(k) ==
    /\ busy[k] # <<>> /\ busy' = [busy EXCEPT ![k] = <<>>]
    /\ LET i == busy[k][1]  e == busy[k][2]  v == Verdict(e) IN
         /\ known' = known \union ({e.msg} \intersect Commands)
         /\ hub' = IF v = "" THEN Commit(Counted(hub, e), e) ELSE Counted(hub, e)
         /\ down' = Ack(i, e, v)
    /\ UNCHANGED <<tab, link, up, watching, faults>>

HandlerFails(k) ==
    /\ Fault /\ busy[k] # <<>> /\ busy' = [busy EXCEPT ![k] = <<>>]
    /\ down' = Ack(busy[k][1], busy[k][2], "canonical_commit_failed")
    /\ UNCHANGED <<tab, link, up, hub, known, watching>>

\* The close event of a socket removes its client, whether it was removed before.
Closed(i) ==
    /\ link[i] = "closed" /\ hub.clients[i] # "none" /\ i \notin hub.shut
    /\ hub' = [Unregister(hub, i) EXCEPT !.shut = @ \union {i}]
    /\ UNCHANGED <<tab, net, busy, known, watching, faults>>

\* Nothing the hub accepts comes from this client any more.
Silent(i) == i # conn.ws \/ ~conn.ready \/ hub.owner # Here
Heartbeat(i) ==
    /\ hub.named = i \/ (hub.clients[i] = "fallback" /\ i \notin hub.shut)
    /\ Silent(i) /\ up[i] = <<>> /\ hub' = Unregister(hub, i) /\ Dead({i}, up)
    /\ UNCHANGED <<tab, down, busy, known, watching, faults>>

Send(c) ==
    /\ store.cmd[c] = "new" /\ hub.named # 0 /\ Open(hub.named)
    /\ store' = [store EXCEPT !.cmd[c] = "sent"]
    /\ down' = Append(down, [sock |-> hub.named, kind |-> "command", cmd |-> c])
    /\ UNCHANGED <<conn, op, flush, link, up, server, watching, faults>>

\* The server stops: what it handled is on disk, the rest of the hub is not.
ServerRestarts ==
    /\ Fault /\ hub' = Fresh /\ busy' = NoTurn
    /\ Dead(Sockets, [i \in Sockets |-> <<>>]) /\ down' = <<>>
    /\ UNCHANGED <<tab, known, watching>>

---------------------------------------------------------------------------
Connecting ==
    \/ Attach \/ Connect \/ Reconnect \/ Watchdog
    \/ \E i \in Sockets : Opens(i) \/ Ended(i)
Outbox   == FlushStep \/ FlushEnds \/ FlushRetry
Tabs     == Hello \/ HelloStep \/ HelloEnds \/ Telemetry
Arrivals == \E n \in DOMAIN down : Receive(n)
Serving  == \/ \E i \in Sockets : Take(i) \/ Closed(i) \/ Heartbeat(i)
            \/ \E k \in Keys : Handle(k)
Faulty   == \/ Refuse \/ PortLost \/ WorkerStops \/ FlushFails \/ HelloFails
            \/ ServerRestarts \/ \E i \in Sockets : SocketDies(i)
            \/ \E k \in Keys : HandlerFails(k)
Work     == \E c \in Commands : Send(c) \/ Answer(c)

\* The bound ends here when the last socket of it has closed.
Next == /\ ~Exhausted
        /\ Connecting \/ Outbox \/ Tabs \/ Arrivals \/ Serving \/ Faulty \/ Work

\* The network, the timers and the event loops are fair; no fault ever has to be.
Fairness ==
    /\ WF_vars(Attach) /\ WF_vars(Connect) /\ WF_vars(Reconnect) /\ WF_vars(Watchdog)
    /\ \A i \in Sockets : WF_vars(Opens(i)) /\ WF_vars(Ended(i)) /\ WF_vars(Take(i))
                          /\ WF_vars(Closed(i)) /\ WF_vars(Heartbeat(i))
    /\ WF_vars(Outbox) /\ WF_vars(Hello \/ HelloStep \/ HelloEnds) /\ WF_vars(Telemetry)
    /\ WF_vars(Arrivals) /\ \A k \in Keys : WF_vars(Handle(k))

Spec == Init /\ [][Next]_vars /\ Fairness

---------------------------------------------------------------------------
(* Properties.                                                             *)

\* An envelope leaves the outbox only when a server has handled it: no ACK,
\* whatever it answers and whenever it comes, loses a result.
RemovedIsHandled ==
    \A c \in Commands :
        store.cmd[c] = "settled" => Contains(store.outbox, c) \/ c \in known

\* However often an envelope is sent again, a server handles it once.
HandledOnce == \A c \in Commands : hub.count[c] <= 1

\* What is applied after the canonical handler still comes from the owner.
OnlyOwnerHandled ==
    [][\A k \in Keys : busy[k] # <<>> /\ hub.count' # hub.count /\ busy'[k] = <<>>
         => hub.owner = busy[k][2].src]_vars

\* A settled command reaches the server, unless the sockets of the bound are used up.
EveryAnswerArrives ==
    \A c \in Commands : store.cmd[c] = "settled" ~> (c \in known \/ Exhausted)

=============================================================================
