----------------------------- MODULE TabRuntime -----------------------------
(***************************************************************************)
(* One browser tab of the extension's background worker: the durable       *)
(* schema 6 state (lease, command and effect ledgers, terminal envelopes), *)
(* the router that admits server commands, the settlements that arrive     *)
(* from the content script, the release barrier with its deadline, and the *)
(* recovery after a reload, a worker restart or a reconnect.               *)
(*                                                                         *)
(* The operations of a tab run one at a time (TabOperationQueue), but each *)
(* takes several durable transitions: a handler is a program counter, and  *)
(* a reload, a crash or a disconnect can come between any two of its       *)
(* steps.  Durable state is written before memory, so a crash loses the    *)
(* handler, the timers and the connection, and no committed transition.    *)
(***************************************************************************)
EXTENDS Naturals, Sequences

CONSTANTS
    Length,     \* commands the server sends in a behaviour
    Scripts,    \* the command sequences it may send
    Requests,   \* the requests that may lease the tab
    Rooms,      \* occupancy levels of the outbox a configuration considers
    MaxFaults   \* bound: reloads, crashes and disconnects in a behaviour

VARIABLES
    script,       \* the commands the server sends, each once, in order
    next,         \* index of the next server command to arrive
    lease,        \* the durable lease of the tab, or NoLease
    status,       \* durable status of each command and of its effect
    ready,        \* releases whose cleanup was proved (releaseReadyAt)
    answers,      \* terminal envelopes enqueued for each command
    room,         \* what the durable outbox still takes
    overflow,     \* a settlement was refused by a full outbox
    handler,      \* the queue operation in progress
    executing,    \* commands the content script was given and runs
    timers,       \* release deadlines armed in the worker
    reconciling,  \* commands whose outcome awaits evidence after a hello
    link,         \* "down", "attached" (a port) or "ready" (hello done)
    faults

durable  == <<lease, status, ready, answers>>
volatile == <<handler, executing, timers, reconciling, link>>
vars     == <<script, next, durable, room, overflow, volatile, faults>>

-----------------------------------------------------------------------------
\* The commands of shared/commandManifest.js, one for each way a command is
\* admitted, settled and recovered.
EffectTypes  == {"prompt.send"}                \* request scope, effect-backed
QueryTypes   == {"response.snapshot.request"}  \* request scope, read
ReleaseTypes == {"request.release", "stale.release"}
WriteTypes   == {"sessions.new", "passive.prompt.submit"}  \* standalone
ReadTypes    == {"sessions.list"}              \* standalone, during a lease
CommandTypes == EffectTypes \cup QueryTypes \cup ReleaseTypes \cup WriteTypes
                  \cup ReadTypes

Commands == 1..Length
Type(c)  == script[c].type

ASSUME TabAssumption ==
    /\ Length \in Nat
    /\ Scripts \subseteq [Commands -> [type  : CommandTypes,
                                      req   : Requests \cup {"none"},
                                      epoch : Nat]]
    /\ \A s \in Scripts, c \in Commands :
         s[c].type \in WriteTypes \cup ReadTypes \/ s[c].req \in Requests
    /\ "none" \notin Requests
    /\ Rooms \subseteq {"free", "reserved", "full"}
    /\ MaxFaults \in Nat

RequestScoped(c) == Type(c) \notin WriteTypes \cup ReadTypes
IsEffect(c)      == Type(c) \in EffectTypes
IsRelease(c)     == Type(c) \in ReleaseTypes
IsWrite(c)       == Type(c) \in WriteTypes

\* Commands that a hello settles from evidence of its own: typed uncertainty
\* for sessions.new, the next observation for a passive prompt.
ReloadManaged(c) == IsWrite(c)

Terminal == {"succeeded", "rejected", "uncertain"}
Active   == {"registered", "dispatched"}

NoLease == [req |-> "none", epoch |-> 0, status |-> "idle"]
Idle    == [pc |-> "idle", cmd |-> 0, todo |-> {}]

At(pc, c) == [pc |-> pc, cmd |-> c, todo |-> {}]

\* matchingLease and matchingPersistedRequestIdentity, with the epoch.
Owns(le, c) == le.req = script[c].req /\ le.epoch = script[c].epoch

\* activeRequestChildren that forgets commands not yet dispatched.
DispatchedChildren(le, st) ==
    {c \in Commands : /\ RequestScoped(c) /\ ~IsRelease(c)
                      /\ script[c].req = le.req /\ st[c] = "dispatched"}

ActiveChildren(le, st) ==
    {c \in Commands : /\ RequestScoped(c) /\ ~IsRelease(c)
                      /\ script[c].req = le.req /\ st[c] \in Active}

\* An ordinary envelope leaves the reserve of the outbox alone.
RoomForOrdinary == room = "free"
RoomForTerminal == room # "full"

\* settleReadyRelease runs in every committed transition: a proved release
\* clears the lease and is answered once its request has no active child.
Commit(le, st, rd, an) ==
    LET proved == {c \in rd : st[c] = "dispatched" /\ Owns(le, c)}
        c      == CHOOSE x \in proved : TRUE
        settle == /\ le.status = "releasing" /\ proved # {}
                  /\ ActiveChildren(le, st) = {}
    IN  /\ ready' = rd
        /\ IF settle /\ RoomForTerminal
           THEN /\ lease'   = NoLease
                /\ status'  = [st EXCEPT ![c] = "succeeded"]
                /\ answers' = [an EXCEPT ![c] = @ + 1]
           ELSE /\ lease'   = IF settle THEN [le EXCEPT !.status = "quarantined"]
                                        ELSE le
                /\ status'  = st
                /\ answers' = an
        /\ overflow' = (overflow \/ (settle /\ ~RoomForTerminal))

SetLease(le)     == Commit(le, status, ready, answers)
SetStatus(c, st) == Commit(lease, [status EXCEPT ![c] = st], ready, answers)

\* A terminal settlement and its envelope are one transition.
Answer(c, st, le) ==
    Commit(le, [status EXCEPT ![c] = st], ready, [answers EXCEPT ![c] = @ + 1])

Quarantined(le) == [le EXCEPT !.status = "quarantined"]

\* Settling that trusts the identity and forgets what is terminal.
SettleableAgain(c) ==
    /\ status[c] # "absent"
    /\ RequestScoped(c) => lease # NoLease /\ Owns(lease, c)

\* Settling a result or release command: refused when it is terminal, when
\* another lease or epoch holds the tab, or when the outbox is full.
Settleable(c) ==
    /\ status[c] = "dispatched"
    /\ RequestScoped(c) => lease # NoLease /\ Owns(lease, c)

Settle(c, st) ==
    IF Settleable(c) /\ RoomForTerminal
    THEN Answer(c, st, IF IsRelease(c) THEN Quarantined(lease) ELSE lease)
    ELSE /\ overflow' = (overflow \/ Settleable(c))
         /\ UNCHANGED durable

-----------------------------------------------------------------------------
Init ==
    /\ script \in Scripts
    /\ next = 1
    /\ lease = NoLease
    /\ status = [c \in Commands |-> "absent"]
    /\ ready = {}
    /\ answers = [c \in Commands |-> 0]
    /\ room = "free"
    /\ overflow = FALSE
    /\ handler = Idle
    /\ executing = {}
    /\ timers = {}
    /\ reconciling = {}
    /\ link = "attached"
    /\ faults = 0

\* Other traffic fills the outbox, acknowledgements drain it.
Traffic ==
    /\ room' \in Rooms \ {room}
    /\ UNCHANGED <<script, next, durable, overflow, volatile, faults>>

\* The steps of a handler leave the rest of the worker alone.
Goto(h) ==
    /\ handler' = h
    /\ UNCHANGED <<script, next, room, executing, timers, reconciling, link,
                   faults>>

-----------------------------------------------------------------------------
\* handleServerEnvelope and handleCommand up to the first durable transition.
StandaloneWriteActive ==
    \E c \in Commands : IsWrite(c) /\ status[c] = "dispatched"

ReleaseRecorded(req) ==
    \E c \in Commands : IsRelease(c) /\ script[c].req = req /\ status[c] # "absent"

\* What lets a command past the router: standalone writes exclude everything,
\* a leased tab takes the commands of its request in this or the next epoch.
Admits(c) ==
    /\ ~StandaloneWriteActive
    /\ IF RequestScoped(c)
       THEN \/ lease = NoLease
            \/ /\ lease.req = script[c].req
               /\ lease.status # "quarantined"
               /\ script[c].epoch \in {lease.epoch, lease.epoch + 1}
       ELSE lease = NoLease \/ Type(c) \in ReadTypes

\* lease.release_recover: the exact lease, no release on record, no child.
AdmitsRecovery(c) ==
    /\ ~StandaloneWriteActive
    /\ lease # NoLease /\ Owns(lease, c)
    /\ ~ReleaseRecorded(lease.req)
    /\ ActiveChildren(lease, status) = {}
    /\ lease.status # "releasing"
    /\ RoomForOrdinary

Arrives(c) ==
    /\ link = "ready" /\ handler = Idle
    /\ next = c /\ c \in Commands
    /\ next' = next + 1
    /\ UNCHANGED <<script, room, executing, timers, reconciling, link, faults>>

\* rejectCommand: the refusal is a critical envelope of its own.
Refuse(c) ==
    /\ Arrives(c)
    /\ IF Type(c) = "stale.release" THEN ~AdmitsRecovery(c) ELSE ~Admits(c)
    /\ answers' = IF RoomForTerminal THEN [answers EXCEPT ![c] = @ + 1] ELSE answers
    /\ overflow' = (overflow \/ ~RoomForTerminal)
    /\ UNCHANGED <<lease, status, ready, handler>>

ReceiveStandalone(c) ==
    /\ Arrives(c)
    /\ ~RequestScoped(c) /\ Admits(c)
    /\ handler' = At("register", c)
    /\ UNCHANGED <<durable, overflow>>

\* lease.claim, or lease.epoch_adopted by a command of the next epoch.
ReceiveRequest(c) ==
    /\ Arrives(c)
    /\ RequestScoped(c) /\ Type(c) # "stale.release" /\ Admits(c)
    /\ handler' = At("status", c)
    /\ SetLease(IF lease = NoLease
                THEN [req |-> script[c].req, epoch |-> script[c].epoch,
                      status |-> "claimed"]
                ELSE [lease EXCEPT !.epoch = script[c].epoch])

ReceiveRecovery(c) ==
    /\ Arrives(c)
    /\ Type(c) = "stale.release" /\ AdmitsRecovery(c)
    /\ handler' = At("post", c)
    /\ Commit([lease EXCEPT !.status = "releasing"],
              [status EXCEPT ![c] = "dispatched"], ready, answers)

\* lease.executing or lease.releasing; a releasing lease executes no more.
DesiredStatus(c) == IF IsRelease(c) THEN "releasing" ELSE "executing"

AcceptLease(c) ==
    /\ handler = At("status", c)
    /\ lease.status \in {"claimed", "reconciling", "executing", DesiredStatus(c)}
    /\ Goto(At(IF IsEffect(c) THEN "effect" ELSE "register", c))
    /\ SetLease([lease EXCEPT !.status = DesiredStatus(c)])

RefuseLease(c) ==
    /\ handler = At("status", c)
    /\ lease.status \notin {"claimed", "reconciling", "executing", DesiredStatus(c)}
    /\ Goto(Idle)
    /\ answers' = IF RoomForTerminal THEN [answers EXCEPT ![c] = @ + 1] ELSE answers
    /\ overflow' = (overflow \/ ~RoomForTerminal)
    /\ UNCHANGED <<lease, status, ready>>

\* effect_command.dispatched: command, effect and acceptance in one commit.
DispatchEffect(c) ==
    /\ handler = At("effect", c)
    /\ IF RoomForOrdinary
       THEN Goto(At("post", c)) /\ SetStatus(c, "dispatched")
       ELSE Goto(Idle) /\ overflow' = TRUE /\ UNCHANGED durable

Register(c) ==
    /\ handler = At("register", c)
    /\ Goto(At("dispatch", c))
    /\ SetStatus(c, "registered")

\* command.dispatched; a throw leaves the command registered.
Dispatch(c) ==
    /\ handler = At("dispatch", c)
    /\ IF RoomForOrdinary
       THEN Goto(At("post", c)) /\ SetStatus(c, "dispatched")
       ELSE Goto(Idle) /\ overflow' = TRUE /\ UNCHANGED durable

\* Post that arms no deadline.
PostUntimed(c) ==
    /\ handler = At("post", c)
    /\ handler' = Idle
    /\ executing' = executing \cup {c}
    /\ UNCHANGED <<script, next, durable, room, overflow, timers, reconciling,
                   link, faults>>

\* scheduleReleaseDeadline and post to the content script.
Post(c) ==
    /\ handler = At("post", c)
    /\ handler' = Idle
    /\ executing' = executing \cup {c}
    /\ timers' = IF IsRelease(c) THEN timers \cup {c} ELSE timers
    /\ UNCHANGED <<script, next, durable, room, overflow, reconciling, link,
                   faults>>

-----------------------------------------------------------------------------
\* What the content script reports.  It is not told to try again: a report
\* that cannot be settled is lost.
Reported(c) ==
    /\ c \in executing
    /\ executing' = executing \ {c}
    /\ UNCHANGED <<script, next, room, handler, reconciling, link, faults>>

\* bridge.effect.settle: effect, command and envelope settle together.
ReportEffect(c, outcome) ==
    /\ handler = Idle /\ link # "down"
    /\ IsEffect(c)
    /\ Reported(c)
    /\ Settle(c, outcome)
    /\ UNCHANGED timers

\* settleResultCommand; what was reported before the hello is settled by it.
ReportResult(c, outcome) ==
    /\ (handler = Idle /\ link = "ready") \/ handler.pc = "queued"
    /\ ~IsEffect(c) /\ ~IsRelease(c)
    /\ Reported(c)
    /\ Settle(c, outcome)
    /\ UNCHANGED timers

\* bridge.release.cleanup_settled "completed": command.release_ready.
ReportCleanup(c) ==
    /\ handler = Idle /\ link # "down"
    /\ IsRelease(c)
    /\ Reported(c)
    /\ IF Settleable(c) /\ lease.status = "releasing" /\ c \notin ready
       THEN Commit(lease, status, ready \cup {c}, answers)
       ELSE UNCHANGED <<durable, overflow>>
    /\ UNCHANGED timers

\* bridge.release.cleanup_settled otherwise: lease.quarantined.
ReportCleanupFailed(c) ==
    /\ handler = Idle /\ link # "down"
    /\ IsRelease(c)
    /\ Reported(c)
    /\ Settle(c, "uncertain")
    /\ UNCHANGED timers

\* The release deadline: whatever it finds, the timer is spent.
Deadline(c) ==
    /\ handler = Idle
    /\ c \in timers
    /\ timers' = timers \ {c}
    /\ Settle(c, "uncertain")
    /\ UNCHANGED <<script, next, room, handler, executing, reconciling, link,
                   faults>>

-----------------------------------------------------------------------------
\* The content script says hello after every WebSocket open.  The worker
\* settles what a reload would have interrupted, whether or not one happened.
Step(pc, todo) == [pc |-> pc, cmd |-> 0, todo |-> todo]

Dispatched(c) == status[c] = "dispatched"

\* beginReloadCommandReconciliation
Hello ==
    /\ handler = Idle /\ link = "attached"
    /\ LET managed == {c \in Commands : ReloadManaged(c) /\ status[c] \in Active}
       IN  /\ reconciling' = managed
           /\ handler' = Step("unstarted", {c \in managed : status[c] = "registered"})
    /\ UNCHANGED <<script, next, durable, room, overflow, executing, timers,
                   link, faults>>

\* COMMAND_PROVED_NOT_STARTED; a full outbox ends the hello with an error.
RejectUnstarted(c) ==
    /\ handler.pc = "unstarted" /\ c \in handler.todo
    /\ IF RoomForTerminal
       THEN /\ handler' = Step("unstarted", handler.todo \ {c})
            /\ reconciling' = reconciling \ {c}
            /\ Answer(c, "rejected", lease)
       ELSE /\ handler' = Idle
            /\ overflow' = TRUE
            /\ UNCHANGED <<durable, reconciling>>
    /\ UNCHANGED <<script, next, room, executing, timers, link, faults>>

StartTyped ==
    /\ handler.pc = "unstarted" /\ handler.todo = {}
    /\ Goto(Step("typed", {c \in reconciling : Dispatched(c) /\ Type(c) = "sessions.new"}))
    /\ UNCHANGED <<durable, overflow>>

\* settleTypedUncertainty
SettleTyped(c) ==
    /\ handler.pc = "typed" /\ c \in handler.todo
    /\ IF RoomForTerminal
       THEN /\ handler' = Step("typed", handler.todo \ {c})
            /\ reconciling' = reconciling \ {c}
            /\ Answer(c, "uncertain", lease)
       ELSE /\ handler' = Idle
            /\ overflow' = TRUE
            /\ UNCHANGED <<durable, reconciling>>
    /\ UNCHANGED <<script, next, room, executing, timers, link, faults>>

\* protocolReady: what the content script had queued is settled first.
BecomeReady ==
    /\ handler.pc = "typed" /\ handler.todo = {}
    /\ handler' = Step("queued", {})
    /\ link' = "ready"
    /\ UNCHANGED <<script, next, durable, room, overflow, executing, timers,
                   reconciling, faults>>

\* recoverAfterContentReload: effects, then result and release commands.
RecoverEffects ==
    /\ handler.pc = "queued"
    /\ Goto(Step("effects", {c \in Commands : IsEffect(c) /\ Dispatched(c)}))
    /\ UNCHANGED <<durable, overflow>>

RecoverEffect(c) ==
    /\ handler.pc = "effects" /\ c \in handler.todo
    /\ Goto(Step("effects", handler.todo \ {c}))
    /\ Settle(c, "uncertain")

Unsettled == {c \in Commands : ~IsEffect(c) /\ ~ReloadManaged(c) /\ Dispatched(c)}

RecoverCommands ==
    /\ handler.pc = "effects" /\ handler.todo = {}
    /\ Goto(Step("commands", Unsettled))
    /\ UNCHANGED <<durable, overflow>>

RecoverCommand(c) ==
    /\ handler.pc = "commands" /\ c \in handler.todo
    /\ Goto(Step("commands", handler.todo \ {c}))
    /\ Settle(c, "uncertain")

HelloDone ==
    /\ handler.pc = "commands" /\ handler.todo = {}
    /\ Goto(Idle)
    /\ UNCHANGED <<durable, overflow>>

\* reconcilePassivePrompt: an observation proves the prompt or leaves it open.
Observe(c, outcome) ==
    /\ handler = Idle /\ link = "ready"
    /\ c \in reconciling /\ Dispatched(c) /\ Type(c) = "passive.prompt.submit"
    /\ IF RoomForTerminal
       THEN /\ reconciling' = reconciling \ {c}
            /\ Answer(c, outcome, lease)
       ELSE /\ overflow' = TRUE
            /\ UNCHANGED <<durable, reconciling>>
    /\ UNCHANGED <<script, next, room, handler, executing, timers, link, faults>>

-----------------------------------------------------------------------------

\* content.attached: a lease waits for reconciliation unless it is releasing.
Attached(le) ==
    IF le = NoLease \/ le.status = "releasing" THEN le
    ELSE [le EXCEPT !.status = "reconciling"]

Fault ==
    /\ faults < MaxFaults
    /\ faults' = faults + 1
    /\ UNCHANGED <<script, room>>

\* A new content epoch.  The reducer refuses every later event of the old
\* one, so a handler that was running and the timers it armed do nothing.
Reload ==
    /\ Fault
    /\ SetLease(Attached(lease))
    /\ link' = "attached"
    /\ handler' = Idle
    /\ executing' = {} /\ timers' = {} /\ reconciling' = {}
    /\ UNCHANGED next

\* The worker stops; a command received and not yet admitted is lost.
Crash ==
    /\ Fault
    /\ link # "down"
    /\ link' = "down"
    /\ handler' = Idle
    /\ timers' = {} /\ reconciling' = {}
    /\ next' \in IF link = "ready" /\ handler = Idle /\ next \in Commands
                 THEN {next, next + 1} ELSE {next}
    /\ UNCHANGED <<durable, overflow, executing>>

\* The content script, still running, connects to the restarted worker.
Reattach ==
    /\ link = "down"
    /\ link' = "attached"
    /\ SetLease(Attached(lease))
    /\ UNCHANGED <<script, next, room, handler, executing, timers, reconciling,
                   faults>>

\* The WebSocket closes and opens again: neither side restarts.
Disconnect ==
    /\ Fault
    /\ link = "ready"
    /\ link' = "attached"
    /\ UNCHANGED <<next, durable, overflow, handler, executing, timers,
                   reconciling>>

-----------------------------------------------------------------------------
Receive(c) ==
    Refuse(c) \/ ReceiveStandalone(c) \/ ReceiveRequest(c) \/ ReceiveRecovery(c)

HandlerStep(c) ==
    \/ AcceptLease(c) \/ RefuseLease(c) \/ DispatchEffect(c)
    \/ Register(c) \/ Dispatch(c) \/ Post(c)
    \/ RejectUnstarted(c) \/ SettleTyped(c) \/ RecoverEffect(c) \/ RecoverCommand(c)

HelloStep == StartTyped \/ BecomeReady \/ RecoverEffects \/ RecoverCommands \/ HelloDone

Report(c) ==
    \/ \E outcome \in Terminal : ReportEffect(c, outcome)
    \/ \E outcome \in {"succeeded", "rejected"} : ReportResult(c, outcome)
    \/ ReportCleanup(c) \/ ReportCleanupFailed(c)
    \/ \E outcome \in {"succeeded", "uncertain"} : Observe(c, outcome)

Next ==
    \/ \E c \in Commands : Receive(c) \/ HandlerStep(c) \/ Report(c) \/ Deadline(c)
    \/ Hello \/ HelloStep
    \/ Reload \/ Crash \/ Reattach \/ Disconnect
    \/ Traffic

\* Handlers run to their end, timers fire, and a content script that is there
\* connects and says hello.  Nothing obliges it to report.
Fairness ==
    /\ WF_vars(HelloStep \/ \E c \in Commands : HandlerStep(c))
    /\ WF_vars(Hello) /\ WF_vars(Reattach)
    /\ \A c \in Commands : WF_vars(Deadline(c))

Spec == Init /\ [][Next]_vars /\ Fairness

-----------------------------------------------------------------------------
Leases   == [req : Requests, epoch : Nat,
             status : {"claimed", "reconciling", "executing", "releasing",
                       "quarantined"}] \cup {NoLease}
Statuses == {"absent"} \cup Active \cup Terminal
Places   == {"idle", "status", "effect", "register", "dispatch", "post",
             "unstarted", "typed", "queued", "effects", "commands"}

TypeOK ==
    /\ script \in Scripts
    /\ next \in 1..Length + 1
    /\ lease \in Leases
    /\ status \in [Commands -> Statuses]
    /\ ready \subseteq {c \in Commands : IsRelease(c)}
    /\ answers \in [Commands -> Nat]
    /\ room \in Rooms \cup {"free"}
    /\ overflow \in BOOLEAN
    /\ handler \in [pc : Places, cmd : Commands \cup {0}, todo : SUBSET Commands]
    /\ executing \subseteq Commands
    /\ timers \subseteq {c \in Commands : IsRelease(c)}
    /\ reconciling \subseteq {c \in Commands : ReloadManaged(c)}
    /\ link \in {"down", "attached", "ready"}
    /\ faults \in 0..MaxFaults

\* Duplicate, late and recovered settlements race: whichever comes first, a
\* command the worker recorded gets one terminal envelope exactly when it
\* becomes terminal, and a refused command gets one and never starts.
SettledOnce ==
    \A c \in Commands :
        /\ answers[c] <= 1
        /\ status[c] # "absent" => (answers[c] = 1 <=> status[c] \in Terminal)
        /\ c \in executing => status[c] # "absent"

\* Release barrier: the lease a request held is gone only when none of its
\* commands or effects is open, whatever order cleanup, results, the
\* deadline and a recovery came in.
ReleaseBarrier ==
    \A c \in Commands :
        /\ RequestScoped(c) /\ ~IsRelease(c) /\ status[c] \in Active
        => lease # NoLease /\ lease.req = script[c].req

\* A dispatched release is answered: by the barrier, by the deadline, or by
\* the recovery that replaces the deadline the worker lost.
ReleaseSettles ==
    \A c \in Commands :
        IsRelease(c) /\ Dispatched(c) ~> status[c] \in Terminal \/ overflow

=============================================================================
