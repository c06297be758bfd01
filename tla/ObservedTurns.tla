------------------------------ MODULE ObservedTurns -----------------------------
(* From a conversation nobody drives to the inputs of a workflow: the observer  *)
(* of a tab (observation/tabObserver.js), the router and the journal of the      *)
(* primary bridge (passiveObservationRouter.js, observedTurnJournal.js), the     *)
(* stream a workflow worker reads (observedTurnStream.js,                        *)
(* remoteBrowserBridge.js) and the queue of the workflow                         *)
(* (observedTurnRouter.js, deferredObservedTurns.js, workflowRecovery-           *)
(* Coordinator.js).  The workflow is in the daemon of the bridge or in a worker. *)
EXTENDS TurnReading, Sequences, SequencesExt

CONSTANTS
  Deployments,    \* subset of {"daemon", "worker"}
  Reasonings,     \* what an answer begins with, subset of {"thinking", "tool"}
  Generated,      \* the turns whose answer holds a generated image
  Limit,          \* turns the journal retains
  QueueLimit,     \* inputs a workflow queues
  MaxFaults       \* crashes, lost connections and reloads together

ASSUME ObservedAssumption ==
  /\ MaxTurns \in Nat \ {0} /\ MaxText \in Nat \ {0}
  /\ Deployments \subseteq {"daemon", "worker"} /\ Reasonings \subseteq {"thinking", "tool"}
  /\ Limit \in Nat \ {0} /\ QueueLimit \in Nat \ {0} /\ MaxFaults \in Nat

VARIABLES
  page,       \* the conversation, see TurnReading
  boundary,   \* [key: the prompt the bridge registered, owed: submitted, not registered yet]
  observer,   \* [dirty, seen: last emitted, item, clock, bucket]
  primary,    \* [epoch, seq, entries, base, term, settling], all volatile
  deployment,
  workflow,   \* [life, run, inputs, hist, inbox, dead], durable
  process,    \* [hyd, jobs, timer] of the process the workflow is in
  stream,     \* [conn, pipe, pc] of the worker
  cursor,     \* [epoch, seq, gap] of the worker, durable; gap > 0: blocked
  faults,
  log         \* history: [kept, missed, ran, twice]

source   == <<page, boundary>>
delivery == <<workflow, process, stream, cursor>>
vars     == <<page, boundary, observer, primary, deployment, workflow, process, stream, cursor, faults, log>>

Local == deployment = "daemon"
Lives == {"ready", "running", "recovering", "waiting"}
Hydrations == {"absent", "restoring", "draining", "removing", "ready", "failed"}
Jobs == [kind : {"defer", "drain", "run", "work", "again"}, turn : Turns] \cup [kind : {"gap"}, turn : {NoTurn}]
Envelopes == [seq : Nat \ {0}, turn : Turns, text : 1..MaxText]

Pages      == [asked : Turns, mode : Modes, text : Texts, final : [Turns -> Texts]]
Boundaries == [key : 0..MaxTurns, owed : 0..MaxTurns]
Observers  == [dirty : BOOLEAN, seen : Observations, item : Items, clock : 0..MinimumStable,
               bucket : 0..MinimumStable]
Primaries  == [epoch : Nat \ {0}, seq : Nat, entries : Seq(Envelopes), base : 0..MaxTurns,
               term : [Turns -> Texts \X Items], settling : SUBSET (Turns \X (1..MaxText))]
Workflows  == [life : Lives, run : 0..MaxTurns, inputs : Seq(Turns), hist : SUBSET Turns,
               inbox : Seq(Turns), dead : SUBSET Turns]
Processes  == [hyd : Hydrations, jobs : Seq(Jobs), timer : BOOLEAN]
Streams    == [conn : BOOLEAN, pipe : Seq(Envelopes), pc : {"idle", "wait", "commit", "gap"}]
Cursors    == [epoch : Nat, seq : Nat, gap : Nat]
Logs       == [kept : SUBSET Turns, missed : SUBSET Turns, ran : SUBSET Turns, twice : BOOLEAN]

(***************************************************************************)
(* Initial states: an old answer is on the page.  The bridge has just been   *)
(* started; or it has published that answer and it has been handled; or the  *)
(* worker lost its stream and the journal has moved on.                      *)
(***************************************************************************)
NotSeen == [dirty |-> TRUE, seen |-> NoObservation, item |-> "none", clock |-> 0, bucket |-> 0]
NoSignature == <<0, "none">>
FreshPrimary(e) == [epoch |-> e, seq |-> 0, entries |-> <<>>, base |-> NoTurn,
                    term |-> [t \in Turns |-> NoSignature], settling |-> {}]
FreshWorkflow == [life |-> "ready", run |-> NoTurn, inputs |-> <<>>, hist |-> {}, inbox |-> <<>>, dead |-> {}]
NoProcess == [hyd |-> "absent", jobs |-> <<>>, timer |-> FALSE]
Closed == [conn |-> FALSE, pipe |-> <<>>, pc |-> "idle"]

Started ==
  /\ primary = FreshPrimary(1)
  /\ workflow = FreshWorkflow
  /\ process = [NoProcess EXCEPT !.hyd = IF Local THEN "ready" ELSE "absent"]
  /\ stream = Closed
  /\ cursor = [epoch |-> 0, seq |-> 0, gap |-> 0]
Serving(seq) ==
  /\ primary = [FreshPrimary(1) EXCEPT !.seq = seq, !.base = 1, !.term[1] = <<1, "none">>,
                                       !.entries = <<[seq |-> seq, turn |-> 1, text |-> 1]>>]
  /\ process = [NoProcess EXCEPT !.hyd = "ready"]
  /\ cursor = IF Local THEN [epoch |-> 0, seq |-> 0, gap |-> 0] ELSE [epoch |-> 1, seq |-> 1, gap |-> 0]

Init ==
  /\ page = [asked |-> 1, mode |-> "done", text |-> 1, final |-> [t \in Turns |-> IF t = 1 THEN 1 ELSE 0]]
  /\ boundary = [key |-> NoTurn, owed |-> NoTurn]
  /\ observer = NotSeen
  /\ deployment \in Deployments
  /\ \/ Started /\ faults = 0
     \/ /\ Serving(1) /\ faults = 0
        /\ workflow = [FreshWorkflow EXCEPT !.hist = {1}] /\ stream = [Closed EXCEPT !.conn = ~Local]
     \/ /\ ~Local /\ Serving(Limit + 2) /\ faults = MaxFaults
        /\ workflow = [FreshWorkflow EXCEPT !.hist = {1}, !.run = 1, !.life = "waiting"] /\ stream = Closed
  /\ log = [kept |-> workflow.hist, missed |-> {}, ran |-> workflow.hist, twice |-> FALSE]

(***************************************************************************)
(* The conversation: the user, the bridge and ChatGPT.                       *)
(***************************************************************************)
Show(p) == /\ page' = p
           /\ observer' = [observer EXCEPT !.dirty = TRUE]
           /\ UNCHANGED <<primary, deployment, faults, log, delivery>>

Ask(byBridge) ==
  /\ page.mode = "done" /\ page.asked < MaxTurns
  /\ boundary' = IF byBridge THEN [boundary EXCEPT !.owed = page.asked + 1] ELSE boundary
  /\ Show([page EXCEPT !.asked = @ + 1, !.mode = "sent", !.text = 0])

(* The passive prompt is confirmed on the page: pageRuntimeObservers.            *)
RegisterPassivePromptBoundary ==
  /\ boundary.owed # NoTurn
  /\ boundary' = [key |-> boundary.owed, owed |-> NoTurn]
  /\ Show(page)

Reason(mode) == /\ page.mode \in {"sent", "thinking", "tool", "writing", "pause", "blocked"} \ {mode}
                /\ Show([page EXCEPT !.mode = mode]) /\ UNCHANGED boundary
Write == /\ page.mode \notin {"done"} /\ page.text < MaxText
         /\ Show([page EXCEPT !.mode = "writing", !.text = @ + 1]) /\ UNCHANGED boundary
Pause == /\ page.mode \in {"thinking", "tool", "writing"}
         /\ Show([page EXCEPT !.mode = "pause"]) /\ UNCHANGED boundary
Block == /\ page.mode \in {"thinking", "tool", "writing", "pause"}
         /\ Show([page EXCEPT !.mode = "blocked"]) /\ UNCHANGED boundary
Finish == /\ page.mode \in {"writing", "pause"} /\ page.text > 0
          /\ Show([page EXCEPT !.mode = "done", !.final[page.asked] = page.text]) /\ UNCHANGED boundary

(***************************************************************************)
(* The observer of the tab.                                                 *)
(***************************************************************************)
(* Time passes on a page that stays as it is: 750 ms, then 1 500.  A pause   *)
(* that shows nothing is shorter than that.                                  *)
Tick ==
  /\ ~observer.dirty /\ observer.clock = observer.bucket
  /\ observer.clock < IF page.mode = "pause" THEN 1 ELSE MinimumStable
  /\ observer' = [observer EXCEPT !.clock = @ + 1]
  /\ UNCHANGED <<source, primary, deployment, faults, log, delivery>>

(***************************************************************************)
(* The queue of the workflow.  An operator of this part takes the workflow   *)
(* or the process and returns it changed.                                    *)
(***************************************************************************)
\* Mutant: only the queue is asked whether a turn is known.
Known_Queued(w) == ToSet(w.inputs)
Known(w) == ToSet(w.inputs) \cup w.hist
Enqueued(w, t) == IF t \in Known(w) THEN w ELSE [w EXCEPT !.inputs = Append(@, t)]     \* INPUT_ENQUEUED
Full(w) == Len(w.inputs) >= QueueLimit
DeadLettered(w, t) == [w EXCEPT !.dead = @ \cup {t}]
Deferred(w, t) == IF Full(w) THEN DeadLettered(w, t) ELSE Enqueued(w, t)
Job(kind, t) == [kind |-> kind, turn |-> t]

(* DeferredObservedTurnQueue.schedule: one job for the oldest input.             *)
Schedule(w, p) ==
  IF w.life = "ready" /\ w.inputs # <<>> /\ Job("run", w.inputs[1]) \notin ToSet(p.jobs)
  THEN [p EXCEPT !.jobs = Append(@, Job("run", w.inputs[1]))] ELSE p

Begun(w, t) == [w EXCEPT !.life = "running", !.run = t, !.inputs = Tail(@), !.hist = @ \cup {t}]
Ended(w) == [w EXCEPT !.life = "ready", !.run = NoTurn]

(* WorkflowStore.enqueueStartupInput, with the dead letter of a full inbox.       *)
Inboxed(w, t) == IF t \in ToSet(w.inbox) THEN w
                 ELSE IF Len(w.inbox) >= QueueLimit THEN DeadLettered(w, t)
                 ELSE [w EXCEPT !.inbox = Append(@, t)]
Kept(w) == Known(w) \cup ToSet(w.inbox) \cup w.dead

(* routeObservedTurn, in the process the workflow is in: a turn nobody has        *)
(* loaded a workflow for is dropped, one that comes during hydration waits in     *)
(* the startup inbox, and any other is a job of the queue.                        *)
Route(t) ==
  CASE process.hyd = "absent" ->
         /\ log' = [log EXCEPT !.missed = @ \cup {t}]
         /\ UNCHANGED <<workflow, process>>
    [] process.hyd = "ready" ->
         /\ process' = [process EXCEPT !.jobs = Append(@, Job("defer", t))]
         /\ UNCHANGED <<workflow, log>>
    [] OTHER ->
         /\ workflow' = Inboxed(workflow, t)
         /\ log' = [log EXCEPT !.kept = @ \cup {t}]
         /\ UNCHANGED process

(***************************************************************************)
(* The primary bridge: the router and the journal.                           *)
(***************************************************************************)
Trimmed(entries) == IF Len(entries) > Limit THEN Tail(entries) ELSE entries
(* What the journal drops before the worker has read it.                          *)
Unread(entries) == IF Local \/ Len(entries) <= Limit \/ Head(entries) \in ToSet(stream.pipe) THEN {}
                   ELSE {Head(entries).turn} \ log.kept

Journaled(p, t, text) ==        \* ObservedTurnJournal.publish
  LET e   == [seq |-> p.seq + 1, turn |-> t, text |-> text]
      all == Append(p.entries, e)
  IN  /\ primary' = [p EXCEPT !.seq = e.seq, !.entries = Trimmed(all)]
      /\ IF Local THEN Route(t) /\ UNCHANGED stream
         ELSE /\ stream' = IF stream.conn THEN [stream EXCEPT !.pipe = Append(@, e)] ELSE stream
              /\ log' = [log EXCEPT !.missed = @ \cup Unread(all)]
              /\ UNCHANGED <<workflow, process>>

(* A generated image is materialised first; the turn waits without holding up    *)
(* the queue its result comes on.                                                 *)
PublishObservedTurn(p, t, text) ==
  IF t \in Generated
  THEN primary' = [p EXCEPT !.settling = @ \cup {<<t, text>>}] /\ UNCHANGED <<stream, workflow, process, log>>
  ELSE Journaled(p, t, text)

VerdictSignature(o) == <<o.answer, o.item>>
AfterBoundary(o, key) == key # NoTurn /\ key = o.user

(* The answer on the page when the router starts is old, unless the bridge asked *)
(* for it; an answer is published once for each signature it ends with.           *)
\* Mutant: the answer to a prompt of the bridge is baseline like any other.
Passive_New(o, own, base) == o.turn # base
Passive(o, own, base) == o.turn # base \/ own
Publishable(o, level, p) == TerminalCandidate(o, level) /\ p.term[o.turn] # VerdictSignature(o)

Handle(o, level) ==             \* PassiveObservationRouter.handle
  LET own == AfterBoundary(o, boundary.key)
      p   == [primary EXCEPT !.base = IF @ = NoTurn THEN o.turn ELSE @]
  IN  IF o.request \/ o.turn = NoTurn
      THEN UNCHANGED <<primary, stream, workflow, process, log>>
      ELSE IF Passive(o, own, p.base) /\ Publishable(o, level, p)
      THEN PublishObservedTurn([p EXCEPT !.base = o.turn, !.term[o.turn] = VerdictSignature(o)], o.turn, o.answer)
      ELSE primary' = p /\ UNCHANGED <<stream, workflow, process, log>>

(* collect(): reading is synchronous.  A change of the observation starts the     *)
(* stability clock again; what is new, or stable for longer, is emitted.  It is    *)
(* handled here at once: handling it later commutes with what the page does, and   *)
(* the connection that loses it starts the observer anew.                          *)
Collect ==
  \E item \in {ReconcileThinking(observer.item, page)} :
  \E snapshot \in {ReadAssistantSnapshot(page, item)} :
  \E o \in {Observation(snapshot, boundary.owed # NoTurn)} :
  LET restart == StabilitySignature(o) # StabilitySignature(observer.seen)
      clock   == IF restart THEN 0 ELSE observer.clock
      change  == SemanticSignature(o) # SemanticSignature(observer.seen)
  IN  /\ observer.dirty \/ observer.clock > observer.bucket \/ item # observer.item
      /\ observer' = [dirty |-> FALSE, seen |-> o, item |-> item, clock |-> clock, bucket |-> clock]
      /\ IF change \/ clock > observer.bucket THEN Handle(o, clock)
         ELSE UNCHANGED <<primary, stream, workflow, process, log>>
      /\ UNCHANGED <<source, deployment, cursor, faults>>

Settle ==
  /\ \E s \in primary.settling : Journaled([primary EXCEPT !.settling = @ \ {s}], s[1], s[2])
  /\ UNCHANGED <<source, observer, deployment, cursor, faults>>

(***************************************************************************)
(* The jobs of the workflow's project, one at a time.                        *)
(***************************************************************************)
AtHead(kind) == process.jobs # <<>> /\ process.jobs[1].kind = kind
Rest == [process EXCEPT !.jobs = Tail(@)]
JobFrame == UNCHANGED <<source, observer, primary, deployment, cursor, faults>>

(* processObserved of a new turn: INPUT_ENQUEUED, and a run if nothing runs.      *)
DeferJob ==
  /\ AtHead("defer")
  /\ LET t == process.jobs[1].turn IN
     /\ workflow' = Deferred(workflow, t)
     /\ process'  = Schedule(workflow', Rest)
     /\ log' = [log EXCEPT !.kept = @ \cup {t}]
     /\ stream' = IF stream.pc = "wait" THEN [stream EXCEPT !.pc = "commit"] ELSE stream
  /\ JobFrame

(* The same for a turn of the startup inbox: a full queue fails the hydration.   *)
DrainJob ==
  /\ AtHead("drain")
  /\ IF Full(workflow)
     THEN process' = [Rest EXCEPT !.hyd = "failed"] /\ UNCHANGED workflow
     ELSE /\ workflow' = Enqueued(workflow, process.jobs[1].turn)
          /\ process' = Schedule(workflow', [Rest EXCEPT !.hyd = "removing"])
  /\ UNCHANGED <<stream, log>> /\ JobFrame

(* processObserved of a queued input: RUN_STARTED takes it off the queue.         *)
RunJob ==
  /\ AtHead("run")
  /\ LET t == process.jobs[1].turn IN
     IF workflow.life = "ready"
     THEN /\ workflow' = Begun(workflow, t)
          /\ process' = [process EXCEPT !.jobs[1].kind = "work"]
          /\ log' = [log EXCEPT !.ran = @ \cup {t}, !.twice = @ \/ t \in log.ran]
     ELSE process' = Rest /\ UNCHANGED <<workflow, log>>
  /\ UNCHANGED stream /\ JobFrame

(* What processResponse comes to: the run ends, waits for the user, or tries to   *)
(* fetch the file once more.                                                      *)
WorkJob ==
  /\ AtHead("work") \/ AtHead("again")
  /\ \/ workflow' = Ended(workflow) /\ process' = Schedule(workflow', Rest)
     \/ workflow' = [workflow EXCEPT !.life = "waiting"] /\ process' = Rest
     \/ /\ AtHead("work")
        /\ workflow' = [workflow EXCEPT !.life = "recovering"]
        /\ process' = [Rest EXCEPT !.timer = TRUE]
  /\ UNCHANGED <<stream, log>> /\ JobFrame

RetryTimer ==                   \* PassiveMaterializationRecovery.defer
  /\ process.timer
  /\ IF workflow.life = "recovering"
     THEN /\ workflow' = [workflow EXCEPT !.life = "running"]
          /\ process' = [process EXCEPT !.timer = FALSE, !.jobs = Append(@, Job("again", workflow.run))]
     ELSE process' = [process EXCEPT !.timer = FALSE] /\ UNCHANGED workflow
  /\ UNCHANGED <<stream, log>> /\ JobFrame

(* handleGap: only a workflow with a run tells the user.                          *)
GapJob ==
  /\ AtHead("gap")
  /\ workflow' = IF workflow.life = "ready" THEN workflow ELSE [workflow EXCEPT !.life = "waiting"]
  /\ process' = Rest
  /\ stream' = [stream EXCEPT !.pc = "idle"]
  /\ UNCHANGED log /\ JobFrame

UserDecides ==
  /\ workflow.life = "waiting" /\ process.jobs = <<>> /\ process.hyd = "ready"
  /\ workflow' = Ended(workflow)
  /\ process' = Schedule(workflow', process)
  /\ UNCHANGED <<stream, log>> /\ JobFrame

(***************************************************************************)
(* The daemon restores its workflow.                                         *)
(***************************************************************************)
HydrationFrame == UNCHANGED <<stream, log>> /\ JobFrame

Load ==
  /\ Local /\ process.hyd = "absent"
  /\ process' = [process EXCEPT !.hyd = "restoring"]
  /\ UNCHANGED workflow /\ HydrationFrame

(* restore: an interrupted run is resumed and its response processed again        *)
(* before anything else.                                                          *)
Restore ==
  /\ process.hyd = "restoring"
  /\ LET on == [process EXCEPT !.hyd = "draining"] IN
     IF workflow.life \in {"running", "recovering"}
     THEN \/ workflow' = Ended(workflow) /\ process' = Schedule(workflow', on)
          \/ workflow' = [workflow EXCEPT !.life = "waiting"] /\ process' = on
          \/ workflow' = [workflow EXCEPT !.life = "running"] /\ process' = [process EXCEPT !.hyd = "failed"]
     ELSE process' = on /\ UNCHANGED workflow
  /\ HydrationFrame

Draining == process.hyd = "draining" /\ \A i \in DOMAIN process.jobs : process.jobs[i].kind # "drain"
Drain ==
  /\ Draining /\ workflow.inbox # <<>>
  /\ process' = [process EXCEPT !.jobs = Append(@, Job("drain", workflow.inbox[1]))]
  /\ UNCHANGED workflow /\ HydrationFrame
RemoveStartupInput ==
  /\ process.hyd = "removing"
  /\ workflow' = [workflow EXCEPT !.inbox = Tail(@)]
  /\ process' = [process EXCEPT !.hyd = "draining"]
  /\ HydrationFrame
Hydrated ==
  /\ Draining /\ workflow.inbox = <<>>
  /\ process' = [process EXCEPT !.hyd = "ready"]
  /\ UNCHANGED workflow /\ HydrationFrame

(***************************************************************************)
(* The worker reads the stream.                                              *)
(***************************************************************************)
WorkerFrame == UNCHANGED <<source, observer, primary, deployment, faults>>
RetainedFrom == IF primary.entries = <<>> THEN primary.seq + 1 ELSE primary.entries[1].seq

ClassifyCursor ==
  IF cursor.epoch # 0 /\ cursor.epoch # primary.epoch THEN "reset"
  ELSE IF cursor.seq > 0 /\ cursor.seq < RetainedFrom - 1 THEN "gap"
  ELSE "ok"

MayConnect == ~Local /\ ~stream.conn /\ stream.pc = "idle" /\ cursor.gap = 0

(* The retained turns the worker has not read: their numbers are consecutive.     *)
Retained(after) == LET read == IF after < RetainedFrom THEN 0 ELSE after - RetainedFrom + 1
                   IN  SubSeq(primary.entries, read + 1, Len(primary.entries))

(* stream.reset and ready commit the cursor, then come the retained turns.        *)
Connect ==
  /\ MayConnect /\ ClassifyCursor # "gap"
  /\ LET after == IF ClassifyCursor = "reset" THEN 0 ELSE cursor.seq IN
     /\ cursor' = [epoch |-> primary.epoch, seq |-> after, gap |-> 0]
     /\ stream' = [conn |-> TRUE, pc |-> "idle", pipe |-> Retained(after)]
  /\ UNCHANGED <<workflow, process, log>> /\ WorkerFrame

StreamGap ==
  /\ MayConnect /\ ClassifyCursor = "gap"
  /\ cursor' = [cursor EXCEPT !.gap = RetainedFrom - 1]
  /\ IF process.hyd = "ready" /\ workflow.life # "ready"
     THEN process' = [process EXCEPT !.jobs = Append(@, Job("gap", NoTurn))] /\ stream' = [stream EXCEPT !.pc = "gap"]
     ELSE UNCHANGED <<process, stream>>
  /\ UNCHANGED <<workflow, log>> /\ WorkerFrame

(* workflow-worker.js waits for the connection and loads the workflow afresh.     *)
LoadFresh ==
  /\ ~Local /\ process.hyd = "absent" /\ stream.conn
  /\ workflow' = FreshWorkflow
  /\ process' = [process EXCEPT !.hyd = "ready"]
  /\ log' = [log EXCEPT !.ran = {}]
  /\ UNCHANGED <<stream, cursor>> /\ WorkerFrame

(* The listener is awaited for every envelope, and the cursor committed after.    *)
\* Mutant: the cursor is committed without waiting for the listener.
Deliver_AtOnce ==
  /\ stream.pc = "idle" /\ stream.pipe # <<>>
  /\ Route(stream.pipe[1].turn)
  /\ stream' = [stream EXCEPT !.pc = "commit"]
  /\ UNCHANGED cursor /\ WorkerFrame
Deliver ==
  /\ stream.pc = "idle" /\ stream.pipe # <<>>
  /\ Route(stream.pipe[1].turn)
  /\ stream' = [stream EXCEPT !.pc = IF process.hyd = "absent" THEN "commit" ELSE "wait"]
  /\ UNCHANGED cursor /\ WorkerFrame

CommitCursor ==
  /\ stream.pc = "commit"
  /\ cursor' = [cursor EXCEPT !.seq = stream.pipe[1].seq]
  /\ stream' = [stream EXCEPT !.pc = "idle", !.pipe = Tail(@)]
  /\ UNCHANGED <<workflow, process, log>> /\ WorkerFrame

(* The user resumes from what is retained: the run goes on, but nothing runs.     *)
ResyncFromRetained ==
  /\ cursor.gap > 0 /\ workflow.life = "waiting" /\ process.hyd = "ready" /\ process.jobs = <<>>
  /\ cursor' = [cursor EXCEPT !.seq = cursor.gap, !.gap = 0]
  /\ workflow' = [workflow EXCEPT !.life = "running"]
  /\ UNCHANGED <<process, stream, log>> /\ WorkerFrame

(***************************************************************************)
(* Faults.                                                                  *)
(***************************************************************************)
Fault == faults < MaxFaults /\ faults' = faults + 1
(* The stream ends; an envelope whose listener is awaited is still committed.     *)
Dropped == [stream EXCEPT !.conn = FALSE, !.pipe = IF stream.pc \in {"wait", "commit"} THEN <<Head(@)>> ELSE <<>>]

(* The bridge ends and starts again; the tabs connect again and observe anew.     *)
CrashPrimary ==
  /\ Fault
  /\ primary' = FreshPrimary(primary.epoch + 1)
  /\ observer' = NotSeen
  /\ process' = IF Local THEN NoProcess ELSE process
  /\ stream' = IF Local THEN stream ELSE Dropped
  /\ UNCHANGED <<source, deployment, workflow, cursor, log>>
CrashWorker ==
  /\ Fault /\ ~Local
  /\ process' = NoProcess /\ stream' = Closed
  /\ UNCHANGED <<source, observer, primary, deployment, workflow, cursor, log>>
DropStream ==
  /\ Fault /\ stream.conn
  /\ stream' = Dropped
  /\ UNCHANGED <<source, observer, primary, deployment, workflow, process, cursor, log>>
Disconnect ==                   \* the socket of the extension
  /\ Fault
  /\ observer' = [NotSeen EXCEPT !.item = observer.item]
  /\ UNCHANGED <<source, primary, deployment, log, delivery>>
ReloadContent ==
  /\ Fault
  /\ observer' = NotSeen /\ boundary' = [key |-> NoTurn, owed |-> NoTurn]
  /\ UNCHANGED <<page, primary, deployment, log, delivery>>

Conversation == \/ \E own \in BOOLEAN : Ask(own)
                \/ RegisterPassivePromptBoundary
                \/ \E m \in Reasonings : Reason(m)
                \/ Write \/ Pause \/ Block \/ Finish
Observing == Tick \/ Collect \/ Settle
Queue == DeferJob \/ DrainJob \/ RunJob \/ WorkJob \/ RetryTimer \/ GapJob
Hydration == Load \/ Restore \/ Drain \/ RemoveStartupInput \/ Hydrated
Worker == Connect \/ StreamGap \/ LoadFresh \/ Deliver \/ CommitCursor
User == UserDecides \/ ResyncFromRetained
Faults == CrashPrimary \/ CrashWorker \/ DropStream \/ Disconnect \/ ReloadContent
Next == Conversation \/ Observing \/ Queue \/ Hydration \/ Worker \/ User \/ Faults

Fairness == WF_vars(Observing \/ Queue \/ Hydration \/ Worker)
Spec == Init /\ [][Next]_vars /\ Fairness

(***************************************************************************)
(* Properties.                                                              *)
(***************************************************************************)
TypeOK ==
  /\ page \in Pages /\ boundary \in Boundaries /\ observer \in Observers
  /\ primary \in Primaries /\ Len(primary.entries) <= Limit
  /\ deployment \in Deployments
  /\ workflow \in Workflows /\ Len(workflow.inputs) <= QueueLimit
  /\ process \in Processes /\ stream \in Streams /\ cursor \in Cursors
  /\ faults \in 0..MaxFaults /\ log \in Logs

(* What is published as the answer of a turn is what ChatGPT had finished, never   *)
(* a prefix of it or the answer of the turn before: the phases read off the page,  *)
(* the stability clock and the verdict of classifyTurnObservation work together.   *)
PublishedIsFinal ==
  /\ \A i \in DOMAIN primary.entries : page.final[primary.entries[i].turn] = primary.entries[i].text
  /\ \A s \in primary.settling : page.final[s[1]] = s[2]

(* One state of the workflow starts at most one run for a turn, however often it   *)
(* is published, delivered, put in the startup inbox or retried: the turn key is   *)
(* remembered from the moment the input is queued.                                 *)
RunOncePerTurn == ~log.twice

(* The cursor passes an envelope only when the workflow that is loaded has the     *)
(* turn in its durable state, or as a dead letter (ARCHITECTURE.md:362).           *)
CursorAfterEnqueue ==
  [][cursor'.epoch = cursor.epoch /\ cursor.gap = 0 /\ cursor'.seq > cursor.seq
       => stream.pipe[1].turn \in Kept(workflow) \cup log.missed]_vars

(* An answer the bridge asked for, finished and left on the page, reaches the      *)
(* workflow, whatever fails on the way; unless the stream is blocked by a gap, the *)
(* journal dropped it unread, or no workflow was loaded when it was delivered.     *)
AnswerArrives ==
  \A t \in 2..MaxTurns :
    <>[](page.asked = t /\ page.mode = "done" /\ boundary.key = t)
      => <>(t \in log.kept \cup log.missed \/ cursor.gap > 0)

================================================================================
