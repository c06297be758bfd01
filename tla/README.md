# chatgpt-bridge: a TLA+ development

chatgpt-bridge lets local programs use the ChatGPT web page of a browser. A local server accepts
turns, turns them into requests, and sends commands to an extension; the extension's background
worker owns the browser tabs and a content script in each tab acts on the page and observes it. A
workflow engine in the server goes on from there: it observes answers, applies the ZIP files they
contain to a project, runs checks, commits, and prompts again. None of these can trust the others to
stay: pages reload, the worker is stopped and restarted by the browser, the connection drops,
envelopes are sent again, the daemon ends between two writes, and the page shows whatever it shows.
This directory models the parts of the code that have to be right about that. Paths below are
relative to the repository.

Contents: 1 the system, 2 the modules, 3 the runs, 4 what is proved, 5 what is not modelled, 6 plan.

## 1. The system

| Component | State it keeps | Operations | Module |
|---|---|---|---|
| Canonical request (`src/bridge/state`, `store`) | one record per request: lifecycle, submission, generation, response epoch and user-turn key, source tab, active effects, retry, outcome | one reducer of typed events; a rejected or invalid event commits nothing | `RequestMachine` |
| Request handlers (`src/bridge/coordinator/request*.js`, `bridgeClientEventRouter.js`) | the pending caller, timers, the result under construction | bind, steer, cancel, retry, reattach, recover, deadlines | `RequestMachine` |
| Command registry, tab choice, passive prompts (`bridgeCommandRegistry.js`, `browserClientCoordinator.js`, `requestSubmissionCoordinator.js`) | pending commands, release barrier, reservations of tabs, ledger of passive prompts | choose and reserve a tab, send, accept, settle, time out, withdraw, release | `BridgeCommands` |
| Protocol adapter and hub (`protocolV5Adapter.js`, `browserExtensionHub.js`), transport of the extension (`background.js`, `outboxV5.js`) | owner epoch, last sequence and seen messages of a tab; durable outbox | hello, deliver, acknowledge, replay | `BridgeTransport` |
| Tab operation queue (`background/tabOperationQueue.js`) | waiting operations and the running one, per tab | submit, cancel, clear, drain | `TabOperationQueue` |
| Tab runtime (`background/stateV6*.js`, `serverEnvelopeRouter.js`, `portRouter.js`, `standaloneCommandRecovery.js`) | durable lease, command and effect ledgers, terminal envelopes; volatile handler, timers, connection | claim, execute, release, settle, recover | `TabRuntime` |
| Content script (`content/`) | running commands, execution store, composer | commands on the page, reconciliation after a reload | `ContentExecution` |
| Artifact transfers (`content/artifactTransfer.js`, `background/downloadCoordinator.js`, `bridgeOperations.js`, `fileStore.js`, `artifactRegistry.js`) | durable download captures, the file index, images | act, bind, import, remove, publish | `ArtifactTransfer` |
| Turns (`turnManager.js`, `turn/`) | turn store, one queue per client and one for unbound turns | start, cancel, run, resume, recover | `TurnQueue` |
| Observed turns (`observation/`, `bridge/observedTurns`, `workflow/observedTurnRouter.js`) | what a tab shows, the journal and its cursor, the inputs of a workflow | observe, publish, stream, route, defer, hydrate | `TurnReading`, `ObservedTurns` |
| Workflow engine (`src/workflow`: state, controller, effects) | a persisted state per workflow with its effects | automation cycles, pause, resume, stop, recover | `WorkflowRun` |
| Workflow transactions (`src/workflow`: local effects, apply, commit, squash, recovery) | project files, backups and receipts, git | verify, approve, apply, check, commit, squash, undo, restore, reconcile | `WorkflowTransaction` |
| HTTP, terminal, repair, configuration, ... | see `PROJECT.json` | | |

A prompt crosses most of them: `startTurn` puts a turn in a lane, `runTurn` asks the bridge for a
request, the request chooses and reserves a tab and sends `prompt.send`; the transport delivers it,
the tab queue serializes it, the router claims the lease and records the command and its effect
before the content script gets them; the content script writes into the composer, submits, and proves
the user turn that appears; reports return through the durable outbox to the reducer; observations of
the page complete the request; its outcome asks the tab for `request.release`, which the barrier
holds back until nothing of the request is open. A workflow waits for the answer (its own or one it
observed), fetches the ZIP, applies and checks it, and commits.

What is hard there, and what makes each component right:

- **Request.** Effect results late, twice, out of order; observations of other turns, other tabs and
  earlier epochs; retries that race the late answer; a stage that nothing watches. It must end at
  most once, complete only on evidence of its own submitted turn, release the tab it used, start each
  epoch clean, and never hang.
- **Registry.** A withdrawal that races the send, an answer after its deadline, a stale lease of the
  request before. One request per tab; nothing overtakes a release; a passive prompt is submitted at
  most once, however often it is asked for.
- **Transport.** Sockets replaced while the old one still delivers, ACKs lost, replays, a worker that
  restarts with what it had stored. What is removed from the outbox was handled, nothing is handled
  twice or from another owner, and every answer arrives.
- **Queue.** Priorities against transport order; capacity; cancellation against start. A cancelled
  operation never starts, and every submission is settled.
- **Tab runtime.** A reload, a crash or a reconnect between any two durable steps; three ways to
  settle the same command. One terminal envelope per command, no release over open work, an answer to
  every release.
- **Content script.** Every await gives the person at the keyboard, the page and other handlers a
  turn. What is reported as not executed was not sent, what is reported as submitted stands on the
  page as a new turn, two writers never share the composer.
- **Artifacts.** A download is known by its events only; the worker may restart between the action and
  its completion; the person may replace the file. The source is removed only after the copy is
  stored, a result is answered only after the index is committed.
- **Turns.** Cancellation at every stage, restarts, two kinds of lanes that exclude each other.
- **Observed turns.** An answer that stops growing may not be finished; a journal with a limit; crashes
  on both ends of the stream. What is published is final, a turn runs once, a cursor never passes what
  is not durable.
- **Workflow runs.** A crash between plan, dispatch and settlement; pause and stop against effects that
  settle. Nothing is carried out twice, nothing starts under a pause or a stop.
- **Transactions.** A crash between backup, change, check and receipt, with a user in the same tree.
  What is committed was reviewed and checked, what is not the workflow's is left alone, and what the
  restart concludes about an open effect is true.

`PROJECT.json` lists all components with their status and the hazards with the line each one bites.

## 2. The modules

Each `MC*` module gives constants to the module in its name; each `*Proofs` module holds its
theorems. A module without an `MC*` module is checked as it is.

**RequestMachine.** One variable per field that a decision reads. An action is one handler: all the
events it feeds to the reducer, in order. Events the reducer rejects are stuttering steps
(`entityStore.js` commits nothing). A page is abstracted to who shows it, its user-turn keys, what it
shows and whether the artifact is there; `Page` holds all combinations the adapter can build. Which
deadlines are armed is a function of the state (`Due`), because the coordinator syncs its timers
after every commit; when one fires is open. `emitted` is what the last accepted handler asked for.
`RequestContract` is the promise of one request to its caller; `RequestMachine` implements it.

**BridgeCommands.** The server is one event loop: an action is a turn of it or one job of its
microtask queue, and the jobs run before the next turn. Modelled are the choice, confirmation and
reservation of a tab, the registry with its deadline, withdrawal and release barrier, the release of a
stale lease, a resumed request, and the ledger of passive prompts.

**BridgeTransport.** The stream between one tab and the server: the port of the content script, the
outbox, its WebSockets, and the hub with its adapter. A command stands for its terminal envelope, the
one critical message the tab owes for it. A socket delivers each direction in order until it dies, and
may deliver what was under way then. Telemetry stands for what is sent without an ACK.

**TabOperationQueue.** `submit`, `cancel`, `clear` and the completion of the running operation are
the atomic turns of the event loop. The sort is modelled by what the engine does for short arrays
(leading run, then binary insertion), because the comparator is not a total order and the result
depends on it. Ids are submission numbers and are never reused.

**TabRuntime.** The server sends one of a few command sequences; each envelope is handled once and
the handler is a program counter, so a fault can fall between any two durable transitions. Durable
variables survive a crash, volatile ones do not. `Commit` is the part of every committed transition
that settles a proved release. The content script executes, reports or is lost; the outbox is
abstracted to its room (free, only the reserve, full).

**ContentExecution.** Every command handler of the content script, cut at each await; the execution
store, the composer and the page. A user turn is known by its position, which is what its key stands
for. The ledger of the worker that delivers each command once is external here and is `TabRuntime`.
`Survives` says whether a page may outlive its port; the run takes both: a port lost with its page, and
one lost alone, whose hello makes uncertain what living handlers still carry out. `outlived` remembers
these handlers.

**ArtifactTransfer.** The way of the bytes of an artifact: the action on the page and its race with
the direct fetch, the capture of the worker with its durable record, Chrome's events and the timers,
the import, its index, the removal of the source, and the images of the registry. All downloads have
the artifact's name.

**TurnQueue.** Queues are a function of lanes and `Pump` is one operator: the order in which the code
visits lanes has no effect, since a waiting unbound turn blocks every client lane and client lanes do
not exclude each other. `stage` is the await at which `startTurn`, `runTurn` or `resumeActiveTurn`
stands; `cancelTurn` signals and removes at once and writes the status after an await, so its write
can fall anywhere. A restart forgets everything but the turn store and the prompts
that were given to the browser.

**TurnReading, ObservedTurns.** `TurnReading` holds the functions from the page to a snapshot, an
observation and its verdict. `ObservedTurns` is the way of an answer nobody of the bridge asked for:
the observer of the tab with its stability clock, the router, the journal, the stream with its cursor,
and the input queue of a workflow that lives in the daemon or in a worker of its own.

**WorkflowRun.** The durable workflow state, its reducer, the write-ahead protocol of its effects, the
executor task, the job at the head of the project queue, a caller outside that queue, and the recovery
after the daemon ended. A transition is committed with its save and is one step; anything may happen
between two of them.

**WorkflowTransaction.** What the effects do to the project: files, backup and receipts, commits, head
and index of git, and a user who edits and commits in the same tree whenever the daemon waits. Passive
runs with one update each, an automation run that only finalizes, and the manual restore; a restart
reconciles every effect it finds open. The cycles in which an automation run applies ZIPs are left out,
and `PassiveApplyIsWhole` claims nothing for them: see *Second attempt* in section 3.

The modules are not composed: each takes the others as an environment that may do whatever they can
do. `TabRuntime` assumes that operations of a tab run one at a time (`TabOperationQueue`) and leaves
delivery to `BridgeTransport`; `RequestMachine` takes any effect result; `BridgeCommands` any answer.
`RequestContract` is the one abstract specification that a module is shown to implement.

## 3. The runs

All runs pass. In each the states reached are all the states of the instance: nothing is sampled.

| Run | Question | Bounds |
|---|---|---|
| `RequestSteer` | is a request that requires an artifact completed by evidence of the right turn only, does it generate only on its own turn, and is it watched all along? | 1 tab, 2 keys, prepare, submit, cancel and unconfirmed effects, no retry, 2 epochs |
| `RequestRetry` | do late, duplicate and reordered results, retries and cancellation release the right tab, and is the contract kept? | 2 tabs, 1 key, submit and resubmit effects, 2 coordinator effects, 1 retry, 2 epochs |
| `BridgeCommands` | one request per tab, a release behind every barrier, passive prompts submitted once? | 2 tabs, 2 requests, 1 passive prompt, 2 calls, 1 fault; `Focus`: two requests compete, or one competes with the passive prompt |
| `BridgeTransport` | is what leaves the outbox handled, once, by its owner, and does every answer arrive? | 1 command, 2 sockets, 2 openings of the page, 1 fault |
| `TabQueue` | does a cancelled operation never start, is every submission settled? | 4 kinds of operation, 2 places and 2 reserved, 5 operations |
| `TabRuntime` | one answer per command, release barrier, releases answered? | 6 sequences of 3 commands, 2 faults, outbox free or full |
| `ContentExecution` | are the reports of the content script true, is there one writer in the composer, is no effect abandoned? | 5 plans of commands, 1 loss of the port with or without its page, 1 edit by the person, 1 fault, 2 turns |
| `ArtifactTransfer` | is the source removed only after the copy is stored, the result answered only after the index is written, and does the queue of operations move? | 1 file, 1 image, 2 fetches, 2 captures, 2 downloads, 1 fault |
| `TurnQueue` | are lanes exclusive, do all turns end? | 3 turns, 2 clients, 2 calls of cancel, recover or restart |
| `ObservedTurns` | is what is published final, does a turn run once, does the cursor wait for the queue, does an answer arrive? | 2 turns, 2 texts, a journal of 1, a queue of 1, 1 fault, daemon and worker |
| `WorkflowRun` | is no effect carried out twice, none dispatched under a pause or stop or left at rest, and does the queue drain, but for a stop that waits behind itself? | 3 cycles, 1 without progress, limit 2, 1 run, 3 commands, 1 crash, each restart policy |
| `WorkflowTransaction` | is every commit reviewed, are the user's commits and edits kept, is what a restart concludes true, is an update of a passive run applied whole? | 4 configurations, 2 files, 2 updates, 3 runs, one each of edit, commit, crash and stop, two of them together |

Why these bounds are enough to be of use. Two tabs give a stranger, two keys a wrong turn, two epochs
something stale to carry over, one retry both the budget and its exhaustion. Four waiting operations
fill queue and reserve, and one more is refused. Three commands are a request, its release and the
next user of the tab; two faults are one that interrupts and one that interrupts the recovery. Two
sockets are one that is replaced and its successor; exploration ends when the last one has closed
(`Exhausted`), and messages down a dead socket stay in `down` but nobody receives them. Three turns
are an unbound one between two bound ones, or a bound one between two unbound; two calls are a restart
and a cancellation of what is resumed. Two observed turns and two texts are an old answer, a new one
and its prefix; a journal of one is overrun by the second; reasoning is shown as a tool call, the
stricter case; the instance with two faults was checked as well (677 137 states). Two updates of two
files are one change the user may have touched and one not, and an update over an update.
`ArtifactTransfer` counts as a fault also a second action of the page, a refusal or interruption by
Chrome and a preview that stays open.

What the runs take for granted, beside the abstractions each module names. `ArtifactTransfer`: an
import is followed while page and worker are at rest, one download per action, network fetches end, the
capture timer is longer than a storage operation unless that is the fault, the person starts no
download of the same name within the capture window. `ObservedTurns`: a pause of the page that shows
nothing is shorter than 1 500 ms; one conversation and one session. `WorkflowTransaction`: the user
acts only when the daemon waits; remediation is off, commits are not required, the restart policy is
auto.

`SYMMETRY` is used in the two runs of the request, where no liveness property is checked and tabs and
keys are interchangeable. A request that ended, a queue whose operations are used up, a script that was
sent, a conversation that is over stop, hence the configurations switch the deadlock check off; that
nothing stops too early is what `Watched` and the liveness properties say. `TypeOK` of each module
documents its state; it is an invariant of `RequestRetry`, a theorem for the ten components of section
4, and was checked with TLC for the others.

Fairness. `TabQueue`: a running operation finishes, as each handler is an async function whose calls
have deadlines. `TabRuntime`: handlers and hello go on once started, the release deadline fires
(`scheduleReleaseDeadline` in background.js) and the worker reconnects; neither the content script's
reports nor the server's commands are fair. `BridgeTransport`: sockets that live deliver, handlers end,
the worker connects again. `TurnQueue`: promises that were created settle, because the store answers
and the bridge's deadlines end every request; nobody has to start, cancel or resume a turn.
`WorkflowRun`: the job at the head of the project queue goes on. `ArtifactTransfer`: awaits, operations,
commits, listeners and timers go on; neither the page nor the person does anything. `ObservedTurns`: the
observer, the jobs, hydration and the worker together go on; the conversation and the user need not.
`RequestMachine` has no fairness: `Watched` states as an invariant that whatever is open has a deadline
armed or an effect running.

### Disagreements between code and documents

Found while modelling; each was refuted with TLC at the time, and no run is kept for it.

- *Recovery deadline.* The first heartbeat after an effect became uncertain reports the source as
  connected, which disarms the recovery deadline while the outcome is still unknown.
- *Settle deadline.* A request that waits for its artifact after an observation has no settle
  deadline; the only code that would set one has no caller.
- *Queue order.* The comparator mixes order within a group with priority between groups, is not
  transitive, and can start a server envelope before an earlier one, which is then dropped as stale.
- *Queue reserve.* The priority policy reads a field that protocol 5 envelopes do not have, so the
  server's release is ordinary work and is refused while the reserve is free.
- *Quarantine.* Attaching the content script makes a quarantined lease a reconciling one.
- *Reconnect.* A hello after a mere reconnect is treated as a reload; a standalone write that still
  runs is written off and a prompt is dispatched beside it.
- *Owner of a tab.* A socket that a hello replaced ends later, and its close removes the new client
  with the same id (`browserExtensionHub.js:366`).
- *Sockets.* The watchdog starts a second `openConnection` while the first awaits its authorization;
  the close listener (`background.js:335-342`) does not ask whose close it is. `extension.status` and
  `extension.error` on a living socket count as a lost bridge until the next hello
  (`transportRuntime.js:160-178`).
- *Reconciliation.* If only the port is lost while the prompt stands in the composer, reconciliation
  finds it not started, and the living handler then sends it; such a handler also meets other handlers
  in the composer, and puts its draft back over theirs. The properties of `ContentExecution` except
  these handlers (`Stray`) by name and hold for everything else that happens beside them.
- *Refused retry.* The error of a refused retry says `provenNotExecuted`, but
  `settleEffectCommandWithoutExecution` does not read it and the effect becomes uncertain.
- *Repeated prompt.* A prompt that the page takes for a duplicate of the one under way returns without
  a verdict (`requestPromptCommands.js:108-112`): its effect is left to the deadlines of the server.
- *Draft.* `restoreComposerText` puts a draft back into a text area only: in an editable element the text
  of a prompt that was proved not executed stays (`composerCommands.js:140-148`), for the person to send.
- *Restart of a workflow.* An apply or squash found not started after a restart is rejected by the
  reducer (`workflowStateReducer.js:258-261`) and the run stays in recovery.
- *Restored files.* `git diff --name-only` (`localEffects.js:96`) does not list an untracked file, so a
  restore that did not happen is taken for one that did; `ARCHITECTURE.md:345-346` and
  `test/workflowLocalEffectRecovery.test.js:163` say otherwise.
- *Stop behind oneself.* The stop of a workflow without an active automation run calls `manager.stop`,
  which waits in the queue behind the running job that waits for it (`commandCoordinator.js:47`,
  `workflowManager.js:220,354-356`, `runtimeCoordinator.js:42-56`), until the daemon ends. Both workflow
  modules do the same (`JobControl`, `StopCommand`: the job stands at `"self"`), and `QueueDrains`
  excepts just this job. Deactivation takes the same way and is not in the models.
- *Second attempt.* After a crash past `verified`, or a failed apply, the same ZIP completes as a
  duplicate without being applied. All cycles of an automation run share one identity, `<run>:apply:1`
  (`applyVerifiedService.js:45`, `responseProcessor.js:110-113,204-207`), so the second ZIP of the run is
  answered from the record of the first (`localEffects.js:202`), is not written, and is recorded as
  applied (`applyCompletionService.js:16-18`). An uncertain apply cannot be resolved (`recoverInterrupted` has no caller).
- *Undo.* Revert, restore and rollback do not ask whose edits they overwrite.
- *Stranded inputs.* After a restart with a ready workflow and persisted inputs nobody calls
  `schedule` (`ARCHITECTURE.md:334`); a full input queue or a failed recovery during hydration leaves
  the workflow in `failed` while turns pile up in its startup inbox.
- *Worker.* A workflow loaded after the stream has connected misses what was delivered before, while
  the cursor commits it (`ARCHITECTURE.md:362`); a load without a snapshot overwrites persisted inputs.
- *Gap.* A gap while the workflow is ready blocks the cursor without an action; one while an action
  waits replaces the user's decision.
- *Captures.* A completion that arrives while the binding is being written is lost and its file is
  orphaned; a cancel that read an unbound capture answers `cancelled` though it is bound meanwhile; a
  late download of an earlier capture with the same name binds to the next one; a worker restart makes
  a fetch fail though the bytes had come directly. After a reload of the page two captures of one file
  name can be open, and `onCreated` (`downloadCoordinator.js:332-343`) does not ask whether the download
  is already bound, so two artifacts of the same name can get one download, against
  `ARCHITECTURE.md:299` and `test/extensionDownloadCapture.test.js:277`. `CommittedFirst` therefore
  excludes one download in two fetches of one artifact, not in two artifacts.

## 4. What is proved

Ten components have machine-checked theorems (those of the turn queue and of the request share
`ServerProofs`, those of tab runtime and content script `ExtensionProofs`), for every value of their constants, from the assumptions named below alone. Every argument is the same in outline: the invariants of the runs are not inductive
by themselves; an inductive invariant `IInv` adds what the code relies on between two steps; one lemma
per action (or per conjunct and group of actions) shows that it is kept. Each `IInv` was checked with
TLC on the instance of the run before it was proved.

| Module | Theorems beside `TypeCorrect` and the inductive invariant | Assumes |
|---|---|---|
| `ServerProofs`, request | `RequestStateSafe`, `RetrySafe`, `GenerationSafe`, `CompletionSafe`, `ReleaseSafe`, `AlwaysWatched`, `EpochsClean`, `Refinement` | `RequestConstants` |
| `ServerProofs`, turns | `LanesExclude` | `TurnAssumption` |
| `BridgeCommandsProofs` | `OneRequest`, `BarrierReleased`, `WrittenAtMostOnce` | `CommandAssumption`, `NameAssumption` |
| `BridgeTransportProofs` | `NothingLost`, `Once`, `OwnerHandled` | `TransportAssumption` |
| `ExtensionProofs`, tab | `AnsweredOnce`, `NothingLeftOpen` | `TabAssumption` |
| `ExtensionProofs`, content | `OneWriter`, `NotExecutedUnsent`, `NothingAbandoned` | `ContentAssumption`, `SendingAssumption`, `NoRequestAssumption` |
| `WorkflowRunProofs` | `SentOnce`, `RestIsQuiet`, `ControlHolds` | `WorkflowRunAssumption` |
| `WorkflowTransactionProofs` | `CommitsAreReviewed`, `EvidenceHolds`, `PassiveApplyWhole`, `EditsKept`, `UserCommitsStay` | `WritesAssumption`, `ConfigsAssumption`, `BoundsAssumption` |
| `ObservedTurnsProofs` | `FinalOnly`, `OneRunPerTurn`, `OneRunAtATime`, `CursorWaits` | `ObservedAssumption` |
| `ArtifactTransferProofs` | `StoredBeforeRemoved`, `CommittedBeforeAnswered` | `ArtifactAssumption` |

**Request.** `TargetReleased` and `Watched` need to know that before a tab is bound nothing has been
said about the request (`UnboundQuiet`) and that a settling request is pending (`SettlingWaits`); these
two, the safety invariants and the types make up `IInv`. There is one lemma per conjunct, each with a
step per group of actions, over lemmas on what an observation (`ObservationKinds`, `SeenRetryFacts`), an
effect message (`EffectMessageKinds`) and an end (`EndShape`) can change. `ContractStep` shows that
each action maps to a step of the contract or to a stutter. Two theorems, `RequestStateSafe` and
`RetrySafe`, and the action property `EpochsClean`, have no run of their own.

**Registry.** `IInv` says where a request and its tab stand at every await of its submission
(`Placed`, `AwaitsOK`, `ReleasedAtEnd` and others, together `TabsOK`) and what the ledger of passive
prompts records at each stage of a call (`PassiveOK`): only the call that holds the reservation writes,
and a record that a call left behind is never taken up as unsent. `NameAssumption`: a request's
identity is not a command's.

**Transport.** `IInv` = types, the two invariants of the run, `AcksTrue` (an ACK under way names only
what was handled), `SeenIsKnown` and `CountedIsSeen` (what the hub remembers was handled by it, and
whatever is counted is remembered) and `StillAccepted` (the envelope whose handler runs would be
accepted again now: no hello takes the hub over in between). From the last follows `OnlyOwnerHandled`,
an action property. Assumed: finitely many commands, none named like `hello` or telemetry.

**Tab runtime.** `IInv` = types, `SettledOnce`, `ReleaseBarrier`, `Arrived`, `Worked` and `Held`:
between its acceptance and its dispatch a request command holds the lease, which is not releasing, so
that no transition in between can release it. Assumed: a command with the scope of a request names it.

**Content script.** `ContentInv` has parts for types, the ledger (`LedgerOK`: a handler is at work only
for an effect that is dispatched, unless it outlived its port), `PlacesOK`, the store (`StoreOK`: a
command that sends a text works for the request the store holds, unless it is stray), `OrderOK` (prompts
and steers of a request come one after the other), `ClosedOK` (a released request is not projected
again), `TokenOK` and `SentOK`. A stray handler is a prompt or steer that outlived a port. `TokenOK` is
what replaces the lock such handlers do not respect: a text that no other command has is in the composer
or with a handler that may put it back, and with one of them at most. Hence a prompt that reached the
page is neither cancelled nor found unsent (`SentOK`): its text is gone from the composer and nobody
holds it as a draft (`Gone`) for as long as the store holds the request. Two handlers in the composer
that are not stray would work for one request; a passive prompt is alone in its request and a later
prompt waits for the success of the earlier one, so one of them is not there. That the text is gone is
an invariant only because no other handler can write it back, so the theorems need each other. What the
properties except is what fails: stray handlers themselves, and a text that several commands share while
there are stray handlers, since a draft tells nobody whose it is. `NothingAbandoned` rests on
`HandlersEnd`: the handler of an effect ends with a verdict in the ledger or because the ledger refused
the write. What the server sends is assumed (`SendingAssumption`): a retry only with the first step of a
plan or a release (`requestResponseRetry.js:15-16`), no empty message, an identity of its own for a
passive prompt, and the prompts and steers of one request in order (`requestExecutionPlan.js`,
`requestControlCoordinator.js:40`).

**Turns.** `IInv` = types, `Queued` (who waits in a queue is at the stage of waiting, once), `Held` (who
holds a lane is at a stage that gives it back), `CreatedFirst` and `AbortedFirst`.

**Workflow run.** What is none, planned, failed or cancelled was never carried out, so a dispatch is
the first one (`EffectsOK`); a request to pause or stop took back all planned work, so no process can
dispatch any more (`ControlOK`); a process that carries out an effect has a dispatched record (`TaskOK`,
`JobOK`), which `PAUSED` and `STOPPED` wait for; a run is launched again only over an executor that sends
nothing (`LaunchOK`), and a recovery runs alone (`RestoreOK`). `NoDispatchUnderControl` is an action
property.

**Workflow transaction.** Files that were compared with recorded states stay the same until the commit,
since the user acts only when the daemon waits (`PlaceOK`, `ReviewedOK`, `InspectedOK`); the head has
moved since an effect was planned only by a commit of this run or by the reset of a squash (`GraphOK`,
`EffectOK`), hence what reconciliation proves is true (lemma `ProofIsTrue`, theorem `EvidenceHolds`); a
written update of a passive run stays whole until the run's own undo (`WholeOK`); commit and squash exclude one another by
the kind of run and the commit mode (`ActionOK`, `LeftOK`). The assumptions say what an update is, which
configurations the code accepts, and that the bounds are numbers; the bounds are arbitrary.
`UserCommitsStay` has a second invariant over the first (`KeptInductive`). `Ancestors` and `After` are
recursive functions over the commits; that their walks exist and are unique cannot be had by induction
over the commits, so it is carried along the behaviour: `WellFounded` holds of the first commit and is
kept by the next one, whose parent is an older commit. `KeptInv` adds to it and to
the property itself (`HistoryGood`) that no recorded checkpoint which a base and a tip reproduce is the
user's (`RecordsGood`), and what the commits named in the ledger
(`CommitsTold`) and in the running job (`JobTold`) hold: a receipt of a squash makes reconciliation take
HEAD for its result even when the user has committed since, and `Beyond` covers that case.

**Observed turns.** An answer that looks finished is (`LooksFinished`), unless ChatGPT pauses, and no
pause lasts until the stability clock is at 1 500 ms (`ReadGood`: what the observer has read is the page
as it stands, or the page has changed since); what is finished stays so (`Lasts`), hence what is journaled
or waits for its image stays final. For the workflow: queued inputs are distinct and not in the history
(`InputsGood`), at most one job runs or is about to begin with the oldest input (`JobsGood`, theorem
`OneRunAtATime`), a startup input stays in the inbox until it is queued (`HydrationGood`), and the one
envelope whose listener is awaited is the turn of a job or has been kept (`StreamGood`), which gives the
action property `CursorAfterEnqueue`. The bounds are arbitrary positive numbers.

**Artifact transfer.** `Inv` = types, `CapturesGood` (a capture is in memory only when its record is
durable), `PageInv` (an action of the page holds a capture of its own fetch, the tab queue works for the
capture that was asked about, and only fetches of a file act on the page), `FetchesGood` (fetches of one
artifact come one after the other), `AnsweredGood` (an answered fetch has a completed capture),
`ClaimInv` (a capture of a later fetch has no claim on the download an earlier fetch of the same artifact
was answered with, which is why `CommittedFirst` speaks of one artifact) and `ServerInv` (the import that
holds the mutex has its copy on disk, an indexed copy bears the number of its import, and a removed
download was copied).

Only model-checked: all liveness properties (fairness and ENABLED are out of the prover's reach):
`EverySubmissionSettles`, `ReleaseSettles`, `EveryTurnEnds`, `QueueDrains`, `EveryAnswerArrives`,
`AnswerArrives`, `QueueMoves`; `CancelledNeverStarts`, as what the sort of the queue returns is an
induction over sequences; and
`SubmittedIsProved` of `ContentExecution`, for which no inductive invariant was worked out: it rests on
what the baseline of a prompt, the monitor that adopts turns and a resumed projection say of one another.

## 5. What is not modelled

Text, urls, timestamps and diagnostics of a request, and how its result is assembled; lease handoff,
trimming of ledgers and planned effects of the tab runtime (its outbox is `BridgeTransport`); failures of
the turn store, items and project packages in the turns, and the turns adopted from a tab that no turn
started (`createAdoptedRecoveryTurn`); how tabs are opened and closed, and the reload of a content script
that has gone stale; the search for elements of the page; commands outside of requests; heartbeats,
`startAtLatest`, the connect timeout and process exit in the stream of observed turns, and the identities
of consumed responses, which the input history always precedes; uploads, pruning and the resolution of
conflicting file names; the cycles in which an automation run applies ZIPs (the second is recorded as
applied without being written), remediation, repair and the deployment of the extension in a transaction. Storage
writes of the extension and saves of a workflow are atomic: one that fails leaves the state as it was.
Server components without a module are listed in `PROJECT.json` with the reason.

## 6. Plan

Done: every module of the plan, each with its run; the proofs of section 4.

Next: a composition of request, registry and tab runtime on one request and one fault, whose instance
has to be small enough to be checked, and the standalone commands of the page (`sessionCommands.js`,
`intelligenceCommands.js`) in `ContentExecution`. `CancelledNeverStarts` is not within reach, as it rests on what the sort
of the queue returns for every queue, which is an induction over data.
