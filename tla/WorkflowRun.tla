------------------------------ MODULE WorkflowRun ------------------------------
(* One automated run of the server's workflow engine (src/workflow/): the      *)
(* durable workflow state and its reducer, the write-ahead protocol of its     *)
(* effects, the executor that repeats "checks, prompt, answer, apply", the      *)
(* commands of the user, and the recovery of a run after the daemon stopped.    *)
(*                                                                              *)
(* Who runs.  "task" is the executor of the run (controller.#launch), "job" is  *)
(* the head of the project queue (runtimeCoordinator.enqueue): the ZIP the task *)
(* hands over, or a command.  "api" is a caller of stopAutomation that does not *)
(* pass the queue.  A transition of the reducer is committed with its save, so  *)
(* it is one step; everything between two transitions may be interleaved.       *)
(*                                                                              *)
(* Durable: wf, eff, leftover.  A crash loses task, fx, queue, job and stopper. *)
EXTENDS Naturals, FiniteSets, Sequences

CONSTANTS
  MaxCycles,         \* automation.maxCycles
  NoProgressLimit,   \* automation.noProgressLimit
  SafeLimit,         \* retryPolicy.safeLimit
  RestartPolicies,   \* values of automation.restartPolicy a workflow may have
  UserCommands,      \* the command types a user sends
  MaxRuns, MaxCommands, MaxCrashes  \* bounds of the model

Cycles == 1..MaxCycles
Prompt(c) == <<"prompt", c>>
Fetch(c)  == <<"fetch", c>>      \* the download, verify and plan of one answer
Apply     == <<"apply", 1>>      \* `${run.id}:apply:${remediationAttempt + 1}`
Effects   == {Prompt(c) : c \in Cycles} \cup {Fetch(c) : c \in Cycles} \cup {Apply}
Safe(e)   == e[1] = "fetch"

Lifecycles == {"ready", "running", "waiting_action", "recovering", "paused", "stopped"}
Active     == {"running", "waiting_action", "recovering", "paused"}
Phases     == {"none", "checking", "waiting_response", "downloading", "verifying", "applying"}
Statuses   == {"none", "planned", "dispatched", "succeeded", "failed", "uncertain", "cancelled"}
Policies   == {"auto", "ask", "discard"}
Commands   == {"run", "pause", "resume", "stop", "act"}
TurnStates == {"none", "running", "completed", "failed", "cancelled", "exhausted"}

ASSUME WorkflowRunAssumption ==
  /\ {MaxCycles, NoProgressLimit, SafeLimit, MaxRuns} \subseteq Nat \ {0}
  /\ {MaxCommands, MaxCrashes} \subseteq Nat
  /\ RestartPolicies \subseteq Policies /\ RestartPolicies # {}
  /\ UserCommands \subseteq Commands

VARIABLES
  wf,        \* lifecycle, phase, nextAction, stop and pause requests, what a pause holds
  eff,       \* effects and localEffects of the current run: status and attempts
  leftover,  \* an effect of an earlier run is still unsettled in the state
  policy,    \* automation.restartPolicy
  turn,      \* the turn each prompt started, as the turn manager reports it
  task,      \* the executor
  fx,        \* the effect each process is executing, and how far it is
  queue,     \* projectQueues: the jobs behind one another
  job,       \* the head of the queue
  stopper,   \* controller.stop, called by the job or by the api
  reply,     \* what processFile returned to the task
  rec,       \* recoveryCoordinator.restore
  up,        \* the daemon runs
  proof,     \* what the apply left on disk: nothing, its backup manifest, its receipt
  sent,      \* how often each write was really carried out
  applied,   \* the cycles whose ZIP is in the project
  claimed,   \* the cycles whose ZIP the workflow recorded as applied
  runs, commands, crashes

durable == <<wf, eff, leftover>>
ghosts  == <<proof, sent, applied, claimed>>
bounds  == <<runs, commands, crashes>>
vars == <<wf, eff, leftover, policy, turn, task, fx, queue, job, stopper, reply, rec, up,
          proof, sent, applied, claimed, runs, commands, crashes>>

Held(to, action) == [to |-> to, action |-> action]
NoHold   == Held("none", "none")
NoEffect == [st |-> "none", tries |-> 0]
Idle     == [e |-> Apply, st |-> "idle"]
TaskOff  == [pc |-> "off", cycle |-> 0, stuck |-> 0, aborted |-> FALSE, after |-> "next"]
JobOff   == [pc |-> "off", cycle |-> 0]
Ready    == [lifecycle |-> "ready", phase |-> "none", asked |-> 0, action |-> "none", cycle |-> 0,
             stop |-> FALSE, pause |-> FALSE, hold |-> NoHold]

Init ==
  /\ wf = Ready
  /\ eff = [e \in Effects |-> NoEffect]
  /\ leftover = FALSE
  /\ policy \in RestartPolicies
  /\ turn = [c \in Cycles |-> "none"]
  /\ task = TaskOff
  /\ fx = [p \in {"task", "job"} |-> Idle]
  /\ queue = <<>> /\ job = JobOff
  /\ stopper = [p \in {"job", "api"} |-> "idle"]
  /\ reply = "none" /\ rec = "none" /\ up = TRUE
  /\ sent = [e \in Effects |-> 0]
  /\ proof = "none" /\ applied = {} /\ claimed = {}
  /\ runs = 0 /\ commands = 0 /\ crashes = 0

-------------------------------------------------------------------------------
(* The reducer.  An event is the guard under which it is accepted and the       *)
(* state it commits; a rejected event leaves the state and throws at the caller.*)

\* Mutant: a dispatched effect counts as settled.
UnsettledPlanned == {e \in Effects : eff[e].st \in {"planned", "uncertain"}}

\* unsettledEffectRecords: of every run, planned ones included.
Unsettled == {e \in Effects : eff[e].st \in {"planned", "dispatched", "uncertain"}}
Barrier   == Unsettled = {} /\ ~leftover

\* Mutant: a control request leaves what is planned.
CancelNothing(f) == f

CancelPlanned(f) ==
  [e \in Effects |-> IF f[e].st = "planned" THEN [f[e] EXCEPT !.st = "cancelled"] ELSE f[e]]

\* RUN_STARTED clears the control requests of the run before it.
CanStartRun == wf.lifecycle = "ready"
RunStarted ==
  /\ wf' = [Ready EXCEPT !.lifecycle = "running", !.phase = "checking"]
  /\ leftover' = (leftover \/ Unsettled # {})
  /\ eff' = [e \in Effects |-> NoEffect]

CanChangePhase == wf.lifecycle = "running"
PhaseChanged(p, c) == wf' = [wf EXCEPT !.phase = p, !.asked = c]   \* request.turnId

CanFinish == wf.lifecycle \in {"running", "recovering"}
Finished == Ready

\* STOP_REQUESTED: while an action waits, nextAction = null breaks the
\* reducer's own invariant and the request is rejected.
CanRequestStop == wf.lifecycle \notin {"stopped", "waiting_action"} /\ ~wf.stop
StopRequested ==
  /\ wf' = [wf EXCEPT !.stop = TRUE, !.pause = FALSE, !.action = "none",
                      !.hold = IF wf.lifecycle = "paused" THEN wf.hold ELSE NoHold]
  /\ eff' = CancelPlanned(eff)

CanStop ==
  /\ wf.lifecycle # "stopped"
  /\ wf.lifecycle \in Active => wf.stop
  /\ Barrier
Stopped == wf' = [Ready EXCEPT !.lifecycle = "stopped"]

CanRequestPause ==
  wf.lifecycle \in {"running", "waiting_action", "recovering"} /\ ~wf.stop /\ ~wf.pause
PauseRequested ==
  /\ wf' = [wf EXCEPT !.lifecycle = "recovering", !.action = "none", !.pause = TRUE,
                      !.hold = Held(wf.lifecycle, wf.action)]
  /\ eff' = CancelPlanned(eff)

CanPause == wf.lifecycle \in {"running", "waiting_action", "recovering"} /\ wf.pause /\ Barrier
Paused == wf' = [wf EXCEPT !.lifecycle = "paused", !.action = "none", !.pause = FALSE]

CanResume == wf.lifecycle = "paused"
Resumed == wf' = [wf EXCEPT !.lifecycle = wf.hold.to, !.action = wf.hold.action,
                            !.pause = FALSE, !.hold = NoHold]

CanRequireAction == wf.lifecycle \in {"running", "recovering"}
ActionRequired(kind, c) ==
  wf' = [wf EXCEPT !.lifecycle = "waiting_action", !.action = kind, !.cycle = c]

\* RECOVERY_STARTED drops what a pause held, but not a pause that was only requested.
CanStartRecovery == wf.lifecycle \in Active
RecoveryStarted(w) ==
  [w EXCEPT !.lifecycle = "recovering", !.action = "none",
            !.hold = IF w.pause THEN w.hold ELSE NoHold]
CanResumeRecovery == wf.lifecycle = "recovering"
RecoveryResumed == wf' = [wf EXCEPT !.lifecycle = "running"]

\* resolveAction.
ActionStop ==
  /\ IF Barrier THEN wf' = [Ready EXCEPT !.lifecycle = "stopped"] /\ UNCHANGED eff
     ELSE /\ wf' = [wf EXCEPT !.lifecycle = "recovering", !.action = "none",
                              !.stop = TRUE, !.pause = FALSE, !.hold = NoHold]
          /\ eff' = CancelPlanned(eff)
CanActionFinish == ~wf.pause    \* a pause request needs an active run
ActionFinish == wf' = [Ready EXCEPT !.stop = wf.stop]
ActionContinue(to, p) == wf' = [wf EXCEPT !.lifecycle = to, !.action = "none", !.phase = p]

-------------------------------------------------------------------------------
(* The write-ahead protocol of an effect: executeWorkflowEffect and             *)
(* executeLocalEffect, run by process p.                                        *)

FxAt(p, st) == up /\ fx[p].st = st
FxTo(p, st) == fx' = [fx EXCEPT ![p].st = st]
FxCall(p, e) == fx' = [fx EXCEPT ![p] = [e |-> e, st |-> "guard"]]
FxDone(p) == fx' = [fx EXCEPT ![p] = Idle]

\* Mutant: what was dispatched and not reconciled is dispatched again.
EffectGuardRepeats(p) ==
  /\ FxAt(p, "guard")
  /\ FxTo(p, IF eff[fx[p].e].st = "succeeded" THEN "done" ELSE "dispatch")
  /\ eff' = [eff EXCEPT ![fx[p].e].st = IF @ = "succeeded" THEN @ ELSE "planned"]
  /\ UNCHANGED <<wf, leftover, policy, turn, task, queue, job, stopper, reply, rec, up, ghosts, bounds>>

\* A settled success is returned as it is; what was dispatched once and not
\* reconciled is refused.  The preconditions of a planned effect may have changed.
EffectGuard(p) ==
  /\ FxAt(p, "guard")
  /\ LET e == fx[p].e IN
     \/ (wf.stop \/ wf.pause) /\ FxTo(p, "threw")
     \/ ~wf.stop /\ ~wf.pause /\ eff[e].st = "succeeded" /\ FxTo(p, "done")
     \/ ~wf.stop /\ ~wf.pause /\ eff[e].st = "none" /\ FxTo(p, "plan")
     \/ ~wf.stop /\ ~wf.pause /\ eff[e].st = "planned" /\ FxTo(p, "dispatch")
     \/ ~wf.stop /\ ~wf.pause /\ eff[e].st = "planned" /\ FxTo(p, "threw")
     \/ /\ ~wf.stop /\ ~wf.pause
        /\ eff[e].st \in {"dispatched", "failed", "uncertain", "cancelled"}
        /\ FxTo(p, "threw")
  /\ UNCHANGED <<durable, policy, turn, task, queue, job, stopper, reply, rec, up, ghosts, bounds>>

\* EFFECT_PLANNED and LOCAL_EFFECT_PLANNED.
CanPlan(e) == /\ ~wf.stop /\ ~wf.pause
              /\ wf.lifecycle \in {"running", "recovering"} /\ eff[e].st = "none"
EffectPlan(p) ==
  /\ FxAt(p, "plan")
  /\ LET e == fx[p].e IN
     IF CanPlan(e) THEN eff' = [eff EXCEPT ![e].st = "planned"] /\ FxTo(p, "dispatch")
     ELSE FxTo(p, "threw") /\ UNCHANGED eff
  /\ UNCHANGED <<wf, leftover, policy, turn, task, queue, job, stopper, reply, rec, up, ghosts, bounds>>

\* EFFECT_DISPATCHED and LOCAL_EFFECT_DISPATCHED.
CanDispatch(e) == wf.lifecycle \in {"running", "recovering"} /\ eff[e].st = "planned"
EffectDispatch(p) ==
  /\ FxAt(p, "dispatch")
  /\ LET e == fx[p].e IN
     IF CanDispatch(e)
       THEN /\ eff' = [eff EXCEPT ![e] = [st |-> "dispatched",
                         tries |-> IF @.tries < SafeLimit THEN @.tries + 1 ELSE @.tries]]
            /\ FxTo(p, "run")
       ELSE FxTo(p, "threw") /\ UNCHANGED eff
  /\ UNCHANGED <<wf, leftover, policy, turn, task, queue, job, stopper, reply, rec, up, ghosts, bounds>>

\* The write itself: it happens and answers, it fails before or is undone, or it
\* may have happened and the caller cannot tell.
Carry(e) ==
  /\ sent' = [sent EXCEPT ![e] = IF Safe(e) \/ @ = 2 THEN @ ELSE @ + 1]
  /\ turn' = IF e[1] = "prompt" THEN [turn EXCEPT ![e[2]] = "running"] ELSE turn
  /\ applied' = IF e = Apply THEN applied \cup {job.cycle} ELSE applied
EffectExecute(p) ==
  /\ FxAt(p, "run")
  /\ \/ Carry(fx[p].e) /\ FxTo(p, "ok")
     \/ Carry(fx[p].e) /\ ~Safe(fx[p].e) /\ FxTo(p, "unknown")
     \/ UNCHANGED <<sent, turn, applied>> /\ FxTo(p, "fail")
  /\ proof' = IF fx[p].e # Apply THEN proof ELSE IF fx'[p].st = "ok" THEN "receipt" ELSE "manifest"
  /\ UNCHANGED <<durable, policy, task, queue, job, stopper, reply, rec, up, claimed, bounds>>

\* The outcome event; when it is rejected the caller gets "could not be persisted".
EffectSettle(p) ==
  /\ up /\ fx[p].st \in {"ok", "fail", "unknown"}
  /\ LET e == fx[p].e
         to == [ok |-> "succeeded", fail |-> "failed", unknown |-> "uncertain"][fx[p].st]
     IN IF wf.lifecycle \in Active /\ eff[e].st = "dispatched"
          THEN /\ eff' = [eff EXCEPT ![e].st = to]
               /\ FxTo(p, IF fx[p].st = "ok" THEN "done" ELSE "threw")
          ELSE FxTo(p, "threw") /\ UNCHANGED eff
  /\ UNCHANGED <<wf, leftover, policy, turn, task, queue, job, stopper, reply, rec, up, ghosts, bounds>>

EffectStep(p) ==
  EffectGuard(p) \/ EffectPlan(p) \/ EffectDispatch(p) \/ EffectExecute(p) \/ EffectSettle(p)

-------------------------------------------------------------------------------
(* The executor: AutomationRunExecutor.execute, one action per await that       *)
(* matters.  A thrown error goes to "exit", the catch of #launch.               *)

TaskGo(pc) == task' = [task EXCEPT !.pc = pc]
TaskAt(pc) == up /\ task.pc = pc
MustStop   == task.aborted \/ wf.lifecycle = "stopped" \/ wf.pause \/ wf.stop
TaskFrame  == UNCHANGED <<policy, queue, job, stopper, rec, up, ghosts, bounds>>

\* #launch.  run.cycle is never advanced by a transition, so a resumed run
\* starts at cycle 1, or waits for the action of cycle 1 first.
Launched(resume, w) ==
  [pc |-> IF resume /\ (w.lifecycle = "waiting_action" \/ w.phase = "applying")
            THEN "action" ELSE "top",
   cycle |-> 1, stuck |-> 0, aborted |-> FALSE, after |-> "next"]

TaskTop ==
  /\ TaskAt("top")
  /\ IF task.cycle > MaxCycles THEN task' = TaskOff /\ UNCHANGED wf
     ELSE IF MustStop \/ ~CanChangePhase THEN TaskGo("exit") /\ UNCHANGED wf
     ELSE PhaseChanged("checking", 0) /\ TaskGo("checks")
  /\ UNCHANGED <<eff, leftover, turn, fx, reply>> /\ TaskFrame

\* The checks pass; or they fail as they did before, or in a new way.
TaskChecks ==
  /\ TaskAt("checks")
  /\ IF MustStop THEN TaskGo("exit") /\ UNCHANGED wf
     ELSE \/ IF CanFinish THEN wf' = Finished /\ task' = TaskOff
             ELSE TaskGo("exit") /\ UNCHANGED wf
          \/ task' = [task EXCEPT !.pc = "failed", !.stuck = 0] /\ UNCHANGED wf
          \/ task.cycle > 1 /\ task' = [task EXCEPT !.pc = "failed", !.stuck = @ + 1] /\ UNCHANGED wf
  /\ UNCHANGED <<eff, leftover, turn, fx, reply>> /\ TaskFrame

TaskNoProgress ==
  /\ TaskAt("failed") /\ task.stuck >= NoProgressLimit
  /\ IF CanRequireAction
       THEN /\ ActionRequired("no_progress", task.cycle)
            /\ task' = [task EXCEPT !.pc = "action", !.stuck = 0, !.after = "prompt"]
       ELSE TaskGo("exit") /\ UNCHANGED wf
  /\ UNCHANGED <<eff, leftover, turn, fx, reply>> /\ TaskFrame

TaskPrompt ==
  /\ \/ TaskAt("failed") /\ task.stuck < NoProgressLimit
     \/ TaskAt("prompt")
  /\ IF task.cycle >= MaxCycles THEN TaskGo("exit") /\ UNCHANGED fx
     ELSE FxCall("task", Prompt(task.cycle)) /\ TaskGo("prompting")
  /\ UNCHANGED <<durable, turn, reply>> /\ TaskFrame

TaskPrompted ==
  /\ TaskAt("prompting") /\ fx["task"].st \in {"done", "threw"}
  /\ FxDone("task")
  /\ IF fx["task"].st = "done" /\ CanChangePhase
       THEN PhaseChanged("waiting_response", task.cycle) /\ TaskGo("turn")
       ELSE TaskGo("exit") /\ UNCHANGED wf
  /\ UNCHANGED <<eff, leftover, turn, reply>> /\ TaskFrame

\* waitForTurn: the poll, the end of the turn and its own timeout.  A turn whose
\* chat is exhausted moves the run to a new chat and repeats the same cycle.
TaskTurn ==
  /\ TaskAt("turn")
  /\ LET t == turn[task.cycle] IN
     \/ MustStop /\ TaskGo("exit") /\ UNCHANGED wf
     \/ ~MustStop /\ t \in {"running", "failed", "cancelled"} /\ TaskGo("exit") /\ UNCHANGED wf
     \/ ~MustStop /\ t = "exhausted" /\ TaskGo("exit") /\ UNCHANGED wf
     \/ ~MustStop /\ t = "exhausted" /\ task' = [task EXCEPT !.pc = "top", !.stuck = 0]
        /\ UNCHANGED wf
     \/ ~MustStop /\ t = "completed" /\ IF CanChangePhase
            THEN PhaseChanged("applying", task.cycle) /\ TaskGo("file")
            ELSE TaskGo("exit") /\ UNCHANGED wf
  /\ UNCHANGED <<eff, leftover, turn, fx, reply>> /\ TaskFrame

\* processFileResult: the ZIP of the cycle joins the project queue.
TaskFile ==
  /\ TaskAt("file")
  /\ queue' = Append(queue, "file") /\ TaskGo("filing")
  /\ UNCHANGED <<durable, policy, turn, fx, job, stopper, reply, rec, up, ghosts, bounds>>

TaskFiled ==
  /\ TaskAt("filing") /\ reply # "none"
  /\ reply' = "none"
  /\ CASE reply = "pending" -> task' = [task EXCEPT !.pc = "action", !.after = "next"]
       [] reply \in {"applied", "duplicate"} ->
            task' = [task EXCEPT !.pc = "top", !.cycle = @ + 1]
       [] OTHER -> TaskGo("exit")
  /\ UNCHANGED <<durable, turn, fx>> /\ TaskFrame

\* waitForAction: until the decision put the run back into its checks, or the
\* approval timeout.
TaskAction ==
  /\ TaskAt("action")
  /\ \/ MustStop \/ wf.lifecycle \notin Active
     \/ TRUE                                   \* approvalTimeoutMs
  /\ TaskGo("exit")
  /\ UNCHANGED <<durable, turn, fx, reply>> /\ TaskFrame
TaskDecided ==
  /\ TaskAt("action") /\ ~MustStop
  /\ wf.lifecycle = "running" /\ wf.phase = "checking"
  /\ task' = IF task.after = "prompt" THEN [task EXCEPT !.pc = "prompt"]
             ELSE [task EXCEPT !.pc = "top", !.cycle = @ + 1]
  /\ UNCHANGED <<durable, turn, fx, reply>> /\ TaskFrame

\* The catch of #launch: a run that no request ended is failed, where the
\* reducer accepts it.
TaskExit ==
  /\ TaskAt("exit")
  /\ task' = TaskOff
  /\ IF wf.stop \/ wf.pause \/ ~CanFinish THEN UNCHANGED wf ELSE wf' = Finished
  /\ UNCHANGED <<eff, leftover, turn, fx, reply>> /\ TaskFrame

TaskStep ==
  \/ TaskTop \/ TaskChecks \/ TaskNoProgress \/ TaskPrompt \/ TaskPrompted \/ TaskTurn
  \/ TaskFile \/ TaskFiled \/ TaskAction \/ TaskDecided \/ TaskExit \/ EffectStep("task")

\* The turn manager: a turn ends by itself.
TurnEnds(c) ==
  /\ up /\ turn[c] = "running"
  /\ \E t \in {"completed", "failed", "exhausted"} : turn' = [turn EXCEPT ![c] = t]
  /\ UNCHANGED <<durable, policy, task, fx, queue, job, stopper, reply, rec, up, ghosts, bounds>>

-------------------------------------------------------------------------------
(* controller.stop and controller.pause, from the request to the barrier.       *)

\* The abort signal, and cancelTurn of the turn the run asked for last.
CancelTurn == turn' = [c \in Cycles |-> IF turn[c] = "running" /\ c = wf.asked
                                          THEN "cancelled" ELSE turn[c]]
Abort == CancelTurn /\ task' = [task EXCEPT !.aborted = task.pc # "off"]
StopperTo(p, pc) == stopper' = [stopper EXCEPT ![p] = pc]
StopFrame == UNCHANGED <<leftover, policy, fx, queue, reply, rec, up, ghosts, bounds>>

StopBegin(p) ==
  /\ up /\ stopper[p] = "stop"
  /\ IF wf.lifecycle \notin Active THEN StopperTo(p, "over") /\ UNCHANGED <<wf, eff, task, turn>>
     ELSE IF wf.stop \/ CanRequestStop
       THEN /\ IF wf.stop THEN UNCHANGED <<wf, eff>> ELSE StopRequested
            /\ Abort /\ StopperTo(p, "stopping")
       ELSE StopperTo(p, "over") /\ UNCHANGED <<wf, eff, task, turn>>
  /\ UNCHANGED job /\ StopFrame

PauseBegin ==
  /\ up /\ stopper["job"] = "pause"
  /\ IF wf.pause \/ (wf.lifecycle \in Active /\ CanRequestPause)
       THEN /\ IF wf.pause THEN UNCHANGED <<wf, eff>> ELSE PauseRequested
            /\ Abort /\ StopperTo("job", "pausing")
       ELSE StopperTo("job", "over") /\ UNCHANGED <<wf, eff, task, turn>>
  /\ UNCHANGED job /\ StopFrame

\* Mutant: the wait has no limit.
WaitIdleForever(p) ==
  /\ up /\ stopper[p] \in {"stopping", "pausing"} /\ task.pc = "off"
  /\ StopperTo(p, IF stopper[p] = "stopping" THEN "stopped" ELSE "paused")
  /\ UNCHANGED <<wf, eff, task, turn, job>> /\ StopFrame

\* waitForIdle: the task ended, or thirty seconds passed and the call fails.
WaitIdle(p) ==
  /\ up /\ stopper[p] \in {"stopping", "pausing"}
  /\ \/ /\ task.pc = "off"
        /\ StopperTo(p, IF stopper[p] = "stopping" THEN "stopped" ELSE "paused")
     \/ task.pc # "off" /\ StopperTo(p, "over")
  /\ UNCHANGED <<wf, eff, task, turn, job>> /\ StopFrame

StopEnd(p) ==
  /\ up /\ stopper[p] \in {"stopped", "paused"}
  /\ IF stopper[p] = "stopped" /\ CanStop THEN Stopped
     ELSE IF stopper[p] = "paused" /\ CanPause THEN Paused
     ELSE UNCHANGED wf
  /\ StopperTo(p, "over")
  /\ UNCHANGED <<eff, task, turn, job>> /\ StopFrame

ApiStop ==
  /\ up /\ rec = "none" /\ stopper["api"] = "idle" /\ "stop" \in UserCommands
  /\ commands < MaxCommands /\ commands' = commands + 1
  /\ StopperTo("api", "stop")
  /\ UNCHANGED <<durable, policy, turn, task, fx, queue, job, reply, rec, up, ghosts, runs, crashes>>
ApiReturn ==
  /\ up /\ stopper["api"] = "over" /\ StopperTo("api", "idle")
  /\ UNCHANGED <<durable, policy, turn, task, fx, queue, job, reply, rec, up, ghosts, bounds>>

StopperStep(p) == StopBegin(p) \/ WaitIdle(p) \/ StopEnd(p)

-------------------------------------------------------------------------------
(* The project queue: runtimeCoordinator.enqueue, commandCoordinator.execute.   *)

JobGo(pc) == job' = [job EXCEPT !.pc = pc]
JobAt(pc) == up /\ job.pc = pc
JobEnds(answer) ==
  /\ job' = JobOff /\ queue' = Tail(queue)
  /\ reply' = IF Head(queue) = "file" THEN answer ELSE reply
JobFrame == UNCHANGED <<policy, stopper, rec, up, proof, sent, applied, bounds>>

\* manager.command: a command waits behind whatever the project does.
Submit(t) ==
  /\ up /\ rec = "none" /\ commands < MaxCommands
  /\ queue' = Append(queue, t) /\ commands' = commands + 1
  /\ UNCHANGED <<durable, policy, turn, task, fx, job, stopper, reply, rec, up, ghosts, runs, crashes>>

JobRefused == queue' = Tail(queue) /\ UNCHANGED <<job, reply>>

JobFile ==
  /\ up /\ job.pc = "off" /\ queue # <<>> /\ Head(queue) = "file"
  /\ IF CanChangePhase
       THEN /\ PhaseChanged("downloading", wf.asked)
            /\ job' = [pc |-> "fetch", cycle |-> task.cycle]
            /\ FxCall("job", Fetch(task.cycle)) /\ UNCHANGED <<queue, reply>>
       ELSE JobEnds("threw") /\ UNCHANGED <<wf, fx>>
  /\ UNCHANGED <<eff, leftover, turn, task, claimed>> /\ JobFrame

\* controller.start.
JobRun ==
  /\ up /\ job.pc = "off" /\ queue # <<>> /\ Head(queue) = "run"
  /\ JobRefused
  /\ IF wf.lifecycle \notin Active /\ task.pc = "off" /\ CanStartRun /\ runs < MaxRuns
       THEN /\ RunStarted
            /\ task' = Launched(FALSE, wf) /\ runs' = runs + 1
            /\ turn' = [c \in Cycles |-> "none"]
            /\ sent' = [e \in Effects |-> 0] 
            /\ proof' = "none" /\ applied' = {} /\ claimed' = {}
       ELSE UNCHANGED <<durable, task, runs, turn, ghosts>>
  /\ UNCHANGED <<policy, fx, stopper, rec, up, commands, crashes>>

\* controller.restore: a turn of the interrupted run is cancelled unless its
\* answer is already being applied.
Restored(w) ==
  /\ task' = Launched(TRUE, w)
  /\ IF w.phase = "applying" \/ w.lifecycle = "waiting_action" THEN UNCHANGED turn ELSE CancelTurn

JobResume ==
  /\ up /\ job.pc = "off" /\ queue # <<>> /\ Head(queue) = "resume"
  /\ JobRefused
  /\ IF CanResume THEN Resumed /\ Restored([wf EXCEPT !.lifecycle = wf.hold.to])
     ELSE UNCHANGED <<wf, task, turn>>
  /\ UNCHANGED <<eff, leftover, fx, claimed>> /\ JobFrame

\* Stop and pause of an active run.  "stop" of an inactive workflow is manager.stop:
\* it enters this queue behind the command that called it, and that command waits for
\* it, so the job never ends.  "pause" of one is rejected by the reducer.
JobControl ==
  /\ up /\ job.pc = "off" /\ queue # <<>> /\ Head(queue) \in {"stop", "pause"}
  /\ \/ /\ wf.lifecycle \in Active
        /\ JobGo("control") /\ StopperTo("job", Head(queue)) /\ UNCHANGED <<queue, reply>>
     \/ /\ wf.lifecycle \notin Active /\ Head(queue) = "stop"
        /\ JobGo("self") /\ UNCHANGED <<queue, reply, stopper>>
     \/ /\ wf.lifecycle \notin Active /\ Head(queue) = "pause"
        /\ JobRefused /\ UNCHANGED stopper
  /\ UNCHANGED <<durable, policy, turn, task, fx, rec, up, ghosts, bounds>>
JobControlled ==
  /\ JobAt("control") /\ stopper["job"] = "over"
  /\ StopperTo("job", "idle") /\ JobEnds("none")
  /\ UNCHANGED <<durable, policy, turn, task, fx, rec, up, ghosts, bounds>>

\* "act": the choices of the pending action (dispatchWorkflowCommand).
JobAct ==
  /\ up /\ job.pc = "off" /\ queue # <<>> /\ Head(queue) = "act"
  /\ \/ wf.action = "none" /\ JobRefused /\ UNCHANGED <<wf, eff, task, turn>>
     \/ wf.action # "none" /\ ActionStop /\ JobRefused /\ UNCHANGED <<task, turn>>
     \/ /\ wf.action = "apply" /\ CanActionFinish
        /\ ActionFinish /\ JobRefused /\ UNCHANGED <<eff, task, turn>>
     \/ /\ wf.action = "apply" /\ ActionContinue("running", "verifying")
        /\ job' = [pc |-> "verified", cycle |-> wf.cycle] /\ UNCHANGED <<eff, task, turn, queue, reply>>
     \/ /\ wf.action = "no_progress" /\ ActionContinue("running", "checking")
        /\ JobRefused /\ UNCHANGED <<eff, task, turn>>
     \/ /\ wf.action = "recovery" /\ ActionContinue("recovering", wf.phase)
        /\ JobGo("retry") /\ UNCHANGED <<eff, task, turn, queue, reply>>
  /\ UNCHANGED <<leftover, fx, claimed>> /\ JobFrame

\* The rest of "retry": RECOVERY_RESUMED and the restored executor.
JobRetry ==
  /\ JobAt("retry")
  /\ IF CanResumeRecovery THEN RecoveryResumed /\ Restored([wf EXCEPT !.lifecycle = "running"])
     ELSE UNCHANGED <<wf, task, turn>>
  /\ JobEnds("none")
  /\ UNCHANGED <<eff, leftover, fx, claimed>> /\ JobFrame

-------------------------------------------------------------------------------
(* The pipeline of one ZIP: processArtifact, resumeApproved, applyVerified.     *)

\* After the read-only effects: verified or not, a known digest, the approval
\* the mode or the policy asks for, or straight on to the apply.
JobFetched ==
  /\ JobAt("fetch") /\ fx["job"].st \in {"done", "threw"}
  /\ FxDone("job")
  /\ IF fx["job"].st = "threw" THEN JobEnds("threw") /\ UNCHANGED wf
     ELSE \/ CanFinish /\ wf' = Finished /\ JobEnds("refused")
          \/ CanFinish /\ wf' = Finished /\ JobEnds("duplicate")
          \/ CanRequireAction /\ ActionRequired("apply", job.cycle) /\ JobEnds("pending")
          \/ JobGo("verified") /\ UNCHANGED <<wf, queue, reply>>
          \/ ~CanFinish /\ JobEnds("threw") /\ UNCHANGED wf
  /\ UNCHANGED <<eff, leftover, turn, task, claimed>> /\ JobFrame

\* applyVerified: the phase, the check that no local edit is overwritten, the write.
JobApply ==
  /\ JobAt("verified")
  /\ \/ /\ CanChangePhase /\ PhaseChanged("applying", wf.asked)
        /\ FxCall("job", Apply) /\ JobGo("applying") /\ UNCHANGED <<queue, reply>>
     \/ /\ CanChangePhase /\ PhaseChanged("applying", wf.asked)
        /\ JobGo("conflict") /\ UNCHANGED <<fx, queue, reply>>
     \/ ~CanChangePhase /\ JobGo("conflict") /\ UNCHANGED <<wf, fx, queue, reply>>
  /\ UNCHANGED <<eff, leftover, turn, task, claimed>> /\ JobFrame

\* An error before the write: an approved ZIP is offered again.
JobConflict ==
  /\ JobAt("conflict")
  /\ IF Head(queue) = "act" /\ wf.lifecycle = "running"
       THEN ActionRequired("apply", job.cycle) ELSE UNCHANGED wf
  /\ JobEnds("threw")
  /\ UNCHANGED <<eff, leftover, turn, task, fx, claimed>> /\ JobFrame

\* handleApplyFailure fails the run, whatever the error was; a completed apply
\* goes back to the checks.
JobApplied ==
  /\ JobAt("applying") /\ fx["job"].st \in {"done", "threw"}
  /\ FxDone("job")
  /\ IF fx["job"].st = "done"
       THEN /\ claimed' = claimed \cup {job.cycle}
            /\ IF CanChangePhase THEN PhaseChanged("checking", wf.asked) ELSE UNCHANGED wf
            /\ IF ~CanChangePhase THEN JobEnds("threw")
               ELSE IF Head(queue) = "act" THEN JobGo("ensure") /\ UNCHANGED <<queue, reply>>
               ELSE JobEnds("applied")
       ELSE /\ IF CanFinish THEN wf' = Finished ELSE UNCHANGED wf
            /\ JobEnds("threw") /\ UNCHANGED claimed
  /\ UNCHANGED <<eff, leftover, turn, task>> /\ JobFrame

\* automationService.ensure: an approved apply restarts an executor that is gone.
JobEnsure ==
  /\ JobAt("ensure")
  /\ IF wf.lifecycle = "running" /\ task.pc = "off" THEN Restored(wf) ELSE UNCHANGED <<task, turn>>
  /\ JobEnds("none")
  /\ UNCHANGED <<durable, fx, claimed>> /\ JobFrame

JobStep ==
  \/ JobFile \/ JobRun \/ JobResume \/ JobControl \/ JobControlled \/ JobAct \/ JobRetry
  \/ JobFetched \/ JobApply \/ JobConflict \/ JobApplied \/ JobEnsure
  \/ EffectStep("job")

-------------------------------------------------------------------------------
(* Crash and recovery: WorkflowRecoveryCoordinator.restore.                     *)

Crash ==
  /\ up /\ crashes < MaxCrashes
  /\ up' = FALSE /\ crashes' = crashes + 1
  /\ task' = TaskOff /\ fx' = [p \in {"task", "job"} |-> Idle]
  /\ queue' = <<>> /\ job' = JobOff
  /\ stopper' = [p \in {"job", "api"} |-> "idle"] /\ reply' = "none" /\ rec' = "none"
  /\ IF fx["job"] = [e |-> Apply, st |-> "run"]     \* in the middle of the apply
       THEN \/ UNCHANGED ghosts
            \/ proof' = "manifest" /\ UNCHANGED <<sent, applied, claimed>>
       ELSE UNCHANGED ghosts
  /\ UNCHANGED <<durable, policy, turn, runs, commands>>

RecFrame == UNCHANGED <<leftover, policy, fx, queue, job, stopper, reply, ghosts, bounds>>

Restart ==
  /\ ~up /\ up' = TRUE
  /\ rec' = IF wf.lifecycle \in Active THEN "start" ELSE "none"
  /\ UNCHANGED <<wf, eff, turn, task>> /\ RecFrame

\* A pending action is asked again; "discard" stops the run, "ask" asks whether
\* to resume it, and only "auto" looks at its effects.
RecoverStart ==
  /\ up /\ rec = "start" /\ CanStartRecovery
  /\ LET w == RecoveryStarted(wf) IN
     IF wf.action # "none" \/ policy = "ask"
       THEN /\ wf' = [w EXCEPT !.lifecycle = "waiting_action",
                               !.action = IF wf.action # "none" THEN wf.action ELSE "recovery"]
            /\ rec' = "none"
     ELSE wf' = w /\ rec' = policy
  /\ UNCHANGED <<eff, turn, task, up>> /\ RecFrame

\* "discard": STOP_REQUESTED, then STOPPED; either may be rejected.
RecoverDiscard ==
  /\ up /\ rec = "discard" /\ rec' = "none"
  /\ LET kept == CancelPlanned(eff)
         clear == \A e \in Effects : kept[e].st \notin {"dispatched", "uncertain"}
     IN IF wf.stop THEN UNCHANGED <<wf, eff>>
        ELSE /\ eff' = kept
             /\ wf' = IF clear /\ ~leftover THEN [Ready EXCEPT !.lifecycle = "stopped"]
                      ELSE [wf EXCEPT !.stop = TRUE, !.pause = FALSE, !.hold = NoHold]
  /\ UNCHANGED <<turn, task, up>> /\ RecFrame

\* "auto": what the receipts prove.  An apply whose manifest was never written has
\* not started, and its policy "never" rejects the event that would say so.
Reconcile(e, found) ==
  /\ up /\ rec = "auto" /\ e[1] # "prompt" /\ eff[e].st \in {"dispatched", "uncertain"}
  /\ \/ /\ found = "succeeded" /\ ~Safe(e) /\ proof = "receipt"
        /\ eff' = [eff EXCEPT ![e].st = "succeeded"] /\ UNCHANGED rec
     \/ /\ found = "uncertain" /\ ~Safe(e) /\ proof = "manifest" /\ eff[e].st # "uncertain"
        /\ eff' = [eff EXCEPT ![e].st = "uncertain"] /\ UNCHANGED rec
     \/ /\ found = "not_started" /\ ~Safe(e) /\ proof = "none"
        /\ rec' = "none" /\ UNCHANGED eff
     \/ /\ found = "safe_retry" /\ Safe(e) /\ eff[e].tries < SafeLimit
        /\ eff' = [eff EXCEPT ![e].st = "planned"] /\ UNCHANGED rec
     \/ /\ found = "safe_retry" /\ Safe(e) /\ eff[e].tries >= SafeLimit
        /\ rec' = "none" /\ UNCHANGED eff
  /\ UNCHANGED <<wf, turn, task, up>> /\ RecFrame

\* recoveryDecisionForWorkflow and localEffectRecoveryDecision.
Blocked == {e \in Effects : eff[e].st \in {"dispatched", "uncertain"}}
RecoverDecide ==
  /\ up /\ rec = "auto"
  /\ \A e \in Effects : e[1] # "prompt" => eff[e].st # "dispatched"
  /\ rec' = "none"
  /\ IF Blocked = {}
       THEN RecoveryResumed /\ Restored([wf EXCEPT !.lifecycle = "running"])
       ELSE /\ ActionRequired(IF \E e \in Blocked : e[1] = "prompt" THEN "stop_only" ELSE "recovery", 0)
            /\ UNCHANGED <<task, turn>>
  /\ UNCHANGED <<eff, up>> /\ RecFrame

Recover ==
  \/ RecoverStart \/ RecoverDiscard \/ RecoverDecide
  \/ \E e \in Effects, found \in {"succeeded", "uncertain", "not_started", "safe_retry"} :
       Reconcile(e, found)

Next ==
  \/ TaskStep \/ JobStep \/ \E c \in Cycles : TurnEnds(c)
  \/ \E p \in {"job", "api"} : StopperStep(p)
  \/ PauseBegin \/ ApiStop \/ ApiReturn
  \/ \E t \in UserCommands : Submit(t)
  \/ Crash \/ Restart \/ Recover

Fairness ==
  /\ WF_vars(TaskStep) /\ WF_vars(JobStep) /\ WF_vars(Restart) /\ WF_vars(Recover)
  /\ WF_vars(PauseBegin)
  /\ \A p \in {"job", "api"} : WF_vars(StopperStep(p))

Spec == Init /\ [][Next]_vars /\ Fairness

-------------------------------------------------------------------------------
(* Properties.                                                                  *)

Kinds  == {"none", "apply", "no_progress", "recovery", "stop_only"}
Places == {"off", "top", "checks", "failed", "prompt", "prompting", "turn", "file", "filing",
           "action", "exit"}

TypeOK ==
  /\ wf \in [lifecycle : Lifecycles, phase : Phases, asked : 0..MaxCycles, action : Kinds,
             cycle : 0..MaxCycles, stop : BOOLEAN, pause : BOOLEAN,
             hold : [to : (Active \ {"paused"}) \cup {"none"}, action : Kinds]]
  /\ eff \in [Effects -> [st : Statuses, tries : 0..SafeLimit]] /\ leftover \in BOOLEAN
  /\ policy \in RestartPolicies /\ turn \in [Cycles -> TurnStates]
  /\ task \in [pc : Places, cycle : 0..MaxCycles + 1, stuck : Nat, aborted : BOOLEAN,
               after : {"next", "prompt"}]
  /\ fx \in [{"task", "job"} -> [e : Effects, st : {"idle", "guard", "plan", "dispatch", "run",
                                                   "ok", "fail", "unknown", "done", "threw"}]]
  /\ queue \in Seq(Commands \cup {"file"})
  /\ job \in [pc : {"off", "fetch", "control", "self", "retry", "verified", "applying", "conflict",
                      "ensure"}, cycle : 0..MaxCycles]
  /\ stopper \in [{"job", "api"} -> {"idle", "stop", "pause", "stopping", "pausing", "stopped",
                                     "paused", "over"}]
  /\ reply \in {"none", "threw", "refused", "duplicate", "pending", "applied"}
  /\ rec \in {"none", "start"} \cup Policies /\ up \in BOOLEAN
  /\ sent \in [Effects -> 0..2]
  /\ (wf.lifecycle = "waiting_action") <=> (wf.action # "none")
  /\ wf.lifecycle \notin Active => wf.phase = "none" /\ ~wf.pause
  /\ wf.lifecycle = "paused" => wf.hold.to # "none" /\ ~wf.pause
  /\ wf.lifecycle = "stopped" => ~wf.stop

\* No prompt is sent twice and no ZIP is written twice under one effect identity,
\* across pauses, resumes, repeated cycles, approvals, crashes and recoveries.
WritesOnce == \A e \in Effects : ~Safe(e) => sent[e] <= 1

\* A paused or a stopped workflow is quiet: nothing it started is still being
\* carried out, and nothing is left whose outcome is unknown.
QuietAtRest ==
  wf.lifecycle \in {"paused", "stopped"} =>
    /\ Barrier
    /\ \A p \in {"task", "job"} : fx[p].st \notin {"run", "ok", "fail", "unknown"}

\* Once a stop or a pause is requested no effect is dispatched, however far the
\* process that wanted it had come.
NoDispatchUnderControl ==
  [][\A e \in Effects : eff[e].st # "dispatched" /\ eff'[e].st = "dispatched"
        => ~wf.stop /\ ~wf.pause]_vars

\* Every job of the project queue ends, also the one whose caller waits for a task
\* that waits for the queue.  One job does not: the stop of a workflow without an
\* active run waits for a job that stands behind it, until the daemon ends.
QueueDrains == []<>(queue = <<>> \/ ~up \/ job.pc = "self")
===============================================================================
