-------------------------- MODULE WorkflowRunProofs --------------------------
(***************************************************************************)
(* Theorems about WorkflowRun, for any number of cycles, runs, commands    *)
(* and crashes.                                                            *)
(***************************************************************************)
EXTENDS WorkflowRun, SequenceTheorems, TLAPS

(* What a pause holds is a state the run can go on in.                      *)
HoldOK ==
  /\ wf.hold.to = "waiting_action" <=> wf.hold.action # "none"
  /\ wf.pause => wf.hold.to # "none"

(* The executor works on an effect only while it sends a prompt, in a cycle *)
(* of the run.                                                              *)
TaskOK ==
  /\ task.pc = "top" => task.cycle # 0
  /\ task.pc \notin {"off", "top"} => task.cycle \in Cycles
  /\ fx["task"].st # "idle" <=> task.pc = "prompting"
  /\ fx["task"].st # "idle" => fx["task"].e[1] = "prompt"

(* The head of the queue works on an effect only while it fetches or        *)
(* applies, and stops or pauses the run only as a control command.          *)
JobOK ==
  /\ fx["job"].st # "idle" <=> job.pc \in {"fetch", "applying"}
  /\ fx["job"].st # "idle" => fx["job"].e[1] # "prompt"
  /\ stopper["job"] # "idle" <=> job.pc = "control"
  /\ stopper["job"] = "paused" => task.pc = "off"
  /\ stopper["api"] \notin {"pause", "pausing", "paused"}
  /\ job.pc # "off" => queue # <<>>

(* The ZIP the executor waits for is in the queue once, and answered once.  *)
FileOK ==
  /\ \A i \in 1 .. Len(queue) : queue[i] = "file" => task.pc = "filing" /\ reply = "none"
  /\ \A i, j \in 1 .. Len(queue) : queue[i] = "file" /\ queue[j] = "file" => i = j
  /\ reply # "none" => task.pc = "filing"

(* Nothing else runs while the daemon is down or recovers the run.          *)
Alone ==
  /\ task.pc = "off" /\ job.pc = "off" /\ queue = <<>> /\ reply = "none"
  /\ \A p \in {"job", "api"} : stopper[p] = "idle"
RestoreOK ==
  /\ ~up => rec = "none"
  /\ ~up \/ rec # "none" => Alone
  /\ rec \in Policies => wf.lifecycle = "recovering"

(* A write that may happen has not happened, and is on record.              *)
EffectsOK ==
  /\ \A e \in Effects : ~Safe(e) /\ eff[e].st \in {"none", "planned", "failed", "cancelled"} => sent[e] = 0
  /\ \A p \in {"task", "job"} :
       /\ fx[p].st \in {"run", "ok", "fail", "unknown"} => eff[fx[p].e].st = "dispatched"
       /\ fx[p].st \in {"run", "fail"} /\ ~Safe(fx[p].e) => sent[fx[p].e] = 0

(* A request to stop or pause took back what a process was about to send.   *)
ControlOK ==
  wf.stop \/ wf.pause =>
    \A p \in {"task", "job"} : fx[p].st = "dispatch" => eff[fx[p].e].st # "planned"

(* A run is launched again only over an executor that sends nothing.        *)
Resting == task.pc \in {"off", "action", "exit"}
LaunchOK ==
  /\ wf.lifecycle \in {"paused", "stopped"} => Barrier
  /\ wf.lifecycle = "paused" => task.pc = "off"
  /\ wf.action = "recovery" => Resting
  /\ job.pc = "retry" /\ wf.lifecycle = "recovering" => Resting

IInv ==
  /\ TypeOK /\ HoldOK /\ TaskOK /\ JobOK /\ FileOK /\ RestoreOK
  /\ WritesOnce /\ EffectsOK /\ ControlOK /\ LaunchOK

-----------------------------------------------------------------------------
(* The workflow state and the events of the reducer                         *)

WfStates == [lifecycle : Lifecycles, phase : Phases, asked : 0..MaxCycles, action : Kinds,
             cycle : 0..MaxCycles, stop : BOOLEAN, pause : BOOLEAN,
             hold : [to : (Active \ {"paused"}) \cup {"none"}, action : Kinds]]

WfOK(w) ==
  /\ w \in WfStates
  /\ w.lifecycle = "waiting_action" <=> w.action # "none"
  /\ w.lifecycle \notin Active => w.phase = "none" /\ ~w.pause
  /\ w.lifecycle = "paused" => w.hold.to # "none" /\ ~w.pause
  /\ w.lifecycle = "stopped" => ~w.stop
  /\ w.hold.to = "waiting_action" <=> w.hold.action # "none"
  /\ w.pause => w.hold.to # "none"

(* No request is made, and the lifecycle and the action are these.          *)
Now(l, a) ==
  /\ WfOK(wf')
  /\ wf'.lifecycle = l /\ wf'.action = a
  /\ wf'.stop => wf.stop
  /\ wf'.pause => wf.pause

LEMMA Bounds ==
  /\ MaxCycles \in Nat \ {0} /\ SafeLimit \in Nat \ {0} /\ NoProgressLimit \in Nat \ {0}
  /\ RestartPolicies \subseteq Policies
  /\ 1 \in Cycles /\ Cycles \subseteq 0 .. MaxCycles /\ 0 \in 0 .. MaxCycles
  /\ \A c \in Cycles : c \in Nat /\ c + 1 \in 0 .. MaxCycles + 1 /\ c \in 0 .. MaxCycles + 1
  /\ \A c \in 0 .. MaxCycles + 1 : c # 0 /\ ~(c > MaxCycles) => c \in Cycles
  /\ 0 \in 0 .. MaxCycles + 1
BY WorkflowRunAssumption DEF WorkflowRunAssumption, Cycles

LEMMA ReadyOK ==
  /\ WfOK(Ready) /\ Ready.lifecycle = "ready" /\ Ready.action = "none"
  /\ Ready.stop = FALSE /\ Ready.pause = FALSE /\ Ready \in WfStates
<1>1. Ready \in WfStates
  BY Bounds DEF Ready, WfStates, NoHold, Held, Lifecycles, Phases, Kinds, Active
<1>2. /\ Ready.lifecycle = "ready" /\ Ready.action = "none" /\ Ready.phase = "none"
      /\ Ready.stop = FALSE /\ Ready.pause = FALSE
      /\ Ready.hold.to = "none" /\ Ready.hold.action = "none"
  BY DEF Ready, NoHold, Held
<1> QED
  BY <1>1, <1>2 DEF WfOK

LEMMA FinishedIs == ASSUME wf' = Finished PROVE Now("ready", "none")
BY ReadyOK DEF Finished, Now

LEMMA StoppedIs == ASSUME wf' = [Ready EXCEPT !.lifecycle = "stopped"] PROVE Now("stopped", "none")
<1>1. wf' \in WfStates
  BY ReadyOK DEF WfStates, Lifecycles
<1>2. /\ wf'.lifecycle = "stopped" /\ wf'.action = "none" /\ wf'.phase = "none"
      /\ wf'.stop = FALSE /\ wf'.pause = FALSE
      /\ wf'.hold.to = "none" /\ wf'.hold.action = "none"
  BY DEF Ready, NoHold, Held
<1> QED
  BY <1>1, <1>2 DEF Now, WfOK

LEMMA RunStartedIs == ASSUME RunStarted PROVE Now("running", "none") /\ wf'.stop = FALSE /\ wf'.pause = FALSE
<1>1. wf' = [Ready EXCEPT !.lifecycle = "running", !.phase = "checking"]
  BY DEF RunStarted
<1>2. wf' \in WfStates
  BY <1>1, ReadyOK DEF WfStates, Lifecycles, Phases
<1>3. /\ wf'.lifecycle = "running" /\ wf'.action = "none"
      /\ wf'.stop = FALSE /\ wf'.pause = FALSE
      /\ wf'.hold.to = "none" /\ wf'.hold.action = "none"
  BY <1>1 DEF Ready, NoHold, Held
<1> QED
  BY <1>2, <1>3 DEF Now, WfOK, Active

LEMMA ActionFinishIs == ASSUME WfOK(wf), ActionFinish PROVE Now("ready", "none")
<1>1. wf' = [Ready EXCEPT !.stop = wf.stop]
  BY DEF ActionFinish
<1>2. wf' \in WfStates
  BY <1>1, ReadyOK DEF WfStates, WfOK
<1>3. /\ wf'.lifecycle = "ready" /\ wf'.action = "none" /\ wf'.phase = "none"
      /\ wf'.stop = wf.stop /\ wf'.pause = FALSE
      /\ wf'.hold.to = "none" /\ wf'.hold.action = "none"
  BY <1>1 DEF Ready, NoHold, Held
<1> QED
  BY <1>2, <1>3 DEF Now, WfOK

LEMMA PhaseIs ==
  ASSUME WfOK(wf), NEW p \in Phases, NEW c \in 0 .. MaxCycles, CanChangePhase, PhaseChanged(p, c)
  PROVE  Now("running", "none")
<1>1. wf' = [wf EXCEPT !.phase = p, !.asked = c] /\ wf.lifecycle = "running"
  BY DEF PhaseChanged, CanChangePhase
<1>2. wf' \in WfStates
  BY <1>1 DEF WfStates, WfOK
<1>3. /\ wf'.lifecycle = wf.lifecycle /\ wf'.action = wf.action
      /\ wf'.stop = wf.stop /\ wf'.pause = wf.pause /\ wf'.hold = wf.hold
  BY <1>1 DEF WfStates, WfOK
<1> QED
  BY <1>1, <1>2, <1>3 DEF Now, WfOK, Active

LEMMA ActionRequiredIs ==
  ASSUME WfOK(wf), NEW kind \in Kinds \ {"none"}, NEW c \in 0 .. MaxCycles, ActionRequired(kind, c)
  PROVE  Now("waiting_action", kind)
<1>1. wf' = [wf EXCEPT !.lifecycle = "waiting_action", !.action = kind, !.cycle = c]
  BY DEF ActionRequired
<1>2. wf' \in WfStates
  BY <1>1 DEF WfStates, WfOK, Lifecycles
<1>3. /\ wf'.lifecycle = "waiting_action" /\ wf'.action = kind
      /\ wf'.stop = wf.stop /\ wf'.pause = wf.pause /\ wf'.hold = wf.hold
  BY <1>1 DEF WfStates, WfOK
<1> QED
  BY <1>2, <1>3 DEF Now, WfOK, Active

LEMMA ActionContinueIs ==
  ASSUME WfOK(wf), NEW p \in Phases, NEW to \in {"running", "recovering"}, ActionContinue(to, p)
  PROVE  Now(to, "none")
<1>1. wf' = [wf EXCEPT !.lifecycle = to, !.action = "none", !.phase = p]
  BY DEF ActionContinue
<1>2. wf' \in WfStates
  BY <1>1 DEF WfStates, WfOK, Lifecycles, Kinds
<1>3. /\ wf'.lifecycle = to /\ wf'.action = "none"
      /\ wf'.stop = wf.stop /\ wf'.pause = wf.pause /\ wf'.hold = wf.hold
  BY <1>1 DEF WfStates, WfOK
<1> QED
  BY <1>2, <1>3 DEF Now, WfOK, Active

LEMMA ResumedIs ==
  ASSUME WfOK(wf), CanResume, Resumed
  PROVE  /\ Now(wf.hold.to, wf.hold.action)
         /\ wf.hold.to \in {"running", "waiting_action", "recovering"}
<1>1. /\ wf' = [wf EXCEPT !.lifecycle = wf.hold.to, !.action = wf.hold.action,
                         !.pause = FALSE, !.hold = NoHold]
      /\ wf.lifecycle = "paused"
  BY DEF Resumed, CanResume
<1>2. wf.hold.to \in {"running", "waiting_action", "recovering"} /\ wf.hold.action \in Kinds
  BY <1>1 DEF WfOK, WfStates, Active
<1>3. wf' \in WfStates
  BY <1>1, <1>2 DEF WfStates, WfOK, Lifecycles, NoHold, Held, Kinds
<1>4. /\ wf'.lifecycle = wf.hold.to /\ wf'.action = wf.hold.action
      /\ wf'.stop = wf.stop /\ wf'.pause = FALSE
      /\ wf'.hold.to = "none" /\ wf'.hold.action = "none"
  BY <1>1 DEF WfStates, WfOK, NoHold, Held
<1> QED
  BY <1>1, <1>2, <1>3, <1>4 DEF Now, WfOK, Active

LEMMA RecoveryResumedIs == ASSUME WfOK(wf), CanResumeRecovery, RecoveryResumed PROVE Now("running", "none")
<1>1. wf' = [wf EXCEPT !.lifecycle = "running"] /\ wf.lifecycle = "recovering"
  BY DEF RecoveryResumed, CanResumeRecovery
<1>2. wf' \in WfStates
  BY <1>1 DEF WfStates, WfOK, Lifecycles
<1>3. /\ wf'.lifecycle = "running" /\ wf'.action = wf.action
      /\ wf'.stop = wf.stop /\ wf'.pause = wf.pause /\ wf'.hold = wf.hold
  BY <1>1 DEF WfStates, WfOK
<1> QED
  BY <1>1, <1>2, <1>3 DEF Now, WfOK, Active

LEMMA PausedIs == ASSUME WfOK(wf), CanPause, Paused PROVE Now("paused", "none")
<1>1. /\ wf' = [wf EXCEPT !.lifecycle = "paused", !.action = "none", !.pause = FALSE]
      /\ wf.pause
  BY DEF Paused, CanPause
<1>2. wf' \in WfStates
  BY <1>1 DEF WfStates, WfOK, Lifecycles, Kinds
<1>3. /\ wf'.lifecycle = "paused" /\ wf'.action = "none"
      /\ wf'.stop = wf.stop /\ wf'.pause = FALSE /\ wf'.hold = wf.hold
  BY <1>1 DEF WfStates, WfOK
<1> QED
  BY <1>1, <1>2, <1>3 DEF Now, WfOK, Active

LEMMA StopRequestedIs ==
  ASSUME WfOK(wf), CanRequestStop, wf.lifecycle \in Active, StopRequested
  PROVE  /\ WfOK(wf') /\ wf'.lifecycle = wf.lifecycle /\ wf'.action = "none" /\ wf.action = "none"
         /\ eff' = CancelPlanned(eff)
<1>1. /\ wf' = [wf EXCEPT !.stop = TRUE, !.pause = FALSE, !.action = "none",
                      !.hold = IF wf.lifecycle = "paused" THEN wf.hold ELSE NoHold]
      /\ eff' = CancelPlanned(eff)
      /\ wf.lifecycle \notin {"stopped", "waiting_action"}
  BY DEF StopRequested, CanRequestStop
<1>2. NoHold \in [to : (Active \ {"paused"}) \cup {"none"}, action : Kinds]
      /\ NoHold.to = "none" /\ NoHold.action = "none"
  BY DEF NoHold, Held, Kinds
<1>3. wf' \in WfStates
  BY <1>1, <1>2 DEF WfStates, WfOK, Kinds
<1>4. /\ wf'.lifecycle = wf.lifecycle /\ wf'.action = "none" /\ wf'.pause = FALSE
      /\ wf'.hold = IF wf.lifecycle = "paused" THEN wf.hold ELSE NoHold
      /\ wf'.phase = wf.phase
  BY <1>1 DEF WfStates, WfOK
<1> QED
  BY <1>1, <1>2, <1>3, <1>4 DEF WfOK

LEMMA PauseRequestedIs ==
  ASSUME WfOK(wf), CanRequestPause, PauseRequested
  PROVE  /\ WfOK(wf') /\ wf'.lifecycle = "recovering" /\ wf'.action = "none"
         /\ eff' = CancelPlanned(eff)
<1>1. /\ wf' = [wf EXCEPT !.lifecycle = "recovering", !.action = "none", !.pause = TRUE,
                      !.hold = Held(wf.lifecycle, wf.action)]
      /\ eff' = CancelPlanned(eff)
      /\ wf.lifecycle \in {"running", "waiting_action", "recovering"}
  BY DEF PauseRequested, CanRequestPause
<1>2. wf.action \in Kinds
  BY DEF WfOK, WfStates
<1>3. /\ Held(wf.lifecycle, wf.action) \in [to : (Active \ {"paused"}) \cup {"none"}, action : Kinds]
      /\ Held(wf.lifecycle, wf.action).to = wf.lifecycle
      /\ Held(wf.lifecycle, wf.action).action = wf.action
  BY <1>1, <1>2 DEF Held, Active
<1>4. wf' \in WfStates
  BY <1>1, <1>3 DEF WfStates, WfOK, Kinds, Lifecycles
<1>5. /\ wf'.lifecycle = "recovering" /\ wf'.action = "none"
      /\ wf'.hold = Held(wf.lifecycle, wf.action)
  BY <1>1 DEF WfStates, WfOK
<1> QED
  BY <1>1, <1>3, <1>4, <1>5 DEF WfOK, Active

LEMMA RecoveryStartedIs ==
  ASSUME NEW w, WfOK(w)
  PROVE  /\ WfOK(RecoveryStarted(w)) /\ RecoveryStarted(w).lifecycle = "recovering"
         /\ RecoveryStarted(w).action = "none"
         /\ RecoveryStarted(w).stop = w.stop /\ RecoveryStarted(w).pause = w.pause
<1> DEFINE v == RecoveryStarted(w)
<1>1. v = [w EXCEPT !.lifecycle = "recovering", !.action = "none",
                    !.hold = IF w.pause THEN w.hold ELSE NoHold]
  BY DEF RecoveryStarted
<1>2. /\ NoHold \in [to : (Active \ {"paused"}) \cup {"none"}, action : Kinds]
      /\ NoHold.to = "none" /\ NoHold.action = "none"
  BY DEF NoHold, Held, Kinds
<1> HIDE DEF v
<1>3. v \in WfStates
  BY <1>1, <1>2 DEF WfStates, WfOK, Kinds, Lifecycles
<1>4. /\ v.lifecycle = "recovering" /\ v.action = "none" /\ v.stop = w.stop /\ v.pause = w.pause
      /\ v.hold = IF w.pause THEN w.hold ELSE NoHold
  BY <1>1 DEF WfStates, WfOK
<1>5. WfOK(v)
  BY <1>2, <1>3, <1>4 DEF WfOK, Active
<1> QED
  BY <1>4, <1>5 DEF v

-----------------------------------------------------------------------------
(* The parts of the invariant                                               *)

EffMap   == [Effects -> [st : Statuses, tries : 0..SafeLimit]]
TaskRecs == [pc : Places, cycle : 0..MaxCycles + 1, stuck : Nat, aborted : BOOLEAN,
             after : {"next", "prompt"}]
FxRecs   == [e : Effects, st : {"idle", "guard", "plan", "dispatch", "run",
                                "ok", "fail", "unknown", "done", "threw"}]
Workers  == {"task", "job"}
JobRecs  == [pc : {"off", "fetch", "control", "self", "retry", "verified", "applying", "conflict",
                   "ensure"}, cycle : 0..MaxCycles]
Stoppers == {"job", "api"}
StopMap  == [Stoppers -> {"idle", "stop", "pause", "stopping", "pausing", "stopped", "paused", "over"}]
Entries  == Commands \cup {"file"}
Replies  == {"none", "threw", "refused", "duplicate", "pending", "applied"}

Typing ==
  /\ eff \in EffMap /\ leftover \in BOOLEAN
  /\ policy \in RestartPolicies /\ turn \in [Cycles -> TurnStates]
  /\ task \in TaskRecs /\ fx \in [Workers -> FxRecs]
  /\ queue \in Seq(Entries) /\ job \in JobRecs /\ stopper \in StopMap
  /\ reply \in Replies /\ rec \in {"none", "start"} \cup Policies /\ up \in BOOLEAN
  /\ sent \in [Effects -> 0..2]

LEMMA Parts ==
  IInv <=> /\ WfOK(wf) /\ Typing /\ TaskOK /\ JobOK /\ FileOK /\ RestoreOK
           /\ WritesOnce /\ EffectsOK /\ ControlOK /\ LaunchOK
<1>1. TypeOK /\ HoldOK <=> WfOK(wf) /\ Typing
  BY DEF TypeOK, HoldOK, WfOK, WfStates, Typing, EffMap, TaskRecs, FxRecs, Workers, JobRecs,
     Stoppers, StopMap, Entries, Replies
<1> QED
  BY <1>1 DEF IInv

LEMMA NextParts ==
  ASSUME WfOK(wf'), Typing', TaskOK', JobOK', FileOK', RestoreOK',
         WritesOnce', EffectsOK', ControlOK', LaunchOK'
  PROVE  IInv'
<1>1. TypeOK' /\ HoldOK'
  BY DEF TypeOK, HoldOK, WfOK, WfStates, Typing, EffMap, TaskRecs, FxRecs, Workers, JobRecs,
     Stoppers, StopMap, Entries, Replies
<1> QED
  BY <1>1 DEF IInv

(* Kinds of effect.                                                         *)
LEMMA EffectKinds ==
  /\ \A c \in Cycles : /\ Prompt(c) \in Effects /\ Prompt(c)[1] = "prompt" /\ ~Safe(Prompt(c))
                       /\ Fetch(c) \in Effects /\ Fetch(c)[1] # "prompt"
  /\ Apply \in Effects /\ Apply[1] # "prompt" /\ ~Safe(Apply)
  /\ \A e \in Effects : e[1] = "prompt" => e[2] \in Cycles /\ ~Safe(e)
BY DEF Effects, Prompt, Fetch, Apply, Safe

(* What the processes may rely on while something runs.                     *)
Runs == task.pc # "off" \/ job.pc # "off" \/ queue # <<>> \/ \E p \in Stoppers : stopper[p] # "idle"

LEMMA Working ==
  ASSUME IInv, Runs
  PROVE  up /\ rec = "none"
BY Parts DEF RestoreOK, Alone, Runs, Stoppers, Typing

LEMMA RestoreFrame ==
  ASSUME up, rec = "none", UNCHANGED <<up, rec>>
  PROVE  RestoreOK'
BY DEF RestoreOK, Policies

(* The other process works on another effect.                               *)
LEMMA Apart ==
  ASSUME IInv
  PROVE  /\ fx \in [Workers -> FxRecs] /\ \A p \in Workers : fx[p] \in FxRecs /\ fx[p].e \in Effects
         /\ fx["task"].st # "idle" /\ fx["job"].st # "idle" => fx["task"].e # fx["job"].e
<1>1. fx \in [Workers -> FxRecs]
  BY Parts DEF Typing
<1>2. \A p \in Workers : fx[p] \in FxRecs /\ fx[p].e \in Effects
  BY <1>1 DEF FxRecs
<1>3. fx["task"].st # "idle" /\ fx["job"].st # "idle" => fx["task"].e # fx["job"].e
  BY Parts DEF TaskOK, JobOK
<1> QED
  BY <1>1, <1>2, <1>3

-----------------------------------------------------------------------------
(* The write-ahead protocol of an effect                                    *)

(* How a step of it may change the effect of process p: the other process   *)
(* sees nothing of it.                                                      *)
LEMMA FxIs ==
  ASSUME IInv, NEW p \in Workers, NEW s, FxTo(p, s),
         s \in {"plan", "dispatch", "run", "ok", "fail", "unknown", "done", "threw"},
         fx[p].st # "idle"
  PROVE  /\ fx' \in [Workers -> FxRecs] /\ fx'[p].st = s /\ fx'[p].e = fx[p].e
         /\ \A q \in Workers : q # p => fx'[q] = fx[q]
         /\ \A q \in Workers : fx'[q].st # "idle" <=> fx[q].st # "idle"
         /\ \A q \in Workers : fx'[q].e = fx[q].e
<1>1. fx' = [fx EXCEPT ![p].st = s] /\ fx \in [Workers -> FxRecs] /\ fx[p] \in FxRecs
  BY Apart DEF FxTo
<1>2. [fx[p] EXCEPT !.st = s] \in FxRecs
  BY <1>1 DEF FxRecs
<1>3. [fx[p] EXCEPT !.st = s].st = s /\ [fx[p] EXCEPT !.st = s].e = fx[p].e
  BY <1>1 DEF FxRecs
<1>4. fx'[p] = [fx[p] EXCEPT !.st = s] /\ \A q \in Workers : q # p => fx'[q] = fx[q]
  BY <1>1
<1>5. fx' \in [Workers -> FxRecs]
  BY <1>1, <1>2
<1> QED
  BY <1>3, <1>4, <1>5

(* A step of an effect leaves everything else as it is.                     *)
EffectFrame == UNCHANGED <<wf, leftover, policy, task, queue, job, stopper, reply, rec, up>>

LEMMA EffectKeeps ==
  ASSUME IInv, NEW p \in Workers, NEW s, FxTo(p, s),
         s \in {"plan", "dispatch", "run", "ok", "fail", "unknown", "done", "threw"},
         fx[p].st # "idle", up, EffectFrame,
         eff' \in EffMap, turn' \in [Cycles -> TurnStates], sent' \in [Effects -> 0..2],
         \A e \in Effects : e # fx[p].e => eff'[e] = eff[e] /\ sent'[e] = sent[e],
         ~Safe(fx[p].e) => sent'[fx[p].e] <= 1,
         ~Safe(fx[p].e) /\ eff'[fx[p].e].st \in {"none", "planned", "failed", "cancelled"} => sent'[fx[p].e] = 0,
         s \in {"run", "ok", "fail", "unknown"} => eff'[fx[p].e].st = "dispatched",
         s \in {"run", "fail"} /\ ~Safe(fx[p].e) => sent'[fx[p].e] = 0,
         s = "dispatch" => ~wf.stop /\ ~wf.pause,
         wf.lifecycle \in {"paused", "stopped"} =>
           eff'[fx[p].e].st \notin {"planned", "dispatched", "uncertain"}
  PROVE  IInv'
<1>1. /\ fx' \in [Workers -> FxRecs] /\ fx'[p].st = s /\ fx'[p].e = fx[p].e
      /\ \A q \in Workers : q # p => fx'[q] = fx[q]
      /\ \A q \in Workers : fx'[q].st # "idle" <=> fx[q].st # "idle"
      /\ \A q \in Workers : fx'[q].e = fx[q].e
  BY FxIs
<1>2. /\ UNCHANGED <<wf, leftover, policy, task, queue, job, stopper, reply, rec, up>>
      /\ "task" \in Workers /\ "job" \in Workers
  BY DEF EffectFrame, Workers
<1>3. WfOK(wf')
  BY <1>2, Parts
<1>4. Typing'
  BY <1>1, <1>2, Parts DEF Typing
<1>5. TaskOK'
  BY <1>1, <1>2, Parts DEF TaskOK
<1>6. JobOK'
  BY <1>1, <1>2, Parts DEF JobOK
<1>7. FileOK'
  BY <1>2, Parts DEF FileOK
<1>8. RestoreOK'
  <2>1. Runs
    BY Parts DEF TaskOK, JobOK, Runs, Workers
  <2> QED
    BY <1>2, <2>1, Working, RestoreFrame
<1>9. WritesOnce'
  BY Parts DEF WritesOnce
<1>10. \A q \in Workers : q # p /\ fx[q].st # "idle" => fx[q].e # fx[p].e /\ fx[q].e \in Effects
  BY Apart DEF Workers
<1>11. EffectsOK'
  <2>1. \A e \in Effects : ~Safe(e) /\ eff'[e].st \in {"none", "planned", "failed", "cancelled"} => sent'[e] = 0
    BY Parts DEF EffectsOK
  <2>2. ASSUME NEW q \in Workers
        PROVE  /\ fx'[q].st \in {"run", "ok", "fail", "unknown"} => eff'[fx'[q].e].st = "dispatched"
               /\ fx'[q].st \in {"run", "fail"} /\ ~Safe(fx'[q].e) => sent'[fx'[q].e] = 0
    <3>1. CASE q = p
      BY <1>1, <3>1
    <3>2. CASE q # p
      BY <1>1, <1>10, <3>2, Parts DEF EffectsOK, Workers
    <3> QED
      BY <3>1, <3>2
  <2> QED
    BY <2>1, <2>2 DEF EffectsOK, Workers
<1>12. ControlOK'
  <2> SUFFICES ASSUME wf.stop \/ wf.pause, NEW q \in Workers, fx'[q].st = "dispatch"
               PROVE  eff'[fx'[q].e].st # "planned"
    BY <1>2 DEF ControlOK, Workers
  <2>1. q # p
    BY <1>1
  <2> QED
    BY <1>1, <1>10, <2>1, Parts DEF ControlOK, Workers
<1>13. LaunchOK'
  <2>1. wf.lifecycle \in {"paused", "stopped"} => Barrier'
    BY <1>2, Parts DEF LaunchOK, Barrier, Unsettled
  <2> QED
    BY <1>2, <2>1, Parts DEF LaunchOK, Resting
<1> QED
  BY <1>3, <1>4, <1>5, <1>6, <1>7, <1>8, <1>9, <1>11, <1>12, <1>13, NextParts

(* What is on record of the effect of a process.                            *)
LEMMA EffectIs ==
  ASSUME IInv, NEW p \in Workers
  PROVE  /\ fx[p].e \in Effects
         /\ eff \in EffMap /\ eff[fx[p].e].st \in Statuses /\ eff[fx[p].e].tries \in 0 .. SafeLimit
         /\ turn \in [Cycles -> TurnStates]
         /\ sent \in [Effects -> 0..2] /\ sent[fx[p].e] \in 0 .. 2
         /\ ~Safe(fx[p].e) => sent[fx[p].e] <= 1
         /\ ~Safe(fx[p].e) /\ eff[fx[p].e].st \in {"none", "planned", "failed", "cancelled"} => sent[fx[p].e] = 0
         /\ fx[p].st \in {"run", "ok", "fail", "unknown"} => eff[fx[p].e].st = "dispatched"
         /\ fx[p].st \in {"run", "fail"} /\ ~Safe(fx[p].e) => sent[fx[p].e] = 0
         /\ wf.lifecycle \in {"paused", "stopped"} =>
              eff[fx[p].e].st \notin {"planned", "dispatched", "uncertain"}
<1>1. fx[p].e \in Effects
  BY Apart
<1>2. eff \in EffMap /\ turn \in [Cycles -> TurnStates] /\ sent \in [Effects -> 0..2]
  BY Parts DEF Typing
<1>3. eff[fx[p].e].st \in Statuses /\ eff[fx[p].e].tries \in 0 .. SafeLimit
  BY <1>1, <1>2 DEF EffMap
<1>4. /\ ~Safe(fx[p].e) => sent[fx[p].e] <= 1
      /\ ~Safe(fx[p].e) /\ eff[fx[p].e].st \in {"none", "planned", "failed", "cancelled"} => sent[fx[p].e] = 0
      /\ fx[p].st \in {"run", "ok", "fail", "unknown"} => eff[fx[p].e].st = "dispatched"
      /\ fx[p].st \in {"run", "fail"} /\ ~Safe(fx[p].e) => sent[fx[p].e] = 0
  BY <1>1, Parts DEF WritesOnce, EffectsOK, Workers
<1>5. wf.lifecycle \in {"paused", "stopped"} =>
        eff[fx[p].e].st \notin {"planned", "dispatched", "uncertain"}
  BY <1>1, Parts DEF LaunchOK, Barrier, Unsettled
<1> QED
  BY <1>1, <1>2, <1>3, <1>4, <1>5

LEMMA EffectGuardKeeps ==
  ASSUME IInv, NEW p \in Workers, EffectGuard(p)
  PROVE  IInv'
<1>1. /\ FxAt(p, "guard")
      /\ UNCHANGED <<durable, policy, turn, task, queue, job, stopper, reply, rec, up, ghosts, bounds>>
      /\ \E s \in {"plan", "dispatch", "done", "threw"} :
           FxTo(p, s) /\ (s = "dispatch" => ~wf.stop /\ ~wf.pause)
  BY DEF EffectGuard
<1>2. fx[p].st # "idle" /\ up
  BY <1>1 DEF FxAt
<1>3. EffectFrame /\ eff' = eff /\ turn' = turn /\ sent' = sent
  BY <1>1 DEF EffectFrame, durable, ghosts
<1>4. PICK s \in {"plan", "dispatch", "done", "threw"} :
           FxTo(p, s) /\ (s = "dispatch" => ~wf.stop /\ ~wf.pause)
  BY <1>1
<1> QED
  BY <1>2, <1>3, <1>4, EffectIs, EffectKeeps

LEMMA EffectPlanKeeps ==
  ASSUME IInv, NEW p \in Workers, EffectPlan(p)
  PROVE  IInv'
<1>1. /\ FxAt(p, "plan") /\ UNCHANGED <<wf, turn, ghosts>> /\ EffectFrame
  BY DEF EffectPlan, EffectFrame
<1>2. fx[p].st # "idle" /\ up /\ turn' = turn /\ sent' = sent
  BY <1>1 DEF FxAt, ghosts
<1>3. CASE CanPlan(fx[p].e)
  <2>1. eff' = [eff EXCEPT ![fx[p].e].st = "planned"] /\ FxTo(p, "dispatch")
    BY <1>3 DEF EffectPlan
  <2>2. /\ eff' \in EffMap /\ eff'[fx[p].e].st = "planned"
        /\ \A e \in Effects : e # fx[p].e => eff'[e] = eff[e]
    BY <2>1, EffectIs DEF EffMap, Statuses
  <2>3. /\ ~wf.stop /\ ~wf.pause /\ wf.lifecycle \in {"running", "recovering"}
        /\ eff[fx[p].e].st = "none"
    BY <1>3 DEF CanPlan
  <2> QED
    BY <1>1, <1>2, <2>1, <2>2, <2>3, EffectIs, EffectKeeps
<1>4. CASE ~CanPlan(fx[p].e)
  <2>1. FxTo(p, "threw") /\ eff' = eff
    BY <1>4 DEF EffectPlan
  <2> QED
    BY <1>1, <1>2, <2>1, EffectIs, EffectKeeps
<1> QED
  BY <1>3, <1>4

LEMMA EffectDispatchKeeps ==
  ASSUME IInv, NEW p \in Workers, EffectDispatch(p)
  PROVE  IInv'
<1>1. /\ FxAt(p, "dispatch") /\ UNCHANGED <<wf, turn, ghosts>> /\ EffectFrame
  BY DEF EffectDispatch, EffectFrame
<1>2. fx[p].st # "idle" /\ up /\ turn' = turn /\ sent' = sent
  BY <1>1 DEF FxAt, ghosts
<1>3. CASE CanDispatch(fx[p].e)
  <2> DEFINE more == IF eff[fx[p].e].tries < SafeLimit THEN eff[fx[p].e].tries + 1
                     ELSE eff[fx[p].e].tries
  <2>1. eff' = [eff EXCEPT ![fx[p].e] = [st |-> "dispatched", tries |-> more]] /\ FxTo(p, "run")
    BY <1>3 DEF EffectDispatch
  <2>2. more \in 0 .. SafeLimit
    BY EffectIs, Bounds
  <2> HIDE DEF more
  <2>3. [st |-> "dispatched", tries |-> more] \in [st : Statuses, tries : 0 .. SafeLimit]
    BY <2>2 DEF Statuses
  <2>4. /\ eff' \in EffMap /\ eff'[fx[p].e].st = "dispatched"
        /\ \A e \in Effects : e # fx[p].e => eff'[e] = eff[e]
    BY <2>1, <2>3, EffectIs DEF EffMap
  <2>5. wf.lifecycle \in {"running", "recovering"} /\ eff[fx[p].e].st = "planned"
    BY <1>3 DEF CanDispatch
  <2> QED
    BY <1>1, <1>2, <2>1, <2>4, <2>5, EffectIs, EffectKeeps
<1>4. CASE ~CanDispatch(fx[p].e)
  <2>1. FxTo(p, "threw") /\ eff' = eff
    BY <1>4 DEF EffectDispatch
  <2> QED
    BY <1>1, <1>2, <2>1, EffectIs, EffectKeeps
<1> QED
  BY <1>3, <1>4

LEMMA CarryIs ==
  ASSUME IInv, NEW e \in Effects, Carry(e)
  PROVE  /\ sent' \in [Effects -> 0..2] /\ turn' \in [Cycles -> TurnStates]
         /\ \A d \in Effects : d # e => sent'[d] = sent[d]
         /\ ~Safe(e) /\ sent[e] = 0 => sent'[e] = 1
<1>1. sent \in [Effects -> 0..2] /\ turn \in [Cycles -> TurnStates]
  BY Parts DEF Typing
<1>2. /\ sent' = [sent EXCEPT ![e] = IF Safe(e) \/ sent[e] = 2 THEN sent[e] ELSE sent[e] + 1]
      /\ turn' = IF e[1] = "prompt" THEN [turn EXCEPT ![e[2]] = "running"] ELSE turn
  BY DEF Carry
<1>3. (IF Safe(e) \/ sent[e] = 2 THEN sent[e] ELSE sent[e] + 1) \in 0 .. 2
  BY <1>1
<1>4. /\ sent' \in [Effects -> 0..2]
      /\ \A d \in Effects : d # e => sent'[d] = sent[d]
      /\ ~Safe(e) /\ sent[e] = 0 => sent'[e] = 1
  BY <1>1, <1>2, <1>3
<1>5. turn' \in [Cycles -> TurnStates]
  BY <1>1, <1>2 DEF TurnStates
<1> QED
  BY <1>4, <1>5

LEMMA EffectExecuteKeeps ==
  ASSUME IInv, NEW p \in Workers, EffectExecute(p)
  PROVE  IInv'
<1>1. FxAt(p, "run") /\ UNCHANGED durable /\ EffectFrame
  BY DEF EffectExecute, EffectFrame, durable
<1>2. fx[p].st = "run" /\ up /\ eff' = eff
  BY <1>1 DEF FxAt, durable
<1>3. eff[fx[p].e].st = "dispatched" /\ (~Safe(fx[p].e) => sent[fx[p].e] = 0)
  BY <1>2, EffectIs
<1>4. CASE Carry(fx[p].e) /\ FxTo(p, "ok")
  <2>1. /\ sent' \in [Effects -> 0..2] /\ turn' \in [Cycles -> TurnStates]
        /\ \A d \in Effects : d # fx[p].e => sent'[d] = sent[d]
        /\ ~Safe(fx[p].e) => sent'[fx[p].e] = 1
    BY <1>3, <1>4, CarryIs, EffectIs
  <2>2. wf.lifecycle \notin {"paused", "stopped"}
    BY <1>3, EffectIs
  <2>3. \A d \in Effects : d # fx[p].e => eff'[d] = eff[d]
    BY <1>2
  <2>4. FxTo(p, "ok") /\ eff' \in EffMap
    BY <1>2, <1>4, EffectIs
  <2> QED
    BY <1>1, <1>2, <1>3, <2>1, <2>2, <2>3, <2>4, EffectKeeps
<1>5. CASE Carry(fx[p].e) /\ FxTo(p, "unknown")
  <2>1. /\ sent' \in [Effects -> 0..2] /\ turn' \in [Cycles -> TurnStates]
        /\ \A d \in Effects : d # fx[p].e => sent'[d] = sent[d]
        /\ ~Safe(fx[p].e) => sent'[fx[p].e] = 1
    BY <1>3, <1>5, CarryIs, EffectIs
  <2>2. wf.lifecycle \notin {"paused", "stopped"}
    BY <1>3, EffectIs
  <2>3. \A d \in Effects : d # fx[p].e => eff'[d] = eff[d]
    BY <1>2
  <2>4. FxTo(p, "unknown") /\ eff' \in EffMap
    BY <1>2, <1>5, EffectIs
  <2> QED
    BY <1>1, <1>2, <1>3, <2>1, <2>2, <2>3, <2>4, EffectKeeps
<1>6. CASE UNCHANGED <<sent, turn, applied>> /\ FxTo(p, "fail")
  <2>1. wf.lifecycle \notin {"paused", "stopped"} /\ sent' = sent /\ turn' = turn
    BY <1>3, <1>6, EffectIs
  <2> QED
    BY <1>1, <1>2, <1>3, <1>6, <2>1, EffectIs, EffectKeeps
<1> QED
  BY <1>4, <1>5, <1>6 DEF EffectExecute

LEMMA EffectSettleKeeps ==
  ASSUME IInv, NEW p \in Workers, EffectSettle(p)
  PROVE  IInv'
<1> DEFINE to == [ok |-> "succeeded", fail |-> "failed", unknown |-> "uncertain"][fx[p].st]
<1>1. up /\ fx[p].st \in {"ok", "fail", "unknown"} /\ UNCHANGED <<turn, ghosts>> /\ EffectFrame
  BY DEF EffectSettle, EffectFrame
<1>2. fx[p].st # "idle" /\ turn' = turn /\ sent' = sent
  BY <1>1 DEF ghosts
<1>3. /\ to \in {"succeeded", "failed", "uncertain"}
      /\ to = "failed" => fx[p].st = "fail"
  BY <1>1
<1>4. /\ eff[fx[p].e].st = "dispatched" /\ wf.lifecycle \notin {"paused", "stopped"}
      /\ fx[p].st = "fail" /\ ~Safe(fx[p].e) => sent[fx[p].e] = 0
  BY <1>1, EffectIs
<1>5. CASE wf.lifecycle \in Active /\ eff[fx[p].e].st = "dispatched"
  <2>1. /\ eff' = [eff EXCEPT ![fx[p].e].st = to]
        /\ FxTo(p, IF fx[p].st = "ok" THEN "done" ELSE "threw")
    BY <1>5 DEF EffectSettle
  <2> HIDE DEF to
  <2>2. /\ eff' \in EffMap /\ eff'[fx[p].e].st = to
        /\ \A e \in Effects : e # fx[p].e => eff'[e] = eff[e]
    BY <1>3, <2>1, EffectIs DEF EffMap, Statuses
  <2>4. PICK s \in {"done", "threw"} : FxTo(p, s)
    BY <2>1
  <2> QED
    BY <1>1, <1>2, <1>3, <1>4, <2>2, <2>4, EffectIs, EffectKeeps
<1>6. CASE ~(wf.lifecycle \in Active /\ eff[fx[p].e].st = "dispatched")
  <2>1. FxTo(p, "threw") /\ eff' = eff
    BY <1>6 DEF EffectSettle
  <2> QED
    BY <1>1, <1>2, <2>1, EffectIs, EffectKeeps
<1> QED
  BY <1>5, <1>6

LEMMA EffectStepKeeps == ASSUME IInv, NEW p \in Workers, EffectStep(p) PROVE IInv'
BY EffectGuardKeeps, EffectPlanKeeps, EffectDispatchKeeps, EffectExecuteKeeps, EffectSettleKeeps
   DEF EffectStep

-----------------------------------------------------------------------------
(* The executor                                                             *)

(* No request is made, the run is not put to rest, and nothing that may     *)
(* launch it comes up.                                                      *)
Eases ==
  /\ WfOK(wf')
  /\ wf'.stop => wf.stop
  /\ wf'.pause => wf.pause
  /\ wf'.lifecycle \in {"paused", "stopped"} => wf'.lifecycle = wf.lifecycle
  /\ wf'.lifecycle = "recovering" => wf.lifecycle = "recovering"
  /\ wf'.action = "recovery" => wf.action = "recovery"

LEMMA EasesIs ==
  ASSUME IInv
  PROVE  /\ UNCHANGED wf => Eases
         /\ Now("running", "none") => Eases
         /\ Now("ready", "none") => Eases
         /\ \A k \in Kinds \ {"recovery"} : Now("waiting_action", k) => Eases
BY Parts DEF Eases, Now

LEMMA TaskMove ==
  ASSUME IInv, Eases, task' \in TaskRecs,
         UNCHANGED <<eff, leftover, policy, turn, fx, queue, job, stopper, reply, rec, up, sent>>,
         task.pc \notin {"off", "prompting", "filing"}, task'.pc \notin {"prompting", "filing"},
         task'.pc = "top" => task'.cycle # 0,
         task'.pc \notin {"off", "top"} => task'.cycle \in Cycles,
         wf.lifecycle # "running" /\ task.pc \in {"action", "exit"} => task'.pc \in {"off", "action", "exit"}
  PROVE  IInv'
<1>1. WfOK(wf')
  BY DEF Eases
<1>2. Typing'
  BY Parts DEF Typing
<1>3. TaskOK'
  BY Parts DEF TaskOK
<1>4. JobOK'
  BY Parts DEF JobOK
<1>5. FileOK'
  BY Parts DEF FileOK
<1>6. RestoreOK'
  BY Working, RestoreFrame DEF Runs
<1>7. WritesOnce' /\ EffectsOK'
  BY Parts DEF WritesOnce, EffectsOK
<1>8. ControlOK'
  BY Parts DEF ControlOK, Eases
<1>9. LaunchOK'
  <2>1. wf'.lifecycle \in {"paused", "stopped"} => Barrier'
    BY Parts DEF LaunchOK, Eases, Barrier, Unsettled
  <2>2. wf'.lifecycle # "paused"
    BY Parts DEF LaunchOK, Eases
  <2>3. wf'.action = "recovery" => Resting'
    <3>1. wf'.action = "recovery" => wf.action = "recovery" /\ wf.lifecycle = "waiting_action"
      BY Parts DEF Eases, WfOK
    <3> QED
      BY <3>1, Parts DEF LaunchOK, Resting
  <2>4. job.pc = "retry" /\ wf'.lifecycle = "recovering" => Resting'
    BY Parts DEF LaunchOK, Eases, Resting
  <2> QED
    BY <2>1, <2>2, <2>3, <2>4 DEF LaunchOK
<1> QED
  BY <1>1, <1>2, <1>3, <1>4, <1>5, <1>6, <1>7, <1>8, <1>9, NextParts

LEMMA TaskIs ==
  ASSUME IInv
  PROVE  /\ task \in TaskRecs /\ WfOK(wf)
         /\ task.pc = "top" => task.cycle \in 0 .. MaxCycles + 1 /\ task.cycle # 0
         /\ task.pc \notin {"off", "top"} => task.cycle \in Cycles
         /\ TaskOff \in TaskRecs /\ TaskOff.pc = "off"
<1>1. task \in TaskRecs /\ WfOK(wf) /\ TaskOK
  BY Parts DEF Typing
<1>2. task.cycle \in 0 .. MaxCycles + 1
  BY <1>1 DEF TaskRecs
<1>3. TaskOff \in TaskRecs /\ TaskOff.pc = "off"
  BY Bounds DEF TaskOff, TaskRecs, Places
<1> QED
  BY <1>1, <1>2, <1>3 DEF TaskOK

LEMMA TaskGoIs ==
  ASSUME IInv, NEW pc \in Places, TaskGo(pc)
  PROVE  task' \in TaskRecs /\ task'.pc = pc /\ task'.cycle = task.cycle
<1>1. task \in TaskRecs /\ task' = [task EXCEPT !.pc = pc]
  BY TaskIs DEF TaskGo
<1> QED
  BY <1>1 DEF TaskRecs

(* The steps that move only the executor and the workflow.                  *)
TaskOnly == UNCHANGED <<eff, leftover, policy, turn, fx, queue, job, stopper, reply, rec, up, sent>>

(* A thrown error, or a run that must stop.                                 *)
LEMMA ToExit ==
  ASSUME IInv, Eases, TaskOnly, TaskGo("exit"), task.pc \notin {"off", "prompting", "filing"},
         task.pc = "top" => task.cycle \in Cycles
  PROVE  IInv'
<1>1. task' \in TaskRecs /\ task'.pc = "exit" /\ task'.cycle = task.cycle
  BY TaskGoIs DEF Places
<1>2. task'.cycle \in Cycles
  BY <1>1, TaskIs
<1> QED
  BY <1>1, <1>2, TaskMove DEF TaskOnly

LEMMA ToOff ==
  ASSUME IInv, Eases, TaskOnly, task' = TaskOff, task.pc \notin {"off", "prompting", "filing"}
  PROVE  IInv'
BY TaskIs, TaskMove DEF TaskOnly

LEMMA TaskTopKeeps == ASSUME IInv, TaskTop PROVE IInv'
<1>1. task.pc = "top" /\ TaskOnly
  BY DEF TaskTop, TaskAt, TaskFrame, TaskOnly, ghosts
<1>2. task.cycle \in 0 .. MaxCycles + 1 /\ task.cycle # 0
  BY <1>1, TaskIs
<1>3. CASE task.cycle > MaxCycles
  <2>1. task' = TaskOff /\ UNCHANGED wf
    BY <1>3 DEF TaskTop
  <2> QED
    BY <1>1, <2>1, EasesIs, ToOff
<1>4. CASE ~(task.cycle > MaxCycles) /\ (MustStop \/ ~CanChangePhase)
  <2>1. TaskGo("exit") /\ UNCHANGED wf
    BY <1>4 DEF TaskTop
  <2> QED
    BY <1>1, <1>2, <1>4, <2>1, Bounds, EasesIs, ToExit
<1>5. CASE ~(task.cycle > MaxCycles) /\ ~MustStop /\ CanChangePhase
  <2>1. PhaseChanged("checking", 0) /\ TaskGo("checks")
    BY <1>5 DEF TaskTop
  <2>2. Eases
    <3>1. "checking" \in Phases
      BY DEF Phases
    <3> QED
      BY <1>5, <2>1, <3>1, TaskIs, Bounds, PhaseIs, EasesIs
  <2>3. task' \in TaskRecs /\ task'.pc = "checks" /\ task'.cycle = task.cycle
    BY <2>1, TaskGoIs DEF Places
  <2> QED
    BY <1>1, <1>2, <1>5, <2>2, <2>3, Bounds, TaskMove DEF TaskOnly
<1> QED
  BY <1>3, <1>4, <1>5

LEMMA TaskChecksKeeps == ASSUME IInv, TaskChecks PROVE IInv'
<1>1. task.pc = "checks" /\ TaskOnly
  BY DEF TaskChecks, TaskAt, TaskFrame, TaskOnly, ghosts
<1>2. CASE TaskGo("exit") /\ UNCHANGED wf
  BY <1>1, <1>2, EasesIs, ToExit
<1>3. CASE wf' = Finished /\ task' = TaskOff
  BY <1>1, <1>3, FinishedIs, EasesIs, ToOff
<1>4. ASSUME NEW n \in Nat, task' = [task EXCEPT !.pc = "failed", !.stuck = n], UNCHANGED wf
      PROVE  IInv'
  <2>1. task' \in TaskRecs /\ task'.pc = "failed" /\ task'.cycle = task.cycle
    BY <1>4, TaskIs DEF TaskRecs, Places
  <2> QED
    BY <1>1, <1>4, <2>1, TaskIs, EasesIs, TaskMove DEF TaskOnly
<1>5. task.stuck \in Nat /\ task.stuck + 1 \in Nat
  BY TaskIs DEF TaskRecs
<1> QED
  BY <1>2, <1>3, <1>4, <1>5 DEF TaskChecks

LEMMA TaskNoProgressKeeps == ASSUME IInv, TaskNoProgress PROVE IInv'
<1>1. task.pc = "failed" /\ TaskOnly
  BY DEF TaskNoProgress, TaskAt, TaskFrame, TaskOnly, ghosts
<1>2. CASE TaskGo("exit") /\ UNCHANGED wf
  BY <1>1, <1>2, EasesIs, ToExit
<1>3. CASE /\ ActionRequired("no_progress", task.cycle)
           /\ task' = [task EXCEPT !.pc = "action", !.stuck = 0, !.after = "prompt"]
  <2>1. task.cycle \in 0 .. MaxCycles /\ "no_progress" \in Kinds
    BY <1>1, TaskIs, Bounds DEF Kinds
  <2>2. Eases
    BY <1>3, <2>1, TaskIs, ActionRequiredIs, EasesIs
  <2>3. task' \in TaskRecs /\ task'.pc = "action" /\ task'.cycle = task.cycle
    BY <1>3, TaskIs DEF TaskRecs, Places
  <2> QED
    BY <1>1, <2>2, <2>3, TaskIs, TaskMove DEF TaskOnly
<1> QED
  BY <1>2, <1>3 DEF TaskNoProgress

LEMMA TaskTurnKeeps == ASSUME IInv, TaskTurn PROVE IInv'
<1>1. task.pc = "turn" /\ TaskOnly
  BY DEF TaskTurn, TaskAt, TaskFrame, TaskOnly, ghosts
<1>2. CASE TaskGo("exit") /\ UNCHANGED wf
  BY <1>1, <1>2, EasesIs, ToExit
<1>3. CASE task' = [task EXCEPT !.pc = "top", !.stuck = 0] /\ UNCHANGED wf
  <2>1. task' \in TaskRecs /\ task'.pc = "top" /\ task'.cycle = task.cycle
    BY <1>3, TaskIs DEF TaskRecs, Places
  <2>2. task.cycle # 0
    BY <1>1, TaskIs DEF Cycles
  <2> QED
    BY <1>1, <1>3, <2>1, <2>2, EasesIs, TaskMove DEF TaskOnly
<1>4. CASE CanChangePhase /\ PhaseChanged("applying", task.cycle) /\ TaskGo("file")
  <2>1. task.cycle \in 0 .. MaxCycles /\ "applying" \in Phases
    BY <1>1, TaskIs, Bounds DEF Phases
  <2>2. Eases
    BY <1>4, <2>1, TaskIs, PhaseIs, EasesIs
  <2>3. task' \in TaskRecs /\ task'.pc = "file" /\ task'.cycle = task.cycle
    BY <1>4, TaskGoIs DEF Places
  <2> QED
    BY <1>1, <2>2, <2>3, TaskIs, TaskMove DEF TaskOnly
<1> QED
  BY <1>2, <1>3, <1>4 DEF TaskTurn

LEMMA TaskActionKeeps == ASSUME IInv, TaskAction PROVE IInv'
<1>1. task.pc = "action" /\ TaskOnly /\ TaskGo("exit") /\ UNCHANGED wf
  BY DEF TaskAction, TaskAt, TaskFrame, TaskOnly, ghosts, durable
<1> QED
  BY <1>1, EasesIs, ToExit

LEMMA TaskDecidedKeeps == ASSUME IInv, TaskDecided PROVE IInv'
<1>1. task.pc = "action" /\ TaskOnly /\ UNCHANGED wf /\ wf.lifecycle = "running"
  BY DEF TaskDecided, TaskAt, TaskFrame, TaskOnly, ghosts, durable
<1>2. CASE task' = [task EXCEPT !.pc = "prompt"]
  <2>1. task' \in TaskRecs /\ task'.pc = "prompt" /\ task'.cycle = task.cycle
    BY <1>2, TaskIs DEF TaskRecs, Places
  <2> QED
    BY <1>1, <2>1, TaskIs, EasesIs, TaskMove DEF TaskOnly
<1>3. CASE task' = [task EXCEPT !.pc = "top", !.cycle = task.cycle + 1]
  <2>1. task.cycle + 1 \in 0 .. MaxCycles + 1 /\ task.cycle + 1 # 0
    <3>1. task.cycle \in Cycles /\ MaxCycles \in Nat
      BY <1>1, TaskIs, Bounds
    <3> QED
      BY <3>1 DEF Cycles
  <2>2. task' \in TaskRecs /\ task'.pc = "top" /\ task'.cycle = task.cycle + 1
    BY <1>3, <2>1, TaskIs DEF TaskRecs, Places
  <2> QED
    BY <1>1, <2>1, <2>2, EasesIs, TaskMove DEF TaskOnly
<1> QED
  BY <1>2, <1>3 DEF TaskDecided

LEMMA TaskExitKeeps == ASSUME IInv, TaskExit PROVE IInv'
<1>1. task.pc = "exit" /\ TaskOnly /\ task' = TaskOff /\ (UNCHANGED wf \/ wf' = Finished)
  BY DEF TaskExit, TaskAt, TaskFrame, TaskOnly, ghosts
<1> QED
  BY <1>1, FinishedIs, EasesIs, ToOff

(* The executor enters and leaves an effect.                                *)
LEMMA FxCallIs ==
  ASSUME IInv, NEW p \in Workers, NEW e \in Effects, FxCall(p, e)
  PROVE  /\ fx' \in [Workers -> FxRecs] /\ fx'[p].st = "guard" /\ fx'[p].e = e
         /\ \A q \in Workers : q # p => fx'[q] = fx[q]
<1>1. fx' = [fx EXCEPT ![p] = [e |-> e, st |-> "guard"]] /\ fx \in [Workers -> FxRecs]
  BY Apart DEF FxCall
<1>2. [e |-> e, st |-> "guard"] \in FxRecs
  BY DEF FxRecs
<1> QED
  BY <1>1, <1>2

LEMMA FxDoneIs ==
  ASSUME IInv, NEW p \in Workers, FxDone(p)
  PROVE  /\ fx' \in [Workers -> FxRecs] /\ fx'[p].st = "idle"
         /\ \A q \in Workers : q # p => fx'[q] = fx[q]
<1>1. fx' = [fx EXCEPT ![p] = Idle] /\ fx \in [Workers -> FxRecs]
  BY Apart DEF FxDone
<1>2. Idle \in FxRecs /\ Idle.st = "idle"
  BY EffectKinds DEF FxRecs, Idle
<1> QED
  BY <1>1, <1>2

(* A process that starts or ends an effect has nothing to send.             *)
LEMMA FxParts ==
  ASSUME IInv, NEW p \in Workers, fx' \in [Workers -> FxRecs], fx'[p].st \in {"guard", "idle"},
         \A q \in Workers : q # p => fx'[q] = fx[q],
         UNCHANGED <<eff, sent>>, wf'.stop => wf.stop, wf'.pause => wf.pause
  PROVE  EffectsOK' /\ ControlOK' /\ WritesOnce'
<1>1. \A q \in Workers : fx'[q].st \in {"guard", "idle"} \/ fx'[q] = fx[q]
  OBVIOUS
<1>2. EffectsOK'
  BY <1>1, Parts DEF EffectsOK, Workers
<1>3. ControlOK'
  BY <1>1, Parts DEF ControlOK, Workers
<1>4. WritesOnce'
  BY Parts DEF WritesOnce
<1> QED
  BY <1>2, <1>3, <1>4

(* The run eases, and the executor is or comes to rest where it should.     *)
LEMMA LaunchFrame ==
  ASSUME IInv, Eases, UNCHANGED <<eff, leftover>>,
         task.pc # "off" \/ task'.pc = task.pc,
         job'.pc = "retry" => job.pc = "retry",
         wf.lifecycle # "running" /\ Resting => Resting'
  PROVE  LaunchOK'
<1>1. wf'.lifecycle \in {"paused", "stopped"} => Barrier'
  BY Parts DEF LaunchOK, Eases, Barrier, Unsettled
<1>2. wf'.lifecycle = "paused" => task'.pc = "off"
  BY Parts DEF LaunchOK, Eases
<1>3. wf'.action = "recovery" => Resting'
  <2>1. wf'.action = "recovery" => wf.action = "recovery" /\ wf.lifecycle = "waiting_action"
    BY Parts DEF Eases, WfOK
  <2> QED
    BY <2>1, Parts DEF LaunchOK
<1>4. job'.pc = "retry" /\ wf'.lifecycle = "recovering" => Resting'
  BY Parts DEF LaunchOK, Eases
<1> QED
  BY <1>1, <1>2, <1>3, <1>4 DEF LaunchOK

LEMMA TaskPromptKeeps == ASSUME IInv, TaskPrompt PROVE IInv'
<1>1. /\ task.pc \in {"failed", "prompt"} /\ up
      /\ UNCHANGED <<wf, eff, leftover, turn, reply, policy, queue, job, stopper, rec, up, sent>>
  BY DEF TaskPrompt, TaskAt, TaskFrame, ghosts, durable
<1>2. CASE TaskGo("exit") /\ UNCHANGED fx
  <2>1. TaskOnly
    BY <1>1, <1>2 DEF TaskOnly
  <2> QED
    BY <1>1, <1>2, <2>1, EasesIs, ToExit
<1>3. CASE FxCall("task", Prompt(task.cycle)) /\ TaskGo("prompting")
  <2>1. task.cycle \in Cycles
    BY <1>1, TaskIs
  <2>2. Prompt(task.cycle) \in Effects /\ Prompt(task.cycle)[1] = "prompt"
    BY <2>1, EffectKinds
  <2>3. task' \in TaskRecs /\ task'.pc = "prompting" /\ task'.cycle = task.cycle
    BY <1>3, TaskGoIs DEF Places
  <2>4. /\ fx' \in [Workers -> FxRecs] /\ fx'["task"].st = "guard"
        /\ fx'["task"].e = Prompt(task.cycle) /\ fx'["job"] = fx["job"]
        /\ \A q \in Workers : q # "task" => fx'[q] = fx[q]
    BY <1>3, <2>2, FxCallIs DEF Workers
  <2>5. WfOK(wf') /\ Eases
    BY <1>1, Parts, EasesIs
  <2>6. Typing'
    BY <1>1, <2>3, <2>4, Parts DEF Typing
  <2>7. TaskOK'
    BY <2>1, <2>2, <2>3, <2>4 DEF TaskOK
  <2>8. JobOK'
    BY <1>1, <2>4, Parts DEF JobOK
  <2>9. FileOK'
    BY <1>1, Parts DEF FileOK
  <2>10. RestoreOK'
    BY <1>1, Working, RestoreFrame DEF Runs
  <2>11. EffectsOK' /\ ControlOK' /\ WritesOnce'
    BY <1>1, <2>4, FxParts DEF Workers
  <2>12. LaunchOK'
    BY <1>1, <2>5, LaunchFrame DEF Resting
  <2> QED
    BY <2>5, <2>6, <2>7, <2>8, <2>9, <2>10, <2>11, <2>12, NextParts
<1> QED
  BY <1>2, <1>3 DEF TaskPrompt

LEMMA TaskPromptedKeeps == ASSUME IInv, TaskPrompted PROVE IInv'
<1>1. /\ task.pc = "prompting" /\ FxDone("task")
      /\ UNCHANGED <<eff, leftover, turn, reply, policy, queue, job, stopper, rec, up, sent>>
  BY DEF TaskPrompted, TaskAt, TaskFrame, ghosts, durable
<1>2. task.cycle \in Cycles /\ task.cycle \in 0 .. MaxCycles /\ "waiting_response" \in Phases
  BY <1>1, TaskIs, Bounds DEF Phases
<1>3. /\ fx' \in [Workers -> FxRecs] /\ fx'["task"].st = "idle" /\ fx'["job"] = fx["job"]
      /\ \A q \in Workers : q # "task" => fx'[q] = fx[q]
  BY <1>1, FxDoneIs DEF Workers
<1>4. /\ Eases
      /\ task' \in TaskRecs /\ task'.pc \in {"turn", "exit"} /\ task'.cycle = task.cycle
  <2>1. CASE CanChangePhase /\ PhaseChanged("waiting_response", task.cycle) /\ TaskGo("turn")
    BY <1>2, <2>1, TaskIs, PhaseIs, EasesIs, TaskGoIs DEF Places
  <2>2. CASE TaskGo("exit") /\ UNCHANGED wf
    BY <2>2, EasesIs, TaskGoIs DEF Places
  <2> QED
    BY <2>1, <2>2 DEF TaskPrompted
<1>5. WfOK(wf') /\ (wf'.stop => wf.stop) /\ (wf'.pause => wf.pause)
  BY <1>4 DEF Eases
<1>6. Typing'
  BY <1>1, <1>3, <1>4, Parts DEF Typing
<1>7. TaskOK'
  BY <1>2, <1>3, <1>4 DEF TaskOK
<1>8. JobOK'
  BY <1>1, <1>3, Parts DEF JobOK
<1>9. FileOK'
  BY <1>1, Parts DEF FileOK
<1>10. RestoreOK'
  BY <1>1, Working, RestoreFrame DEF Runs
<1>11. EffectsOK' /\ ControlOK' /\ WritesOnce'
  BY <1>1, <1>3, <1>5, FxParts DEF Workers
<1>12. LaunchOK'
  BY <1>1, <1>4, LaunchFrame DEF Resting
<1> QED
  BY <1>5, <1>6, <1>7, <1>8, <1>9, <1>10, <1>11, <1>12, NextParts

(* The project queue.                                                       *)
LEMMA QueueIs ==
  ASSUME IInv
  PROVE  /\ queue \in Seq(Entries) /\ Len(queue) \in Nat
         /\ queue # <<>> => /\ Len(queue) # 0 /\ Head(queue) = queue[1] /\ 1 \in 1 .. Len(queue)
                            /\ Head(queue) \in Entries
<1>1. queue \in Seq(Entries)
  BY Parts DEF Typing
<1>2. Len(queue) \in Nat /\ (queue # <<>> => Len(queue) # 0)
  BY <1>1, LenProperties, EmptySeq
<1>3. queue # <<>> => Head(queue) \in Entries /\ Head(queue) = queue[1]
  BY <1>1, HeadTailProperties
<1> QED
  BY <1>1, <1>2, <1>3

LEMMA Appended ==
  ASSUME IInv, NEW t \in Entries, queue' = Append(queue, t)
  PROVE  /\ queue' \in Seq(Entries) /\ queue' # <<>>
         /\ \A i \in 1 .. Len(queue') :
              \/ i \in 1 .. Len(queue) /\ queue'[i] = queue[i]
              \/ i = Len(queue) + 1 /\ queue'[i] = t
<1>1. /\ queue' \in Seq(Entries) /\ queue' # <<>> /\ Len(queue') = Len(queue) + 1
      /\ \A i \in 1 .. Len(queue) : queue'[i] = queue[i]
      /\ queue'[Len(queue) + 1] = t
  BY QueueIs, AppendProperties
<1> QED
  BY <1>1, QueueIs

LEMMA Tailed ==
  ASSUME IInv, queue # <<>>, queue' = Tail(queue)
  PROVE  /\ queue' \in Seq(Entries)
         /\ \A i \in 1 .. Len(queue') : i + 1 \in 1 .. Len(queue) /\ queue'[i] = queue[i + 1] /\ i + 1 # 1
<1>1. /\ queue' \in Seq(Entries) /\ Len(queue') = Len(queue) - 1
      /\ \A i \in 1 .. Len(queue') : queue'[i] = queue[i + 1]
  BY QueueIs, HeadTailProperties
<1> QED
  BY <1>1, QueueIs

(* The head of the queue ends: its caller is answered if it waits.          *)
LEMMA FileAfter ==
  ASSUME IInv, queue # <<>>, queue' = Tail(queue),
         Head(queue) # "file" => reply' = reply,
         task.pc = "filing" => task'.pc = "filing"
  PROVE  FileOK'
<1>1. /\ \A i \in 1 .. Len(queue') : i + 1 \in 1 .. Len(queue) /\ queue'[i] = queue[i + 1] /\ i + 1 # 1
      /\ Head(queue) = queue[1] /\ 1 \in 1 .. Len(queue)
  BY Tailed, QueueIs
<1>2. /\ \A i \in 1 .. Len(queue) : queue[i] = "file" => task.pc = "filing" /\ reply = "none"
      /\ \A i, j \in 1 .. Len(queue) : queue[i] = "file" /\ queue[j] = "file" => i = j
      /\ reply # "none" => task.pc = "filing"
  BY Parts DEF FileOK
<1>3. CASE Head(queue) = "file"
  <2>1. \A i \in 1 .. Len(queue') : queue'[i] # "file"
    BY <1>1, <1>2, <1>3
  <2>2. task'.pc = "filing"
    BY <1>1, <1>2, <1>3
  <2> QED
    BY <2>1, <2>2 DEF FileOK
<1>4. CASE Head(queue) # "file"
  <2>1. \A i \in 1 .. Len(queue') : queue'[i] = "file" => task'.pc = "filing" /\ reply' = "none"
    BY <1>1, <1>2, <1>4
  <2>2. reply' # "none" => task'.pc = "filing"
    BY <1>2, <1>4
  <2>3. ASSUME NEW i \in 1 .. Len(queue'), NEW j \in 1 .. Len(queue'), queue'[i] = "file", queue'[j] = "file"
        PROVE  i = j
    <3>1. i + 1 = j + 1
      BY <1>1, <1>2, <2>3
    <3> QED
      BY <3>1
  <2> QED
    BY <2>1, <2>2, <2>3 DEF FileOK
<1> QED
  BY <1>3, <1>4

(* The processes keep what they are sending.                                *)
LEMMA FxKept ==
  ASSUME IInv, UNCHANGED <<fx, eff, sent>>, wf'.stop => wf.stop, wf'.pause => wf.pause
  PROVE  EffectsOK' /\ ControlOK' /\ WritesOnce'
<1>1. EffectsOK' /\ WritesOnce'
  BY Parts DEF EffectsOK, WritesOnce
<1>2. ControlOK'
  BY Parts DEF ControlOK
<1> QED
  BY <1>1, <1>2

LEMMA TaskFileKeeps == ASSUME IInv, TaskFile PROVE IInv'
<1>1. /\ task.pc = "file" /\ queue' = Append(queue, "file") /\ TaskGo("filing")
      /\ UNCHANGED <<wf, eff, leftover, policy, turn, fx, job, stopper, reply, rec, up, sent>>
  BY DEF TaskFile, TaskAt, durable, ghosts
<1>2. task' \in TaskRecs /\ task'.pc = "filing" /\ task'.cycle = task.cycle /\ task.cycle \in Cycles
  BY <1>1, TaskIs, TaskGoIs DEF Places
<1>3. /\ queue' \in Seq(Entries) /\ queue' # <<>>
      /\ \A i \in 1 .. Len(queue') :
           \/ i \in 1 .. Len(queue) /\ queue'[i] = queue[i]
           \/ i = Len(queue) + 1 /\ queue'[i] = "file"
  BY <1>1, Appended DEF Entries
<1>4. WfOK(wf') /\ Eases
  BY <1>1, Parts, EasesIs
<1>5. Typing'
  BY <1>1, <1>2, <1>3, Parts DEF Typing
<1>6. TaskOK'
  BY <1>1, <1>2, Parts DEF TaskOK
<1>7. JobOK'
  BY <1>1, <1>3, Parts DEF JobOK
<1>8. FileOK'
  <2>1. reply = "none" /\ \A i \in 1 .. Len(queue) : queue[i] # "file"
    BY <1>1, Parts DEF FileOK
  <2> QED
    BY <1>1, <1>2, <1>3, <2>1 DEF FileOK
<1>9. RestoreOK'
  BY <1>1, Working, RestoreFrame DEF Runs
<1>10. EffectsOK' /\ ControlOK' /\ WritesOnce'
  BY <1>1, FxKept
<1>11. LaunchOK'
  BY <1>1, <1>4, LaunchFrame DEF Resting
<1> QED
  BY <1>4, <1>5, <1>6, <1>7, <1>8, <1>9, <1>10, <1>11, NextParts

LEMMA TaskFiledKeeps == ASSUME IInv, TaskFiled PROVE IInv'
<1>1. /\ task.pc = "filing" /\ reply # "none" /\ reply' = "none"
      /\ UNCHANGED <<wf, eff, leftover, policy, turn, fx, queue, job, stopper, rec, up, sent>>
  BY DEF TaskFiled, TaskAt, TaskFrame, durable, ghosts
<1>2. task.cycle \in Cycles /\ task.cycle + 1 \in 0 .. MaxCycles + 1 /\ task.cycle + 1 # 0
  <2>1. task.cycle \in Cycles /\ task.cycle \in Nat
    BY <1>1, TaskIs, Bounds
  <2> QED
    BY <2>1, Bounds
<1>3. /\ task' \in TaskRecs /\ task'.pc \in {"action", "top", "exit"}
      /\ task'.pc = "top" => task'.cycle # 0
      /\ task'.pc # "top" => task'.cycle \in Cycles
  <2>1. CASE task' = [task EXCEPT !.pc = "action", !.after = "next"]
    BY <1>2, <2>1, TaskIs DEF TaskRecs, Places
  <2>2. CASE task' = [task EXCEPT !.pc = "top", !.cycle = task.cycle + 1]
    BY <1>2, <2>2, TaskIs DEF TaskRecs, Places
  <2>3. CASE TaskGo("exit")
    BY <1>2, <2>3, TaskGoIs DEF Places
  <2> QED
    BY <2>1, <2>2, <2>3 DEF TaskFiled
<1>4. WfOK(wf') /\ Eases
  BY <1>1, Parts, EasesIs
<1>5. Typing'
  BY <1>1, <1>3, Parts DEF Typing, Replies
<1>6. TaskOK'
  BY <1>1, <1>3, Parts DEF TaskOK
<1>7. JobOK'
  BY <1>1, Parts DEF JobOK
<1>8. FileOK'
  <2>1. \A i \in 1 .. Len(queue) : queue[i] # "file"
    BY <1>1, Parts DEF FileOK
  <2> QED
    BY <1>1, <2>1 DEF FileOK
<1>9. RestoreOK'
  BY <1>1, Working, RestoreFrame DEF Runs
<1>10. EffectsOK' /\ ControlOK' /\ WritesOnce'
  BY <1>1, FxKept
<1>11. LaunchOK'
  BY <1>1, <1>4, LaunchFrame DEF Resting
<1> QED
  BY <1>4, <1>5, <1>6, <1>7, <1>8, <1>9, <1>10, <1>11, NextParts

LEMMA TaskStepKeeps == ASSUME IInv, TaskStep PROVE IInv'
<1>1. EffectStep("task") => IInv'
  BY EffectStepKeeps DEF Workers
<1> QED
  BY <1>1, TaskTopKeeps, TaskChecksKeeps, TaskNoProgressKeeps, TaskPromptKeeps, TaskPromptedKeeps,
     TaskTurnKeeps, TaskFileKeeps, TaskFiledKeeps, TaskActionKeeps, TaskDecidedKeeps, TaskExitKeeps
     DEF TaskStep

(* A turn ends, and a user asks for something.                              *)
LEMMA TurnEndsKeeps == ASSUME IInv, NEW c \in Cycles, TurnEnds(c) PROVE IInv'
<1>1. /\ \E t \in {"completed", "failed", "exhausted"} : turn' = [turn EXCEPT ![c] = t]
      /\ UNCHANGED <<wf, eff, leftover, policy, task, fx, queue, job, stopper, reply, rec, up, sent>>
  BY DEF TurnEnds, durable, ghosts
<1>2. turn' \in [Cycles -> TurnStates]
  BY <1>1, Parts DEF Typing, TurnStates
<1>3. WfOK(wf') /\ Eases
  BY <1>1, Parts, EasesIs
<1>4. Typing'
  BY <1>1, <1>2, Parts DEF Typing
<1>5. TaskOK' /\ JobOK' /\ FileOK'
  BY <1>1, Parts DEF TaskOK, JobOK, FileOK
<1>6. RestoreOK'
  BY <1>1, Parts DEF RestoreOK, Alone
<1>7. EffectsOK' /\ ControlOK' /\ WritesOnce'
  BY <1>1, FxKept
<1>8. LaunchOK'
  BY <1>1, <1>3, LaunchFrame DEF Resting
<1> QED
  BY <1>3, <1>4, <1>5, <1>6, <1>7, <1>8, NextParts

LEMMA SubmitKeeps == ASSUME IInv, NEW t \in UserCommands, Submit(t) PROVE IInv'
<1>1. /\ up /\ rec = "none" /\ queue' = Append(queue, t)
      /\ UNCHANGED <<wf, eff, leftover, policy, turn, task, fx, job, stopper, reply, rec, up, sent>>
  BY DEF Submit, durable, ghosts
<1>2. t \in Entries /\ t # "file"
  BY WorkflowRunAssumption DEF WorkflowRunAssumption, Entries, Commands
<1>3. /\ queue' \in Seq(Entries) /\ queue' # <<>>
      /\ \A i \in 1 .. Len(queue') :
           \/ i \in 1 .. Len(queue) /\ queue'[i] = queue[i]
           \/ i = Len(queue) + 1 /\ queue'[i] = t
  BY <1>1, <1>2, Appended
<1>4. WfOK(wf') /\ Eases
  BY <1>1, Parts, EasesIs
<1>5. Typing'
  BY <1>1, <1>3, Parts DEF Typing
<1>6. TaskOK'
  BY <1>1, Parts DEF TaskOK
<1>7. JobOK'
  BY <1>1, <1>3, Parts DEF JobOK
<1>8. FileOK'
  <2>1. \A i \in 1 .. Len(queue') : queue'[i] = "file" => i \in 1 .. Len(queue) /\ queue[i] = "file"
    BY <1>2, <1>3
  <2> QED
    BY <1>1, <2>1, Parts DEF FileOK
<1>9. RestoreOK'
  BY <1>1, RestoreFrame
<1>10. EffectsOK' /\ ControlOK' /\ WritesOnce'
  BY <1>1, FxKept
<1>11. LaunchOK'
  BY <1>1, <1>4, LaunchFrame DEF Resting
<1> QED
  BY <1>4, <1>5, <1>6, <1>7, <1>8, <1>9, <1>10, <1>11, NextParts

-----------------------------------------------------------------------------
(* The requests to stop and to pause                                        *)

LEMMA CancelIs ==
  ASSUME IInv, eff' = CancelPlanned(eff), UNCHANGED leftover
  PROVE  /\ eff' \in EffMap
         /\ \A e \in Effects : /\ eff'[e].st # "planned"
                               /\ \/ eff'[e].st = eff[e].st
                                  \/ eff[e].st = "planned" /\ eff'[e].st = "cancelled"
         /\ Barrier => Barrier'
<1>1. eff \in EffMap
  BY Parts DEF Typing
<1>2. eff' = [e \in Effects |-> IF eff[e].st = "planned" THEN [eff[e] EXCEPT !.st = "cancelled"] ELSE eff[e]]
  BY DEF CancelPlanned
<1>3. ASSUME NEW e \in Effects
      PROVE  /\ eff'[e] \in [st : Statuses, tries : 0 .. SafeLimit] /\ eff'[e].st # "planned"
             /\ eff'[e].st = eff[e].st \/ (eff[e].st = "planned" /\ eff'[e].st = "cancelled")
  <2>1. eff[e] \in [st : Statuses, tries : 0 .. SafeLimit]
    BY <1>1 DEF EffMap
  <2>2. CASE eff[e].st = "planned"
    <3>1. eff'[e] = [eff[e] EXCEPT !.st = "cancelled"]
      BY <1>2, <2>2
    <3> QED
      BY <2>1, <2>2, <3>1 DEF Statuses
  <2>3. CASE eff[e].st # "planned"
    BY <1>2, <2>1, <2>3
  <2> QED
    BY <2>2, <2>3
<1>4. eff' \in EffMap
  BY <1>2, <1>3 DEF EffMap
<1>5. Barrier => Barrier'
  BY <1>3 DEF Barrier, Unsettled
<1> QED
  BY <1>3, <1>4, <1>5

LEMMA CancelParts ==
  ASSUME IInv, eff' = CancelPlanned(eff), UNCHANGED <<leftover, fx, sent>>
  PROVE  EffectsOK' /\ ControlOK' /\ WritesOnce'
<1>1. \A e \in Effects : /\ eff'[e].st # "planned"
                         /\ \/ eff'[e].st = eff[e].st
                            \/ eff[e].st = "planned" /\ eff'[e].st = "cancelled"
  BY CancelIs
<1>2. \A p \in Workers : fx[p].e \in Effects
  BY Apart
<1>3. EffectsOK'
  <2>1. \A e \in Effects : ~Safe(e) /\ eff'[e].st \in {"none", "planned", "failed", "cancelled"} => sent'[e] = 0
    BY <1>1, Parts DEF EffectsOK
  <2>2. ASSUME NEW p \in {"task", "job"}
        PROVE  /\ fx'[p].st \in {"run", "ok", "fail", "unknown"} => eff'[fx'[p].e].st = "dispatched"
               /\ fx'[p].st \in {"run", "fail"} /\ ~Safe(fx'[p].e) => sent'[fx'[p].e] = 0
    <3>1. fx[p].st \in {"run", "ok", "fail", "unknown"} => eff[fx[p].e].st = "dispatched"
      BY Parts DEF EffectsOK
    <3>2. fx[p].e \in Effects
      BY <1>2 DEF Workers
    <3>3. fx[p].st \in {"run", "fail"} /\ ~Safe(fx[p].e) => sent[fx[p].e] = 0
      BY Parts DEF EffectsOK
    <3> QED
      BY <1>1, <3>1, <3>2, <3>3
  <2> QED
    BY <2>1, <2>2 DEF EffectsOK
<1>4. ControlOK'
  BY <1>1, <1>2 DEF ControlOK, Workers
<1>5. WritesOnce'
  BY Parts DEF WritesOnce
<1> QED
  BY <1>3, <1>4, <1>5

(* A step of a stop or a pause: the executor is told, and nothing it is     *)
(* doing changes.                                                           *)
LEMMA StopperIs ==
  ASSUME IInv, NEW p \in Stoppers, NEW s, StopperTo(p, s),
         s \in {"idle", "stop", "pause", "stopping", "pausing", "stopped", "paused", "over"}
  PROVE  stopper' \in StopMap /\ stopper'[p] = s /\ \A q \in Stoppers : q # p => stopper'[q] = stopper[q]
<1>1. stopper \in StopMap /\ stopper' = [stopper EXCEPT ![p] = s]
  BY Parts DEF Typing, StopperTo
<1> QED
  BY <1>1 DEF StopMap

LEMMA ControlMove ==
  ASSUME IInv, NEW p \in Stoppers, NEW s, StopperTo(p, s),
         s \in {"stopping", "pausing", "stopped", "paused", "over"},
         stopper[p] # "idle", p = "api" => s \notin {"pausing", "paused"},
         s = "paused" => task.pc = "off",
         UNCHANGED <<leftover, policy, fx, queue, reply, rec, up, sent, job>>,
         task' \in TaskRecs, task'.pc = task.pc, task'.cycle = task.cycle,
         turn' \in [Cycles -> TurnStates],
         WfOK(wf'), eff' \in EffMap, EffectsOK', ControlOK', WritesOnce', LaunchOK'
  PROVE  IInv'
<1>1. stopper' \in StopMap /\ stopper'[p] = s /\ \A q \in Stoppers : q # p => stopper'[q] = stopper[q]
  BY StopperIs
<1>2. Typing'
  BY <1>1, Parts DEF Typing
<1>3. TaskOK'
  BY Parts DEF TaskOK
<1>4. JobOK'
  <2>1. stopper'["job"] # "idle" <=> job'.pc = "control"
    BY <1>1, Parts DEF JobOK, Stoppers
  <2>2. stopper'["job"] = "paused" => task'.pc = "off"
    BY <1>1, Parts DEF JobOK, Stoppers
  <2>3. stopper'["api"] \notin {"pause", "pausing", "paused"}
    BY <1>1, Parts DEF JobOK, Stoppers
  <2> QED
    BY <2>1, <2>2, <2>3, Parts DEF JobOK
<1>5. FileOK'
  BY Parts DEF FileOK
<1>6. RestoreOK'
  BY Working, RestoreFrame DEF Runs
<1> QED
  BY <1>2, <1>3, <1>4, <1>5, <1>6, NextParts

(* The abort signal.                                                        *)
LEMMA CancelTurnIs == ASSUME IInv, CancelTurn PROVE turn' \in [Cycles -> TurnStates]
BY Parts DEF CancelTurn, Typing, TurnStates

LEMMA AbortIs ==
  ASSUME IInv, Abort
  PROVE  /\ task' \in TaskRecs /\ task'.pc = task.pc /\ task'.cycle = task.cycle
         /\ turn' \in [Cycles -> TurnStates]
<1>1. task \in TaskRecs /\ task' = [task EXCEPT !.aborted = task.pc # "off"]
  BY TaskIs DEF Abort
<1>2. task' \in TaskRecs /\ task'.pc = task.pc /\ task'.cycle = task.cycle
  BY <1>1 DEF TaskRecs
<1> QED
  BY <1>2, CancelTurnIs DEF Abort

LEMMA TaskTurnIs == ASSUME IInv PROVE task \in TaskRecs /\ turn \in [Cycles -> TurnStates] /\ eff \in EffMap
BY Parts DEF Typing

(* Nothing the launch relies on changes.                                    *)
LEMMA LaunchKept ==
  ASSUME IInv, UNCHANGED <<wf, eff, leftover>>, task'.pc = task.pc, job'.pc = "retry" => job.pc = "retry"
  PROVE  LaunchOK'
BY Parts DEF LaunchOK, Barrier, Unsettled, Resting

(* A step that only moves on.                                               *)
LEMMA StopOnly ==
  ASSUME IInv, NEW p \in Stoppers, NEW s, StopperTo(p, s), s \in {"stopped", "paused", "over"},
         stopper[p] # "idle", p = "api" => s # "paused", s = "paused" => task.pc = "off",
         UNCHANGED <<wf, eff, task, turn, job>>, StopFrame
  PROVE  IInv'
<1>1. UNCHANGED <<leftover, policy, fx, queue, reply, rec, up, sent>>
  BY DEF StopFrame, ghosts
<1>2. WfOK(wf') /\ EffectsOK' /\ ControlOK' /\ WritesOnce' /\ LaunchOK'
  BY <1>1, Parts, FxKept, LaunchKept
<1> QED
  BY <1>1, <1>2, TaskTurnIs, ControlMove

LEMMA StopBeginKeeps == ASSUME IInv, NEW p \in Stoppers, StopBegin(p) PROVE IInv'
<1>1. stopper[p] = "stop" /\ StopFrame /\ UNCHANGED job
  BY DEF StopBegin
<1>2. UNCHANGED <<leftover, policy, fx, queue, reply, rec, up, sent>>
  BY <1>1 DEF StopFrame, ghosts
<1>3. CASE StopperTo(p, "over") /\ UNCHANGED <<wf, eff, task, turn>>
  BY <1>1, <1>3, StopOnly
<1>4. CASE wf.stop /\ UNCHANGED <<wf, eff>> /\ Abort /\ StopperTo(p, "stopping")
  <2>1. WfOK(wf') /\ EffectsOK' /\ ControlOK' /\ WritesOnce' /\ LaunchOK'
    BY <1>1, <1>2, <1>4, Parts, FxKept, AbortIs, LaunchKept
  <2>2. eff' \in EffMap
    BY <1>4, TaskTurnIs
  <2> QED
    BY <1>1, <1>2, <1>4, <2>1, <2>2, AbortIs, ControlMove
<1>5. CASE wf.lifecycle \in Active /\ CanRequestStop /\ StopRequested /\ Abort /\ StopperTo(p, "stopping")
  <2>1. /\ WfOK(wf') /\ wf'.lifecycle = wf.lifecycle /\ wf'.action = "none"
        /\ eff' = CancelPlanned(eff)
    BY <1>5, Parts, StopRequestedIs
  <2>2. eff' \in EffMap /\ (Barrier => Barrier')
    BY <1>2, <2>1, CancelIs
  <2>3. EffectsOK' /\ ControlOK' /\ WritesOnce'
    BY <1>2, <2>1, CancelParts
  <2>4. LaunchOK'
    BY <1>1, <1>5, <2>1, <2>2, AbortIs, Parts DEF LaunchOK, Resting
  <2> QED
    BY <1>1, <1>2, <1>5, <2>1, <2>2, <2>3, <2>4, AbortIs, ControlMove
<1> QED
  BY <1>3, <1>4, <1>5 DEF StopBegin

LEMMA PauseBeginKeeps == ASSUME IInv, PauseBegin PROVE IInv'
<1>1. stopper["job"] = "pause" /\ StopFrame /\ UNCHANGED job /\ "job" \in Stoppers
  BY DEF PauseBegin, Stoppers
<1>2. UNCHANGED <<leftover, policy, fx, queue, reply, rec, up, sent>>
  BY <1>1 DEF StopFrame, ghosts
<1>3. CASE StopperTo("job", "over") /\ UNCHANGED <<wf, eff, task, turn>>
  BY <1>1, <1>3, StopOnly
<1>4. CASE UNCHANGED <<wf, eff>> /\ Abort /\ StopperTo("job", "pausing")
  <2>1. WfOK(wf') /\ EffectsOK' /\ ControlOK' /\ WritesOnce' /\ LaunchOK'
    BY <1>1, <1>2, <1>4, Parts, FxKept, AbortIs, LaunchKept
  <2>2. eff' \in EffMap
    BY <1>4, TaskTurnIs
  <2> QED
    BY <1>1, <1>2, <1>4, <2>1, <2>2, AbortIs, ControlMove
<1>5. CASE CanRequestPause /\ PauseRequested /\ Abort /\ StopperTo("job", "pausing")
  <2>1. /\ WfOK(wf') /\ wf'.lifecycle = "recovering" /\ wf'.action = "none"
        /\ eff' = CancelPlanned(eff)
    BY <1>5, Parts, PauseRequestedIs
  <2>2. eff' \in EffMap
    BY <1>2, <2>1, CancelIs
  <2>3. EffectsOK' /\ ControlOK' /\ WritesOnce'
    BY <1>2, <2>1, CancelParts
  <2>4. LaunchOK'
    <3>1. job.pc = "control"
      BY <1>1, Parts DEF JobOK
    <3> QED
      BY <1>1, <2>1, <3>1 DEF LaunchOK
  <2> QED
    BY <1>1, <1>2, <1>5, <2>1, <2>2, <2>3, <2>4, AbortIs, ControlMove
<1> QED
  BY <1>3, <1>4, <1>5 DEF PauseBegin

LEMMA WaitIdleKeeps == ASSUME IInv, NEW p \in Stoppers, WaitIdle(p) PROVE IInv'
<1>1. /\ stopper[p] \in {"stopping", "pausing"} /\ StopFrame
      /\ UNCHANGED <<wf, eff, task, turn, job>>
  BY DEF WaitIdle
<1>2. p = "api" => stopper[p] # "pausing"
  BY Parts DEF JobOK
<1>3. CASE task.pc = "off" /\ stopper[p] = "stopping" /\ StopperTo(p, "stopped")
  BY <1>1, <1>3, StopOnly
<1>4. CASE task.pc = "off" /\ stopper[p] = "pausing" /\ StopperTo(p, "paused")
  BY <1>1, <1>2, <1>4, StopOnly
<1>5. CASE StopperTo(p, "over")
  BY <1>1, <1>5, StopOnly
<1> QED
  BY <1>1, <1>3, <1>4, <1>5 DEF WaitIdle

LEMMA StopEndKeeps == ASSUME IInv, NEW p \in Stoppers, StopEnd(p) PROVE IInv'
<1>1. /\ stopper[p] \in {"stopped", "paused"} /\ StopperTo(p, "over") /\ StopFrame
      /\ UNCHANGED <<eff, task, turn, job>>
  BY DEF StopEnd
<1>2. UNCHANGED <<leftover, policy, fx, queue, reply, rec, up, sent>>
  BY <1>1 DEF StopFrame, ghosts
<1>3. CASE UNCHANGED wf
  BY <1>1, <1>3, StopOnly
<1>4. CASE CanStop /\ Stopped
  <2>1. Now("stopped", "none") /\ Barrier
    BY <1>4, StoppedIs DEF Stopped, CanStop
  <2>2. WfOK(wf') /\ EffectsOK' /\ ControlOK' /\ WritesOnce'
    BY <1>1, <1>2, <2>1, FxKept DEF Now
  <2>3. LaunchOK'
    BY <1>1, <1>2, <2>1 DEF LaunchOK, Now, Barrier, Unsettled
  <2> QED
    BY <1>1, <1>2, <2>2, <2>3, TaskTurnIs, ControlMove
<1>5. CASE stopper[p] = "paused" /\ CanPause /\ Paused
  <2>1. Now("paused", "none") /\ Barrier
    BY <1>5, Parts, PausedIs DEF CanPause
  <2>2. WfOK(wf') /\ EffectsOK' /\ ControlOK' /\ WritesOnce'
    BY <1>1, <1>2, <2>1, FxKept DEF Now
  <2>3. task.pc = "off"
    BY <1>5, Parts DEF JobOK, Stoppers
  <2>4. LaunchOK'
    BY <1>1, <1>2, <2>1, <2>3 DEF LaunchOK, Now, Barrier, Unsettled
  <2> QED
    BY <1>1, <1>2, <2>2, <2>4, TaskTurnIs, ControlMove
<1> QED
  BY <1>3, <1>4, <1>5 DEF StopEnd

(* A caller outside the queue.                                              *)
LEMMA ApiMove ==
  ASSUME IInv, NEW s \in {"stop", "idle"}, StopperTo("api", s), up, rec = "none",
         UNCHANGED <<wf, eff, leftover, policy, turn, task, fx, queue, job, reply, rec, up, sent>>
  PROVE  IInv'
<1>1. stopper' \in StopMap /\ stopper'["api"] = s /\ stopper'["job"] = stopper["job"]
  BY StopperIs DEF Stoppers
<1>2. WfOK(wf') /\ EffectsOK' /\ ControlOK' /\ WritesOnce' /\ LaunchOK'
  BY Parts, FxKept, LaunchKept
<1>3. Typing'
  BY <1>1, Parts DEF Typing
<1>4. TaskOK' /\ JobOK' /\ FileOK'
  BY <1>1, Parts DEF TaskOK, JobOK, FileOK
<1>5. RestoreOK'
  BY RestoreFrame
<1> QED
  BY <1>2, <1>3, <1>4, <1>5, NextParts

LEMMA ApiStopKeeps == ASSUME IInv, ApiStop PROVE IInv'
BY ApiMove DEF ApiStop, durable, ghosts

LEMMA ApiReturnKeeps == ASSUME IInv, ApiReturn PROVE IInv'
<1>1. stopper["api"] # "idle"
  BY DEF ApiReturn
<1>2. up /\ rec = "none"
  BY <1>1, Working DEF Runs, Stoppers
<1> QED
  BY <1>2, ApiMove DEF ApiReturn, durable, ghosts

LEMMA StopperStepKeeps == ASSUME IInv, NEW p \in Stoppers, StopperStep(p) PROVE IInv'
BY StopBeginKeeps, WaitIdleKeeps, StopEndKeeps DEF StopperStep

-----------------------------------------------------------------------------
(* The head of the project queue                                            *)

(* The head leaves the queue, with or without an answer.                    *)
JobLeaves ==
  /\ queue' = Tail(queue) /\ reply' \in Replies
  /\ Head(queue) # "file" => reply' = reply

LEMMA JobEndsIs ==
  ASSUME IInv, NEW a \in Replies, JobEnds(a)
  PROVE  JobLeaves /\ job' \in JobRecs /\ job'.pc = "off"
<1>1. JobOff \in JobRecs /\ JobOff.pc = "off"
  BY Bounds DEF JobOff, JobRecs
<1>2. reply \in Replies
  BY Parts DEF Typing
<1> QED
  BY <1>1, <1>2 DEF JobEnds, JobLeaves

LEMMA JobRefusedIs ==
  ASSUME IInv, JobRefused
  PROVE  JobLeaves /\ job' \in JobRecs /\ job'.pc = job.pc
<1>1. reply \in Replies /\ job \in JobRecs
  BY Parts DEF Typing
<1> QED
  BY <1>1 DEF JobRefused, JobLeaves

LEMMA JobGoIs ==
  ASSUME IInv, NEW pc \in {"fetch", "control", "self", "retry", "verified", "applying", "conflict",
                           "ensure"},
         JobGo(pc)
  PROVE  job' \in JobRecs /\ job'.pc = pc
<1>1. job \in JobRecs /\ job' = [job EXCEPT !.pc = pc]
  BY Parts DEF Typing, JobGo
<1> QED
  BY <1>1 DEF JobRecs

LEMMA JobMove ==
  ASSUME IInv, queue # <<>>, job.pc # "control", job' \in JobRecs, job'.pc # "control",
         \/ UNCHANGED <<queue, reply>>
         \/ JobLeaves /\ job'.pc = "off",
         UNCHANGED <<eff, leftover, policy, stopper, rec, up, sent>>,
         task' \in TaskRecs, turn' \in [Cycles -> TurnStates], TaskOK',
         task.pc = "filing" => task'.pc = "filing",
         fx' \in [Workers -> FxRecs], fx'["task"] = fx["task"],
         fx'["job"].st \in {"guard", "idle"},
         fx'["job"].st # "idle" <=> job'.pc \in {"fetch", "applying"},
         fx'["job"].st # "idle" => fx'["job"].e[1] # "prompt",
         WfOK(wf'), wf'.stop => wf.stop, wf'.pause => wf.pause, LaunchOK'
  PROVE  IInv'
<1>1. queue' \in Seq(Entries) /\ reply' \in Replies
  BY Tailed, QueueIs, Parts DEF JobLeaves, Typing
<1>2. Typing'
  BY <1>1, Parts DEF Typing
<1>3. JobOK'
  <2>1. stopper["job"] = "idle" /\ stopper["api"] \notin {"pause", "pausing", "paused"}
    BY Parts DEF JobOK
  <2> QED
    BY <2>1 DEF JobOK
<1>4. FileOK'
  <2>1. CASE UNCHANGED <<queue, reply>>
    BY <2>1, Parts DEF FileOK
  <2>2. CASE JobLeaves
    BY <2>2, FileAfter DEF JobLeaves
  <2> QED
    BY <2>1, <2>2
<1>5. RestoreOK'
  BY Working, RestoreFrame DEF Runs
<1>6. EffectsOK' /\ ControlOK' /\ WritesOnce'
  BY FxParts DEF Workers
<1> QED
  BY <1>2, <1>3, <1>4, <1>5, <1>6, NextParts

(* The executor and its effect are left alone.                              *)
LEMMA TaskKept ==
  ASSUME IInv, UNCHANGED <<task, turn>>, fx'["task"] = fx["task"]
  PROVE  task' \in TaskRecs /\ turn' \in [Cycles -> TurnStates] /\ TaskOK' /\ task'.pc = task.pc
BY TaskTurnIs, Parts DEF TaskOK

(* No effect runs outside the fetch and the apply.                          *)
LEMMA JobIdle ==
  ASSUME IInv, job.pc \notin {"fetch", "applying"}, UNCHANGED fx
  PROVE  fx' \in [Workers -> FxRecs] /\ fx'["task"] = fx["task"] /\ fx'["job"].st = "idle"
BY Parts DEF Typing, JobOK

(* A step of the pipeline of a ZIP: the run eases, the executor waits.      *)
LEMMA PipelineMove ==
  ASSUME IInv, queue # <<>>, job.pc # "control", job' \in JobRecs,
         job'.pc \notin {"control", "retry"},
         \/ UNCHANGED <<queue, reply>>
         \/ JobLeaves /\ job'.pc = "off",
         UNCHANGED <<eff, leftover, turn, task, policy, stopper, rec, up, sent>>, Eases,
         fx' \in [Workers -> FxRecs], fx'["task"] = fx["task"],
         fx'["job"].st \in {"guard", "idle"},
         fx'["job"].st # "idle" <=> job'.pc \in {"fetch", "applying"},
         fx'["job"].st # "idle" => fx'["job"].e[1] # "prompt"
  PROVE  IInv'
<1>1. task' \in TaskRecs /\ turn' \in [Cycles -> TurnStates] /\ TaskOK' /\ task'.pc = task.pc
  BY TaskKept
<1>2. WfOK(wf') /\ (wf'.stop => wf.stop) /\ (wf'.pause => wf.pause)
  BY DEF Eases
<1>3. LaunchOK'
  BY <1>1, LaunchFrame DEF Resting
<1> QED
  BY <1>1, <1>2, <1>3, JobMove

LEMMA JobFrameIs == ASSUME JobFrame PROVE UNCHANGED <<policy, stopper, rec, up, sent>>
BY DEF JobFrame

LEMMA AskedIs == ASSUME IInv PROVE wf.asked \in 0 .. MaxCycles /\ WfOK(wf)
BY Parts DEF WfOK, WfStates

LEMMA JobFileKeeps == ASSUME IInv, JobFile PROVE IInv'
<1>1. /\ job.pc = "off" /\ queue # <<>> /\ Head(queue) = "file"
      /\ UNCHANGED <<eff, leftover, turn, task, policy, stopper, rec, up, sent>>
  BY JobFrameIs DEF JobFile
<1>2. task.pc = "filing" /\ task.cycle \in Cycles /\ task.cycle \in 0 .. MaxCycles
  <2>1. task.pc = "filing"
    BY <1>1, QueueIs, Parts DEF FileOK
  <2> QED
    BY <2>1, TaskIs, Bounds
<1>3. CASE CanChangePhase
  <2>1. /\ PhaseChanged("downloading", wf.asked)
        /\ job' = [pc |-> "fetch", cycle |-> task.cycle]
        /\ FxCall("job", Fetch(task.cycle)) /\ UNCHANGED <<queue, reply>>
    BY <1>3 DEF JobFile
  <2>2. Eases
    <3>1. "downloading" \in Phases
      BY DEF Phases
    <3> QED
      BY <1>3, <2>1, <3>1, AskedIs, PhaseIs, EasesIs
  <2>3. job' \in JobRecs /\ job'.pc = "fetch"
    BY <1>2, <2>1 DEF JobRecs
  <2>4. Fetch(task.cycle) \in Effects /\ Fetch(task.cycle)[1] # "prompt"
    BY <1>2, EffectKinds
  <2>5. /\ fx' \in [Workers -> FxRecs] /\ fx'["task"] = fx["task"] /\ fx'["job"].st = "guard"
        /\ fx'["job"].e = Fetch(task.cycle)
    BY <2>1, <2>4, FxCallIs DEF Workers
  <2> QED
    BY <1>1, <2>1, <2>2, <2>3, <2>4, <2>5, PipelineMove
<1>4. CASE ~CanChangePhase
  <2>1. JobEnds("threw") /\ UNCHANGED <<wf, fx>>
    BY <1>4 DEF JobFile
  <2>2. JobLeaves /\ job' \in JobRecs /\ job'.pc = "off"
    BY <2>1, JobEndsIs DEF Replies
  <2> QED
    BY <1>1, <2>1, <2>2, EasesIs, JobIdle, PipelineMove
<1> QED
  BY <1>3, <1>4

(* What follows the effect of a job: the workflow eases and the job goes on *)
(* or ends.                                                                 *)
LEMMA AfterEffect ==
  ASSUME IInv, job.pc \in {"fetch", "applying"}, FxDone("job"), Eases, job' \in JobRecs,
         \/ UNCHANGED <<queue, reply>> /\ job'.pc \in {"verified", "ensure"}
         \/ JobLeaves /\ job'.pc = "off",
         UNCHANGED <<eff, leftover, turn, task, policy, stopper, rec, up, sent>>
  PROVE  IInv'
<1>1. queue # <<>>
  BY Parts DEF JobOK
<1>2. fx' \in [Workers -> FxRecs] /\ fx'["task"] = fx["task"] /\ fx'["job"].st = "idle"
  BY FxDoneIs DEF Workers
<1> QED
  BY <1>1, <1>2, PipelineMove

LEMMA JobFetchedKeeps == ASSUME IInv, JobFetched PROVE IInv'
<1>1. /\ job.pc = "fetch" /\ FxDone("job")
      /\ UNCHANGED <<eff, leftover, turn, task, policy, stopper, rec, up, sent>>
  BY JobFrameIs DEF JobFetched, JobAt
<1>2. \A a \in {"threw", "refused", "duplicate", "pending"} :
        JobEnds(a) => JobLeaves /\ job' \in JobRecs /\ job'.pc = "off"
  BY JobEndsIs DEF Replies
<1>3. CASE JobEnds("threw") /\ UNCHANGED wf
  BY <1>1, <1>2, <1>3, EasesIs, AfterEffect
<1>4. CASE wf' = Finished /\ JobEnds("refused")
  BY <1>1, <1>2, <1>4, FinishedIs, EasesIs, AfterEffect
<1>5. CASE wf' = Finished /\ JobEnds("duplicate")
  BY <1>1, <1>2, <1>5, FinishedIs, EasesIs, AfterEffect
<1>6. CASE ActionRequired("apply", job.cycle) /\ JobEnds("pending")
  <2>1. job.cycle \in 0 .. MaxCycles /\ "apply" \in Kinds
    BY Parts DEF Typing, JobRecs, Kinds
  <2>2. Eases
    BY <1>6, <2>1, AskedIs, ActionRequiredIs, EasesIs
  <2> QED
    BY <1>1, <1>2, <1>6, <2>2, AfterEffect
<1>7. CASE JobGo("verified") /\ UNCHANGED <<wf, queue, reply>>
  BY <1>1, <1>7, JobGoIs, EasesIs, AfterEffect
<1> QED
  BY <1>3, <1>4, <1>5, <1>6, <1>7 DEF JobFetched

LEMMA JobApplyKeeps == ASSUME IInv, JobApply PROVE IInv'
<1>1. /\ job.pc = "verified"
      /\ UNCHANGED <<eff, leftover, turn, task, policy, stopper, rec, up, sent>>
      /\ queue # <<>>
  BY JobFrameIs, Parts DEF JobApply, JobAt, JobOK
<1>2. CanChangePhase /\ PhaseChanged("applying", wf.asked) => Eases
  <2>1. "applying" \in Phases
    BY DEF Phases
  <2> QED
    BY <2>1, AskedIs, PhaseIs, EasesIs
<1>3. CASE /\ CanChangePhase /\ PhaseChanged("applying", wf.asked)
           /\ FxCall("job", Apply) /\ JobGo("applying") /\ UNCHANGED <<queue, reply>>
  <2>1. job' \in JobRecs /\ job'.pc = "applying"
    BY <1>3, JobGoIs
  <2>2. /\ fx' \in [Workers -> FxRecs] /\ fx'["task"] = fx["task"] /\ fx'["job"].st = "guard"
        /\ fx'["job"].e[1] # "prompt"
    BY <1>3, EffectKinds, FxCallIs DEF Workers
  <2> QED
    BY <1>1, <1>2, <1>3, <2>1, <2>2, PipelineMove
<1>4. CASE /\ CanChangePhase /\ PhaseChanged("applying", wf.asked)
           /\ JobGo("conflict") /\ UNCHANGED <<fx, queue, reply>>
  BY <1>1, <1>2, <1>4, JobGoIs, JobIdle, PipelineMove
<1>5. CASE JobGo("conflict") /\ UNCHANGED <<wf, fx, queue, reply>>
  BY <1>1, <1>5, EasesIs, JobGoIs, JobIdle, PipelineMove
<1> QED
  BY <1>3, <1>4, <1>5 DEF JobApply

LEMMA JobConflictKeeps == ASSUME IInv, JobConflict PROVE IInv'
<1>1. /\ job.pc = "conflict" /\ JobEnds("threw") /\ UNCHANGED fx
      /\ UNCHANGED <<eff, leftover, turn, task, policy, stopper, rec, up, sent>>
      /\ queue # <<>>
  BY JobFrameIs, Parts DEF JobConflict, JobAt, JobOK
<1>2. JobLeaves /\ job' \in JobRecs /\ job'.pc = "off"
  BY <1>1, JobEndsIs DEF Replies
<1>3. Eases
  <2>1. job.cycle \in 0 .. MaxCycles /\ "apply" \in Kinds
    BY Parts DEF Typing, JobRecs, Kinds
  <2> QED
    BY <2>1, AskedIs, ActionRequiredIs, EasesIs DEF JobConflict
<1> QED
  BY <1>1, <1>2, <1>3, JobIdle, PipelineMove

LEMMA JobAppliedKeeps == ASSUME IInv, JobApplied PROVE IInv'
<1>1. /\ job.pc = "applying" /\ FxDone("job")
      /\ UNCHANGED <<eff, leftover, turn, task, policy, stopper, rec, up, sent>>
  BY JobFrameIs DEF JobApplied, JobAt
<1>2. \A a \in {"threw", "applied"} :
        JobEnds(a) => JobLeaves /\ job' \in JobRecs /\ job'.pc = "off"
  BY JobEndsIs DEF Replies
<1>3. Eases
  <2>1. "checking" \in Phases
    BY DEF Phases
  <2> QED
    BY <2>1, AskedIs, PhaseIs, FinishedIs, EasesIs DEF JobApplied
<1>4. CASE JobEnds("threw") \/ JobEnds("applied")
  BY <1>1, <1>2, <1>3, <1>4, AfterEffect
<1>5. CASE JobGo("ensure") /\ UNCHANGED <<queue, reply>>
  BY <1>1, <1>3, <1>5, JobGoIs, AfterEffect
<1> QED
  BY <1>4, <1>5 DEF JobApplied

(* A new executor: it starts at the first cycle, over one that rests.       *)
LEMMA LaunchedIs ==
  ASSUME NEW r \in BOOLEAN, NEW w
  PROVE  /\ Launched(r, w) \in TaskRecs /\ Launched(r, w).cycle \in Cycles /\ Launched(r, w).cycle # 0
         /\ Launched(r, w).pc \in {"top", "action"}
         /\ r /\ w.lifecycle = "waiting_action" => Launched(r, w).pc = "action"
<1>1. 1 \in Cycles /\ 1 \in 0 .. MaxCycles + 1
  BY Bounds
<1> QED
  BY <1>1 DEF Launched, TaskRecs, Places

LEMMA RestoredIs ==
  ASSUME IInv, Resting, NEW w, Restored(w), fx'["task"] = fx["task"]
  PROVE  /\ task' \in TaskRecs /\ TaskOK' /\ turn' \in [Cycles -> TurnStates]
         /\ task.pc # "filing"
         /\ w.lifecycle = "waiting_action" => task'.pc = "action"
<1>1. /\ task' = Launched(TRUE, w) /\ turn' \in [Cycles -> TurnStates]
  BY TaskTurnIs, CancelTurnIs DEF Restored
<1>2. /\ task' \in TaskRecs /\ task'.cycle \in Cycles /\ task'.cycle # 0
      /\ task'.pc \in {"top", "action"}
      /\ w.lifecycle = "waiting_action" => task'.pc = "action"
  BY <1>1, LaunchedIs
<1>3. fx["task"].st = "idle" /\ task.pc # "filing"
  BY Parts DEF TaskOK, Resting
<1> QED
  BY <1>1, <1>2, <1>3 DEF TaskOK

(* The lifecycle a restored executor looks at.                              *)
LEMMA LifecycleIs ==
  ASSUME IInv, NEW l
  PROVE  [wf EXCEPT !.lifecycle = l].lifecycle = l
BY Parts DEF WfOK, WfStates

LEMMA JobResumeKeeps == ASSUME IInv, JobResume PROVE IInv'
<1>1. /\ job.pc = "off" /\ queue # <<>> /\ JobRefused /\ UNCHANGED fx
      /\ UNCHANGED <<eff, leftover, policy, stopper, rec, up, sent>>
  BY JobFrameIs DEF JobResume
<1>2. JobLeaves /\ job' \in JobRecs /\ job'.pc = "off"
  BY <1>1, JobRefusedIs
<1>3. CASE CanResume
  <2>1. Resumed /\ Restored([wf EXCEPT !.lifecycle = wf.hold.to])
    BY <1>3 DEF JobResume
  <2>2. /\ Now(wf.hold.to, wf.hold.action)
        /\ wf.hold.to \in {"running", "waiting_action", "recovering"}
    BY <1>3, <2>1, Parts, ResumedIs
  <2>3. Resting
    BY <1>3, Parts DEF CanResume, LaunchOK, Resting
  <2>4. /\ task' \in TaskRecs /\ TaskOK' /\ turn' \in [Cycles -> TurnStates]
        /\ task.pc # "filing"
        /\ wf.hold.to = "waiting_action" => task'.pc = "action"
    BY <1>1, <2>1, <2>3, RestoredIs, LifecycleIs
  <2>5. LaunchOK'
    <3>1. wf'.action = "recovery" => wf.hold.to = "waiting_action"
      BY <2>2 DEF Now, WfOK
    <3> QED
      BY <1>2, <2>2, <2>4, <3>1 DEF LaunchOK, Now, Resting
  <2> QED
    BY <1>1, <1>2, <2>2, <2>4, <2>5, JobIdle, JobMove DEF Now
<1>4. CASE ~CanResume
  <2>1. UNCHANGED <<wf, task, turn>>
    BY <1>4 DEF JobResume
  <2> QED
    BY <1>1, <1>2, <2>1, EasesIs, JobIdle, PipelineMove
<1> QED
  BY <1>3, <1>4

LEMMA JobRetryKeeps == ASSUME IInv, JobRetry PROVE IInv'
<1>1. /\ job.pc = "retry" /\ queue # <<>> /\ JobEnds("none") /\ UNCHANGED fx
      /\ UNCHANGED <<eff, leftover, policy, stopper, rec, up, sent>>
  BY JobFrameIs, Parts DEF JobRetry, JobAt, JobOK
<1>2. JobLeaves /\ job' \in JobRecs /\ job'.pc = "off"
  BY <1>1, JobEndsIs DEF Replies
<1>3. CASE CanResumeRecovery
  <2>1. RecoveryResumed /\ Restored([wf EXCEPT !.lifecycle = "running"])
    BY <1>3 DEF JobRetry
  <2>2. Now("running", "none")
    BY <1>3, <2>1, Parts, RecoveryResumedIs
  <2>3. Resting
    BY <1>1, <1>3, Parts DEF CanResumeRecovery, LaunchOK
  <2>4. /\ task' \in TaskRecs /\ TaskOK' /\ turn' \in [Cycles -> TurnStates]
        /\ task.pc # "filing"
    BY <1>1, <2>1, <2>3, RestoredIs
  <2>5. LaunchOK'
    BY <1>2, <2>2 DEF LaunchOK, Now
  <2> QED
    BY <1>1, <1>2, <2>2, <2>4, <2>5, JobIdle, JobMove DEF Now
<1>4. CASE ~CanResumeRecovery
  <2>1. UNCHANGED <<wf, task, turn>>
    BY <1>4 DEF JobRetry
  <2> QED
    BY <1>1, <1>2, <2>1, EasesIs, JobIdle, PipelineMove
<1> QED
  BY <1>3, <1>4

LEMMA JobEnsureKeeps == ASSUME IInv, JobEnsure PROVE IInv'
<1>1. /\ job.pc = "ensure" /\ queue # <<>> /\ JobEnds("none") /\ UNCHANGED <<fx, wf>>
      /\ UNCHANGED <<eff, leftover, policy, stopper, rec, up, sent>>
  BY JobFrameIs, Parts DEF JobEnsure, JobAt, JobOK, durable
<1>2. JobLeaves /\ job' \in JobRecs /\ job'.pc = "off"
  BY <1>1, JobEndsIs DEF Replies
<1>3. CASE wf.lifecycle = "running" /\ task.pc = "off"
  <2>1. Restored(wf) /\ Resting
    BY <1>3 DEF JobEnsure, Resting
  <2>2. /\ task' \in TaskRecs /\ TaskOK' /\ turn' \in [Cycles -> TurnStates]
        /\ task.pc # "filing"
    BY <1>1, <2>1, RestoredIs
  <2>3. WfOK(wf') /\ wf'.action = "none" /\ wf'.lifecycle = "running" /\ wf' = wf
    BY <1>1, <1>3, Parts DEF WfOK
  <2>4. LaunchOK'
    BY <1>2, <2>3 DEF LaunchOK
  <2> QED
    BY <1>1, <1>2, <2>2, <2>3, <2>4, JobIdle, JobMove
<1>4. CASE ~(wf.lifecycle = "running" /\ task.pc = "off")
  <2>1. UNCHANGED <<task, turn>>
    BY <1>4 DEF JobEnsure
  <2> QED
    BY <1>1, <1>2, <2>1, EasesIs, JobIdle, PipelineMove
<1> QED
  BY <1>3, <1>4

(* A new run forgets the effects of the one before it; no process is at one.*)
LEMMA JobRunKeeps == ASSUME IInv, JobRun PROVE IInv'
<1>1. /\ job.pc = "off" /\ queue # <<>> /\ JobRefused /\ Head(queue) = "run"
      /\ UNCHANGED <<policy, fx, stopper, rec, up>>
  BY DEF JobRun
<1>2. JobLeaves /\ job' \in JobRecs /\ job'.pc = "off"
  BY <1>1, JobRefusedIs
<1>3. CASE /\ RunStarted /\ task.pc = "off" /\ task' = Launched(FALSE, wf)
           /\ turn' = [c \in Cycles |-> "none"] /\ sent' = [e \in Effects |-> 0]
  <2>1. Now("running", "none")
    BY <1>3, RunStartedIs
  <2>2. /\ task' \in TaskRecs /\ task'.cycle \in Cycles /\ task'.cycle # 0
        /\ task'.pc \in {"top", "action"}
    BY <1>3, LaunchedIs
  <2>3. /\ leftover' = (leftover \/ Unsettled # {})
        /\ eff' = [e \in Effects |-> NoEffect]
    BY <1>3 DEF RunStarted
  <2>4. \A p \in Workers : fx[p].st = "idle"
    BY <1>1, <1>3, Parts DEF TaskOK, JobOK, Workers
  <2>5. /\ eff' \in EffMap /\ \A e \in Effects : eff'[e].st = "none"
        /\ turn' \in [Cycles -> TurnStates] /\ sent' \in [Effects -> 0 .. 2]
        /\ \A e \in Effects : sent'[e] = 0
    <3>1. NoEffect \in [st : Statuses, tries : 0 .. SafeLimit] /\ NoEffect.st = "none"
      BY Bounds DEF NoEffect, Statuses
    <3> QED
      BY <1>3, <2>3, <3>1 DEF EffMap, TurnStates
  <2>6. queue' \in Seq(Entries) /\ reply' \in Replies
    BY <1>1, <1>2, Tailed DEF JobLeaves
  <2>7. Typing'
    <3>1. leftover' \in BOOLEAN
      BY <2>3
    <3> QED
      BY <1>1, <1>2, <2>2, <2>5, <2>6, <3>1, Parts DEF Typing
  <2>8. TaskOK'
    BY <1>1, <2>2, <2>4 DEF TaskOK, Workers
  <2>9. JobOK'
    BY <1>1, <1>2, <2>4, Parts DEF JobOK, Workers
  <2>10. FileOK'
    <3>1. task.pc # "filing"
      BY <1>3
    <3> QED
      BY <1>1, <1>2, <3>1, FileAfter DEF JobLeaves
  <2>11. RestoreOK'
    BY <1>1, Working, RestoreFrame DEF Runs
  <2>12. EffectsOK' /\ ControlOK' /\ WritesOnce'
    <3>1. EffectsOK'
      BY <1>1, <2>4, <2>5 DEF EffectsOK, Workers
    <3>2. ControlOK'
      BY <1>1, <2>4 DEF ControlOK, Workers
    <3>3. WritesOnce'
      BY <2>5 DEF WritesOnce
    <3> QED
      BY <3>1, <3>2, <3>3
  <2>13. LaunchOK'
    BY <1>2, <2>1 DEF LaunchOK, Now
  <2> QED
    BY <2>1, <2>7, <2>8, <2>9, <2>10, <2>11, <2>12, <2>13, NextParts DEF Now
<1>4. CASE UNCHANGED <<durable, task, runs, turn, ghosts>>
  <2>1. UNCHANGED <<wf, eff, leftover, task, turn, sent>>
    BY <1>4 DEF durable, ghosts
  <2> QED
    BY <1>1, <1>2, <2>1, EasesIs, JobIdle, PipelineMove
<1> QED
  BY <1>3, <1>4 DEF JobRun

(* A stop or a pause as the head of the queue.                              *)
LEMMA JobControlKeeps == ASSUME IInv, JobControl PROVE IInv'
<1>1. /\ job.pc = "off" /\ queue # <<>> /\ Head(queue) \in {"stop", "pause"} /\ UNCHANGED fx
      /\ UNCHANGED <<wf, eff, leftover, policy, turn, task, rec, up, sent>>
  BY DEF JobControl, durable, ghosts
<1>2. CASE JobGo("control") /\ StopperTo("job", Head(queue)) /\ UNCHANGED <<queue, reply>>
  <2>1. job' \in JobRecs /\ job'.pc = "control"
    BY <1>2, JobGoIs
  <2>2. /\ stopper' \in StopMap /\ stopper'["job"] \in {"stop", "pause"}
        /\ stopper'["api"] = stopper["api"]
    BY <1>1, <1>2, StopperIs DEF Stoppers
  <2>3. WfOK(wf') /\ EffectsOK' /\ ControlOK' /\ WritesOnce' /\ LaunchOK'
    BY <1>1, <2>1, Parts, FxKept, LaunchKept
  <2>4. Typing'
    BY <1>1, <1>2, <2>1, <2>2, Parts DEF Typing
  <2>5. TaskOK' /\ FileOK'
    BY <1>1, <1>2, Parts DEF TaskOK, FileOK
  <2>6. JobOK'
    BY <1>1, <1>2, <2>1, <2>2, Parts DEF JobOK
  <2>7. RestoreOK'
    BY <1>1, Working, RestoreFrame DEF Runs
  <2> QED
    BY <2>3, <2>4, <2>5, <2>6, <2>7, NextParts
<1>3. CASE JobRefused /\ UNCHANGED stopper
  <2>1. JobLeaves /\ job' \in JobRecs /\ job'.pc = "off"
    BY <1>1, <1>3, JobRefusedIs
  <2> QED
    BY <1>1, <1>3, <2>1, EasesIs, JobIdle, PipelineMove
<1>4. CASE JobGo("self") /\ UNCHANGED <<queue, reply, stopper>>
  <2>1. job' \in JobRecs /\ job'.pc = "self"
    BY <1>4, JobGoIs
  <2> QED
    BY <1>1, <1>4, <2>1, EasesIs, JobIdle, PipelineMove
<1> QED
  BY <1>2, <1>3, <1>4 DEF JobControl

LEMMA JobControlledKeeps == ASSUME IInv, JobControlled PROVE IInv'
<1>1. /\ job.pc = "control" /\ queue # <<>> /\ UNCHANGED fx
      /\ StopperTo("job", "idle") /\ JobEnds("none")
      /\ UNCHANGED <<wf, eff, leftover, policy, turn, task, rec, up, sent>>
  BY Parts DEF JobControlled, JobAt, JobOK, durable, ghosts
<1>2. JobLeaves /\ job' \in JobRecs /\ job'.pc = "off"
  BY <1>1, JobEndsIs DEF Replies
<1>3. stopper' \in StopMap /\ stopper'["job"] = "idle" /\ stopper'["api"] = stopper["api"]
  BY <1>1, StopperIs DEF Stoppers
<1>4. WfOK(wf') /\ EffectsOK' /\ ControlOK' /\ WritesOnce' /\ LaunchOK'
  BY <1>1, <1>2, Parts, FxKept, LaunchKept
<1>5. queue' \in Seq(Entries) /\ reply' \in Replies
  BY <1>1, <1>2, Tailed DEF JobLeaves
<1>6. Typing'
  BY <1>1, <1>2, <1>3, <1>5, Parts DEF Typing
<1>7. TaskOK'
  BY <1>1, Parts DEF TaskOK
<1>8. JobOK'
  BY <1>1, <1>2, <1>3, Parts DEF JobOK
<1>9. FileOK'
  BY <1>1, <1>2, FileAfter DEF JobLeaves
<1>10. RestoreOK'
  BY <1>1, Working, RestoreFrame DEF Runs
<1> QED
  BY <1>4, <1>6, <1>7, <1>8, <1>9, <1>10, NextParts

(* The decision of the user.                                                *)
LEMMA ActionStopIs ==
  ASSUME WfOK(wf), ~Barrier, ActionStop
  PROVE  /\ WfOK(wf') /\ wf'.lifecycle = "recovering" /\ wf'.action = "none"
         /\ eff' = CancelPlanned(eff)
<1>1. /\ wf' = [wf EXCEPT !.lifecycle = "recovering", !.action = "none",
                          !.stop = TRUE, !.pause = FALSE, !.hold = NoHold]
      /\ eff' = CancelPlanned(eff)
  BY DEF ActionStop
<1>2. NoHold \in [to : (Active \ {"paused"}) \cup {"none"}, action : Kinds]
      /\ NoHold.to = "none" /\ NoHold.action = "none"
  BY DEF NoHold, Held, Kinds
<1>3. wf' \in WfStates
  BY <1>1, <1>2 DEF WfStates, WfOK, Kinds, Lifecycles
<1>4. /\ wf'.lifecycle = "recovering" /\ wf'.action = "none" /\ wf'.pause = FALSE
      /\ wf'.hold = NoHold
  BY <1>1 DEF WfStates, WfOK
<1> QED
  BY <1>1, <1>2, <1>3, <1>4 DEF WfOK, Active

LEMMA JobActStops ==
  ASSUME IInv, job.pc = "off", queue # <<>>, Head(queue) = "act", ActionStop, JobRefused,
         UNCHANGED <<leftover, task, turn, fx, policy, stopper, rec, up, sent>>
  PROVE  IInv'
<1>1. JobLeaves /\ job' \in JobRecs /\ job'.pc = "off"
  BY JobRefusedIs
<1>2. CASE Barrier
  <2>1. wf' = [Ready EXCEPT !.lifecycle = "stopped"] /\ UNCHANGED eff
    BY <1>2 DEF ActionStop
  <2>2. Now("stopped", "none")
    BY <2>1, StoppedIs
  <2>3. LaunchOK'
    BY <1>1, <1>2, <2>1, <2>2 DEF LaunchOK, Now, Barrier, Unsettled
  <2> QED
    BY <1>1, <2>1, <2>2, <2>3, TaskKept, JobIdle, JobMove DEF Now
<1>3. CASE ~Barrier
  <2>1. /\ WfOK(wf') /\ wf'.lifecycle = "recovering" /\ wf'.action = "none"
        /\ eff' = CancelPlanned(eff)
    BY <1>3, Parts, ActionStopIs
  <2>2. eff' \in EffMap /\ EffectsOK' /\ ControlOK' /\ WritesOnce'
    BY <2>1, CancelIs, CancelParts
  <2>3. queue' \in Seq(Entries) /\ reply' \in Replies
    BY <1>1, Tailed DEF JobLeaves
  <2>4. Typing'
    BY <1>1, <2>2, <2>3, Parts DEF Typing
  <2>5. TaskOK'
    BY Parts DEF TaskOK
  <2>6. JobOK'
    BY <1>1, Parts DEF JobOK
  <2>7. FileOK'
    BY <1>1, FileAfter DEF JobLeaves
  <2>8. RestoreOK'
    BY Working, RestoreFrame DEF Runs
  <2>9. LaunchOK'
    BY <1>1, <2>1 DEF LaunchOK
  <2> QED
    BY <2>1, <2>2, <2>4, <2>5, <2>6, <2>7, <2>8, <2>9, NextParts
<1> QED
  BY <1>2, <1>3

LEMMA JobActKeeps == ASSUME IInv, JobAct PROVE IInv'
<1>1. /\ job.pc = "off" /\ queue # <<>> /\ Head(queue) = "act"
      /\ UNCHANGED <<leftover, fx, policy, stopper, rec, up, sent>>
  BY JobFrameIs DEF JobAct
<1>2. JobRefused => JobLeaves /\ job' \in JobRecs /\ job'.pc = "off"
  BY <1>1, JobRefusedIs
<1>3. CASE JobRefused /\ UNCHANGED <<wf, eff, task, turn>>
  BY <1>1, <1>2, <1>3, EasesIs, JobIdle, PipelineMove
<1>4. CASE ActionStop /\ JobRefused /\ UNCHANGED <<task, turn>>
  BY <1>1, <1>4, JobActStops
<1>5. CASE ActionFinish /\ JobRefused /\ UNCHANGED <<eff, task, turn>>
  BY <1>1, <1>2, <1>5, AskedIs, ActionFinishIs, EasesIs, JobIdle, PipelineMove
<1>6. CASE /\ ActionContinue("running", "verifying")
           /\ job' = [pc |-> "verified", cycle |-> wf.cycle]
           /\ UNCHANGED <<eff, task, turn, queue, reply>>
  <2>1. wf.cycle \in 0 .. MaxCycles
    BY AskedIs DEF WfOK, WfStates
  <2>2. job' \in JobRecs /\ job'.pc = "verified"
    BY <1>6, <2>1 DEF JobRecs
  <2>3. Eases
    <3>1. "verifying" \in Phases
      BY DEF Phases
    <3> QED
      BY <1>6, <3>1, AskedIs, ActionContinueIs, EasesIs
  <2> QED
    BY <1>1, <1>6, <2>2, <2>3, JobIdle, PipelineMove
<1>7. CASE ActionContinue("running", "checking") /\ JobRefused /\ UNCHANGED <<eff, task, turn>>
  <2>1. Eases
    <3>1. "checking" \in Phases
      BY DEF Phases
    <3> QED
      BY <1>7, <3>1, AskedIs, ActionContinueIs, EasesIs
  <2> QED
    BY <1>1, <1>2, <1>7, <2>1, JobIdle, PipelineMove
<1>8. CASE /\ wf.action = "recovery" /\ ActionContinue("recovering", wf.phase)
           /\ JobGo("retry") /\ UNCHANGED <<eff, task, turn, queue, reply>>
  <2>1. Now("recovering", "none")
    <3>1. wf.phase \in Phases
      BY AskedIs DEF WfOK, WfStates
    <3> QED
      BY <1>8, <3>1, AskedIs, ActionContinueIs
  <2>2. job' \in JobRecs /\ job'.pc = "retry"
    BY <1>8, JobGoIs
  <2>3. LaunchOK'
    <3>1. Resting'
      BY <1>8, Parts DEF LaunchOK, Resting
    <3> QED
      BY <2>1, <3>1 DEF LaunchOK, Now
  <2> QED
    BY <1>1, <1>8, <2>1, <2>2, <2>3, TaskKept, JobIdle, JobMove DEF Now
<1> QED
  BY <1>3, <1>4, <1>5, <1>6, <1>7, <1>8 DEF JobAct

LEMMA JobStepKeeps == ASSUME IInv, JobStep PROVE IInv'
<1>1. EffectStep("job") => IInv'
  BY EffectStepKeeps DEF Workers
<1> QED
  BY <1>1, JobFileKeeps, JobRunKeeps, JobResumeKeeps, JobControlKeeps, JobControlledKeeps, JobActKeeps,
     JobRetryKeeps, JobFetchedKeeps, JobApplyKeeps, JobConflictKeeps, JobAppliedKeeps, JobEnsureKeeps
     DEF JobStep

-----------------------------------------------------------------------------
(* Crash and recovery                                                       *)

LEMMA NobodyIs ==
  /\ TaskOff \in TaskRecs /\ TaskOff.pc = "off" /\ JobOff \in JobRecs /\ JobOff.pc = "off"
  /\ Idle \in FxRecs /\ Idle.st = "idle"
  /\ <<>> \in Seq(Entries) /\ Len(<<>>) = 0
<1>1. TaskOff \in TaskRecs /\ TaskOff.pc = "off"
  BY Bounds DEF TaskOff, TaskRecs, Places
<1>2. JobOff \in JobRecs /\ JobOff.pc = "off"
  BY Bounds DEF JobOff, JobRecs
<1>3. Idle \in FxRecs /\ Idle.st = "idle"
  BY EffectKinds DEF FxRecs, Idle
<1> QED
  BY <1>1, <1>2, <1>3, EmptySeq

LEMMA CrashKeeps == ASSUME IInv, Crash PROVE IInv'
<1>1. /\ up' = FALSE /\ task' = TaskOff /\ fx' = [p \in Workers |-> Idle]
      /\ queue' = <<>> /\ job' = JobOff
      /\ stopper' = [p \in Stoppers |-> "idle"] /\ reply' = "none" /\ rec' = "none"
      /\ UNCHANGED <<wf, eff, leftover, policy, turn>>
  BY DEF Crash, durable, Workers, Stoppers
<1>2. sent' = sent
  BY DEF Crash, ghosts
<1>3. WfOK(wf')
  BY <1>1, Parts
<1>4. Typing'
  BY <1>1, <1>2, NobodyIs, Parts DEF Typing, Replies, StopMap
<1>5. TaskOK' /\ JobOK'
  BY <1>1, NobodyIs DEF TaskOK, JobOK, Workers, Stoppers
<1>6. FileOK'
  BY <1>1, NobodyIs DEF FileOK
<1>7. RestoreOK'
  BY <1>1, NobodyIs DEF RestoreOK, Alone, Stoppers, Policies
<1>8. EffectsOK' /\ ControlOK' /\ WritesOnce'
  <2>1. \A p \in Workers : fx'[p].st = "idle"
    BY <1>1, NobodyIs
  <2> QED
    BY <1>1, <1>2, <2>1, Parts DEF EffectsOK, ControlOK, WritesOnce, Workers
<1>9. LaunchOK'
  BY <1>1, NobodyIs, Parts DEF LaunchOK, Barrier, Unsettled, Resting
<1> QED
  BY <1>3, <1>4, <1>5, <1>6, <1>7, <1>8, <1>9, NextParts

(* A step of the recovery: nothing else runs.                               *)
LEMMA AloneIs ==
  ASSUME IInv, ~up \/ rec # "none"
  PROVE  Alone /\ \A p \in Workers : fx[p].st = "idle"
BY Parts DEF RestoreOK, TaskOK, JobOK, Alone, Workers

LEMMA RecoveryMove ==
  ASSUME IInv, ~up \/ rec # "none", up', rec' \in {"none", "start"} \cup Policies,
         UNCHANGED <<leftover, policy, fx, queue, job, stopper, reply, sent>>,
         WfOK(wf'), eff' \in EffMap, turn' \in [Cycles -> TurnStates], task' \in TaskRecs, TaskOK',
         rec' # "none" => task' = task,
         rec' \in Policies => wf'.lifecycle = "recovering",
         \A e \in Effects : ~Safe(e) /\ eff'[e].st \in {"none", "planned", "failed", "cancelled"} => sent[e] = 0,
         wf'.lifecycle \in {"paused", "stopped"} => Barrier',
         wf'.lifecycle = "paused" => task'.pc = "off",
         wf'.action = "recovery" => task' = task
  PROVE  IInv'
<1>1. Alone /\ \A p \in Workers : fx[p].st = "idle"
  BY AloneIs
<1>2. Typing'
  BY Parts DEF Typing
<1>3. JobOK'
  BY <1>1, Parts DEF JobOK, Alone
<1>4. FileOK'
  BY <1>1, NobodyIs DEF FileOK, Alone
<1>5. RestoreOK'
  BY <1>1 DEF RestoreOK, Alone
<1>6. EffectsOK'
  BY <1>1 DEF EffectsOK, Workers
<1>7. ControlOK' /\ WritesOnce'
  BY <1>1, Parts DEF ControlOK, WritesOnce, Workers
<1>8. LaunchOK'
  BY <1>1 DEF LaunchOK, Alone, Resting
<1> QED
  BY <1>2, <1>3, <1>4, <1>5, <1>6, <1>7, <1>8, NextParts

LEMMA RecFrameIs ==
  ASSUME RecFrame
  PROVE  UNCHANGED <<leftover, policy, fx, queue, job, stopper, reply, sent>>
BY DEF RecFrame, ghosts

(* What recovery may rely on when it leaves the effects alone.              *)
LEMMA EffKept ==
  ASSUME IInv, UNCHANGED <<eff, leftover>>
  PROVE  /\ eff' \in EffMap /\ (Barrier <=> Barrier')
         /\ \A e \in Effects : ~Safe(e) /\ eff'[e].st \in {"none", "planned", "failed", "cancelled"} => sent[e] = 0
BY TaskTurnIs, Parts DEF EffectsOK, Barrier, Unsettled

LEMMA RestartKeeps == ASSUME IInv, Restart PROVE IInv'
<1>1. /\ ~up /\ up' /\ rec' \in {"none", "start"} /\ UNCHANGED <<wf, eff, turn, task>>
      /\ UNCHANGED <<leftover, policy, fx, queue, job, stopper, reply, sent>>
  BY RecFrameIs DEF Restart
<1>2. task' \in TaskRecs /\ turn' \in [Cycles -> TurnStates] /\ TaskOK'
  BY <1>1, TaskKept
<1>3. /\ WfOK(wf') /\ wf' = wf
      /\ wf.lifecycle \in {"paused", "stopped"} => Barrier
      /\ wf.lifecycle = "paused" => task.pc = "off"
  BY <1>1, Parts DEF LaunchOK
<1>4. rec' \notin Policies
  BY <1>1 DEF Policies
<1> QED
  BY <1>1, <1>2, <1>3, <1>4, EffKept, RecoveryMove

LEMMA RecoverStartKeeps == ASSUME IInv, RecoverStart PROVE IInv'
<1> DEFINE w == RecoveryStarted(wf)
<1>1. /\ up /\ rec = "start" /\ UNCHANGED <<eff, turn, task, up>>
      /\ UNCHANGED <<leftover, policy, fx, queue, job, stopper, reply, sent>>
  BY RecFrameIs DEF RecoverStart
<1>2. task' \in TaskRecs /\ turn' \in [Cycles -> TurnStates] /\ TaskOK'
  BY <1>1, TaskKept
<1>3. WfOK(w) /\ w.lifecycle = "recovering" /\ w.action = "none"
  BY Parts, RecoveryStartedIs
<1>4. ASSUME NEW k \in Kinds \ {"none"}, rec' = "none",
             wf' = [w EXCEPT !.lifecycle = "waiting_action", !.action = k]
      PROVE  IInv'
  <2> HIDE DEF w
  <2>1. wf' \in WfStates
    BY <1>3, <1>4 DEF WfStates, WfOK, Lifecycles
  <2>2. /\ wf'.lifecycle = "waiting_action" /\ wf'.action = k /\ wf'.hold = w.hold
        /\ wf'.pause = w.pause
    BY <1>3, <1>4 DEF WfStates, WfOK
  <2>3. WfOK(wf')
    BY <1>3, <2>1, <2>2 DEF WfOK, Active
  <2>4. rec' \notin Policies
    BY <1>4 DEF Policies
  <2> QED
    BY <1>1, <1>2, <1>4, <2>2, <2>3, <2>4, EffKept, RecoveryMove
<1>5. CASE wf.action # "none" \/ policy = "ask"
  <2>1. /\ rec' = "none"
        /\ wf' = [w EXCEPT !.lifecycle = "waiting_action",
                           !.action = IF wf.action # "none" THEN wf.action ELSE "recovery"]
    BY <1>5 DEF RecoverStart
  <2>2. (IF wf.action # "none" THEN wf.action ELSE "recovery") \in Kinds \ {"none"}
    BY AskedIs DEF WfOK, WfStates, Kinds
  <2> QED
    BY <1>4, <2>1, <2>2
<1>6. CASE ~(wf.action # "none" \/ policy = "ask")
  <2>1. wf' = w /\ rec' = policy
    BY <1>6 DEF RecoverStart
  <2>2. policy \in Policies
    BY Bounds, Parts DEF Typing
  <2>3. wf'.lifecycle = "recovering" /\ wf'.action = "none" /\ WfOK(wf')
    BY <1>3, <2>1
  <2> HIDE DEF w
  <2> QED
    BY <1>1, <1>2, <2>1, <2>2, <2>3, EffKept, RecoveryMove
<1> QED
  BY <1>5, <1>6

LEMMA RecoverDiscardKeeps == ASSUME IInv, RecoverDiscard PROVE IInv'
<1> DEFINE kept == CancelPlanned(eff)
           clear == \A e \in Effects : kept[e].st \notin {"dispatched", "uncertain"}
<1>1. /\ up /\ rec = "discard" /\ rec' = "none" /\ UNCHANGED <<turn, task, up>>
      /\ UNCHANGED <<leftover, policy, fx, queue, job, stopper, reply, sent>>
  BY RecFrameIs DEF RecoverDiscard
<1>2. /\ task' \in TaskRecs /\ turn' \in [Cycles -> TurnStates] /\ TaskOK' /\ task' = task
      /\ rec' \notin Policies
  BY <1>1, TaskKept DEF Policies
<1>3. wf.lifecycle = "recovering" /\ WfOK(wf)
  BY <1>1, Parts DEF RestoreOK, Policies
<1>4. CASE UNCHANGED <<wf, eff>>
  BY <1>1, <1>2, <1>3, <1>4, EffKept, RecoveryMove
<1>5. CASE eff' = CancelPlanned(eff)
  <2>1. /\ eff' \in EffMap
        /\ \A e \in Effects : /\ eff'[e].st # "planned"
                              /\ \/ eff'[e].st = eff[e].st
                                 \/ eff[e].st = "planned" /\ eff'[e].st = "cancelled"
    BY <1>1, <1>5, CancelIs
  <2>2. \A e \in Effects : ~Safe(e) /\ eff'[e].st \in {"none", "planned", "failed", "cancelled"} => sent[e] = 0
    BY <2>1, Parts DEF EffectsOK
  <2>3. CASE clear /\ ~leftover /\ wf' = [Ready EXCEPT !.lifecycle = "stopped"]
    <3>1. Now("stopped", "none")
      BY <2>3, StoppedIs
    <3>2. Barrier'
      BY <1>1, <1>5, <2>1, <2>3 DEF Barrier, Unsettled
    <3> QED
      BY <1>1, <1>2, <2>1, <2>2, <3>1, <3>2, RecoveryMove DEF Now
  <2>4. CASE wf' = [wf EXCEPT !.stop = TRUE, !.pause = FALSE, !.hold = NoHold]
    <3>1. NoHold \in [to : (Active \ {"paused"}) \cup {"none"}, action : Kinds]
          /\ NoHold.to = "none" /\ NoHold.action = "none"
      BY DEF NoHold, Held, Kinds
    <3>2. wf' \in WfStates
      BY <1>3, <2>4, <3>1 DEF WfStates, WfOK
    <3>3. /\ wf'.lifecycle = "recovering" /\ wf'.action = wf.action /\ wf'.pause = FALSE
          /\ wf'.hold = NoHold
      BY <1>3, <2>4 DEF WfStates, WfOK
    <3>4. WfOK(wf')
      BY <1>3, <3>1, <3>2, <3>3 DEF WfOK, Active
    <3> QED
      BY <1>1, <1>2, <2>1, <2>2, <3>3, <3>4, RecoveryMove
  <2> QED
    BY <1>5, <2>3, <2>4, <1>4 DEF RecoverDiscard
<1> QED
  BY <1>4, <1>5 DEF RecoverDiscard

LEMMA ReconcileKeeps == ASSUME IInv, NEW e \in Effects, NEW found, Reconcile(e, found) PROVE IInv'
<1>1. /\ up /\ rec = "auto" /\ UNCHANGED <<wf, turn, task, up>>
      /\ UNCHANGED <<leftover, policy, fx, queue, job, stopper, reply, sent>>
      /\ rec' \in {"none", "auto"}
  BY RecFrameIs DEF Reconcile
<1>2. /\ task' \in TaskRecs /\ turn' \in [Cycles -> TurnStates] /\ TaskOK' /\ task' = task
      /\ rec' \in {"none", "start"} \cup Policies
  BY <1>1, TaskKept DEF Policies
<1>3. wf.lifecycle = "recovering" /\ WfOK(wf) /\ wf' = wf
  BY <1>1, Parts DEF RestoreOK, Policies
<1>4. \/ UNCHANGED eff
      \/ \E s \in {"succeeded", "uncertain", "planned"} :
           eff' = [eff EXCEPT ![e].st = s] /\ (s = "planned" => Safe(e))
  BY DEF Reconcile
<1>5. CASE UNCHANGED eff
  BY <1>1, <1>2, <1>3, <1>5, EffKept, RecoveryMove
<1>6. ASSUME NEW s \in {"succeeded", "uncertain", "planned"},
             eff' = [eff EXCEPT ![e].st = s], s = "planned" => Safe(e)
      PROVE  IInv'
  <2>1. eff \in EffMap
    BY TaskTurnIs
  <2>2. eff' \in EffMap /\ eff'[e].st = s /\ \A d \in Effects : d # e => eff'[d] = eff[d]
    BY <1>6, <2>1 DEF EffMap, Statuses
  <2>3. \A d \in Effects : ~Safe(d) /\ eff'[d].st \in {"none", "planned", "failed", "cancelled"} => sent[d] = 0
    BY <1>6, <2>2, Parts DEF EffectsOK
  <2> QED
    BY <1>1, <1>2, <1>3, <2>2, <2>3, RecoveryMove
<1> QED
  BY <1>4, <1>5, <1>6

LEMMA RecoverDecideKeeps == ASSUME IInv, RecoverDecide PROVE IInv'
<1>1. /\ up /\ rec = "auto" /\ rec' = "none" /\ UNCHANGED <<eff, up>>
      /\ UNCHANGED <<leftover, policy, fx, queue, job, stopper, reply, sent>>
      /\ rec' \notin Policies
  BY RecFrameIs DEF RecoverDecide, Policies
<1>2. CanResumeRecovery /\ WfOK(wf)
  BY <1>1, Parts DEF RestoreOK, Policies, CanResumeRecovery
<1>3. CASE RecoveryResumed /\ Restored([wf EXCEPT !.lifecycle = "running"])
  <2>1. Now("running", "none")
    BY <1>2, <1>3, RecoveryResumedIs
  <2>2. Resting
    BY <1>1, AloneIs DEF Alone, Resting
  <2>3. task' \in TaskRecs /\ TaskOK' /\ turn' \in [Cycles -> TurnStates]
    BY <1>1, <1>3, <2>2, RestoredIs
  <2> QED
    BY <1>1, <2>1, <2>3, EffKept, RecoveryMove DEF Now
<1>4. ASSUME NEW k \in {"stop_only", "recovery"}, ActionRequired(k, 0), UNCHANGED <<task, turn>>
      PROVE  IInv'
  <2>1. k \in Kinds \ {"none"} /\ 0 \in 0 .. MaxCycles
    BY Bounds DEF Kinds
  <2>2. Now("waiting_action", k)
    BY <1>2, <1>4, <2>1, ActionRequiredIs
  <2>3. task' \in TaskRecs /\ turn' \in [Cycles -> TurnStates] /\ TaskOK' /\ task' = task
    BY <1>1, <1>4, TaskKept
  <2> QED
    BY <1>1, <2>2, <2>3, EffKept, RecoveryMove DEF Now
<1> QED
  BY <1>3, <1>4 DEF RecoverDecide

-----------------------------------------------------------------------------
(* The theorems                                                             *)

LEMMA InitIInv == ASSUME Init PROVE IInv
<1>1. /\ wf = Ready /\ eff = [e \in Effects |-> NoEffect] /\ leftover = FALSE
      /\ policy \in RestartPolicies /\ turn = [c \in Cycles |-> "none"]
      /\ task = TaskOff /\ fx = [p \in Workers |-> Idle]
      /\ queue = <<>> /\ job = JobOff /\ stopper = [p \in Stoppers |-> "idle"]
      /\ reply = "none" /\ rec = "none" /\ up = TRUE
      /\ sent = [e \in Effects |-> 0]
  BY DEF Init, Workers, Stoppers
<1>2. NoEffect \in [st : Statuses, tries : 0 .. SafeLimit] /\ NoEffect.st = "none"
  BY Bounds DEF NoEffect, Statuses
<1>3. WfOK(wf)
  BY <1>1, ReadyOK
<1>4. Typing
  <2>1. eff \in EffMap /\ turn \in [Cycles -> TurnStates] /\ sent \in [Effects -> 0 .. 2]
    BY <1>1, <1>2 DEF EffMap, TurnStates
  <2>2. fx \in [Workers -> FxRecs] /\ stopper \in StopMap
    BY <1>1, NobodyIs DEF StopMap
  <2> QED
    BY <1>1, <2>1, <2>2, NobodyIs DEF Typing, Replies
<1>5. TaskOK /\ JobOK
  BY <1>1, NobodyIs DEF TaskOK, JobOK, Workers, Stoppers
<1>6. FileOK
  BY <1>1, NobodyIs DEF FileOK
<1>7. RestoreOK
  BY <1>1 DEF RestoreOK, Policies
<1>8. EffectsOK /\ ControlOK /\ WritesOnce
  <2>1. \A p \in Workers : fx[p].st = "idle"
    BY <1>1, NobodyIs
  <2> QED
    BY <1>1, <2>1 DEF EffectsOK, ControlOK, WritesOnce, Workers
<1>9. LaunchOK
  BY <1>1, NobodyIs, ReadyOK DEF LaunchOK
<1> QED
  BY <1>3, <1>4, <1>5, <1>6, <1>7, <1>8, <1>9, Parts

LEMMA NextKeeps == ASSUME IInv, Next PROVE IInv'
<1>1. (\E p \in {"job", "api"} : StopperStep(p)) => IInv'
  BY StopperStepKeeps DEF Stoppers
<1>2. (\E c \in Cycles : TurnEnds(c)) => IInv'
  BY TurnEndsKeeps
<1>3. (\E t \in UserCommands : Submit(t)) => IInv'
  BY SubmitKeeps
<1>4. Recover => IInv'
  BY RecoverStartKeeps, RecoverDiscardKeeps, RecoverDecideKeeps, ReconcileKeeps DEF Recover
<1> QED
  BY <1>1, <1>2, <1>3, <1>4, TaskStepKeeps, JobStepKeeps, PauseBeginKeeps, ApiStopKeeps, ApiReturnKeeps,
     CrashKeeps, RestartKeeps DEF Next

LEMMA StutterKeeps == ASSUME IInv, UNCHANGED vars PROVE IInv'
<1>1. UNCHANGED <<wf, eff, leftover, policy, turn, task, fx, queue, job, stopper, reply, rec, up, sent>>
  BY DEF vars
<1>2. WfOK(wf') /\ EffectsOK' /\ ControlOK' /\ WritesOnce' /\ LaunchOK'
  BY <1>1, Parts, FxKept, LaunchKept
<1>3. Typing'
  BY <1>1, Parts DEF Typing
<1>4. TaskOK' /\ JobOK' /\ FileOK'
  BY <1>1, Parts DEF TaskOK, JobOK, FileOK
<1>5. RestoreOK'
  BY <1>1, Parts DEF RestoreOK, Alone
<1> QED
  BY <1>2, <1>3, <1>4, <1>5, NextParts

(* The inductive invariant: what the executor, the head of the queue, the   *)
(* write-ahead records and the control requests say of one another, kept by *)
(* every step of a run, a crash and a recovery.                             *)
THEOREM Inductive == Spec => []IInv
<1>1. Init => IInv
  BY InitIInv
<1>2. IInv /\ [Next]_vars => IInv'
  BY NextKeeps, StutterKeeps
<1> QED
  BY <1>1, <1>2, PTL DEF Spec

(* The workflow, its effects, its executor and its queue have their types.  *)
THEOREM TypeCorrect == Spec => []TypeOK
<1>1. IInv => TypeOK
  BY DEF IInv
<1> QED
  BY <1>1, Inductive, PTL

(* No prompt is sent twice and no ZIP is written twice under one identity:  *)
(* the write-ahead record of executeWorkflowEffect and executeLocalEffect   *)
(* is dispatched at most once, whatever is paused, repeated or restarted.   *)
THEOREM SentOnce == Spec => []WritesOnce
<1>1. IInv => WritesOnce
  BY DEF IInv
<1> QED
  BY <1>1, Inductive, PTL

(* A paused or a stopped workflow is quiet: PAUSED and STOPPED pass the     *)
(* barrier of the reducer only when no process is still carrying out a      *)
(* write and no outcome is unknown.                                         *)
THEOREM RestIsQuiet == Spec => []QuietAtRest
<1>1. IInv => QuietAtRest
  <2> SUFFICES ASSUME IInv, wf.lifecycle \in {"paused", "stopped"}
               PROVE  Barrier /\ \A p \in Workers : fx[p].st \notin {"run", "ok", "fail", "unknown"}
    BY DEF QuietAtRest, Workers
  <2>1. Barrier
    BY Parts DEF LaunchOK
  <2>2. ASSUME NEW p \in Workers
        PROVE  fx[p].st \notin {"run", "ok", "fail", "unknown"}
    BY EffectIs
  <2> QED
    BY <2>1, <2>2
<1> QED
  BY <1>1, Inductive, PTL

(* Once a stop or a pause is requested nothing is dispatched: only          *)
(* EffectDispatch records a dispatch, and the request took back every       *)
(* record a process could still dispatch.                                   *)
LEMMA OnlyDispatch ==
  ASSUME IInv, Next, NEW e \in Effects, eff[e].st # "dispatched", eff'[e].st = "dispatched"
  PROVE  ~wf.stop /\ ~wf.pause
<1>1. ASSUME NEW p \in Workers, EffectStep(p)
      PROVE  ~wf.stop /\ ~wf.pause
  <2>1. fx[p].e \in Effects /\ eff \in EffMap
    BY EffectIs
  <2>2. EffectDispatch(p)
    <3>1. EffectPlan(p) => eff'[e].st # "dispatched"
      BY <2>1 DEF EffectPlan, EffMap
    <3>2. EffectSettle(p) => eff'[e].st # "dispatched"
      BY <2>1 DEF EffectSettle, EffMap
    <3>3. EffectGuard(p) \/ EffectExecute(p) => UNCHANGED eff
      BY DEF EffectGuard, EffectExecute, durable
    <3> QED
      BY <1>1, <3>1, <3>2, <3>3 DEF EffectStep
  <2>3. fx[p].st = "dispatch" /\ CanDispatch(fx[p].e)
    BY <2>2 DEF EffectDispatch, FxAt
  <2> QED
    BY <2>3, Parts DEF ControlOK, CanDispatch, Workers
<1>2. eff' # CancelPlanned(eff)
  <2>1. eff[e] \in [st : Statuses, tries : 0 .. SafeLimit]
    BY TaskTurnIs DEF EffMap
  <2>2. CancelPlanned(eff)[e] = IF eff[e].st = "planned" THEN [eff[e] EXCEPT !.st = "cancelled"] ELSE eff[e]
    BY DEF CancelPlanned
  <2>3. [eff[e] EXCEPT !.st = "cancelled"].st = "cancelled"
    BY <2>1
  <2> QED
    BY <2>2, <2>3
<1>3. eff' # eff
  OBVIOUS
<1>4. ~RunStarted
  <2>1. RunStarted => eff'[e].st = "none"
    BY DEF RunStarted, NoEffect
  <2> QED
    BY <2>1
<1>5. TaskStep => EffectStep("task")
  BY <1>3 DEF TaskStep, TaskTop, TaskChecks, TaskNoProgress, TaskPrompt, TaskPrompted, TaskTurn,
     TaskFile, TaskFiled, TaskAction, TaskDecided, TaskExit, durable
<1>6. JobStep => EffectStep("job")
  <2>1. ~ActionStop
    BY <1>2, <1>3 DEF ActionStop
  <2>2. ~JobAct
    BY <1>3, <2>1 DEF JobAct
  <2>3. ~JobRun
    BY <1>3, <1>4 DEF JobRun, durable
  <2> QED
    BY <1>3, <2>2, <2>3 DEF JobStep, JobFile, JobResume, JobControl, JobControlled, JobRetry,
       JobFetched, JobApply, JobConflict, JobApplied, JobEnsure, durable
<1>7. \A p \in {"job", "api"} : ~StopperStep(p)
  <2>1. ~StopRequested
    BY <1>2 DEF StopRequested
  <2> QED
    BY <1>3, <2>1 DEF StopperStep, StopBegin, WaitIdle, StopEnd
<1>8. ~PauseBegin
  <2>1. ~PauseRequested
    BY <1>2 DEF PauseRequested
  <2> QED
    BY <1>3, <2>1 DEF PauseBegin
<1>9. ~Recover
  <2>1. \A d \in Effects, s \in {"succeeded", "uncertain", "planned"} : eff' # [eff EXCEPT ![d].st = s]
    BY TaskTurnIs DEF EffMap
  <2>2. \A d \in Effects, found \in {"succeeded", "uncertain", "not_started", "safe_retry"} :
          ~Reconcile(d, found)
    BY <1>3, <2>1 DEF Reconcile
  <2> QED
    BY <1>2, <1>3, <2>2 DEF Recover, RecoverStart, RecoverDiscard, RecoverDecide
<1>10. /\ \A c \in Cycles : ~TurnEnds(c)
       /\ \A t \in UserCommands : ~Submit(t)
       /\ ~ApiStop /\ ~ApiReturn /\ ~Crash /\ ~Restart
  BY <1>3 DEF TurnEnds, Submit, ApiStop, ApiReturn, Crash, Restart, durable
<1> QED
  BY <1>1, <1>5, <1>6, <1>7, <1>8, <1>9, <1>10 DEF Next, Workers

(* A stop or a pause holds from the moment it is requested, for every       *)
(* process that executes an effect, however far it had come.                *)
THEOREM ControlHolds == Spec => NoDispatchUnderControl
<1> DEFINE Granted == \A e \in Effects : eff[e].st # "dispatched" /\ eff'[e].st = "dispatched"
                                           => ~wf.stop /\ ~wf.pause
<1>1. IInv /\ [Next]_vars => [Granted]_vars
  BY OnlyDispatch DEF vars
<1>2. Spec => [][Granted]_vars
  BY <1>1, Inductive, PTL DEF Spec
<1> QED
  BY <1>2 DEF NoDispatchUnderControl

=============================================================================
