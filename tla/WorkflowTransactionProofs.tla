---------------------- MODULE WorkflowTransactionProofs ----------------------
(***************************************************************************)
(* Theorems about WorkflowTransaction, for any files, updates and           *)
(* configurations, and any number of runs, edits, commits and crashes.      *)
(***************************************************************************)
EXTENDS WorkflowTransaction, SequenceTheorems, TLAPS

Idle == {"off", "self"}
Recovery == {"restore-action", "reconcile"}
Applying == {"backup", "write", "checks", "receipt"}
Squashing == {"squashing", "squash-commit", "squash-receipt"}
Restoring == {"rewind", "restoring", "restore-receipt"}
Around == {"begin", "dispatch", "settle", "after"}
Carried == Applying \cup Squashing \cup Restoring \cup {"undo", "prompting", "committing"}
Passive == {"artifact", "plan", "inspect", "capture", "failed-checks", "commit", "message", "approved", "complete", "reverted"}

(* Who a step of a run belongs to. *)
OfPassive ==
  /\ wf.kind = "passive" /\ job.u = wf.u
  /\ job.by \in {"passive", "approve", "commit", "keep", "fix", "revert"}
OfAutomation == wf.kind = "automation" /\ job.by = "automation"
OfManual == wf.kind = "manual" /\ job.by = "manual"
Owner(k) ==
  CASE k = "commit" -> OfPassive \/ (OfAutomation /\ cfg.commit = "final")
    [] k = "squash" -> OfAutomation /\ cfg.commit = "auto"
    [] k = "restore" -> OfManual
    [] OTHER -> OfPassive

(* The job, the workflow it works for and the effect it carries out agree. *)
PlaceOK ==
  /\ ~up => job.pc = "off"
  /\ job.pc \notin Idle => wf.act = "" /\ wf.life = (IF job.pc \in Recovery THEN "recovering" ELSE "running")
  /\ job.pc = "restore-action" => job.act # ""
  /\ wf.kind = "passive" => wf.u \in Updates
  /\ wf.kind = "" => wf.life \in {"ready", "stopped"}
  /\ job.pc \in Passive => OfPassive
  /\ job.pc = "finalize" => OfAutomation
  /\ job.pc = "restore" => OfManual

EffectOK ==
  /\ job.pc \in Applying => job.fx = "apply"
  /\ job.pc \in Squashing => job.fx = "squash"
  /\ job.pc \in Restoring => job.fx = "restore"
  /\ job.pc = "undo" => job.fx \in {"apply", "revert"}
  /\ job.pc = "prompting" => job.fx = "prompt"
  /\ job.pc = "committing" => job.fx = "commit"
  /\ job.pc \in Around \cup Carried => job.fx \in Effects /\ Owner(job.fx)
  /\ job.pc = "dispatch" => eff[job.fx].st = "planned"
  /\ job.pc \in Carried \cup {"settle"} => eff[job.fx].st = "dispatched"
  /\ \A k \in Effects : eff[k].st = "succeeded" => eff[k].res \in {"ok", "nothing"}

LeftOK ==
  /\ job.pc = "write" => job.left \subseteq Writes[wf.u]
  /\ job.pc = "undo" => job.left \subseteq DOMAIN backup.manifest
  /\ job.pc = "rewind" => job.left \subseteq Paths
  /\ job.pc = "restoring" => job.left \subseteq Paths /\ own.base # 0
  /\ job.pc = "reconcile" => job.left \subseteq Unsettled \ {"prompt"}

(* What the user decides about is an update of this run. *)
Pending == IF job.pc = "restore-action" THEN job.act ELSE wf.act
ActionOK ==
  /\ Pending \in {"apply", "commit", "failed-checks"} => wf.kind = "passive" /\ asked.u = wf.u /\ art[wf.u] # "applied"
  /\ Pending \in {"commit", "failed-checks"} => wf.u \in whole
  /\ Pending = "failed-checks" => eff["apply"].st = "failed" /\ ~backup.receipt
  /\ job.pc = "failed-checks" => asked.u = wf.u

(* Between the comparison of the files with the recorded states and the commit nothing changes them. *)
ReviewedOK ==
  /\ job.pc = "committing" \/ (job.pc \in {"begin", "dispatch"} /\ job.fx = "commit") => Unchanged(job.states)
  /\ job.pc \in {"squashing", "squash-commit"} \/ (job.pc \in {"begin", "dispatch"} /\ job.fx = "squash") => Unchanged(own.states)

(* Between the inspection of the files of an update and their writing no edit comes in. *)
Known(p) == file[p] = Tip[p] \/ (p \in DOMAIN own.states /\ own.states[p] = file[p])
InspectedOK ==
  cfg.commit # "none" =>
    /\ job.pc = "backup" \/ (job.pc \in {"begin", "dispatch"} /\ job.fx = "apply") => \A p \in Writes[wf.u] : Known(p)
    /\ job.pc = "write" => \A p \in job.left : Known(p)

(* A commit or a squash of this run that is none or planned has not been made; HEAD moved from where
   it was planned only by commits of this run or by the reset of a squash. *)
Made == \E s \in DOMAIN objects : OfRun(s)
Since(s, k) == s = eff[k].pre \/ objects[s].run = n.runs
EvidenceOK ==
  /\ eff["squash"].st # "none" => wf.kind = "automation" /\ cfg.commit = "auto"
  /\ eff["commit"].st # "none" => wf.kind = "passive" \/ (wf.kind = "automation" /\ cfg.commit = "final")
  /\ eff["commit"].st \in {"none", "planned"} /\ eff["squash"].st \in {"none", "planned"} => ~Made
  /\ eff["commit"].st # "none" => Since(head, "commit") /\ (Made => head # eff["commit"].pre)
  /\ eff["squash"].st # "none" => Since(head, "squash") \/ head = own.base
  /\ job.pc = "squash-commit" => own.points[Len(own.points)] \in DOMAIN objects
                                 /\ (Since(own.points[Len(own.points)], "squash") \/ own.points[Len(own.points)] = own.base)
  /\ \A k \in {"commit", "squash"} : eff[k].st = "succeeded" /\ eff[k].res = "ok" => Made
  /\ job.pc = "settle" /\ job.fx \in {"commit", "squash"} /\ job.res = "ok" => Made
  /\ job.pc = "squash-receipt" \/ eff["squash"].receipt => Made

(* Where the update of the run has been written as a whole. *)
Written ==
  \/ job.pc \in {"checks", "receipt", "capture", "failed-checks", "commit", "prompting", "message", "approved", "complete"}
  \/ wf.kind = "passive" /\ job.pc \in Around \cup {"committing"} /\ job.fx \in {"prompt", "commit"}
  \/ job.pc \in {"settle", "after"} /\ job.fx = "apply" /\ (job.res = "ok" \/ (job.res = "checks-failed" /\ ~cfg.rollback))
WholeOK ==
  /\ PassiveApplyIsWhole
  /\ wf.kind = "passive" /\ job.pc \notin Idle \cup Recovery \cup {"artifact", "finish"} => art[wf.u] # "applied"
  /\ Written => wf.u \in whole
  /\ eff["apply"].st = "succeeded" /\ eff["apply"].res = "ok" => wf.u \in whole
  /\ backup.receipt => wf.u \in whole
  /\ job.pc \in {"write", "checks", "undo", "capture", "failed-checks"} => ~backup.receipt
  /\ job.pc \in Around /\ job.fx = "revert" => ~backup.receipt
  /\ job.pc \in {"capture", "failed-checks"} \/ (job.pc \in Around \cup Carried /\ job.fx = "revert") => eff["apply"].st = "failed"
  /\ job.pc = "undo" /\ job.fx = "apply" => cfg.rollback /\ job.res # "ok"
  /\ job.pc \in {"settle", "after"} /\ job.fx = "apply" /\ job.res = "checks-failed" /\ ~cfg.rollback =>
       ~backup.receipt /\ (job.pc = "after" => eff["apply"].st = "failed")

GraphOK ==
  \A s \in DOMAIN objects : objects[s].run <= n.runs /\ (ByWorkflow(s) => objects[s].parent \in DOMAIN objects)

IInv ==
  /\ TypeOK /\ PlaceOK /\ EffectOK /\ LeftOK /\ ActionOK /\ ReviewedOK /\ InspectedOK
  /\ GraphOK /\ CommitIsReviewed /\ EvidenceOK /\ WholeOK

-----------------------------------------------------------------------------
(* The shapes of what the steps compute                                     *)

LEMMA SameTypes ==
  ASSUME UNCHANGED objects
  PROVE  Shas' = Shas /\ Owns' = Owns /\ Asks' = Asks /\ Ledgers' = Ledgers /\ Jobs' = Jobs
BY DEF Shas, Owns, Asks, Ledgers, Jobs

LEMMA ShasFacts ==
  ASSUME TypeOK
  PROVE  0 \in Shas /\ head \in Shas /\ DOMAIN objects = 1..Len(objects) /\ Len(objects) \in Nat
         /\ \A s \in Shas : s # 0 => s \in DOMAIN objects
<1>1. objects \in Seq(Objects) /\ head \in DOMAIN objects BY DEF TypeOK
<1>2. DOMAIN objects = 1..Len(objects) /\ Len(objects) \in Nat BY <1>1, LenProperties
<1> QED BY <1>1, <1>2 DEF Shas

(* The fields of a job. *)
SameTask == job'.fx = job.fx /\ job'.res = job.res
SameOwner == job'.u = job.u /\ job'.by = job.by
SameLoad == job'.states = job.states /\ job'.pre = job.pre /\ job'.left = job.left /\ job'.act = job.act

LEMMA GotoFields ==
  ASSUME job \in Jobs, NEW pc \in Places, Goto(pc)
  PROVE  job' \in Jobs /\ job'.pc = pc /\ SameTask /\ SameOwner /\ SameLoad
BY DEF Jobs, Goto, SameTask, SameOwner, SameLoad

LEMMA DoFields ==
  ASSUME job \in Jobs, NEW k \in Effects, Do(k)
  PROVE  job' \in Jobs /\ job'.pc = "begin" /\ job'.fx = k /\ job'.res = "" /\ SameOwner /\ SameLoad
BY ZenonT(40) DEF Jobs, Do, SameOwner, SameLoad, Places, Results

LEMMA DoneFields ==
  ASSUME job \in Jobs, NEW res \in Results, Done(res)
  PROVE  job' \in Jobs /\ job'.pc = "settle" /\ job'.fx = job.fx /\ job'.res = res /\ SameOwner /\ SameLoad
BY DEF Jobs, Done, SameOwner, SameLoad, Places

LEMMA NoStates == NoPath \in States
BY DEF NoPath, States

LEMMA StatesDomain ==
  ASSUME NEW f \in States
  PROVE  DOMAIN f \subseteq Paths /\ \A p \in DOMAIN f : f[p] \in Contents
BY DEF States

LEMMA OffFields ==
  ASSUME TypeOK
  PROVE  /\ Off \in Jobs /\ Off.pc = "off" /\ Off.fx = "" /\ Off.u = "" /\ Off.by = "" /\ Off.res = ""
         /\ Off.act = "" /\ Off.left = {}
BY NoStates, ShasFacts DEF Off, Jobs, Places, Results, Actions

LEMMA CapturedType ==
  ASSUME file \in [Paths -> Contents], NEW S, S \subseteq Paths
  PROVE  Captured(S) \in States /\ DOMAIN Captured(S) = S /\ Unchanged(Captured(S))
BY DEF Captured, States, Unchanged

LEMMA OverType ==
  ASSUME NEW f \in States, NEW g \in States
  PROVE  Over(f, g) \in States
<1>1. DOMAIN f \cup DOMAIN g \in SUBSET Paths BY StatesDomain
<1>2. Over(f, g) \in [DOMAIN f \cup DOMAIN g -> Contents] BY StatesDomain DEF Over
<1> QED BY <1>1, <1>2 DEF States

LEMMA MergedType ==
  ASSUME own \in Owns, NEW base \in Shas, NEW points \in Seq(Shas), NEW states \in States
  PROVE  Merged(base, points, states) \in Owns
<1>1. own.base \in Shas /\ own.points \in Seq(Shas) /\ own.states \in States BY DEF Owns
<1>2. own.points \o points \in Seq(Shas) BY <1>1, ConcatProperties
<1>3. Over(own.states, states) \in States BY <1>1, OverType
<1> QED BY <1>1, <1>2, <1>3 DEF Merged, Owns

LEMMA NoOwnType ==
  ASSUME TypeOK
  PROVE  NoOwn \in Owns
<1>1. <<>> \in Seq(Shas) BY EmptySeq
<1> QED BY <1>1, NoStates, ShasFacts DEF NoOwn, Owns

LEMMA NoAskType ==
  ASSUME TypeOK
  PROVE  NoAsk \in Asks
BY NoStates, ShasFacts, NoOwnType DEF NoAsk, Asks

LEMMA EndFields ==
  ASSUME wf \in WorkflowRecords, NEW life \in {"stopped", "ready", "running", "recovering"}, End(life)
  PROVE  wf' \in WorkflowRecords /\ wf'.life = life /\ wf'.act = "" /\ wf'.kind = wf.kind /\ wf'.u = wf.u
BY DEF WorkflowRecords, End, Actions

LEMMA WaitFields ==
  ASSUME wf \in WorkflowRecords, NEW act \in Actions, NEW payload, Wait(act, payload)
  PROVE  /\ wf' \in WorkflowRecords /\ wf'.life = "waiting" /\ wf'.act = act /\ wf'.kind = wf.kind /\ wf'.u = wf.u
         /\ asked' = payload /\ job' = Off
BY DEF WorkflowRecords, Wait

-----------------------------------------------------------------------------
(* What a step leaves as it was                                             *)

LEMMA GraphKept ==
  ASSUME IInv, UNCHANGED objects, n'.runs = n.runs
  PROVE  GraphOK' /\ CommitIsReviewed'
BY DEF IInv, GraphOK, CommitIsReviewed, ByWorkflow, Tree

LEMMA EvidenceKept ==
  ASSUME IInv, UNCHANGED <<cfg, objects, head, eff>>, n'.runs = n.runs, wf'.kind = wf.kind,
         own'.base = own.base \/ wf.kind = "passive",
         job'.pc \notin {"squash-commit", "squash-receipt"},
         job'.pc = "settle" => job'.fx \notin {"commit", "squash"} \/ job'.res # "ok"
  PROVE  EvidenceOK'
BY DEF IInv, EvidenceOK, Made, Since, OfRun, ByWorkflow

Guarded == {"begin", "dispatch", "backup", "write", "committing", "squashing", "squash-commit"}

LEMMA Unguarded ==
  ASSUME job'.pc \notin Guarded
  PROVE  ReviewedOK' /\ InspectedOK'
BY DEF Guarded, ReviewedOK, InspectedOK

(* A step of a run to its next place. *)
Onward ==
  /\ job.pc \notin Idle \cup Recovery /\ UNCHANGED <<cfg, wf, up>>
  /\ job' \in Jobs /\ SameOwner /\ job'.pc \notin Idle \cup Recovery \cup {"finalize", "restore"}

LEMMA Running ==
  ASSUME IInv, job.pc \notin Idle \cup Recovery
  PROVE  up /\ wf.act = "" /\ wf.life = "running" /\ (wf.kind = "passive" => wf.u \in Updates)
BY DEF IInv, PlaceOK, Idle

LEMMA OnwardPlace ==
  ASSUME IInv, Onward, job'.pc \in Passive => OfPassive, job'.pc = "failed-checks" => asked'.u = wf.u
  PROVE  PlaceOK' /\ ActionOK' /\ (OfPassive' <=> OfPassive) /\ (OfAutomation' <=> OfAutomation) /\ (OfManual' <=> OfManual)
<1>1. (OfPassive' <=> OfPassive) /\ (OfAutomation' <=> OfAutomation) /\ (OfManual' <=> OfManual)
  BY DEF Onward, SameOwner, OfPassive, OfAutomation, OfManual
<1>2. PlaceOK' BY <1>1, Running DEF Onward, IInv, PlaceOK, Idle, Recovery
<1>3. ActionOK' BY Running DEF Onward, ActionOK, Pending, Recovery
<1> QED BY <1>1, <1>2, <1>3

(* To a place that carries out no effect. *)
LEMMA OnwardPlain ==
  ASSUME IInv, Onward, UNCHANGED eff, job'.pc \notin Around \cup Carried
  PROVE  EffectOK' /\ LeftOK'
<1>1. EffectOK' BY DEF IInv, EffectOK, Around, Carried
<1>2. LeftOK' BY DEF Onward, LeftOK, Carried, Applying, Restoring, Recovery
<1> QED BY <1>1, <1>2

(* The written update of the run stays whole. *)
LEMMA OnwardWhole ==
  ASSUME IInv, UNCHANGED <<cfg, wf, art, whole, backup>>, eff'["apply"] = eff["apply"],
         job.pc \notin Idle \cup Recovery \cup {"artifact", "finish"},
         job'.pc \notin {"write", "checks", "undo", "capture", "failed-checks"},
         ~(job'.pc \in Around \cup Carried /\ job'.fx = "revert"),
         ~(job'.pc \in {"settle", "after"} /\ job'.fx = "apply"),
         Written' => wf.u \in whole
  PROVE  WholeOK'
<1>1. PassiveApplyIsWhole' BY DEF IInv, WholeOK, PassiveApplyIsWhole
<1> QED BY <1>1 DEF IInv, WholeOK

(* The job ends. *)
LEMMA Leave ==
  ASSUME IInv, UNCHANGED <<cfg, file, objects, head, tracked, refs, own, eff, backup, whole>>, up' \in BOOLEAN,
         n' \in Counters, n'.runs = n.runs,
         job' \in Jobs, job'.pc \in Idle, up' \/ job'.pc = "off",
         wf' \in WorkflowRecords, (wf'.act # "") <=> (wf'.life = "waiting"), wf'.kind = wf.kind, wf'.u = wf.u,
         wf'.life \in {"ready", "stopped", wf.life} \/ wf.life = "waiting" \/ job.pc \notin Idle,
         asked' \in Asks, art' \in [Updates -> Artifacts], PassiveApplyIsWhole', ActionOK'
  PROVE  IInv'
<1>1. TypeOK' BY SameTypes DEF IInv, TypeOK
<1>2. PlaceOK' BY DEF IInv, PlaceOK, Idle, Recovery, Passive
<1>3. EffectOK' BY DEF IInv, EffectOK, Idle, Around, Carried, Applying, Squashing, Restoring
<1>4. LeftOK' BY DEF LeftOK, Idle
<1>5. ReviewedOK' /\ InspectedOK' BY Unguarded DEF Idle, Guarded
<1>6. GraphOK' /\ CommitIsReviewed' BY GraphKept
<1>7. EvidenceOK' BY EvidenceKept DEF Idle
<1>8. WholeOK' BY DEF IInv, WholeOK, Idle, Written, Around, Carried, Applying, Squashing, Restoring
<1> QED BY <1>1, <1>2, <1>3, <1>4, <1>5, <1>6, <1>7, <1>8 DEF IInv

(* The job moves to a place of the run that carries out no effect. *)
LEMMA PlainMove ==
  ASSUME IInv, Onward, UNCHANGED <<objects, head, eff, n>>, own'.base = own.base \/ OfPassive,
         job'.pc \notin Around \cup Carried, job'.pc \in Passive => OfPassive,
         job'.pc = "failed-checks" => asked'.u = wf.u, TypeOK', WholeOK'
  PROVE  IInv'
<1>1. PlaceOK' /\ ActionOK' BY OnwardPlace
<1>2. EffectOK' /\ LeftOK' BY OnwardPlain
<1>3. ReviewedOK' /\ InspectedOK'
  BY Unguarded DEF Guarded, Around, Carried, Applying, Squashing
<1>4. GraphOK' /\ CommitIsReviewed' BY GraphKept
<1>5. EvidenceOK' BY EvidenceKept DEF Onward, Around, Carried, Squashing, OfPassive
<1> QED BY <1>1, <1>2, <1>3, <1>4, <1>5 DEF IInv

-----------------------------------------------------------------------------
(* An observed result, up to its application                                *)

LEMMA AtPassive ==
  ASSUME IInv, job.pc \in Passive \/ (job.pc \in Around \cup Carried /\ job.fx \in {"apply", "prompt", "revert"})
  PROVE  /\ OfPassive /\ wf.u \in Updates /\ job.u = wf.u /\ Writes[wf.u] \subseteq Paths
         /\ job.pc \notin Idle \cup Recovery
<1>1. OfPassive BY DEF IInv, PlaceOK, EffectOK, Owner
<1>2. wf.u \in Updates BY <1>1 DEF IInv, PlaceOK, OfPassive
<1>3. job.pc \notin Idle \cup Recovery
  BY DEF Passive, Around, Carried, Applying, Squashing, Restoring, Idle, Recovery
<1> QED BY <1>1, <1>2, <1>3, WritesAssumption DEF OfPassive, WritesAssumption

LEMMA EndsRun ==
  ASSUME IInv, job.pc \notin Idle \cup Recovery, End("ready"), job' = Off,
         UNCHANGED <<cfg, project, backup, own, asked, eff, art, up, n, whole>>
  PROVE  IInv'
<1>1. TypeOK BY DEF IInv
<1>2. wf' \in WorkflowRecords /\ wf'.life = "ready" /\ wf'.act = "" /\ wf'.kind = wf.kind /\ wf'.u = wf.u
  BY EndFields DEF IInv, TypeOK
<1>3. job' \in Jobs /\ job'.pc = "off" /\ job'.act = "" BY <1>1, OffFields
<1>4. ActionOK' BY <1>2, <1>3 DEF ActionOK, Pending
<1>5. PassiveApplyIsWhole' BY DEF IInv, WholeOK, PassiveApplyIsWhole
<1>6. up' \in BOOLEAN /\ asked' \in Asks /\ art' \in [Updates -> Artifacts] /\ n' \in Counters BY DEF IInv, TypeOK
<1> QED BY <1>2, <1>3, <1>4, <1>5, <1>6, Leave DEF project, Idle

LEMMA StepArtifact == ASSUME IInv, Artifact PROVE IInv'
<1>1. job.pc = "artifact" /\ UNCHANGED <<cfg, project, backup, own, asked, eff, up, n, whole>>
  BY DEF Artifact, Here
<1>2. OfPassive /\ wf.u \in Updates /\ job.u = wf.u /\ job.pc \notin Idle \cup Recovery
  BY <1>1, AtPassive DEF Passive
<1>3. CASE art[job.u] \in {"applied", "verified", "pending-approval", "awaiting-commit"}
  BY <1>1, <1>2, <1>3, EndsRun DEF Artifact
<1>4. CASE art[job.u] \notin {"applied", "verified", "pending-approval", "awaiting-commit"}
  <2>1. art' = [art EXCEPT ![wf.u] = "verified"] /\ Goto("plan") /\ UNCHANGED wf
    BY <1>2, <1>4 DEF Artifact
  <2>2. job' \in Jobs /\ job'.pc = "plan" /\ SameTask /\ SameOwner /\ SameLoad
    BY <2>1, GotoFields DEF IInv, TypeOK, Places
  <2>3. art' \in [Updates -> Artifacts] BY <2>1 DEF IInv, TypeOK, Artifacts
  <2>4. TypeOK' BY <1>1, <2>1, <2>2, <2>3, SameTypes DEF IInv, TypeOK, project
  <2>5. PassiveApplyIsWhole' BY <1>1, <2>1 DEF IInv, TypeOK, WholeOK, PassiveApplyIsWhole
  <2>6. art'[wf'.u] = "verified" BY <1>2, <2>1 DEF IInv, TypeOK
  <2>7. WholeOK' BY <1>1, <2>1, <2>2, <2>5, <2>6
    DEF IInv, WholeOK, Written, Around, Carried, Applying, Squashing, Restoring
  <2>8. Onward BY <1>1, <1>2, <2>1, <2>2 DEF Onward, Idle, Recovery
  <2> QED BY <1>1, <1>2, <2>2, <2>4, <2>7, <2>8, PlainMove
          DEF project, Around, Carried, Applying, Squashing, Restoring
<1> QED BY <1>3, <1>4

(* The user is asked about the update of the run. *)
LEMMA AsksUser ==
  ASSUME IInv, OfPassive, wf.u \in Updates, job.pc \notin Idle \cup Recovery,
         UNCHANGED <<cfg, project, backup, own, eff, up, n, whole>>,
         NEW act \in {"apply", "commit", "failed-checks"}, NEW payload \in Asks, payload.u = wf.u, Wait(act, payload),
         NEW status \in Artifacts \ {"applied"},
         art' = [art EXCEPT ![wf.u] = status] \/ (art' = art /\ art[wf.u] # "applied"),
         act # "apply" => wf.u \in whole,
         act = "failed-checks" => eff["apply"].st = "failed" /\ ~backup.receipt
  PROVE  IInv'
<1>1. TypeOK BY DEF IInv
<1>2. /\ wf' \in WorkflowRecords /\ wf'.life = "waiting" /\ wf'.act = act /\ wf'.kind = wf.kind /\ wf'.u = wf.u
      /\ asked' = payload /\ job' = Off
  BY WaitFields DEF IInv, TypeOK, Actions
<1>3. job' \in Jobs /\ job'.pc = "off" BY <1>1, <1>2, OffFields
<1>4. art' \in [Updates -> Artifacts] /\ art'[wf.u] # "applied" BY DEF IInv, TypeOK
<1>5. PassiveApplyIsWhole' BY DEF IInv, TypeOK, WholeOK, PassiveApplyIsWhole
<1>6. ActionOK' BY <1>2, <1>3, <1>4 DEF ActionOK, Pending, OfPassive
<1>7. up' \in BOOLEAN /\ n' \in Counters BY DEF IInv, TypeOK
<1> QED BY <1>2, <1>3, <1>4, <1>5, <1>6, <1>7, Leave DEF project, Idle

LEMMA StepPlan == ASSUME IInv, Plan PROVE IInv'
<1>1. job.pc = "plan" /\ UNCHANGED <<cfg, project, backup, own, eff, up, n, whole>>
  BY DEF Plan, Here
<1>2. OfPassive /\ wf.u \in Updates /\ job.u = wf.u /\ job.pc \notin Idle \cup Recovery
  BY <1>1, AtPassive DEF Passive
<1>3. CASE cfg.ask
  <2> DEFINE payload == [NoAsk EXCEPT !.u = wf.u]
  <2>1. payload \in Asks /\ payload.u = wf.u
    BY <1>2, NoAskType DEF IInv, Asks
  <2>2. Wait("apply", payload) /\ art' = [art EXCEPT ![wf.u] = "pending-approval"]
    BY <1>2, <1>3 DEF Plan
  <2>3. "pending-approval" \in Artifacts \ {"applied"} BY DEF Artifacts
  <2> HIDE DEF payload
  <2> QED BY <1>1, <1>2, <2>1, <2>2, <2>3, AsksUser
<1>4. CASE ~cfg.ask
  <2>1. Goto("inspect") /\ UNCHANGED <<art, wf, asked>> BY <1>4 DEF Plan
  <2>2. job' \in Jobs /\ job'.pc = "inspect" /\ SameTask /\ SameOwner /\ SameLoad
    BY <2>1, GotoFields DEF IInv, TypeOK, Places
  <2>3. TypeOK' BY <1>1, <2>1, <2>2, SameTypes DEF IInv, TypeOK, project
  <2>4. WholeOK'
    <3>1. ~Written' BY <2>2 DEF Written, Around
    <3> QED BY <1>1, <1>2, <2>1, <2>2, <3>1, OnwardWhole DEF Around, Carried, Applying, Squashing, Restoring
  <2>5. Onward BY <1>1, <1>2, <2>1, <2>2 DEF Onward, Idle, Recovery
  <2> QED BY <1>1, <1>2, <2>2, <2>3, <2>4, <2>5, PlainMove
          DEF project, Around, Carried, Applying, Squashing, Restoring
<1> QED BY <1>3, <1>4

LEMMA ThrowEnds ==
  ASSUME IInv, Throw, UNCHANGED <<cfg, project, backup, own, eff, art, up, n, whole>>,
         job.pc \notin Idle \cup Recovery \cup {"artifact", "finish"},
         OfPassive \/ OfAutomation \/ OfManual
  PROVE  IInv'
<1>1. TypeOK BY DEF IInv
<1>2. up /\ wf.act = "" /\ wf.life = "running" /\ (wf.kind = "passive" => wf.u \in Updates) BY Running
<1>3. job' = Off /\ job' \in Jobs /\ job'.pc = "off" BY <1>1, OffFields DEF Throw
<1>4. up' \in BOOLEAN /\ n' \in Counters /\ art' \in [Updates -> Artifacts] /\ wf \in WorkflowRecords /\ asked \in Asks
  BY DEF IInv, TypeOK
<1>5. PassiveApplyIsWhole' BY DEF IInv, WholeOK, PassiveApplyIsWhole
<1>6. CASE job.by = "approve"
  <2>1. OfPassive BY <1>6 DEF OfAutomation, OfManual
  <2>2. wf' = [wf EXCEPT !.life = "waiting", !.act = "apply"] /\ asked' = [asked EXCEPT !.u = wf.u]
    BY <1>2, <1>6, <2>1 DEF Throw, OfPassive
  <2>3. /\ wf' \in WorkflowRecords /\ wf'.life = "waiting" /\ wf'.act = "apply" /\ wf'.kind = wf.kind
        /\ wf'.u = wf.u
    BY <1>4, <2>2 DEF WorkflowRecords, Actions
  <2>4. asked' \in Asks /\ asked'.u = wf.u BY <1>2, <1>4, <2>1, <2>2 DEF Asks, OfPassive
  <2>5. art[wf.u] # "applied" BY <2>1 DEF IInv, WholeOK, OfPassive
  <2>6. ActionOK' BY <1>3, <2>1, <2>3, <2>4, <2>5 DEF ActionOK, Pending, OfPassive
  <2> QED BY <1>2, <1>3, <1>4, <1>5, <2>3, <2>4, <2>6, Leave DEF project, Idle
<1>7. CASE job.by \in {"passive", "automation", "manual"}
  <2>1. End("ready") /\ UNCHANGED asked BY <1>2, <1>7 DEF Throw
  <2> QED BY <1>3, <2>1, EndsRun
<1>8. CASE job.by \in {"commit", "keep", "fix", "revert"}
  <2>1. UNCHANGED <<wf, asked>> BY <1>2, <1>8 DEF Throw
  <2>2. ActionOK' BY <1>2, <1>3, <2>1 DEF ActionOK, Pending
  <2>3. (wf'.act # "") <=> (wf'.life = "waiting") BY <2>1 DEF IInv, TypeOK
  <2> QED BY <1>2, <1>3, <1>4, <1>5, <2>1, <2>2, <2>3, Leave DEF project, Idle
<1> QED BY <1>6, <1>7, <1>8 DEF OfPassive, OfAutomation, OfManual

LEMMA StepInspect == ASSUME IInv, Inspect PROVE IInv'
<1>1. job.pc = "inspect" /\ UNCHANGED <<cfg, project, backup, own, eff, art, up, n, whole>>
  BY DEF Inspect, Here
<1>2. /\ OfPassive /\ wf.u \in Updates /\ job.u = wf.u /\ job.pc \notin Idle \cup Recovery
      /\ Writes[wf.u] \subseteq Paths
  BY <1>1, AtPassive DEF Passive
<1>3. CASE cfg.commit # "none" /\ Overlap(job.u) # {}
  BY <1>1, <1>2, <1>3, ThrowEnds DEF Inspect
<1>4. CASE ~(cfg.commit # "none" /\ Overlap(job.u) # {})
  <2> DEFINE pre == IF cfg.commit = "none" THEN 0 ELSE head
  <2>1. job' = [job EXCEPT !.pc = "begin", !.fx = "apply", !.pre = pre] /\ UNCHANGED <<wf, asked>>
    BY <1>4 DEF Inspect
  <2>2. pre \in Shas BY ShasFacts DEF IInv
  <2> HIDE DEF pre
  <2>3. /\ job' \in Jobs /\ job'.pc = "begin" /\ job'.fx = "apply" /\ SameOwner
    BY <2>1, <2>2 DEF IInv, TypeOK, Jobs, Places, Effects, SameOwner
  <2>4. TypeOK' BY <1>1, <2>1, <2>3, SameTypes DEF IInv, TypeOK, project
  <2>5. Onward BY <1>1, <1>2, <2>1, <2>3 DEF Onward, Idle, Recovery
  <2>6. PlaceOK' /\ ActionOK' /\ (OfPassive' <=> OfPassive) BY <1>2, <2>3, <2>5, OnwardPlace
  <2>7. EffectOK'
    BY <1>1, <1>2, <2>3, <2>6
    DEF IInv, EffectOK, Owner, Around, Carried, Applying, Squashing, Restoring, Effects
  <2>8. LeftOK' BY <2>3 DEF LeftOK
  <2>9. ReviewedOK' BY <2>3 DEF ReviewedOK
  <2>10. InspectedOK'
    <3>1. cfg.commit # "none" => \A p \in Writes[wf.u] : Known(p)
      BY <1>2, <1>4 DEF Overlap, Dirty, Known
    <3>2. \A p \in Writes[wf.u] : Known(p) => Known(p)'
      BY <1>1 DEF Known, Tip, Tree, project
    <3> QED BY <1>1, <2>1, <2>3, <3>1, <3>2 DEF InspectedOK
  <2>11. GraphOK' /\ CommitIsReviewed' BY <1>1, GraphKept DEF project
  <2>12. EvidenceOK' BY <1>1, <2>1, <2>3, EvidenceKept DEF project
  <2>13. WholeOK'
    <3>1. ~Written' BY <2>3 DEF Written
    <3> QED BY <1>1, <1>2, <2>1, <2>3, <3>1, OnwardWhole
  <2> QED BY <2>4, <2>6, <2>7, <2>8, <2>9, <2>10, <2>11, <2>12, <2>13 DEF IInv
<1> QED BY <1>3, <1>4

-----------------------------------------------------------------------------
(* executeLocalEffect                                                       *)

(* A step around an effect keeps its owner, its task and its load. *)
LEMMA AtEffect ==
  ASSUME IInv, job.pc \in Around \cup Carried
  PROVE  /\ job.fx \in Effects /\ Owner(job.fx) /\ job.pc \notin Idle \cup Recovery
         /\ (OfPassive => wf.u \in Updates) /\ (OfPassive \/ OfAutomation \/ OfManual)
<1>1. job.fx \in Effects /\ Owner(job.fx) BY DEF IInv, EffectOK
<1>2. job.pc \notin Idle \cup Recovery
  BY DEF Around, Carried, Applying, Squashing, Restoring, Idle, Recovery
<1>3. OfPassive => wf.u \in Updates BY DEF IInv, PlaceOK, OfPassive
<1>4. OfPassive \/ OfAutomation \/ OfManual BY <1>1 DEF Owner, Effects
<1> QED BY <1>1, <1>2, <1>3, <1>4

LEMMA SameEffect ==
  ASSUME IInv, Onward, job'.fx = job.fx, job.pc \in Around \cup Carried, job'.pc \notin Passive
  PROVE  PlaceOK' /\ ActionOK' /\ Owner(job.fx)'
<1>1. PlaceOK' /\ ActionOK' /\ (OfPassive' <=> OfPassive) /\ (OfAutomation' <=> OfAutomation) /\ (OfManual' <=> OfManual)
  BY OnwardPlace DEF Passive
<1>2. cfg' = cfg BY DEF Onward
<1> QED BY <1>1, <1>2, AtEffect DEF Owner

LEMMA StepBegin == ASSUME IInv, Begin PROVE IInv'
<1>1. job.pc = "begin" /\ up /\ UNCHANGED <<cfg, project, backup, own, wf, asked, art, up, n, whole>>
  BY DEF Begin, Here
<1>2. /\ job.fx \in Effects /\ Owner(job.fx) /\ job.pc \notin Idle \cup Recovery
      /\ (OfPassive => wf.u \in Updates)
  BY <1>1, AtEffect DEF Around
<1>3. job \in Jobs /\ eff \in Ledgers BY DEF IInv, TypeOK
<1>4. GraphOK' /\ CommitIsReviewed' BY <1>1, GraphKept DEF project
<1>5. ASSUME NEW res \in Results, job' = [job EXCEPT !.pc = "after", !.res = res], UNCHANGED eff,
             res = "threw" \/ (eff[job.fx].st = "succeeded" /\ res = eff[job.fx].res)
      PROVE  IInv'
  <2>1. job' \in Jobs /\ job'.pc = "after" /\ job'.res = res /\ job'.fx = job.fx /\ SameOwner
    BY <1>3, <1>5 DEF Jobs, Places, SameOwner
  <2>2. TypeOK' BY <1>1, <1>5, <2>1, SameTypes DEF IInv, TypeOK, project
  <2>3. Onward BY <1>1, <1>2, <2>1 DEF Onward, Idle, Recovery
  <2>4. PlaceOK' /\ ActionOK' /\ Owner(job.fx)'
    BY <1>1, <2>1, <2>3, SameEffect DEF Around, Passive
  <2>5. EffectOK'
    BY <1>2, <1>5, <2>1, <2>4 DEF IInv, EffectOK, Around, Carried, Applying, Squashing, Restoring
  <2>6. LeftOK' BY <2>1 DEF LeftOK
  <2>7. ReviewedOK' /\ InspectedOK' BY <2>1, Unguarded DEF Guarded
  <2>8. EvidenceOK' BY <1>1, <1>5, <2>1, EvidenceKept DEF project
  <2>9. WholeOK'
    <3>1. res # "checks-failed" BY <1>2, <1>5 DEF IInv, EffectOK
    <3>2. PassiveApplyIsWhole' BY <1>1 DEF IInv, WholeOK, PassiveApplyIsWhole
    <3>3. Written' => wf.u \in whole
      BY <1>1, <1>2, <1>5, <2>1, <3>1 DEF IInv, WholeOK, Written, Around
    <3>4. job.fx = "revert" => ~backup.receipt /\ eff["apply"].st = "failed"
      BY <1>1 DEF IInv, WholeOK, Around
    <3> QED BY <1>1, <1>2, <1>5, <2>1, <3>1, <3>2, <3>3, <3>4 DEF IInv, WholeOK, Idle, Recovery
  <2> QED BY <1>4, <2>2, <2>4, <2>5, <2>6, <2>7, <2>8, <2>9 DEF IInv
<1>6. ASSUME Goto("dispatch"), eff' \in Ledgers, \A k \in Effects \ {job.fx} : eff'[k] = eff[k],
             eff'[job.fx].st = "planned", EvidenceOK'
      PROVE  IInv'
  <2>1. job' \in Jobs /\ job'.pc = "dispatch" /\ SameTask /\ SameOwner /\ SameLoad
    BY <1>3, <1>6, GotoFields DEF Places
  <2>2. TypeOK' BY <1>1, <1>6, <2>1, SameTypes DEF IInv, TypeOK, project
  <2>3. Onward BY <1>1, <1>2, <2>1 DEF Onward, Idle, Recovery
  <2>4. job'.fx = job.fx BY <2>1 DEF SameTask
  <2>5. PlaceOK' /\ ActionOK' /\ Owner(job.fx)'
    BY <1>1, <2>1, <2>3, <2>4, SameEffect DEF Around, Passive
  <2>6. EffectOK'
    BY <1>2, <1>6, <2>1, <2>4, <2>5 DEF IInv, EffectOK, Around, Carried, Applying, Squashing, Restoring
  <2>7. LeftOK' BY <2>1 DEF LeftOK
  <2>8. ReviewedOK' BY <1>1, <2>1, <2>4 DEF IInv, ReviewedOK, Unchanged, SameLoad, project
  <2>9. InspectedOK'
    <3>1. \A p : Known(p)' <=> Known(p) BY <1>1 DEF Known, Tip, Tree, project
    <3> QED BY <1>1, <2>1, <2>4, <3>1 DEF IInv, InspectedOK
  <2>10. WholeOK'
    <3>1. PassiveApplyIsWhole' BY <1>1 DEF IInv, WholeOK, PassiveApplyIsWhole
    <3>2. Written' => wf.u \in whole
      BY <1>1, <2>1, <2>4 DEF IInv, WholeOK, Written, Around
    <3>3. job.fx = "revert" => ~backup.receipt /\ eff["apply"].st = "failed"
      BY <1>1 DEF IInv, WholeOK, Around
    <3>4. job.fx # "apply" => eff'["apply"] = eff["apply"] BY <1>6 DEF Effects
    <3> QED BY <1>1, <1>2, <1>6, <2>1, <2>4, <3>1, <3>2, <3>3, <3>4
            DEF IInv, WholeOK, Idle, Recovery
  <2> QED BY <1>4, <1>6, <2>2, <2>5, <2>6, <2>7, <2>8, <2>9, <2>10 DEF IInv
<1>7. CASE wf.stop \/ eff[job.fx].st \notin {"none", "planned", "succeeded"}
  BY <1>5, <1>7 DEF Begin, Results
<1>8. CASE ~wf.stop /\ eff[job.fx].st = "succeeded"
  <2>1. eff[job.fx].res \in Results BY <1>2, <1>3 DEF Ledgers
  <2> QED BY <1>5, <1>8, <2>1 DEF Begin
<1>9. CASE ~wf.stop /\ eff[job.fx].st = "none"
  <2> DEFINE pre == IF job.fx \in {"commit", "squash", "restore"} THEN head ELSE 0
             planned == [NoEffect EXCEPT !.st = "planned", !.pre = pre]
  <2>1. eff' = [eff EXCEPT ![job.fx] = planned] /\ Goto("dispatch") BY <1>9 DEF Begin
  <2>2. pre \in Shas /\ 0 \in Shas BY ShasFacts DEF IInv
  <2>3. /\ planned \in [st : Statuses, pre : Shas, res : Results, sha : Shas, receipt : BOOLEAN]
        /\ planned.st = "planned" /\ planned.pre = pre /\ planned.res = "" /\ planned.receipt = FALSE
    BY <2>2 DEF NoEffect, Statuses, Results
  <2>4. job.fx \in {"commit", "squash"} => pre = head BY DEF pre
  <2> HIDE DEF pre, planned
  <2>5. eff' \in Ledgers /\ (\A k \in Effects \ {job.fx} : eff'[k] = eff[k]) /\ eff'[job.fx] = planned
    BY <1>2, <1>3, <2>1, <2>3 DEF Ledgers
  <2>6. /\ job'.pc = "dispatch" /\ (Made' <=> Made) /\ cfg' = cfg /\ wf' = wf /\ head' = head /\ own' = own
    BY <1>1, <1>3, <2>1, GotoFields DEF Made, OfRun, ByWorkflow, project, Places
  <2>7. \A s, k : eff'[k].pre = eff[k].pre => (Since(s, k)' <=> Since(s, k)) BY <1>1 DEF Since, project
  <2>8. CASE job.fx = "commit"
    <3>1. wf.kind = "passive" \/ (wf.kind = "automation" /\ cfg.commit = "final")
      BY <1>2, <2>8 DEF Owner, OfPassive, OfAutomation
    <3>2. eff["squash"].st = "none" /\ eff'["squash"] = eff["squash"]
      BY <2>5, <2>8, <3>1 DEF IInv, EvidenceOK, Effects
    <3>3. ~Made BY <1>9, <2>8, <3>2 DEF IInv, EvidenceOK
    <3>4. Since(head, "commit")' BY <2>3, <2>4, <2>5, <2>6, <2>8 DEF Since
    <3>5. EvidenceOK'
      BY <2>3, <2>5, <2>6, <2>8, <3>1, <3>2, <3>3, <3>4 DEF IInv, EvidenceOK
    <3> QED BY <1>6, <2>1, <2>3, <2>5, <3>5
  <2>9. CASE job.fx = "squash"
    <3>1. wf.kind = "automation" /\ cfg.commit = "auto"
      BY <1>2, <2>9 DEF Owner, OfAutomation
    <3>2. eff["commit"].st = "none" /\ eff'["commit"] = eff["commit"]
      BY <2>5, <2>9, <3>1 DEF IInv, EvidenceOK, Effects
    <3>3. ~Made BY <1>9, <2>9, <3>2 DEF IInv, EvidenceOK
    <3>4. Since(head, "squash")' BY <2>3, <2>4, <2>5, <2>6, <2>9 DEF Since
    <3>5. EvidenceOK'
      BY <2>3, <2>5, <2>6, <2>9, <3>1, <3>2, <3>3, <3>4 DEF IInv, EvidenceOK
    <3> QED BY <1>6, <2>1, <2>3, <2>5, <3>5
  <2>10. CASE job.fx \notin {"commit", "squash"}
    <3>1. eff'["commit"] = eff["commit"] /\ eff'["squash"] = eff["squash"] BY <2>5, <2>10 DEF Effects
    <3>2. Since(head, "commit")' <=> Since(head, "commit") BY <2>6, <2>7, <3>1
    <3>3. Since(head, "squash")' <=> Since(head, "squash") BY <2>6, <2>7, <3>1
    <3>4. EvidenceOK' BY <2>6, <3>1, <3>2, <3>3 DEF IInv, EvidenceOK
    <3> QED BY <1>6, <2>1, <2>3, <2>5, <3>4
  <2> QED BY <2>8, <2>9, <2>10
<1>10. CASE ~wf.stop /\ eff[job.fx].st = "planned"
  <2>1. Goto("dispatch") /\ UNCHANGED eff BY <1>10 DEF Begin
  <2>2. job'.pc = "dispatch" BY <1>3, <2>1, GotoFields DEF Places
  <2>3. EvidenceOK' BY <1>1, <2>1, <2>2, EvidenceKept DEF project
  <2> QED BY <1>3, <1>6, <1>10, <2>1, <2>3
<1> QED BY <1>7, <1>8, <1>9, <1>10

(* The record of one effect moves on.                                       *)
LEMMA EvidenceEffect ==
  ASSUME IInv, UNCHANGED <<cfg, objects, head, n>>, own'.base = own.base, wf'.kind = wf.kind,
         NEW k \in Effects, \A j \in Effects \ {k} : eff'[j] = eff[j],
         eff'[k].pre = eff[k].pre, eff'[k].receipt = eff[k].receipt,
         eff[k].st # "none", eff'[k].st \notin {"none", "planned"},
         k \in {"commit", "squash"} /\ eff'[k].st = "succeeded" /\ eff'[k].res = "ok" => Made,
         job'.pc \notin {"settle", "squash-commit", "squash-receipt"}
  PROVE  EvidenceOK'
<1>1. Made' <=> Made BY DEF Made, OfRun, ByWorkflow
<1>2. \A j \in Effects : eff'[j].pre = eff[j].pre /\ eff'[j].receipt = eff[j].receipt OBVIOUS
<1>3. \A j \in Effects : eff'[j].st # "none" => eff[j].st # "none" OBVIOUS
<1>4. \A s : Since(s, "commit")' <=> Since(s, "commit") BY <1>2 DEF Since, Effects
<1>5. \A s : Since(s, "squash")' <=> Since(s, "squash") BY <1>2 DEF Since, Effects
<1>6. \A j \in Effects : eff'[j].st \in {"none", "planned"} => eff[j].st = eff'[j].st OBVIOUS
<1>7. "commit" \in Effects /\ "squash" \in Effects BY DEF Effects
<1>8. Since(head, "commit")' <=> Since(head, "commit") BY DEF Since, Effects
<1>9. Since(head, "squash")' <=> Since(head, "squash") BY DEF Since, Effects
<1>10. \A j \in {"commit", "squash"} : eff'[j].st = "succeeded" /\ eff'[j].res = "ok" => Made
  BY <1>7 DEF IInv, EvidenceOK
<1> QED BY <1>1, <1>2, <1>3, <1>6, <1>7, <1>8, <1>9, <1>10 DEF IInv, EvidenceOK

LEMMA StepDispatch == ASSUME IInv, Dispatch PROVE IInv'
<1>1. job.pc = "dispatch" /\ UNCHANGED <<cfg, project, backup, own, wf, asked, art, up, n, whole>>
  BY DEF Dispatch, Here
<1>2. /\ job.fx \in Effects /\ Owner(job.fx) /\ job.pc \notin Idle \cup Recovery
      /\ (OfPassive => wf.u \in Updates)
  BY <1>1, AtEffect DEF Around
<1>3. eff[job.fx].st = "planned" BY <1>1 DEF IInv, EffectOK
<1>4. job \in Jobs /\ eff \in Ledgers /\ backup \in Backups /\ own \in Owns BY DEF IInv, TypeOK
<1>5. /\ eff' \in Ledgers /\ \A k \in Effects \ {job.fx} : eff'[k] = eff[k]
      /\ eff'[job.fx].st = "dispatched" /\ eff'[job.fx].pre = eff[job.fx].pre
      /\ eff'[job.fx].receipt = eff[job.fx].receipt
  BY <1>2, <1>4 DEF Dispatch, Ledgers, Statuses
<1> DEFINE left == IF job.fx = "revert" THEN DOMAIN backup.manifest
                   ELSE IF job.fx = "restore" THEN DOMAIN own.states ELSE {}
<1>6. job' = [job EXCEPT !.pc = FirstStep(job.fx), !.left = left] BY DEF Dispatch
<1>7. left \subseteq Paths BY <1>4, StatesDomain DEF Backups, Owns
<1>8. job.fx = "revert" => left \subseteq DOMAIN backup.manifest OBVIOUS
<1> HIDE DEF left
<1>9. /\ FirstStep(job.fx) \in Places
      /\ FirstStep(job.fx) \in Carried \ {"write", "checks", "receipt", "restoring", "squash-commit", "squash-receipt"}
      /\ FirstStep(job.fx) \in Applying <=> job.fx = "apply"
      /\ FirstStep(job.fx) \in Squashing <=> job.fx = "squash"
      /\ FirstStep(job.fx) \in Restoring <=> job.fx = "restore"
      /\ FirstStep(job.fx) = "undo" <=> job.fx = "revert"
      /\ FirstStep(job.fx) = "prompting" <=> job.fx = "prompt"
      /\ FirstStep(job.fx) = "committing" <=> job.fx = "commit"
      /\ FirstStep(job.fx) \notin Around \cup Passive \cup Idle \cup Recovery \cup {"finalize", "restore"}
  BY <1>2 DEF FirstStep, Effects, Places, Carried, Applying, Squashing, Restoring, Around, Passive, Idle, Recovery
<1>10. /\ job' \in Jobs /\ job'.pc = FirstStep(job.fx) /\ job'.left = left /\ job'.fx = job.fx /\ SameOwner
       /\ job'.states = job.states
  BY <1>4, <1>6, <1>7, <1>9 DEF Jobs, SameOwner
<1>11. TypeOK' BY <1>1, <1>5, <1>10, SameTypes DEF IInv, TypeOK, project
<1>12. Onward BY <1>1, <1>2, <1>9, <1>10 DEF Onward
<1>13. PlaceOK' /\ ActionOK' /\ Owner(job.fx)' BY <1>1, <1>9, <1>10, <1>12, SameEffect DEF Around
<1>14. EffectOK'
  <2>1. \A k \in Effects : eff'[k].st = "succeeded" => eff'[k].res \in {"ok", "nothing"}
    BY <1>5 DEF IInv, EffectOK
  <2> QED BY <1>2, <1>5, <1>9, <1>10, <1>13, <2>1 DEF EffectOK, Around
<1>15. LeftOK'
  BY <1>1, <1>7, <1>8, <1>9, <1>10
  DEF LeftOK, Carried, Applying, Squashing, Restoring, Recovery
<1>16. ReviewedOK'
  <2>1. job.fx = "commit" => Unchanged(job.states) BY <1>1 DEF IInv, ReviewedOK
  <2>2. job.fx = "squash" => Unchanged(own.states) BY <1>1 DEF IInv, ReviewedOK
  <2> QED BY <1>1, <1>9, <1>10, <2>1, <2>2 DEF ReviewedOK, Around, Squashing, Unchanged, project
<1>17. InspectedOK'
  <2>1. cfg.commit # "none" /\ job.fx = "apply" => \A p \in Writes[wf.u] : Known(p)
    BY <1>1 DEF IInv, InspectedOK
  <2>2. \A p : Known(p)' <=> Known(p) BY <1>1 DEF Known, Tip, Tree, project
  <2> QED BY <1>1, <1>9, <1>10, <2>1, <2>2 DEF InspectedOK, Around, Applying
<1>18. GraphOK' /\ CommitIsReviewed' BY <1>1, GraphKept DEF project
<1>19. EvidenceOK' BY <1>1, <1>2, <1>3, <1>5, <1>9, <1>10, EvidenceEffect DEF project, Around
<1>20. WholeOK'
  <2>1. PassiveApplyIsWhole' BY <1>1 DEF IInv, WholeOK, PassiveApplyIsWhole
  <2>2. job.fx = "revert" => ~backup.receipt /\ eff["apply"].st = "failed"
    BY <1>1 DEF IInv, WholeOK, Around
  <2>3. Written' => wf.u \in whole
    <3>1. Written' => job.fx = "prompt" \/ (job.fx = "commit" /\ wf.kind = "passive")
      BY <1>1, <1>9, <1>10 DEF Written, Around, Carried, Applying, Squashing, Restoring
    <3>2. job.fx = "prompt" => OfPassive BY <1>2 DEF Owner
    <3> QED BY <1>1, <3>1, <3>2 DEF IInv, WholeOK, Written, Around, OfPassive
  <2>4. job.fx # "apply" => eff'["apply"] = eff["apply"] BY <1>5 DEF Effects
  <2>5. eff'["apply"].st = "succeeded" /\ eff'["apply"].res = "ok" => wf.u \in whole
    BY <1>5, <2>4 DEF IInv, WholeOK
  <2>6. job'.pc \notin {"write", "checks", "capture", "failed-checks"} \cup Around
    BY <1>9, <1>10 DEF Carried, Applying, Squashing, Restoring, Around
  <2>7. wf.kind = "passive" => art[wf.u] # "applied" BY <1>1 DEF IInv, WholeOK, Idle, Recovery
  <2>8. ~(job'.pc = "undo" /\ job'.fx = "apply") BY <1>9, <1>10
  <2> QED BY <1>1, <1>9, <1>10, <2>8, <2>1, <2>2, <2>3, <2>4, <2>5, <2>6, <2>7 DEF IInv, WholeOK, Around
<1> QED BY <1>11, <1>13, <1>14, <1>15, <1>16, <1>17, <1>18, <1>19, <1>20 DEF IInv

LEMMA StepSettle == ASSUME IInv, Settle PROVE IInv'
<1>1. job.pc = "settle" /\ UNCHANGED <<cfg, project, backup, own, wf, asked, art, up, n, whole>>
  BY DEF Settle, Here
<1>2. /\ job.fx \in Effects /\ Owner(job.fx) /\ job.pc \notin Idle \cup Recovery
      /\ (OfPassive => wf.u \in Updates)
  BY <1>1, AtEffect DEF Around
<1>3. eff[job.fx].st = "dispatched" BY <1>1 DEF IInv, EffectOK
<1>4. job \in Jobs /\ eff \in Ledgers /\ head \in Shas BY ShasFacts DEF IInv, TypeOK
<1>5. job' \in Jobs /\ job'.pc = "after" /\ SameTask /\ SameOwner /\ SameLoad
  BY <1>4, GotoFields DEF Settle, Places
<1> DEFINE st == IF job.res \in {"ok", "nothing"} THEN "succeeded" ELSE "failed"
<1>6. eff' = [eff EXCEPT ![job.fx].st = st, ![job.fx].res = job.res, ![job.fx].sha = head] BY DEF Settle
<1>7. job.res \in Results /\ st \in Statuses BY <1>4 DEF Jobs, Statuses
<1>8. st \in {"succeeded", "failed"} /\ (st = "succeeded" <=> job.res \in {"ok", "nothing"}) OBVIOUS
<1> HIDE DEF st
<1>9. /\ eff' \in Ledgers /\ \A k \in Effects \ {job.fx} : eff'[k] = eff[k]
      /\ eff'[job.fx].st = st /\ eff'[job.fx].res = job.res
      /\ eff'[job.fx].pre = eff[job.fx].pre /\ eff'[job.fx].receipt = eff[job.fx].receipt
  BY <1>2, <1>4, <1>6, <1>7 DEF Ledgers
<1>10. TypeOK' BY <1>1, <1>5, <1>9, SameTypes DEF IInv, TypeOK, project
<1>11. Onward BY <1>1, <1>2, <1>5 DEF Onward, Idle, Recovery
<1>12. job'.fx = job.fx /\ job'.res = job.res BY <1>5 DEF SameTask
<1>13. PlaceOK' /\ ActionOK' /\ Owner(job.fx)' BY <1>1, <1>5, <1>11, <1>12, SameEffect DEF Around, Passive
<1>14. EffectOK'
  <2>1. \A k \in Effects : eff'[k].st = "succeeded" => eff'[k].res \in {"ok", "nothing"}
    BY <1>8, <1>9 DEF IInv, EffectOK
  <2> QED BY <1>2, <1>5, <1>12, <1>13, <2>1 DEF EffectOK, Around, Carried, Applying, Squashing, Restoring
<1>15. LeftOK' BY <1>5 DEF LeftOK
<1>16. ReviewedOK' /\ InspectedOK' BY <1>5, Unguarded DEF Guarded
<1>17. GraphOK' /\ CommitIsReviewed' BY <1>1, GraphKept DEF project
<1>18. EvidenceOK'
  <2>1. job.fx \in {"commit", "squash"} /\ job.res = "ok" => Made BY <1>1 DEF IInv, EvidenceOK
  <2> QED BY <1>1, <1>2, <1>3, <1>5, <1>8, <1>9, <2>1, EvidenceEffect DEF project
<1>19. WholeOK'
  <2>1. PassiveApplyIsWhole' BY <1>1 DEF IInv, WholeOK, PassiveApplyIsWhole
  <2>2. Written' => wf.u \in whole
    <3>1. Written' => Written BY <1>1, <1>5, <1>12 DEF Written, Around
    <3> QED BY <3>1 DEF IInv, WholeOK
  <2>3. job.fx # "apply" => eff'["apply"] = eff["apply"] BY <1>9 DEF Effects
  <2>4. job.fx = "apply" => eff'["apply"].st = st /\ eff'["apply"].res = job.res BY <1>9
  <2>5. eff'["apply"].st = "succeeded" /\ eff'["apply"].res = "ok" => wf.u \in whole
    BY <1>1, <2>3, <2>4 DEF IInv, WholeOK, Written
  <2>6. job.fx = "revert" => ~backup.receipt /\ eff'["apply"].st = "failed"
    BY <1>1, <2>3 DEF IInv, WholeOK, Around
  <2>7. job.fx = "apply" /\ job.res = "checks-failed" /\ ~cfg.rollback => ~backup.receipt /\ eff'["apply"].st = "failed"
    BY <1>1, <1>8, <2>4 DEF IInv, WholeOK
  <2>8. wf.kind = "passive" => art[wf.u] # "applied" BY <1>1 DEF IInv, WholeOK, Idle, Recovery
  <2> QED BY <1>1, <1>5, <1>12, <2>1, <2>2, <2>5, <2>6, <2>7, <2>8 DEF IInv, WholeOK
<1> QED BY <1>10, <1>13, <1>14, <1>15, <1>16, <1>17, <1>18, <1>19 DEF IInv

-----------------------------------------------------------------------------
(* TransactionalApplier                                                     *)

(* A step that carries an effect on. *)
LEMMA EffectMove ==
  ASSUME IInv, Onward, UNCHANGED eff, job.pc \in Carried, job'.pc \in Carried \cup {"settle"}, job'.fx = job.fx,
         job'.pc \in Applying => job.fx = "apply",
         job'.pc \in Squashing => job.fx = "squash",
         job'.pc \in Restoring => job.fx = "restore",
         job'.pc = "undo" => job.fx \in {"apply", "revert"},
         job'.pc = "prompting" => job.fx = "prompt",
         job'.pc = "committing" => job.fx = "commit"
  PROVE  PlaceOK' /\ ActionOK' /\ EffectOK'
<1>1. PlaceOK' /\ ActionOK' /\ Owner(job.fx)'
  BY SameEffect DEF Carried, Applying, Squashing, Restoring, Passive
<1>2. job.fx \in Effects BY AtEffect
<1>3. eff[job.fx].st = "dispatched" BY DEF IInv, EffectOK
<1>4. job'.pc # "dispatch" BY DEF Carried, Applying, Squashing, Restoring
<1>5. \A k \in Effects : eff'[k].st = "succeeded" => eff'[k].res \in {"ok", "nothing"} BY DEF IInv, EffectOK
<1> QED BY <1>1, <1>2, <1>3, <1>4, <1>5 DEF EffectOK

LEMMA AtApply ==
  ASSUME IInv, job.pc \in Applying \cup {"undo"}
  PROVE  /\ OfPassive /\ wf.u \in Updates /\ job.u = wf.u /\ Writes[wf.u] \subseteq Paths
         /\ job.pc \in Carried /\ job.pc \notin Idle \cup Recovery /\ job.fx \in {"apply", "revert"}
         /\ (job.pc \in Applying => job.fx = "apply")
         /\ eff["apply"].st \in {"dispatched", "failed"} /\ art[wf.u] # "applied"
<1>1. job.fx \in {"apply", "revert"} /\ (job.pc \in Applying => job.fx = "apply") BY DEF IInv, EffectOK
<1>2. job.pc \in Carried BY DEF Carried
<1>3. OfPassive /\ wf.u \in Updates /\ job.u = wf.u /\ Writes[wf.u] \subseteq Paths /\ job.pc \notin Idle \cup Recovery
  BY <1>1, <1>2, AtPassive
<1>4. eff["apply"].st \in {"dispatched", "failed"} BY <1>1, <1>2 DEF IInv, EffectOK, WholeOK
<1>5. art[wf.u] # "applied"
  BY <1>3 DEF IInv, WholeOK, OfPassive, Idle, Recovery, Applying
<1> QED BY <1>1, <1>2, <1>3, <1>4, <1>5

LEMMA StepBackup == ASSUME IInv, Backup PROVE IInv'
<1>1. job.pc = "backup" /\ UNCHANGED <<cfg, project, own, wf, asked, eff, art, up, n, whole>>
  BY DEF Backup, Here
<1>2. /\ OfPassive /\ wf.u \in Updates /\ job.u = wf.u /\ Writes[wf.u] \subseteq Paths /\ job.fx = "apply"
      /\ job.pc \in Carried /\ job.pc \notin Idle \cup Recovery /\ art[wf.u] # "applied"
      /\ eff["apply"].st \in {"dispatched", "failed"}
  BY <1>1, AtApply DEF Applying
<1>3. backup' = [NoBackup EXCEPT !.manifest = Captured(Writes[wf.u]), !.taken = TRUE]
      /\ job' = [job EXCEPT !.pc = "write", !.left = Writes[wf.u]]
  BY <1>2 DEF Backup
<1>4. backup' \in Backups /\ backup'.receipt = FALSE
  BY <1>2, <1>3, CapturedType, NoStates DEF NoBackup, Backups, IInv, TypeOK
<1>5. job' \in Jobs /\ job'.pc = "write" /\ job'.fx = "apply" /\ job'.left = Writes[wf.u] /\ SameOwner
  BY <1>2, <1>3 DEF IInv, TypeOK, Jobs, Places, SameOwner
<1>6. TypeOK' BY <1>1, <1>4, <1>5, SameTypes DEF IInv, TypeOK, project
<1>7. Onward BY <1>1, <1>2, <1>5 DEF Onward, Idle, Recovery
<1>8. PlaceOK' /\ ActionOK' /\ EffectOK'
  BY <1>1, <1>2, <1>5, <1>7, EffectMove DEF Carried, Applying, Squashing, Restoring
<1>9. LeftOK' BY <1>1, <1>5 DEF LeftOK
<1>10. ReviewedOK' BY <1>5 DEF ReviewedOK
<1>11. InspectedOK'
  <2>1. cfg.commit # "none" => \A p \in Writes[wf.u] : Known(p) BY <1>1 DEF IInv, InspectedOK
  <2>2. \A p : Known(p)' <=> Known(p) BY <1>1 DEF Known, Tip, Tree, project
  <2> QED BY <1>1, <1>5, <2>1, <2>2 DEF InspectedOK
<1>12. GraphOK' /\ CommitIsReviewed' BY <1>1, GraphKept DEF project
<1>13. EvidenceOK' BY <1>1, <1>5, EvidenceKept DEF project
<1>14. WholeOK'
  <2>1. PassiveApplyIsWhole' BY <1>1 DEF IInv, WholeOK, PassiveApplyIsWhole
  <2>2. ~Written' BY <1>5 DEF Written, Around
  <2> QED BY <1>1, <1>2, <1>4, <1>5, <2>1, <2>2 DEF WholeOK, Around
<1> QED BY <1>6, <1>8, <1>9, <1>10, <1>11, <1>12, <1>13, <1>14 DEF IInv

LEMMA StepWriteOne == ASSUME IInv, WriteOne PROVE IInv'
<1>1. job.pc = "write" /\ UNCHANGED <<cfg, objects, head, tracked, refs, backup, own, wf, asked, eff, art, up, n>>
  BY DEF WriteOne, Here
<1>2. /\ OfPassive /\ wf.u \in Updates /\ job.u = wf.u /\ job.fx = "apply"
      /\ job.pc \in Carried /\ job.pc \notin Idle \cup Recovery /\ art[wf.u] # "applied"
      /\ eff["apply"].st \in {"dispatched", "failed"}
  BY <1>1, AtApply DEF Applying
<1>3. PICK p \in job.left :
        /\ file' = [file EXCEPT ![p] = wf.u]
        /\ job' = [job EXCEPT !.left = @ \ {p}, !.pc = IF job.left = {p} THEN "checks" ELSE "write"]
        /\ whole' = IF job.left = {p} THEN whole \cup {wf.u} ELSE whole \ {wf.u}
  BY <1>2 DEF WriteOne
<1>4. file' \in [Paths -> Contents] /\ whole' \subseteq Updates
  BY <1>2, <1>3 DEF IInv, TypeOK, Contents
<1>5. /\ job' \in Jobs /\ job'.pc \in {"checks", "write"} /\ (job'.pc = "checks" <=> job.left = {p})
      /\ job'.fx = "apply" /\ job'.left = job.left \ {p} /\ SameOwner
  BY <1>2, <1>3 DEF IInv, TypeOK, Jobs, Places, SameOwner
<1>6. TypeOK' BY <1>1, <1>4, <1>5, SameTypes DEF IInv, TypeOK
<1>7. Onward BY <1>1, <1>2, <1>5 DEF Onward, Idle, Recovery
<1>8. PlaceOK' /\ ActionOK' /\ EffectOK'
  BY <1>1, <1>2, <1>5, <1>7, EffectMove DEF Carried, Applying, Squashing, Restoring
<1>9. LeftOK' BY <1>1, <1>5 DEF IInv, LeftOK
<1>10. ReviewedOK' BY <1>5 DEF ReviewedOK
<1>11. InspectedOK'
  <2>1. cfg.commit # "none" => \A q \in job.left : Known(q) BY <1>1 DEF IInv, InspectedOK
  <2>2. \A q \in job.left \ {p} : q \in Paths /\ file'[q] = file[q]
    BY <1>1, <1>2, <1>3, AtApply DEF IInv, LeftOK, TypeOK, Applying
  <2>3. \A q \in job.left \ {p} : Known(q) => Known(q)' BY <1>1, <2>2 DEF Known, Tip, Tree
  <2> QED BY <1>1, <1>5, <2>1, <2>3 DEF InspectedOK
<1>12. GraphOK' /\ CommitIsReviewed' BY <1>1, GraphKept
<1>13. EvidenceOK' BY <1>1, <1>5, EvidenceKept
<1>14. WholeOK'
  <2>1. PassiveApplyIsWhole' BY <1>1, <1>2, <1>3 DEF IInv, WholeOK, PassiveApplyIsWhole
  <2>2. Written' => wf.u \in whole' BY <1>2, <1>3, <1>5 DEF Written, Around
  <2>3. ~backup.receipt BY <1>1 DEF IInv, WholeOK
  <2> QED BY <1>1, <1>2, <1>5, <2>1, <2>2, <2>3 DEF WholeOK, Around
<1> QED BY <1>6, <1>8, <1>9, <1>10, <1>11, <1>12, <1>13, <1>14 DEF IInv

LEMMA StepCatch ==
  ASSUME IInv, NEW why \in {"write-failed", "checks-failed"}, Catch(why),
         job.pc \in {"write", "checks"}, why = "checks-failed" => job.pc = "checks"
  PROVE  IInv'
<1>1. UNCHANGED <<cfg, project, backup, own, wf, asked, eff, art, up, n, whole>> BY DEF Catch
<1>2. /\ OfPassive /\ wf.u \in Updates /\ job.u = wf.u /\ job.fx = "apply"
      /\ job.pc \in Carried /\ job.pc \notin Idle \cup Recovery /\ art[wf.u] # "applied"
      /\ eff["apply"].st \in {"dispatched", "failed"}
  BY AtApply DEF Applying
<1>3. DOMAIN backup.manifest \subseteq Paths BY StatesDomain DEF IInv, TypeOK, Backups
<1>4. job' = [job EXCEPT !.pc = IF cfg.rollback THEN "undo" ELSE "settle", !.left = DOMAIN backup.manifest, !.res = why]
  BY DEF Catch
<1>5. /\ job' \in Jobs /\ job'.pc = (IF cfg.rollback THEN "undo" ELSE "settle") /\ job'.fx = "apply"
      /\ job'.left = DOMAIN backup.manifest /\ job'.res = why /\ SameOwner
  BY <1>2, <1>3, <1>4, ZenonT(40) DEF IInv, TypeOK, Jobs, Places, Results, SameOwner
<1>6. TypeOK' BY <1>1, <1>5, SameTypes DEF IInv, TypeOK, project
<1>7. Onward BY <1>1, <1>2, <1>5 DEF Onward, Idle, Recovery
<1>8. PlaceOK' /\ ActionOK' /\ EffectOK'
  BY <1>1, <1>2, <1>5, <1>7, EffectMove DEF Carried, Applying, Squashing, Restoring
<1>9. LeftOK' BY <1>1, <1>5 DEF LeftOK
<1>10. ReviewedOK' /\ InspectedOK' BY <1>5, Unguarded DEF Guarded
<1>11. GraphOK' /\ CommitIsReviewed' BY <1>1, GraphKept DEF project
<1>12. EvidenceOK' BY <1>1, <1>5, EvidenceKept DEF project
<1>13. WholeOK'
  <2>1. PassiveApplyIsWhole' BY <1>1 DEF IInv, WholeOK, PassiveApplyIsWhole
  <2>2. why = "checks-failed" => wf.u \in whole BY DEF IInv, WholeOK, Written
  <2>3. Written' => wf.u \in whole BY <1>5, <2>2 DEF Written, Around
  <2>4. ~backup.receipt BY DEF IInv, WholeOK
  <2> QED BY <1>1, <1>2, <1>5, <2>1, <2>3, <2>4 DEF WholeOK
<1> QED BY <1>6, <1>8, <1>9, <1>10, <1>11, <1>12, <1>13 DEF IInv

LEMMA StepChecksPass == ASSUME IInv, ChecksPass PROVE IInv'
<1>1. job.pc = "checks" /\ UNCHANGED <<cfg, project, backup, own, wf, asked, eff, art, up, n, whole>>
  BY DEF ChecksPass, Here
<1>2. /\ OfPassive /\ wf.u \in Updates /\ job.fx = "apply" /\ job.pc \in Carried /\ job.pc \notin Idle \cup Recovery
  BY <1>1, AtApply DEF Applying
<1>3. job' \in Jobs /\ job'.pc = "receipt" /\ SameTask /\ SameOwner /\ SameLoad
  BY GotoFields DEF ChecksPass, IInv, TypeOK, Places
<1>4. TypeOK' BY <1>1, <1>3, SameTypes DEF IInv, TypeOK, project
<1>5. Onward BY <1>1, <1>2, <1>3 DEF Onward, Idle, Recovery
<1>6. PlaceOK' /\ ActionOK' /\ EffectOK'
  BY <1>1, <1>2, <1>3, <1>5, EffectMove DEF Carried, Applying, Squashing, Restoring, SameTask
<1>7. LeftOK' BY <1>3 DEF LeftOK
<1>8. ReviewedOK' /\ InspectedOK' BY <1>3, Unguarded DEF Guarded
<1>9. GraphOK' /\ CommitIsReviewed' BY <1>1, GraphKept DEF project
<1>10. EvidenceOK' BY <1>1, <1>3, EvidenceKept DEF project
<1>11. WholeOK'
  <2>1. wf.u \in whole BY <1>1 DEF IInv, WholeOK, Written
  <2> QED BY <1>1, <1>2, <1>3, <2>1, OnwardWhole DEF SameTask
<1> QED BY <1>4, <1>6, <1>7, <1>8, <1>9, <1>10, <1>11 DEF IInv

LEMMA StepApplyReceipt == ASSUME IInv, ApplyReceipt PROVE IInv'
<1>1. job.pc = "receipt" /\ UNCHANGED <<cfg, project, own, wf, asked, eff, art, up, n, whole>>
  BY DEF ApplyReceipt, Here
<1>2. /\ OfPassive /\ wf.u \in Updates /\ job.fx = "apply" /\ job.pc \in Carried /\ job.pc \notin Idle \cup Recovery
      /\ art[wf.u] # "applied" /\ eff["apply"].st \in {"dispatched", "failed"}
  BY <1>1, AtApply DEF Applying
<1>3. job' \in Jobs /\ job'.pc = "settle" /\ job'.fx = "apply" /\ job'.res = "ok" /\ SameOwner /\ SameLoad
  BY <1>2, DoneFields DEF ApplyReceipt, IInv, TypeOK, Results
<1>4. backup' \in Backups BY DEF ApplyReceipt, IInv, TypeOK, Backups
<1>5. TypeOK' BY <1>1, <1>3, <1>4, SameTypes DEF IInv, TypeOK, project
<1>6. Onward BY <1>1, <1>2, <1>3 DEF Onward, Idle, Recovery
<1>7. PlaceOK' /\ ActionOK' /\ EffectOK'
  BY <1>1, <1>2, <1>3, <1>6, EffectMove DEF Carried, Applying, Squashing, Restoring
<1>8. LeftOK' BY <1>3 DEF LeftOK
<1>9. ReviewedOK' /\ InspectedOK' BY <1>3, Unguarded DEF Guarded
<1>10. GraphOK' /\ CommitIsReviewed' BY <1>1, GraphKept DEF project
<1>11. EvidenceOK' BY <1>1, <1>3, EvidenceKept DEF project
<1>12. WholeOK'
  <2>1. wf.u \in whole BY <1>1 DEF IInv, WholeOK, Written
  <2>2. PassiveApplyIsWhole' BY <1>1 DEF IInv, WholeOK, PassiveApplyIsWhole
  <2> QED BY <1>1, <1>2, <1>3, <2>1, <2>2 DEF WholeOK
<1> QED BY <1>5, <1>7, <1>8, <1>9, <1>10, <1>11, <1>12 DEF IInv

LEMMA StepUndoOne == ASSUME IInv, UndoOne PROVE IInv'
<1>1. job.pc = "undo" /\ UNCHANGED <<cfg, objects, head, tracked, refs, own, wf, asked, eff, art, up, n>>
  BY DEF UndoOne, Here
<1>2. /\ OfPassive /\ wf.u \in Updates /\ job.u = wf.u /\ job.fx \in {"apply", "revert"}
      /\ job.pc \in Carried /\ job.pc \notin Idle \cup Recovery /\ art[wf.u] # "applied"
      /\ eff["apply"].st \in {"dispatched", "failed"}
  BY <1>1, AtApply
<1>3. PICK p \in job.left :
        /\ file' = [file EXCEPT ![p] = backup.manifest[p]]
        /\ job' = IF job.left # {p} THEN [job EXCEPT !.left = @ \ {p}]
                  ELSE [job EXCEPT !.left = {}, !.pc = "settle", !.res = IF job.fx = "revert" THEN "ok" ELSE @]
        /\ backup' = [backup EXCEPT !.undone = job.left = {p} /\ job.fx = "revert"]
        /\ whole' = whole \ {wf.u}
  BY <1>2 DEF UndoOne
<1>4. job.left \subseteq DOMAIN backup.manifest /\ backup.manifest \in States
  BY <1>1 DEF IInv, LeftOK, TypeOK, Backups
<1>5. file' \in [Paths -> Contents] /\ whole' \subseteq Updates
  BY <1>3, <1>4, StatesDomain DEF IInv, TypeOK
<1>6. backup' \in Backups /\ backup'.manifest = backup.manifest /\ backup'.receipt = backup.receipt
  BY <1>3 DEF IInv, TypeOK, Backups
<1>7. /\ job' \in Jobs /\ job'.pc \in {"undo", "settle"} /\ job'.fx = job.fx /\ SameOwner
      /\ job'.left \subseteq job.left /\ (job'.res = job.res \/ job.fx = "revert")
  <2>1. job \in Jobs BY DEF IInv, TypeOK
  <2>2. CASE job.left # {p}
    <3>1. job' = [job EXCEPT !.left = @ \ {p}] BY <1>3, <2>2
    <3> QED BY <1>1, <2>1, <3>1 DEF Jobs, SameOwner
  <2>3. CASE job.left = {p}
    <3> DEFINE res == IF job.fx = "revert" THEN "ok" ELSE job.res
    <3>1. res \in Results /\ (res = job.res \/ job.fx = "revert") BY <2>1 DEF Jobs, Results
    <3>2. job' = [job EXCEPT !.left = {}, !.pc = "settle", !.res = res] BY <1>3, <2>3
    <3> HIDE DEF res
    <3> QED BY <1>1, <2>1, <3>1, <3>2 DEF Jobs, Places, SameOwner
  <2> QED BY <2>2, <2>3
<1>8. TypeOK' BY <1>1, <1>5, <1>6, <1>7, SameTypes DEF IInv, TypeOK
<1>9. Onward BY <1>1, <1>2, <1>7 DEF Onward, Idle, Recovery
<1>10. PlaceOK' /\ ActionOK' /\ EffectOK'
  BY <1>1, <1>2, <1>7, <1>9, EffectMove DEF Carried, Applying, Squashing, Restoring
<1>11. LeftOK' BY <1>4, <1>6, <1>7 DEF LeftOK
<1>12. ReviewedOK' /\ InspectedOK' BY <1>7, Unguarded DEF Guarded
<1>13. GraphOK' /\ CommitIsReviewed' BY <1>1, GraphKept
<1>14. EvidenceOK' BY <1>1, <1>2, <1>7, EvidenceKept
<1>15. WholeOK'
  <2>1. PassiveApplyIsWhole' BY <1>1, <1>2, <1>3 DEF IInv, WholeOK, PassiveApplyIsWhole
  <2>2. job.fx = "apply" => cfg.rollback /\ job.res # "ok" BY <1>1 DEF IInv, WholeOK
  <2>3. ~Written' BY <1>1, <1>2, <1>7, <2>2 DEF Written, Around
  <2>4. ~backup.receipt BY <1>1 DEF IInv, WholeOK
  <2>5. job.fx = "revert" => eff["apply"].st = "failed" BY <1>1, <1>2 DEF IInv, WholeOK
  <2> QED BY <1>1, <1>2, <1>6, <1>7, <2>1, <2>2, <2>3, <2>4, <2>5 DEF WholeOK
<1> QED BY <1>8, <1>10, <1>11, <1>12, <1>13, <1>14, <1>15 DEF IInv

LEMMA StepAfterApply == ASSUME IInv, AfterApply PROVE IInv'
<1>1. job.pc = "after" /\ job.fx = "apply" /\ UNCHANGED <<cfg, project, backup, own, asked, eff, art, up, n, whole>>
  BY DEF AfterApply, Here
<1>2. OfPassive /\ wf.u \in Updates /\ job.u = wf.u /\ job.pc \notin Idle \cup Recovery
  BY <1>1, AtPassive DEF Around
<1>3. ASSUME NEW pc \in {"commit", "capture"}, Goto(pc), UNCHANGED wf,
             (pc = "commit" /\ job.res = "ok") \/ (pc = "capture" /\ job.res = "checks-failed" /\ ~cfg.rollback)
      PROVE  IInv'
  <2>1. job' \in Jobs /\ job'.pc = pc /\ SameTask /\ SameOwner /\ SameLoad
    BY <1>3, GotoFields DEF IInv, TypeOK, Places
  <2>2. TypeOK' BY <1>1, <1>3, <2>1, SameTypes DEF IInv, TypeOK, project
  <2>3. WholeOK'
    <3>1. PassiveApplyIsWhole' BY <1>1 DEF IInv, WholeOK, PassiveApplyIsWhole
    <3>2. wf.u \in whole BY <1>1, <1>3 DEF IInv, WholeOK, Written
    <3>3. pc = "capture" => ~backup.receipt /\ eff["apply"].st = "failed" BY <1>1, <1>3 DEF IInv, WholeOK
    <3>4. art[wf.u] # "applied" BY <1>1, <1>2 DEF IInv, WholeOK, OfPassive
    <3> QED BY <1>1, <1>2, <1>3, <2>1, <3>1, <3>2, <3>3, <3>4
            DEF WholeOK, Around, Carried, Applying, Squashing, Restoring
  <2>4. Onward BY <1>1, <1>2, <1>3, <2>1 DEF Onward, Idle, Recovery
  <2> QED BY <1>1, <1>2, <2>1, <2>2, <2>3, <2>4, PlainMove
          DEF project, Around, Carried, Applying, Squashing, Restoring
<1>4. CASE job.res = "ok" BY <1>1, <1>3, <1>4 DEF AfterApply
<1>5. CASE job.res = "checks-failed" /\ ~cfg.rollback BY <1>1, <1>3, <1>5 DEF AfterApply
<1>6. CASE job.res # "ok" /\ ~(job.res = "checks-failed" /\ ~cfg.rollback)
  BY <1>1, <1>2, <1>6, EndsRun DEF AfterApply
<1> QED BY <1>4, <1>5, <1>6

LEMMA StepCapture == ASSUME IInv, Capture PROVE IInv'
<1>1. job.pc = "capture" /\ UNCHANGED <<cfg, project, backup, wf, eff, art, up, n, whole>>
  BY DEF Capture, Here
<1>2. /\ OfPassive /\ wf.u \in Updates /\ job.u = wf.u /\ Writes[wf.u] \subseteq Paths
      /\ job.pc \notin Idle \cup Recovery
  BY <1>1, AtPassive DEF Passive
<1>3. job \in Jobs /\ own \in Owns /\ file \in [Paths -> Contents] BY DEF IInv, TypeOK
<1>4. Captured(Writes[wf.u]) \in States BY <1>2, <1>3, CapturedType
<1>5. job.pre \in Shas /\ <<>> \in Seq(Shas) BY <1>3, EmptySeq DEF Jobs
<1>6. own' \in Owns
  <2>1. own' = Merged(job.pre, <<>>, Captured(Writes[wf.u])) BY <1>2 DEF Capture
  <2> QED BY <1>3, <1>4, <1>5, <2>1, MergedType
<1>7. asked' \in Asks /\ asked'.u = wf.u BY <1>2, <1>3, <1>4, <1>5 DEF Capture, Asks
<1>8. job' \in Jobs /\ job'.pc = "failed-checks" /\ SameTask /\ SameOwner /\ SameLoad
  BY <1>3, GotoFields DEF Capture, Places
<1>9. TypeOK' BY <1>1, <1>6, <1>7, <1>8, SameTypes DEF IInv, TypeOK, project
<1>10. WholeOK'
  <2>1. PassiveApplyIsWhole' BY <1>1 DEF IInv, WholeOK, PassiveApplyIsWhole
  <2>2. wf.u \in whole BY <1>1 DEF IInv, WholeOK, Written
  <2>3. ~backup.receipt /\ eff["apply"].st = "failed" BY <1>1 DEF IInv, WholeOK
  <2>4. art[wf.u] # "applied" BY <1>1, <1>2 DEF IInv, WholeOK, OfPassive, Idle, Recovery
  <2> QED BY <1>1, <1>2, <1>8, <2>1, <2>2, <2>3, <2>4 DEF WholeOK, Around, Carried, Applying, Squashing, Restoring
<1>11. Onward BY <1>1, <1>2, <1>8 DEF Onward, Idle, Recovery
<1> QED BY <1>1, <1>2, <1>7, <1>8, <1>9, <1>10, <1>11, PlainMove
        DEF project, Around, Carried, Applying, Squashing, Restoring

LEMMA StepFailedChecks == ASSUME IInv, FailedChecks PROVE IInv'
<1>1. job.pc = "failed-checks" /\ UNCHANGED <<cfg, project, backup, own, eff, up, n, whole>>
  BY DEF FailedChecks, Here
<1>2. OfPassive /\ wf.u \in Updates /\ job.u = wf.u /\ job.pc \notin Idle \cup Recovery
  BY <1>1, AtPassive DEF Passive
<1>3. asked \in Asks /\ asked.u = wf.u BY <1>1 DEF IInv, TypeOK, ActionOK
<1>4. Wait("failed-checks", asked) /\ art' = [art EXCEPT ![wf.u] = "awaiting-check-decision"]
  BY <1>2 DEF FailedChecks
<1>5. "awaiting-check-decision" \in Artifacts \ {"applied"} BY DEF Artifacts
<1>6. wf.u \in whole /\ ~backup.receipt /\ eff["apply"].st = "failed" BY <1>1 DEF IInv, WholeOK, Written
<1> QED BY <1>1, <1>2, <1>3, <1>4, <1>5, <1>6, AsksUser

-----------------------------------------------------------------------------
(* maybeCommit                                                              *)

(* The job of a written update moves on. *)
LEMMA WrittenMove ==
  ASSUME IInv, OfPassive, job.pc \notin Idle \cup Recovery \cup {"artifact", "finish"}, wf.u \in whole,
         UNCHANGED <<cfg, project, backup, wf, eff, art, up, n, whole>>, asked' \in Asks, own' \in Owns,
         job' \in Jobs, SameOwner, job'.pc \in {"complete", "message"}
  PROVE  IInv'
<1>1. TypeOK' BY SameTypes DEF IInv, TypeOK, project
<1>2. WholeOK' BY OnwardWhole DEF Around, Carried, Applying, Squashing, Restoring
<1>3. Onward BY DEF Onward, Idle, Recovery
<1> QED BY <1>1, <1>2, <1>3, PlainMove DEF project, Around, Carried, Applying, Squashing, Restoring

LEMMA StepMaybeCommit == ASSUME IInv, MaybeCommit PROVE IInv'
<1>1. job.pc = "commit" /\ UNCHANGED <<cfg, project, backup, wf, asked, eff, art, up, n, whole>>
  BY DEF MaybeCommit, Here
<1>2. /\ OfPassive /\ wf.u \in Updates /\ job.u = wf.u /\ Writes[wf.u] \subseteq Paths
      /\ job.pc \notin Idle \cup Recovery
  BY <1>1, AtPassive DEF Passive
<1>3. job \in Jobs /\ own \in Owns /\ file \in [Paths -> Contents] /\ asked \in Asks BY DEF IInv, TypeOK
<1> DEFINE states == Captured(Writes[wf.u])
<1>4. states \in States BY <1>2, <1>3, CapturedType
<1>5. 0 \in Shas /\ <<>> \in Seq(Shas) BY ShasFacts, EmptySeq DEF IInv
<1>6. wf.u \in whole BY <1>1 DEF IInv, WholeOK, Written
<1>7. own' \in Owns
  <2>1. own' = own \/ own' = Merged(0, <<>>, states) BY <1>2 DEF MaybeCommit
  <2> QED BY <1>3, <1>4, <1>5, <2>1, MergedType
<1>8. \/ \E pc \in {"complete", "message"} :
           job' = [job EXCEPT !.pc = pc, !.states = states, !.fx = "", !.res = ""]
      \/ job' = [job EXCEPT !.pc = "begin", !.states = states, !.fx = "prompt", !.res = ""] /\ UNCHANGED own
  BY <1>2 DEF MaybeCommit
<1> HIDE DEF states
<1>9. ASSUME NEW pc \in {"complete", "message"}, job' = [job EXCEPT !.pc = pc, !.states = states, !.fx = "", !.res = ""]
      PROVE  IInv'
  <2>1. job' \in Jobs /\ job'.pc = pc /\ SameOwner BY <1>3, <1>4, <1>9, ZenonT(40) DEF Jobs, Places, Results, SameOwner
  <2> QED BY <1>1, <1>2, <1>3, <1>6, <1>7, <2>1, WrittenMove
<1>10. CASE job' = [job EXCEPT !.pc = "begin", !.states = states, !.fx = "prompt", !.res = ""] /\ UNCHANGED own
  <2>1. job' \in Jobs /\ job'.pc = "begin" /\ job'.fx = "prompt" /\ SameOwner
    <3>1. "begin" \in Places /\ "prompt" \in Effects /\ "" \in Results BY DEF Places, Effects, Results
    <3>2. job' = [job EXCEPT !.pc = "begin", !.states = states, !.fx = "prompt", !.res = ""] BY <1>10
    <3> QED BY <1>3, <1>4, <3>1, <3>2 DEF Jobs, SameOwner
  <2>2. TypeOK' BY <1>1, <1>10, <2>1, SameTypes DEF IInv, TypeOK, project
  <2>3. Onward BY <1>1, <1>2, <2>1 DEF Onward, Idle, Recovery
  <2>4. PlaceOK' /\ ActionOK' /\ (OfPassive' <=> OfPassive) BY <1>2, <2>1, <2>3, OnwardPlace
  <2>5. EffectOK'
    BY <1>1, <1>2, <2>1, <2>4
    DEF IInv, EffectOK, Owner, Around, Carried, Applying, Squashing, Restoring, Effects
  <2>6. LeftOK' BY <2>1 DEF LeftOK
  <2>7. ReviewedOK' /\ InspectedOK' BY <2>1 DEF ReviewedOK, InspectedOK
  <2>8. GraphOK' /\ CommitIsReviewed' BY <1>1, GraphKept DEF project
  <2>9. EvidenceOK' BY <1>1, <1>10, <2>1, EvidenceKept DEF project
  <2>10. WholeOK' BY <1>1, <1>2, <1>6, <2>1, OnwardWhole
  <2> QED BY <2>2, <2>4, <2>5, <2>6, <2>7, <2>8, <2>9, <2>10 DEF IInv
<1> QED BY <1>8, <1>9, <1>10

LEMMA StepPrompted ==
  ASSUME IInv, NEW res \in {"ok", "prompt-failed"}, Prompted(res)
  PROVE  IInv'
<1>1. job.pc = "prompting" /\ UNCHANGED <<cfg, project, backup, own, wf, asked, eff, art, up, n, whole>>
  BY DEF Prompted, Here
<1>2. job.fx = "prompt" /\ job.pc \in Carried BY <1>1 DEF IInv, EffectOK, Carried
<1>3. OfPassive /\ wf.u \in Updates /\ job.pc \notin Idle \cup Recovery
  BY <1>2, AtPassive
<1>4. job' \in Jobs /\ job'.pc = "settle" /\ job'.fx = job.fx /\ job'.res = res /\ SameOwner /\ SameLoad
  BY DoneFields DEF Prompted, IInv, TypeOK, Results
<1>5. TypeOK' BY <1>1, <1>4, SameTypes DEF IInv, TypeOK, project
<1>6. Onward BY <1>1, <1>3, <1>4 DEF Onward, Idle, Recovery
<1>7. PlaceOK' /\ ActionOK' /\ EffectOK'
  BY <1>1, <1>2, <1>4, <1>6, EffectMove DEF Applying, Squashing, Restoring
<1>8. LeftOK' BY <1>4 DEF LeftOK
<1>9. ReviewedOK' /\ InspectedOK' BY <1>4, Unguarded DEF Guarded
<1>10. GraphOK' /\ CommitIsReviewed' BY <1>1, GraphKept DEF project
<1>11. EvidenceOK' BY <1>1, <1>2, <1>4, EvidenceKept DEF project
<1>12. WholeOK'
  <2>1. wf.u \in whole BY <1>1 DEF IInv, WholeOK, Written
  <2> QED BY <1>1, <1>2, <1>3, <1>4, <2>1, OnwardWhole
<1> QED BY <1>5, <1>7, <1>8, <1>9, <1>10, <1>11, <1>12 DEF IInv

LEMMA CommitThrowsOK ==
  ASSUME IInv, OfPassive, wf.u \in Updates, job.pc \notin Idle \cup Recovery \cup {"artifact", "finish"}, wf.u \in whole,
         UNCHANGED <<cfg, project, backup, own, eff, art, up, n, whole>>, CommitThrows
  PROVE  IInv'
<1>1. CASE job.by = "keep" BY <1>1, ThrowEnds DEF CommitThrows
<1>2. CASE job.by # "keep"
  <2>1. Goto("complete") /\ UNCHANGED <<wf, asked>> BY <1>2 DEF CommitThrows
  <2>2. job' \in Jobs /\ job'.pc = "complete" /\ SameTask /\ SameOwner /\ SameLoad
    BY <2>1, GotoFields DEF IInv, TypeOK, Places
  <2>3. asked' \in Asks /\ own' \in Owns BY <2>1, SameTypes DEF IInv, TypeOK, project
  <2> QED BY <2>1, <2>2, <2>3, WrittenMove
<1> QED BY <1>1, <1>2

LEMMA StepAfterPrompt == ASSUME IInv, AfterPrompt PROVE IInv'
<1>1. /\ job.pc = "after" /\ job.fx = "prompt"
      /\ UNCHANGED <<cfg, project, backup, own, eff, art, up, n, whole>>
  BY DEF AfterPrompt, Here
<1>2. OfPassive /\ wf.u \in Updates /\ job.pc \notin Idle \cup Recovery BY <1>1, AtPassive DEF Around
<1>3. wf.u \in whole BY <1>1, <1>2 DEF IInv, WholeOK, Written, Around, OfPassive
<1>4. CASE job.res = "ok"
  <2>1. Goto("message") /\ UNCHANGED <<wf, asked>> BY <1>4 DEF AfterPrompt
  <2>2. job' \in Jobs /\ job'.pc = "message" /\ SameTask /\ SameOwner /\ SameLoad
    BY <2>1, GotoFields DEF IInv, TypeOK, Places
  <2>3. asked' \in Asks /\ own' \in Owns BY <1>1, <2>1, SameTypes DEF IInv, TypeOK, project
  <2> QED BY <1>1, <1>2, <1>3, <2>1, <2>2, <2>3, WrittenMove
<1>5. CASE job.res # "ok"
  BY <1>1, <1>2, <1>3, <1>5, CommitThrowsOK DEF AfterPrompt
<1> QED BY <1>4, <1>5

(* A job that begins a commit, a squash or a restore. *)
LEMMA BeginEffect ==
  ASSUME IInv, job.pc \notin Idle \cup Recovery \cup {"artifact", "finish"},
         UNCHANGED <<cfg, project, backup, own, wf, asked, eff, art, up, n, whole>>,
         NEW k \in {"commit", "squash", "restore"}, Owner(k),
         job' \in Jobs, job'.pc = "begin", job'.fx = k, SameOwner,
         k = "commit" => Unchanged(job'.states) /\ (wf.kind = "passive" => wf.u \in whole),
         k = "squash" => Unchanged(own.states)
  PROVE  IInv'
<1>1. TypeOK' BY SameTypes DEF IInv, TypeOK, project
<1>2. Onward BY DEF Onward, Idle, Recovery
<1>3. /\ PlaceOK' /\ ActionOK' /\ (OfPassive' <=> OfPassive) /\ (OfAutomation' <=> OfAutomation)
      /\ (OfManual' <=> OfManual)
  BY <1>2, OnwardPlace DEF Passive
<1>4. EffectOK'
  BY <1>3 DEF IInv, EffectOK, Owner, Around, Carried, Applying, Squashing, Restoring, Effects
<1>5. LeftOK' BY DEF LeftOK
<1>6. ReviewedOK' BY DEF ReviewedOK, Unchanged, project
<1>7. InspectedOK' BY DEF InspectedOK
<1>8. GraphOK' /\ CommitIsReviewed' BY GraphKept DEF project
<1>9. EvidenceOK' BY EvidenceKept DEF project
<1>10. WholeOK'
  <2>1. Written' => wf.u \in whole BY DEF Written
  <2> QED BY <2>1, OnwardWhole
<1> QED BY <1>1, <1>3, <1>4, <1>5, <1>6, <1>7, <1>8, <1>9, <1>10 DEF IInv

LEMMA StepMessage == ASSUME IInv, Message PROVE IInv'
<1>1. job.pc = "message" /\ UNCHANGED <<cfg, project, backup, eff, up, n, whole>>
  BY DEF Message, Here
<1>2. OfPassive /\ wf.u \in Updates /\ job.u = wf.u /\ job.pc \notin Idle \cup Recovery
  BY <1>1, AtPassive DEF Passive
<1>3. job \in Jobs /\ own \in Owns /\ asked \in Asks BY DEF IInv, TypeOK
<1>4. wf.u \in whole /\ art[wf.u] # "applied"
  BY <1>1, <1>2 DEF IInv, WholeOK, Written, OfPassive, Idle, Recovery
<1>5. job.pre \in Shas /\ job.states \in States /\ <<>> \in Seq(Shas) BY <1>3, EmptySeq DEF Jobs
<1>6. CASE cfg.commit = "final"
  <2>1. own' = Merged(job.pre, <<>>, job.states) /\ Goto("complete") /\ UNCHANGED <<wf, asked, art>>
    BY <1>6 DEF Message
  <2>2. own' \in Owns BY <1>3, <1>5, <2>1, MergedType
  <2>3. job' \in Jobs /\ job'.pc = "complete" /\ SameTask /\ SameOwner /\ SameLoad
    BY <1>3, <2>1, GotoFields DEF Places
  <2>4. own' \in Owns' /\ asked' \in Asks BY <1>1, <1>3, <2>1, <2>2, SameTypes DEF project
  <2> QED BY <1>1, <1>2, <1>4, <2>1, <2>2, <2>3, <2>4, WrittenMove
<1>7. CASE cfg.commit = "ask"
  <2> DEFINE payload == [NoAsk EXCEPT !.u = wf.u, !.states = job.states, !.pre = job.pre]
  <2>1. payload \in Asks /\ payload.u = wf.u BY <1>2, <1>5, NoAskType DEF IInv, Asks
  <2>2. /\ Wait("commit", payload)
        /\ art' = IF job.by = "keep" THEN art ELSE [art EXCEPT ![wf.u] = "awaiting-commit"]
        /\ UNCHANGED own
    BY <1>2, <1>7 DEF Message
  <2>3. "awaiting-commit" \in Artifacts \ {"applied"} BY DEF Artifacts
  <2> HIDE DEF payload
  <2> QED BY <1>1, <1>2, <1>4, <2>1, <2>2, <2>3, AsksUser
<1>8. CASE cfg.commit \notin {"final", "ask"} /\ Unchanged(job.states)
  <2>1. Do("commit") /\ UNCHANGED <<own, wf, asked, art>> BY <1>8 DEF Message
  <2>2. job' \in Jobs /\ job'.pc = "begin" /\ job'.fx = "commit" /\ SameOwner /\ job'.states = job.states
    BY <1>3, <2>1, DoFields DEF Effects, SameLoad
  <2>3. Unchanged(job'.states) BY <1>8, <2>2 DEF Unchanged
  <2>4. Owner("commit") BY <1>2 DEF Owner
  <2> QED BY <1>1, <1>2, <1>4, <2>1, <2>2, <2>3, <2>4, BeginEffect
<1>9. CASE cfg.commit \notin {"final", "ask"} /\ ~Unchanged(job.states)
  <2>1. CommitThrows /\ UNCHANGED <<own, art>> BY <1>9 DEF Message
  <2> QED BY <1>1, <1>2, <1>4, <2>1, CommitThrowsOK
<1> QED BY <1>6, <1>7, <1>8, <1>9

LEMMA StepApproved == ASSUME IInv, Approved PROVE IInv'
<1>1. job.pc = "approved" /\ UNCHANGED <<cfg, project, backup, own, eff, art, up, n, whole>>
  BY DEF Approved, Here
<1>2. OfPassive /\ wf.u \in Updates /\ job.u = wf.u /\ job.pc \notin Idle \cup Recovery
  BY <1>1, AtPassive DEF Passive
<1>3. wf.u \in whole BY <1>1 DEF IInv, WholeOK, Written
<1>4. CASE Unchanged(job.states)
  <2>1. Do("commit") /\ UNCHANGED <<wf, asked>> BY <1>4 DEF Approved
  <2>2. job' \in Jobs /\ job'.pc = "begin" /\ job'.fx = "commit" /\ SameOwner /\ job'.states = job.states
    BY <2>1, DoFields DEF IInv, TypeOK, Effects, SameLoad
  <2>3. Unchanged(job'.states) BY <1>4, <2>2 DEF Unchanged
  <2>4. Owner("commit") BY <1>2 DEF Owner
  <2> QED BY <1>1, <1>2, <1>3, <2>1, <2>2, <2>3, <2>4, BeginEffect
<1>5. CASE ~Unchanged(job.states) BY <1>1, <1>2, <1>5, ThrowEnds DEF Approved
<1> QED BY <1>4, <1>5

-----------------------------------------------------------------------------
(* Commits                                                                  *)

LEMMA TypesGrow ==
  ASSUME Shas \subseteq Shas'
  PROVE  /\ Owns \subseteq Owns' /\ Asks \subseteq Asks' /\ Ledgers \subseteq Ledgers' /\ Jobs \subseteq Jobs'
         /\ [squash : Shas, restore : Shas] \subseteq [squash : Shas', restore : Shas']
<1>1. Seq(Shas) \subseteq Seq(Shas') OBVIOUS
<1>2. Owns \subseteq Owns' BY <1>1 DEF Owns
<1>3. Asks \subseteq Asks' BY <1>2 DEF Asks
<1>4. Ledgers \subseteq Ledgers' BY DEF Ledgers
<1>5. Jobs \subseteq Jobs' BY DEF Jobs
<1> QED BY <1>2, <1>3, <1>4, <1>5

(* A commit of the paths S on HEAD. *)
LEMMA CommitGrows ==
  ASSUME IInv, NEW S \in SUBSET Paths, NEW by \in {"workflow", "user"}, NEW seen \in States,
         CommitOnly(head, S, by, seen), n'.runs = n.runs,
         by = "workflow" => DOMAIN seen = S /\ Unchanged(seen)
  PROVE  /\ objects' \in Seq(Objects) /\ (\A s \in DOMAIN objects' : objects'[s].parent < s)
         /\ head' \in DOMAIN objects' /\ head' \notin Shas /\ head' = Len(objects) + 1 /\ tracked' \subseteq Paths
         /\ DOMAIN objects \subseteq DOMAIN objects'
         /\ (\A s \in DOMAIN objects : objects'[s] = objects[s])
         /\ (\A s \in DOMAIN objects' : s \in DOMAIN objects \/ s = head')
         /\ objects'[head'].by = by /\ objects'[head'].run = n.runs /\ Shas \subseteq Shas'
         /\ GraphOK' /\ CommitIsReviewed'
<1> DEFINE rec == NewCommit(head, S, by, seen)
<1>1. objects \in Seq(Objects) /\ head \in DOMAIN objects /\ file \in [Paths -> Contents] /\ n \in Counters
      /\ \A s \in DOMAIN objects : objects[s].parent < s
  BY DEF IInv, TypeOK
<1>2. DOMAIN objects = 1..Len(objects) /\ Len(objects) \in Nat BY <1>1, LenProperties
<1>3. Tree(head) \in [Paths -> Contents]
  <2>1. objects[head] \in Objects BY <1>1, <1>2, ElementOfSeq
  <2> QED BY <2>1 DEF Tree, Objects
<1>4. OnlyTree(head, S) \in [Paths -> Contents] BY <1>1, <1>3 DEF OnlyTree
<1>5. /\ rec \in Objects /\ rec.parent = head /\ rec.tree = OnlyTree(head, S) /\ rec.by = by /\ rec.seen = seen
      /\ rec.run = n.runs
  BY <1>1, <1>2, <1>4 DEF NewCommit, Objects, Counters
<1>6. objects' = Append(objects, rec) /\ head' = Len(objects) + 1
      /\ tracked' = {p \in Paths : IF p \in S THEN file[p] # "none" ELSE p \in tracked}
  BY DEF CommitOnly
<1> HIDE DEF rec
<1>7. /\ objects' \in Seq(Objects) /\ Len(objects') = Len(objects) + 1
      /\ \A s \in 1..Len(objects) : objects'[s] = objects[s]
      /\ objects'[Len(objects) + 1] = rec
  BY <1>1, <1>5, <1>6, AppendProperties
<1>8. DOMAIN objects' = 1..(Len(objects) + 1) BY <1>7, LenProperties
<1>9. \A s \in DOMAIN objects' : s \in DOMAIN objects \/ s = head' BY <1>2, <1>6, <1>8
<1>10. \A s \in DOMAIN objects : objects'[s] = objects[s] BY <1>2, <1>7
<1>11. head' \in DOMAIN objects' /\ head' \notin Shas /\ objects'[head'] = rec /\ head' \notin DOMAIN objects
       /\ DOMAIN objects \subseteq DOMAIN objects'
  BY <1>2, <1>6, <1>7, <1>8 DEF Shas
<1>12. Shas \subseteq Shas' BY <1>2, <1>7 DEF Shas
<1>13. \A s \in DOMAIN objects' : objects'[s].parent < s
  <2> SUFFICES ASSUME NEW s \in DOMAIN objects' PROVE objects'[s].parent < s OBVIOUS
  <2>1. CASE s \in DOMAIN objects BY <1>1, <1>10, <2>1
  <2>2. CASE s = head' BY <1>1, <1>2, <1>5, <1>6, <1>11, <2>2
  <2> QED BY <1>9, <2>1, <2>2
<1>14. GraphOK'
  <2> SUFFICES ASSUME NEW s \in DOMAIN objects'
               PROVE  objects'[s].run <= n'.runs /\ (objects'[s].by = "workflow" => objects'[s].parent \in DOMAIN objects')
    BY DEF GraphOK, ByWorkflow
  <2>1. CASE s \in DOMAIN objects BY <1>10, <1>11, <2>1 DEF IInv, GraphOK, ByWorkflow
  <2>2. CASE s = head' BY <1>1, <1>5, <1>11, <2>2 DEF Counters
  <2> QED BY <1>9, <2>1, <2>2
<1>15. CommitIsReviewed'
  <2> SUFFICES ASSUME NEW s \in DOMAIN objects', objects'[s].by = "workflow", NEW p \in Paths
               PROVE  objects'[s].tree[p] = IF p \in DOMAIN objects'[s].seen THEN objects'[s].seen[p]
                                            ELSE objects'[objects'[s].parent].tree[p]
    BY DEF CommitIsReviewed, ByWorkflow, Tree
  <2>1. CASE s \in DOMAIN objects
    <3>1. objects'[s] = objects[s] /\ objects[s].by = "workflow" BY <1>10, <2>1
    <3>2. objects[s].parent \in DOMAIN objects BY <2>1, <3>1 DEF IInv, GraphOK, ByWorkflow
    <3>3. objects'[objects[s].parent] = objects[objects[s].parent] BY <1>10, <3>2
    <3> QED BY <2>1, <3>1, <3>3 DEF IInv, CommitIsReviewed, ByWorkflow, Tree
  <2>2. CASE s = head'
    <3>1. by = "workflow" /\ DOMAIN seen = S /\ Unchanged(seen) BY <1>5, <1>11, <2>2
    <3>2. objects'[head] = objects[head] BY <1>1, <1>10
    <3>3. objects'[s].tree[p] = IF p \in S THEN file[p] ELSE objects[head].tree[p]
      BY <1>5, <1>11, <2>2 DEF OnlyTree, Tree
    <3> QED BY <1>5, <1>11, <2>2, <3>1, <3>2, <3>3 DEF Unchanged
  <2> QED BY <1>9, <2>1, <2>2
<1> QED BY <1>5, <1>6, <1>7, <1>9, <1>10, <1>11, <1>12, <1>13, <1>14, <1>15

LEMMA CommitTypes ==
  ASSUME IInv, NEW S \in SUBSET Paths, NEW by \in {"workflow", "user"}, NEW seen \in States,
         CommitOnly(head, S, by, seen), n'.runs = n.runs, n' \in Counters,
         by = "workflow" => DOMAIN seen = S /\ Unchanged(seen),
         UNCHANGED <<cfg, file, refs, backup, own, wf, asked, art, up, whole>>,
         eff' \in Ledgers, job' \in Jobs
  PROVE  TypeOK'
<1>1. /\ objects' \in Seq(Objects) /\ (\A s \in DOMAIN objects' : objects'[s].parent < s)
      /\ head' \in DOMAIN objects' /\ tracked' \subseteq Paths /\ Shas \subseteq Shas'
  BY CommitGrows
<1>2. /\ own' \in Owns' /\ asked' \in Asks' /\ eff' \in Ledgers' /\ job' \in Jobs'
      /\ refs' \in [squash : Shas', restore : Shas']
  BY <1>1, TypesGrow DEF IInv, TypeOK
<1> QED BY <1>1, <1>2 DEF IInv, TypeOK

LEMMA AtCommitting ==
  ASSUME IInv, job.pc = "committing"
  PROVE  /\ job.fx = "commit" /\ job.pc \in Carried /\ job.pc \notin Idle \cup Recovery
         /\ eff["commit"].st = "dispatched" /\ eff["squash"].st = "none" /\ Owner("commit")
         /\ (wf.kind = "passive" => wf.u \in whole) /\ DOMAIN job.states \subseteq Paths /\ job.states \in States
<1>1. job.fx = "commit" /\ job.pc \in Carried /\ eff["commit"].st = "dispatched" BY DEF IInv, EffectOK, Carried
<1>2. Owner("commit") /\ job.pc \notin Idle \cup Recovery BY <1>1, AtEffect
<1>3. eff["squash"].st = "none"
  <2>1. wf.kind = "passive" \/ cfg.commit = "final" BY <1>2 DEF Owner, OfPassive
  <2>2. eff["squash"] \in [st : Statuses, pre : Shas, res : Results, sha : Shas, receipt : BOOLEAN]
    BY DEF IInv, TypeOK, Ledgers, Effects
  <2> QED BY <2>1 DEF IInv, EvidenceOK
<1>4. wf.kind = "passive" => wf.u \in whole BY <1>1 DEF IInv, WholeOK, Written
<1>5. job.states \in States /\ DOMAIN job.states \subseteq Paths BY StatesDomain DEF IInv, TypeOK, Jobs
<1> QED BY <1>1, <1>2, <1>3, <1>4, <1>5

LEMMA StepCommit == ASSUME IInv, Commit PROVE IInv'
<1>1. job.pc = "committing" /\ UNCHANGED <<cfg, file, refs, backup, own, wf, asked, eff, art, up, n, whole>>
  BY DEF Commit, Here
<1>2. /\ job.fx = "commit" /\ job.pc \in Carried /\ job.pc \notin Idle \cup Recovery
      /\ eff["commit"].st = "dispatched" /\ eff["squash"].st = "none" /\ Owner("commit")
      /\ (wf.kind = "passive" => wf.u \in whole) /\ DOMAIN job.states \subseteq Paths /\ job.states \in States
  BY <1>1, AtCommitting
<1>3. job \in Jobs /\ n \in Counters /\ eff \in Ledgers BY DEF IInv, TypeOK
<1>4. PICK res \in {"ok", "nothing", "commit-failed"} :
        /\ Done(res)
        /\ \/ res = "ok" /\ CommitOnly(head, DOMAIN job.states, "workflow", job.states)
           \/ res # "ok" /\ UNCHANGED <<objects, head, tracked>>
  BY DEF Commit
<1>5. job' \in Jobs /\ job'.pc = "settle" /\ job'.fx = job.fx /\ job'.res = res /\ SameOwner /\ SameLoad
  BY <1>3, <1>4, DoneFields DEF Results
<1>6. Onward BY <1>1, <1>2, <1>5 DEF Onward, Idle, Recovery
<1>7. PlaceOK' /\ ActionOK' /\ EffectOK'
  BY <1>1, <1>2, <1>5, <1>6, EffectMove DEF Applying, Squashing, Restoring
<1>8. LeftOK' BY <1>5 DEF LeftOK
<1>9. ReviewedOK' /\ InspectedOK' BY <1>5, Unguarded DEF Guarded
<1>10. WholeOK'
  <2>1. Written' => wf.u \in whole BY <1>1, <1>2, <1>5 DEF Written
  <2> QED BY <1>1, <1>2, <1>5, <2>1, OnwardWhole
<1>11. CASE UNCHANGED <<objects, head, tracked>> /\ res # "ok"
  <2>1. TypeOK' BY <1>1, <1>5, <1>11, SameTypes DEF IInv, TypeOK
  <2>2. GraphOK' /\ CommitIsReviewed' BY <1>1, <1>11, GraphKept
  <2>3. EvidenceOK' BY <1>1, <1>5, <1>11, EvidenceKept
  <2> QED BY <1>7, <1>8, <1>9, <1>10, <2>1, <2>2, <2>3 DEF IInv
<1>12. CASE CommitOnly(head, DOMAIN job.states, "workflow", job.states)
  <2>1. Unchanged(job.states) BY <1>1 DEF IInv, ReviewedOK
  <2>2. /\ head' \in DOMAIN objects' /\ head' \notin Shas
        /\ objects'[head'].by = "workflow" /\ objects'[head'].run = n.runs
        /\ GraphOK' /\ CommitIsReviewed'
    BY <1>1, <1>2, <1>12, <2>1, CommitGrows
  <2>3. TypeOK' BY <1>1, <1>2, <1>3, <1>5, <1>12, <2>1, CommitTypes
  <2>4. Made' BY <1>1, <2>2 DEF Made, OfRun, ByWorkflow
  <2>5. Since(head, "commit")' BY <1>1, <2>2 DEF Since
  <2>6. head' # eff["commit"].pre BY <1>3, <2>2 DEF Ledgers, Effects
  <2>7. EvidenceOK' BY <1>1, <1>2, <1>5, <2>4, <2>5, <2>6 DEF IInv, EvidenceOK
  <2> QED BY <1>7, <1>8, <1>9, <1>10, <2>2, <2>3, <2>7 DEF IInv
<1> QED BY <1>4, <1>11, <1>12

(* The run comes to its end. *)
LEMMA FinishMove ==
  ASSUME IInv, job.pc \notin Idle \cup Recovery \cup {"artifact", "finish"},
         UNCHANGED <<cfg, project, backup, wf, asked, eff, up, n, whole>>,
         own' \in Owns, own'.base = own.base \/ OfPassive, job' \in Jobs, SameOwner, job'.pc = "finish",
         art' \in [Updates -> Artifacts], PassiveApplyIsWhole'
  PROVE  IInv'
<1>1. TypeOK' BY SameTypes DEF IInv, TypeOK, project
<1>2. WholeOK' BY DEF IInv, WholeOK, Written, Around, Carried, Applying, Squashing, Restoring
<1>3. Onward BY DEF Onward, Idle, Recovery
<1> QED BY <1>1, <1>2, <1>3, PlainMove DEF project, Around, Carried, Applying, Squashing, Restoring, Passive

LEMMA FinishPlain ==
  ASSUME IInv, job.pc \notin Idle \cup Recovery \cup {"artifact", "finish"},
         UNCHANGED <<cfg, project, backup, wf, asked, eff, art, up, n, whole>>,
         own' \in Owns, own'.base = own.base \/ OfPassive, Goto("finish")
  PROVE  IInv'
<1>1. job' \in Jobs /\ job'.pc = "finish" /\ SameTask /\ SameOwner /\ SameLoad
  BY GotoFields DEF IInv, TypeOK, Places
<1>2. art' \in [Updates -> Artifacts] /\ PassiveApplyIsWhole' BY DEF IInv, TypeOK, WholeOK, PassiveApplyIsWhole
<1> QED BY <1>1, <1>2, FinishMove

LEMMA StepAfterCommit == ASSUME IInv, AfterCommit PROVE IInv'
<1>1. /\ job.pc = "after" /\ job.fx = "commit"
      /\ UNCHANGED <<cfg, project, backup, eff, art, up, n, whole>>
  BY DEF AfterCommit, Here
<1>2. Owner("commit") /\ job.pc \notin Idle \cup Recovery /\ (OfPassive => wf.u \in Updates)
  BY <1>1, AtEffect DEF Around
<1>3. job \in Jobs /\ own \in Owns /\ eff \in Ledgers /\ asked \in Asks BY DEF IInv, TypeOK
<1>4. OfPassive => wf.u \in whole
  BY <1>1 DEF IInv, WholeOK, Written, Around, OfPassive
<1>5. job.by = "automation" => OfAutomation BY <1>2 DEF Owner, OfPassive
<1>6. job.by # "automation" => OfPassive BY <1>2 DEF Owner, OfAutomation
<1> DEFINE point == <<eff["commit"].sha>>
<1>7. point \in Seq(Shas) BY <1>3 DEF Ledgers, Effects
<1>8. job.pre \in Shas /\ job.states \in States BY <1>3 DEF Jobs
<1>9. /\ \A pc \in {"complete", "finish"} : Goto(pc) =>
           job' \in Jobs /\ job'.pc = pc /\ SameTask /\ SameOwner /\ SameLoad
      /\ Owns' = Owns /\ Asks' = Asks
  BY <1>1, <1>3, GotoFields, SameTypes DEF Places, project
<1>10. CASE job.res = "ok" /\ job.by # "automation"
  <2>1. own' = Merged(job.pre, point, job.states) /\ Goto("complete") /\ UNCHANGED <<wf, asked>>
    BY <1>10 DEF AfterCommit
  <2>2. own' \in Owns BY <1>3, <1>7, <1>8, <2>1, MergedType
  <2> QED BY <1>1, <1>2, <1>3, <1>4, <1>6, <1>9, <1>10, <2>1, <2>2, WrittenMove
<1>11. CASE job.res = "ok" /\ job.by = "automation"
  <2>1. own' = [own EXCEPT !.points = point] /\ Goto("finish") /\ UNCHANGED <<wf, asked>>
    BY <1>11 DEF AfterCommit
  <2>2. own' \in Owns /\ own'.base = own.base BY <1>3, <1>7, <2>1 DEF Owns
  <2> QED BY <1>1, <1>2, <2>1, <2>2, FinishPlain
<1>12. CASE job.res = "nothing" /\ job.by \in {"passive", "approve", "keep"}
  <2>1. Goto("complete") /\ UNCHANGED <<own, wf, asked>> BY <1>12 DEF AfterCommit
  <2> QED BY <1>1, <1>2, <1>3, <1>4, <1>6, <1>9, <1>12, <2>1, WrittenMove
<1>13. CASE job.res = "nothing" /\ job.by = "automation"
  <2>1. Goto("finish") /\ UNCHANGED <<own, wf, asked>> BY <1>13 DEF AfterCommit
  <2> QED BY <1>1, <1>2, <1>3, <2>1, FinishPlain
<1>14. CASE job.res # "ok" /\ job.by \in {"commit", "automation"} /\ (job.res # "nothing" \/ job.by = "commit")
  <2>1. Throw /\ UNCHANGED own BY <1>14 DEF AfterCommit
  <2> QED BY <1>1, <1>2, <1>5, <1>6, <2>1, ThrowEnds
<1>15. CASE /\ job.res # "ok" /\ job.by # "automation"
            /\ ~(job.res = "nothing" /\ job.by \in {"passive", "approve", "keep"}) /\ job.by # "commit"
  <2>1. CommitThrows /\ UNCHANGED own BY <1>15 DEF AfterCommit
  <2> QED BY <1>1, <1>2, <1>4, <1>6, <1>15, <2>1, CommitThrowsOK
<1> QED BY <1>10, <1>11, <1>12, <1>13, <1>14, <1>15

LEMMA StepComplete == ASSUME IInv, Complete PROVE IInv'
<1>1. job.pc = "complete" /\ UNCHANGED <<cfg, project, backup, own, wf, asked, eff, up, n, whole>>
  BY DEF Complete, Here
<1>2. OfPassive /\ wf.u \in Updates /\ job.u = wf.u /\ job.pc \notin Idle \cup Recovery
  BY <1>1, AtPassive DEF Passive
<1>3. art' = [art EXCEPT ![wf.u] = "applied"] /\ Goto("finish") BY <1>2 DEF Complete
<1>4. job' \in Jobs /\ job'.pc = "finish" /\ SameTask /\ SameOwner /\ SameLoad
  BY <1>3, GotoFields DEF IInv, TypeOK, Places
<1>5. art' \in [Updates -> Artifacts] BY <1>3 DEF IInv, TypeOK, Artifacts
<1>6. PassiveApplyIsWhole'
  <2>1. wf.u \in whole BY <1>1 DEF IInv, WholeOK, Written
  <2> QED BY <1>1, <1>3, <2>1 DEF IInv, TypeOK, WholeOK, PassiveApplyIsWhole
<1>7. own' \in Owns BY <1>1 DEF IInv, TypeOK
<1> QED BY <1>1, <1>2, <1>4, <1>5, <1>6, <1>7, FinishMove

LEMMA StepFinish == ASSUME IInv, Finish PROVE IInv'
<1>1. job.pc = "finish" /\ UNCHANGED <<cfg, project, backup, own, asked, eff, art, up, n, whole>> /\ up
  BY DEF Finish, Here
<1>2. /\ wf' \in WorkflowRecords /\ wf'.life = "ready" /\ wf'.act = "" /\ wf'.kind = wf.kind /\ wf'.u = wf.u
  BY EndFields DEF Finish, IInv, TypeOK
<1>3. job' \in Jobs /\ job'.pc \in Idle
  <2>1. Off \in Jobs /\ Off.pc = "off" BY OffFields DEF IInv
  <2>2. [Off EXCEPT !.pc = "self"] \in Jobs /\ [Off EXCEPT !.pc = "self"].pc = "self"
    BY <2>1 DEF Jobs, Places
  <2>3. job' = Off \/ job' = [Off EXCEPT !.pc = "self"] BY DEF Finish
  <2> QED BY <2>1, <2>2, <2>3 DEF Idle
<1>4. ActionOK' BY <1>2, <1>3 DEF ActionOK, Pending, Idle
<1>5. PassiveApplyIsWhole' BY <1>1 DEF IInv, WholeOK, PassiveApplyIsWhole
<1>6. up' \in BOOLEAN /\ n' \in Counters /\ asked' \in Asks /\ art' \in [Updates -> Artifacts] BY <1>1 DEF IInv, TypeOK
<1> QED BY <1>1, <1>2, <1>3, <1>4, <1>5, <1>6, Leave DEF project

-----------------------------------------------------------------------------
(* The decisions of the user                                                *)

LEMMA StepAfterRevert == ASSUME IInv, AfterRevert PROVE IInv'
<1>1. /\ job.pc = "after" /\ job.fx = "revert"
      /\ UNCHANGED <<cfg, project, backup, eff, art, up, n, whole>>
  BY DEF AfterRevert, Here
<1>2. OfPassive /\ wf.u \in Updates /\ job.pc \notin Idle \cup Recovery BY <1>1, AtPassive DEF Around
<1>3. CASE job.res = "ok"
  <2>1. own' = asked.prev /\ Goto("reverted") /\ UNCHANGED <<wf, asked>> BY <1>3 DEF AfterRevert
  <2>2. job' \in Jobs /\ job'.pc = "reverted" /\ SameTask /\ SameOwner /\ SameLoad
    BY <2>1, GotoFields DEF IInv, TypeOK, Places
  <2>3. own' \in Owns BY <2>1 DEF IInv, TypeOK, Asks
  <2>4. TypeOK' BY <1>1, <2>1, <2>2, <2>3, SameTypes DEF IInv, TypeOK, project
  <2>5. WholeOK'
    <3>1. ~Written' BY <2>2 DEF Written, Around
    <3> QED BY <1>1, <1>2, <2>1, <2>2, <3>1, OnwardWhole DEF Around, Carried, Applying, Squashing, Restoring
  <2>6. Onward BY <1>1, <1>2, <2>1, <2>2 DEF Onward, Idle, Recovery
  <2> QED BY <1>1, <1>2, <2>2, <2>4, <2>5, <2>6, PlainMove
          DEF project, Around, Carried, Applying, Squashing, Restoring
<1>4. CASE job.res # "ok" BY <1>1, <1>2, <1>4, ThrowEnds DEF AfterRevert
<1> QED BY <1>3, <1>4

LEMMA StepReverted == ASSUME IInv, Reverted PROVE IInv'
<1>1. job.pc = "reverted" /\ UNCHANGED <<cfg, project, backup, own, wf, asked, eff, up, n, whole>>
  BY DEF Reverted, Here
<1>2. OfPassive /\ wf.u \in Updates /\ job.u = wf.u /\ job.pc \notin Idle \cup Recovery
  BY <1>1, AtPassive DEF Passive
<1>3. art' = [art EXCEPT ![wf.u] = "reverted"] /\ Goto("finish") BY <1>2 DEF Reverted
<1>4. job' \in Jobs /\ job'.pc = "finish" /\ SameTask /\ SameOwner /\ SameLoad
  BY <1>3, GotoFields DEF IInv, TypeOK, Places
<1>5. art' \in [Updates -> Artifacts] BY <1>3 DEF IInv, TypeOK, Artifacts
<1>6. PassiveApplyIsWhole' BY <1>1, <1>3 DEF IInv, TypeOK, WholeOK, PassiveApplyIsWhole
<1>7. own' \in Owns BY <1>1 DEF IInv, TypeOK
<1> QED BY <1>1, <1>2, <1>4, <1>5, <1>6, <1>7, FinishMove

(* A job of the run is queued. *)
LEMMA Launch ==
  ASSUME IInv, up, job.pc = "off" \/ job.pc = "reconcile",
         UNCHANGED <<cfg, project, backup, own, asked, eff, art, up, n, whole>>,
         wf' \in WorkflowRecords, wf'.life = "running", wf'.act = "", wf'.kind = wf.kind, wf'.u = wf.u,
         job' \in Jobs, job'.pc \in {"artifact", "inspect", "approved", "complete", "commit", "finalize"},
         job'.pc = "finalize" => OfAutomation', job'.pc # "finalize" => OfPassive',
         job'.pc \notin {"artifact", "finalize"} => art[wf.u] # "applied",
         job'.pc \in {"approved", "complete", "commit"} => wf.u \in whole
  PROVE  IInv'
<1>1. TypeOK' BY SameTypes DEF IInv, TypeOK, project
<1>2. PlaceOK'
  <2>1. wf.kind # "" BY DEF OfPassive, OfAutomation
  <2> QED BY <2>1 DEF IInv, PlaceOK, Idle, Recovery, Passive
<1>3. EffectOK' BY DEF IInv, EffectOK, Around, Carried, Applying, Squashing, Restoring
<1>4. LeftOK' BY DEF LeftOK
<1>5. ActionOK' BY DEF ActionOK, Pending
<1>6. ReviewedOK' /\ InspectedOK' BY Unguarded DEF Guarded
<1>7. GraphOK' /\ CommitIsReviewed' BY GraphKept DEF project
<1>8. EvidenceOK' BY EvidenceKept DEF project
<1>9. WholeOK'
  <2>1. PassiveApplyIsWhole' BY DEF IInv, WholeOK, PassiveApplyIsWhole
  <2>2. Written' => wf.u \in whole BY DEF Written, Around
  <2>3. wf.kind = "passive" /\ job'.pc \notin {"artifact", "finalize"} => art[wf.u] # "applied" OBVIOUS
  <2>4. ~(job'.pc = "finalize" /\ wf.kind = "passive") BY DEF OfAutomation
  <2> QED BY <2>1, <2>2, <2>3, <2>4 DEF IInv, WholeOK, Around, Carried, Applying, Squashing, Restoring
<1> QED BY <1>1, <1>2, <1>3, <1>4, <1>5, <1>6, <1>7, <1>8, <1>9 DEF IInv

LEMMA JobFields ==
  ASSUME TypeOK, NEW pc \in Places, NEW by \in Actors
  PROVE  /\ Job(pc, by) \in Jobs /\ Job(pc, by).pc = pc /\ Job(pc, by).by = by /\ Job(pc, by).u = asked.u
         /\ Job(pc, by).fx = ""
<1>1. Off \in Jobs /\ Off.fx = "" BY OffFields
<1>2. asked.u \in Updates \cup {""} /\ asked.states \in States /\ asked.pre \in Shas BY DEF TypeOK, Asks
<1> HIDE DEF Off
<1> QED BY <1>1, <1>2 DEF Job, Jobs

LEMMA ChoiceFields ==
  ASSUME IInv, NEW act, NEW life \in {"stopped", "ready", "running", "recovering"}, NEW next, Choice(act, life, next)
  PROVE  /\ job.pc = "off" /\ up /\ wf.act = act /\ wf.life = "waiting" /\ job' = next
         /\ UNCHANGED <<cfg, project, backup, own, asked, eff, art, up, n, whole>>
         /\ wf' \in WorkflowRecords /\ wf'.life = life /\ wf'.act = "" /\ wf'.kind = wf.kind /\ wf'.u = wf.u
BY DEF Choice, Here, IInv, TypeOK, WorkflowRecords, Actions

(* The decision about an update starts a job of the run. *)
LEMMA ChoiceLaunch ==
  ASSUME IInv, NEW act \in {"apply", "commit", "failed-checks"},
         NEW pc \in {"inspect", "approved", "complete", "commit"}, NEW by \in {"approve", "commit", "keep", "fix"},
         act = "apply" => pc = "inspect",
         Choice(act, "running", Job(pc, by))
  PROVE  IInv'
<1>1. /\ job.pc = "off" /\ up /\ wf.act = act /\ job' = Job(pc, by)
      /\ UNCHANGED <<cfg, project, backup, own, asked, eff, art, up, n, whole>>
      /\ wf' \in WorkflowRecords /\ wf'.life = "running" /\ wf'.act = "" /\ wf'.kind = wf.kind /\ wf'.u = wf.u
  BY ChoiceFields
<1>2. job' \in Jobs /\ job'.pc = pc /\ job'.by = by /\ job'.u = asked.u
  <2>1. TypeOK /\ pc \in Places /\ by \in Actors BY DEF IInv, Places, Actors
  <2> QED BY <1>1, <2>1, JobFields
<1>3. wf.kind = "passive" /\ asked.u = wf.u /\ art[wf.u] # "applied" /\ (act # "apply" => wf.u \in whole)
  BY <1>1 DEF IInv, ActionOK, Pending
<1>4. OfPassive' BY <1>1, <1>2, <1>3 DEF OfPassive
<1> QED BY <1>1, <1>2, <1>3, <1>4, Launch

LEMMA ChoiceLeaves ==
  ASSUME IInv, NEW act, NEW life \in {"ready", "running"}, Choice(act, life, Off)
  PROVE  IInv'
<1>1. /\ job.pc = "off" /\ up /\ wf.act = act /\ wf.life = "waiting" /\ job' = Off
      /\ UNCHANGED <<cfg, project, backup, own, asked, eff, art, up, n, whole>>
      /\ wf' \in WorkflowRecords /\ wf'.life = life /\ wf'.act = "" /\ wf'.kind = wf.kind /\ wf'.u = wf.u
  BY ChoiceFields
<1>2. job' \in Jobs /\ job'.pc = "off" BY <1>1, OffFields DEF IInv
<1>3. ActionOK' BY <1>1, <1>2 DEF ActionOK, Pending
<1>4. PassiveApplyIsWhole' BY <1>1 DEF IInv, WholeOK, PassiveApplyIsWhole
<1>5. up' \in BOOLEAN /\ n' \in Counters /\ asked' \in Asks /\ art' \in [Updates -> Artifacts]
  BY <1>1 DEF IInv, TypeOK
<1> QED BY <1>1, <1>2, <1>3, <1>4, <1>5, Leave DEF project, Idle

LEMMA StepChooseRevert == ASSUME IInv, ChooseRevert PROVE IInv'
<1>1. /\ job.pc = "off" /\ up /\ wf.act = "failed-checks" /\ job' = [Job("begin", "revert") EXCEPT !.fx = "revert"]
      /\ UNCHANGED <<cfg, project, backup, own, asked, eff, art, up, n, whole>>
      /\ wf' \in WorkflowRecords /\ wf'.life = "running" /\ wf'.act = "" /\ wf'.kind = wf.kind /\ wf'.u = wf.u
  BY ChoiceFields DEF ChooseRevert
<1>2. job' \in Jobs /\ job'.pc = "begin" /\ job'.fx = "revert" /\ job'.by = "revert" /\ job'.u = asked.u
  <2>1. /\ Job("begin", "revert") \in Jobs /\ Job("begin", "revert").pc = "begin"
        /\ Job("begin", "revert").by = "revert" /\ Job("begin", "revert").u = asked.u
    <3>1. TypeOK /\ "begin" \in Places /\ "revert" \in Actors BY DEF IInv, Places, Actors
    <3> QED BY <3>1, JobFields, ZenonT(40)
  <2>2. "revert" \in Effects BY DEF Effects
  <2> QED BY <1>1, <2>1, <2>2 DEF Jobs
<1>3. /\ wf.kind = "passive" /\ asked.u = wf.u /\ art[wf.u] # "applied"
      /\ eff["apply"].st = "failed" /\ ~backup.receipt
  BY <1>1 DEF IInv, ActionOK, Pending
<1>4. OfPassive' BY <1>1, <1>2, <1>3 DEF OfPassive
<1>5. TypeOK' BY <1>1, <1>2, SameTypes DEF IInv, TypeOK, project
<1>6. PlaceOK' BY <1>1, <1>2, <1>3 DEF IInv, PlaceOK, Idle, Recovery, Passive
<1>7. EffectOK'
  BY <1>1, <1>2, <1>4 DEF IInv, EffectOK, Owner, Effects, Around, Carried, Applying, Squashing, Restoring
<1>8. LeftOK' BY <1>2 DEF LeftOK
<1>9. ActionOK' BY <1>1, <1>2 DEF ActionOK, Pending
<1>10. ReviewedOK' /\ InspectedOK' BY <1>2 DEF ReviewedOK, InspectedOK
<1>11. GraphOK' /\ CommitIsReviewed' BY <1>1, GraphKept DEF project
<1>12. EvidenceOK' BY <1>1, <1>2, EvidenceKept DEF project
<1>13. WholeOK'
  <2>1. PassiveApplyIsWhole' BY <1>1 DEF IInv, WholeOK, PassiveApplyIsWhole
  <2>2. ~Written' BY <1>2 DEF Written
  <2> QED BY <1>1, <1>2, <1>3, <2>1, <2>2 DEF IInv, WholeOK
<1> QED BY <1>5, <1>6, <1>7, <1>8, <1>9, <1>10, <1>11, <1>12, <1>13 DEF IInv

LEMMA StepChooseRetry == ASSUME IInv, ChooseRetry PROVE IInv'
<1>1. CASE wf.kind # "automation" BY <1>1, ChoiceLeaves DEF ChooseRetry
<1>2. CASE wf.kind = "automation"
  <2> DEFINE next == [Off EXCEPT !.pc = "finalize", !.by = "automation"]
  <2>1. Choice("recovery", "running", next) BY <1>2 DEF ChooseRetry
  <2>2. Off \in Jobs BY OffFields DEF IInv
  <2>3. next \in Jobs /\ next.pc = "finalize" /\ next.by = "automation"
    <3> HIDE DEF Off
    <3> QED BY <2>2, ZenonT(40) DEF Jobs, Places, Actors, Kinds
  <2> HIDE DEF next
  <2>4. /\ job.pc = "off" /\ up /\ job' = next
        /\ UNCHANGED <<cfg, project, backup, own, asked, eff, art, up, n, whole>>
        /\ wf' \in WorkflowRecords /\ wf'.life = "running" /\ wf'.act = "" /\ wf'.kind = wf.kind /\ wf'.u = wf.u
    BY <2>1, ChoiceFields
  <2>5. OfAutomation' BY <1>2, <2>3, <2>4 DEF OfAutomation
  <2> QED BY <2>3, <2>4, <2>5, Launch
<1> QED BY <1>1, <1>2

(* What is planned is cancelled, the workflow stops or is asked to. *)
LEMMA StopKeeps ==
  ASSUME IInv, job.pc = "off", UNCHANGED <<cfg, project, backup, own, asked, art, job, up, whole>>,
         n' \in Counters, n'.runs = n.runs, eff' = Cancelled,
         wf' \in WorkflowRecords, wf'.act = "", wf'.life # "waiting", wf'.kind = wf.kind, wf'.u = wf.u,
         wf'.life \in {"stopped", wf.life} \/ wf.life = "waiting"
  PROVE  IInv'
<1>1. eff \in Ledgers BY DEF IInv, TypeOK
<1>2. \A k \in Effects :
        eff'[k] = IF eff[k].st = "planned" THEN [eff[k] EXCEPT !.st = "cancelled"] ELSE eff[k]
  BY DEF Cancelled
<1>3. \A k \in Effects : eff[k] \in [st : Statuses, pre : Shas, res : Results, sha : Shas, receipt : BOOLEAN]
  BY <1>1 DEF Ledgers
<1>4. \A k \in Effects :
        /\ eff'[k] \in [st : Statuses, pre : Shas, res : Results, sha : Shas, receipt : BOOLEAN]
        /\ eff'[k].st = (IF eff[k].st = "planned" THEN "cancelled" ELSE eff[k].st)
        /\ eff'[k].pre = eff[k].pre /\ eff'[k].res = eff[k].res /\ eff'[k].receipt = eff[k].receipt
  BY <1>2, <1>3 DEF Statuses
<1>5. eff' \in Ledgers BY <1>4 DEF Cancelled, Ledgers
<1>6. TypeOK' BY <1>5, SameTypes DEF IInv, TypeOK, project
<1>7. PlaceOK' BY DEF IInv, PlaceOK, Idle, Recovery, Passive
<1>8. EffectOK' BY <1>4 DEF IInv, EffectOK, Around, Carried, Applying, Squashing, Restoring
<1>9. LeftOK' BY DEF LeftOK
<1>10. ActionOK' BY DEF ActionOK, Pending
<1>11. ReviewedOK' /\ InspectedOK' BY Unguarded DEF Guarded
<1>12. GraphOK' /\ CommitIsReviewed' BY GraphKept DEF project
<1>13. EvidenceOK'
  <2>1. Made' <=> Made BY DEF Made, OfRun, ByWorkflow, project
  <2>2. \A k \in {"commit", "squash"} :
          /\ eff'[k].st = (IF eff[k].st = "planned" THEN "cancelled" ELSE eff[k].st)
          /\ eff'[k].pre = eff[k].pre /\ eff'[k].res = eff[k].res /\ eff'[k].receipt = eff[k].receipt
    BY <1>4, ZenonT(40) DEF Effects
  <2>3. Since(head, "commit")' <=> Since(head, "commit") BY <2>2 DEF Since, project
  <2>4. Since(head, "squash")' <=> Since(head, "squash") BY <2>2 DEF Since, project
  <2>5. \A k \in {"commit", "squash"} :
          /\ eff'[k].st # "none" => eff[k].st # "none"
          /\ eff'[k].st \in {"none", "planned"} => eff[k].st = "none"
          /\ eff'[k].st = "succeeded" => eff[k].st = "succeeded"
    BY <2>2
  <2>6. \A k \in {"commit", "squash"} : eff'[k].st = "succeeded" /\ eff'[k].res = "ok" => Made
    BY <2>2, <2>5, ZenonT(40) DEF IInv, EvidenceOK
  <2> QED BY <2>1, <2>2, <2>3, <2>4, <2>5, <2>6 DEF IInv, EvidenceOK, project
<1>14. WholeOK'
  <2>1. PassiveApplyIsWhole' BY DEF IInv, WholeOK, PassiveApplyIsWhole
  <2>2. ~Written' BY DEF Written, Around
  <2>3. "apply" \in Effects BY DEF Effects
  <2> QED BY <1>4, <2>1, <2>2, <2>3 DEF IInv, WholeOK, Idle, Around, Carried, Applying, Squashing, Restoring
<1> QED BY <1>6, <1>7, <1>8, <1>9, <1>10, <1>11, <1>12, <1>13, <1>14 DEF IInv

LEMMA StepChoose == ASSUME IInv, Choose PROVE IInv'
<1>1. CASE ChooseApprove BY <1>1, ChoiceLaunch DEF ChooseApprove
<1>2. CASE ChooseReject BY <1>2, ChoiceLeaves DEF ChooseReject
<1>3. CASE ChooseCommit BY <1>3, ChoiceLaunch DEF ChooseCommit
<1>4. CASE ChooseNoCommit BY <1>4, ChoiceLaunch DEF ChooseNoCommit
<1>5. CASE ChooseFix BY <1>5, ChoiceLaunch DEF ChooseFix
<1>6. CASE ChooseKeep BY <1>6, ChoiceLaunch DEF ChooseKeep
<1>7. CASE ChooseStop
  <2>1. /\ job.pc = "off" /\ eff' = Cancelled
        /\ UNCHANGED <<cfg, project, backup, own, asked, art, job, up, n, whole>>
    BY <1>7 DEF ChooseStop, Here
  <2>2. /\ wf' \in WorkflowRecords /\ wf'.act = "" /\ wf'.life # "waiting" /\ wf'.kind = wf.kind /\ wf'.u = wf.u
       /\ wf.life = "waiting"
    BY <1>7 DEF ChooseStop, IInv, TypeOK, WorkflowRecords, Actions
  <2>3. n' \in Counters BY <2>1 DEF IInv, TypeOK
  <2> QED BY <2>1, <2>2, <2>3, StopKeeps
<1> QED BY <1>1, <1>2, <1>3, <1>4, <1>5, <1>6, <1>7, StepChooseRevert, StepChooseRetry DEF Choose

-----------------------------------------------------------------------------
(* finalize, squash and restore                                             *)

LEMMA StepFinalizeStep == ASSUME IInv, FinalizeStep PROVE IInv'
<1>1. job.pc = "finalize" /\ UNCHANGED <<cfg, project, backup, own, eff, art, up, n, whole>>
  BY DEF FinalizeStep, Here
<1>2. OfAutomation /\ job.pc \notin Idle \cup Recovery /\ wf.kind # "passive"
  BY <1>1 DEF IInv, PlaceOK, Idle, Recovery, OfAutomation
<1>3. job \in Jobs /\ own \in Owns BY DEF IInv, TypeOK
<1>4. own' \in Owns /\ own'.base = own.base /\ own.states \in States BY <1>1, <1>3 DEF Owns
<1>5. CASE UNCHANGED <<wf, asked>> /\ (Goto("finish") \/ job' = [job EXCEPT !.pc = "finish"])
  <2>1. Goto("finish") BY <1>5 DEF Goto
  <2> QED BY <1>1, <1>2, <1>4, <1>5, <2>1, FinishPlain
<1>6. CASE cfg.commit \in {"auto", "final"} /\ ~Unchanged(own.states)
  BY <1>1, <1>2, <1>6, ThrowEnds DEF FinalizeStep
<1>7. CASE /\ cfg.commit = "final" /\ Unchanged(own.states) /\ UNCHANGED <<wf, asked>>
           /\ job' = [job EXCEPT !.pc = "begin", !.fx = "commit", !.states = own.states]
  <2>1. "begin" \in Places /\ "commit" \in Effects BY DEF Places, Effects
  <2>2. /\ job' \in Jobs /\ job'.pc = "begin" /\ job'.fx = "commit" /\ job'.states = own.states /\ SameOwner
    BY <1>3, <1>4, <1>7, <2>1 DEF Jobs, SameOwner
  <2>3. Unchanged(job'.states) BY <1>7, <2>2 DEF Unchanged
  <2>4. Owner("commit") BY <1>2, <1>7 DEF Owner
  <2> QED BY <1>1, <1>2, <1>7, <2>2, <2>3, <2>4, BeginEffect
<1>8. CASE cfg.commit = "auto" /\ Unchanged(own.states) /\ UNCHANGED <<wf, asked>> /\ Do("squash")
  <2>1. job' \in Jobs /\ job'.pc = "begin" /\ job'.fx = "squash" /\ SameOwner
    BY <1>3, <1>8, DoFields DEF Effects
  <2>2. Owner("squash") BY <1>2, <1>8 DEF Owner
  <2> QED BY <1>1, <1>2, <1>8, <2>1, <2>2, BeginEffect
<1>9. \/ cfg.commit \in {"auto", "final"} /\ ~Unchanged(own.states)
      \/ UNCHANGED <<wf, asked>> /\ (Goto("finish") \/ job' = [job EXCEPT !.pc = "finish"])
      \/ /\ cfg.commit = "final" /\ Unchanged(own.states) /\ UNCHANGED <<wf, asked>>
         /\ job' = [job EXCEPT !.pc = "begin", !.fx = "commit", !.states = own.states]
      \/ cfg.commit = "auto" /\ Unchanged(own.states) /\ UNCHANGED <<wf, asked>> /\ Do("squash")
  <2>1. CASE cfg.commit \notin {"auto", "final"} BY <2>1 DEF FinalizeStep
  <2>2. CASE cfg.commit = "final" /\ Unchanged(own.states) BY <2>2 DEF FinalizeStep
  <2>3. CASE cfg.commit = "auto" /\ Unchanged(own.states) BY <2>3 DEF FinalizeStep
  <2> QED BY <2>1, <2>2, <2>3
<1> QED BY <1>5, <1>6, <1>7, <1>8, <1>9

LEMMA AtSquash ==
  ASSUME IInv, job.pc \in Squashing
  PROVE  /\ job.fx = "squash" /\ job.pc \in Carried /\ job.pc \notin Idle \cup Recovery
         /\ eff["squash"].st = "dispatched" /\ eff["commit"].st = "none" /\ wf.kind # "passive"
<1>1. job.fx = "squash" /\ job.pc \in Carried /\ eff["squash"].st = "dispatched" BY DEF IInv, EffectOK, Carried
<1>2. Owner("squash") /\ job.pc \notin Idle \cup Recovery BY <1>1, AtEffect
<1>3. wf.kind = "automation" /\ cfg.commit = "auto" BY <1>2 DEF Owner, OfAutomation
<1>4. eff["commit"].st = "none" BY <1>3 DEF IInv, EvidenceOK
<1> QED BY <1>1, <1>2, <1>3, <1>4

LEMMA StepSquash == ASSUME IInv, Squash PROVE IInv'
<1>1. /\ job.pc = "squashing"
      /\ UNCHANGED <<cfg, file, objects, tracked, backup, own, wf, asked, eff, art, up, n, whole>>
  BY DEF Squash, Here
<1>2. /\ job.fx = "squash" /\ job.pc \in Carried /\ job.pc \notin Idle \cup Recovery
      /\ eff["squash"].st = "dispatched" /\ eff["commit"].st = "none" /\ wf.kind # "passive"
  BY <1>1, AtSquash DEF Squashing
<1>3. job \in Jobs /\ own \in Owns /\ head \in DOMAIN objects /\ refs \in [squash : Shas, restore : Shas]
  BY DEF IInv, TypeOK
<1>4. PICK pc \in {"squash-commit", "settle"} :
        /\ job' \in Jobs /\ job'.pc = pc /\ job'.fx = job.fx /\ SameOwner
        /\ pc = "settle" => job'.res = "nothing" /\ UNCHANGED <<refs, head>>
        /\ pc = "squash-commit" => own.base # 0 /\ ExactGraph /\ refs' = [refs EXCEPT !.squash = head] /\ head' = own.base
  <2>1. CASE own.base # 0 /\ ExactGraph
    BY <1>3, <2>1, GotoFields DEF Squash, Places, SameTask
  <2>2. CASE ~(own.base # 0 /\ ExactGraph)
    BY <1>3, <2>2, DoneFields DEF Squash, Results
  <2> QED BY <2>1, <2>2
<1>5. own.base \in Shas /\ (own.base # 0 => own.base \in DOMAIN objects) /\ head \in Shas
  BY <1>3, ShasFacts DEF IInv, Owns
<1>6. TypeOK' BY <1>1, <1>3, <1>4, <1>5, SameTypes DEF IInv, TypeOK
<1>7. Onward BY <1>1, <1>2, <1>4 DEF Onward, Idle, Recovery
<1>8. PlaceOK' /\ ActionOK' /\ EffectOK'
  BY <1>1, <1>2, <1>4, <1>7, EffectMove DEF Carried, Applying, Squashing, Restoring
<1>9. LeftOK' BY <1>4 DEF LeftOK
<1>10. ReviewedOK'
  <2>1. Unchanged(own.states) BY <1>1 DEF IInv, ReviewedOK
  <2> QED BY <1>1, <1>4, <2>1 DEF ReviewedOK, Unchanged
<1>11. InspectedOK' BY <1>4 DEF InspectedOK
<1>12. GraphOK' /\ CommitIsReviewed' BY <1>1, GraphKept
<1>13. EvidenceOK'
  <2>1. CASE pc = "settle" BY <1>1, <1>4, <2>1, EvidenceKept
  <2>2. CASE pc = "squash-commit"
    <3>1. head = own.points[Len(own.points)] BY <1>4, <2>2 DEF ExactGraph
    <3>2. Since(head, "squash") \/ head = own.base BY <1>2 DEF IInv, EvidenceOK
    <3>3. \A s : Since(s, "squash")' <=> Since(s, "squash") BY <1>1 DEF Since
    <3>4. Made' <=> Made BY <1>1 DEF Made, OfRun, ByWorkflow
    <3>5. Since(own.points[Len(own.points)], "squash")' <=> Since(own.points[Len(own.points)], "squash")
      BY <1>1 DEF Since
    <3> QED BY <1>1, <1>2, <1>3, <1>4, <2>2, <3>1, <3>2, <3>4, <3>5 DEF IInv, EvidenceOK
  <2> QED BY <1>4, <2>1, <2>2
<1>14. WholeOK'
  <2>1. ~Written' BY <1>2, <1>4 DEF Written, Around
  <2> QED BY <1>1, <1>2, <1>4, <2>1, OnwardWhole
<1> QED BY <1>6, <1>8, <1>9, <1>10, <1>11, <1>12, <1>13, <1>14 DEF IInv

LEMMA StepSquashCommit == ASSUME IInv, SquashCommit PROVE IInv'
<1>1. /\ job.pc = "squash-commit"
      /\ UNCHANGED <<cfg, file, refs, backup, own, wf, asked, eff, art, up, n, whole>>
  BY DEF SquashCommit, Here
<1>2. /\ job.fx = "squash" /\ job.pc \in Carried /\ job.pc \notin Idle \cup Recovery
      /\ eff["squash"].st = "dispatched" /\ eff["commit"].st = "none" /\ wf.kind # "passive"
  BY <1>1, AtSquash DEF Squashing
<1>3. job \in Jobs /\ own \in Owns /\ n \in Counters /\ eff \in Ledgers BY DEF IInv, TypeOK
<1>4. own.states \in States /\ DOMAIN own.states \subseteq Paths BY <1>3, StatesDomain DEF Owns
<1>5. PICK pc \in {"squash-receipt", "settle"} :
        /\ job' \in Jobs /\ job'.pc = pc /\ job'.fx = job.fx /\ SameOwner
        /\ pc = "settle" => /\ job'.res = "squash-failed" /\ UNCHANGED <<objects, tracked>>
                            /\ head' = own.points[Len(own.points)]
        /\ pc = "squash-receipt" => CommitOnly(head, DOMAIN own.states, "workflow", own.states)
  <2>1. CASE CommitOnly(head, DOMAIN own.states, "workflow", own.states) /\ Goto("squash-receipt")
    BY <1>3, <2>1, GotoFields DEF Places, SameTask
  <2>2. CASE head' = own.points[Len(own.points)] /\ Done("squash-failed") /\ UNCHANGED <<objects, tracked>>
    BY <1>3, <2>2, DoneFields DEF Results
  <2> QED BY <2>1, <2>2 DEF SquashCommit
<1>6. Onward BY <1>1, <1>2, <1>5 DEF Onward, Idle, Recovery
<1>7. PlaceOK' /\ ActionOK' /\ EffectOK'
  BY <1>1, <1>2, <1>5, <1>6, EffectMove DEF Carried, Applying, Squashing, Restoring
<1>8. LeftOK' BY <1>5 DEF LeftOK
<1>9. ReviewedOK' /\ InspectedOK' BY <1>5, Unguarded DEF Guarded
<1>10. WholeOK'
  <2>1. ~Written' BY <1>2, <1>5 DEF Written, Around
  <2> QED BY <1>1, <1>2, <1>5, <2>1, OnwardWhole
<1>11. CASE pc = "settle"
  <2> DEFINE tip == own.points[Len(own.points)]
  <2>1. tip \in DOMAIN objects /\ (Since(tip, "squash") \/ tip = own.base) BY <1>1 DEF IInv, EvidenceOK
  <2>2. head' = tip /\ UNCHANGED <<objects, tracked>> /\ job'.pc = "settle" /\ job'.res = "squash-failed"
    BY <1>5, <1>11
  <2> HIDE DEF tip
  <2>3. TypeOK' BY <1>1, <1>5, <2>1, <2>2, SameTypes DEF IInv, TypeOK
  <2>4. GraphOK' /\ CommitIsReviewed' BY <1>1, <2>2, GraphKept
  <2>5. Made' <=> Made BY <1>1, <2>2 DEF Made, OfRun, ByWorkflow
  <2>6. Since(head, "squash")' <=> Since(tip, "squash") BY <1>1, <2>2 DEF Since
  <2>7. EvidenceOK' BY <1>1, <1>2, <2>1, <2>2, <2>5, <2>6 DEF IInv, EvidenceOK
  <2> QED BY <1>7, <1>8, <1>9, <1>10, <2>3, <2>4, <2>7 DEF IInv
<1>12. CASE pc = "squash-receipt"
  <2>1. CommitOnly(head, DOMAIN own.states, "workflow", own.states) BY <1>5, <1>12
  <2>2. Unchanged(own.states) BY <1>1 DEF IInv, ReviewedOK
  <2>3. /\ head' \in DOMAIN objects' /\ objects'[head'].by = "workflow" /\ objects'[head'].run = n.runs
        /\ GraphOK' /\ CommitIsReviewed'
    BY <1>1, <1>4, <2>1, <2>2, CommitGrows
  <2>4. TypeOK' BY <1>1, <1>3, <1>4, <1>5, <2>1, <2>2, CommitTypes
  <2>5. Made' BY <1>1, <2>3 DEF Made, OfRun, ByWorkflow
  <2>6. Since(head, "squash")' BY <1>1, <2>3 DEF Since
  <2>7. EvidenceOK' BY <1>1, <1>2, <1>5, <1>12, <2>5, <2>6 DEF IInv, EvidenceOK
  <2> QED BY <1>7, <1>8, <1>9, <1>10, <2>3, <2>4, <2>7 DEF IInv
<1> QED BY <1>5, <1>11, <1>12

LEMMA StepReceipt ==
  ASSUME IInv, NEW k \in {"squash", "restore"}, NEW pc \in {"squash-receipt", "restore-receipt"}, Receipt(pc, k),
         k = "squash" <=> pc = "squash-receipt"
  PROVE  IInv'
<1>1. job.pc = pc /\ UNCHANGED <<cfg, project, backup, own, wf, asked, art, up, n, whole>>
  BY DEF Receipt, Here
<1>2. job.fx = k /\ job.pc \in Carried BY <1>1 DEF IInv, EffectOK, Squashing, Restoring, Carried
<1>3. Owner(k) /\ job.pc \notin Idle \cup Recovery BY <1>2, AtEffect
<1>4. eff[k].st = "dispatched" /\ eff \in Ledgers /\ job \in Jobs BY <1>2 DEF IInv, EffectOK, TypeOK
<1>5. eff' = [eff EXCEPT ![k].receipt = TRUE] /\ Done("ok") BY DEF Receipt
<1>6. k \in Effects BY DEF Effects
<1>7. /\ eff' \in Ledgers /\ \A j \in Effects \ {k} : eff'[j] = eff[j]
      /\ eff'[k].st = "dispatched" /\ eff'[k].pre = eff[k].pre /\ eff'[k].receipt = TRUE
  BY <1>4, <1>5, <1>6 DEF Ledgers
<1>8. job' \in Jobs /\ job'.pc = "settle" /\ job'.fx = k /\ job'.res = "ok" /\ SameOwner
  BY <1>2, <1>4, <1>5, DoneFields DEF Results
<1>9. TypeOK' BY <1>1, <1>7, <1>8, SameTypes DEF IInv, TypeOK, project
<1>10. Onward BY <1>1, <1>3, <1>8 DEF Onward, Idle, Recovery
<1>11. PlaceOK' /\ ActionOK' /\ Owner(k)'
  <2>1. PlaceOK' /\ ActionOK' /\ Owner(job.fx)' BY <1>2, <1>8, <1>10, SameEffect DEF Passive
  <2>2. (OfAutomation' <=> OfAutomation) /\ (OfManual' <=> OfManual) BY <1>8, <1>10, OnwardPlace DEF Passive
  <2> QED BY <1>1, <1>3, <2>1, <2>2 DEF Owner
<1>12. EffectOK'
  BY <1>6, <1>7, <1>8, <1>11 DEF IInv, EffectOK, Around, Carried, Applying, Squashing, Restoring
<1>13. LeftOK' BY <1>8 DEF LeftOK
<1>14. ReviewedOK' /\ InspectedOK' BY <1>8, Unguarded DEF Guarded
<1>15. GraphOK' /\ CommitIsReviewed' BY <1>1, GraphKept DEF project
<1>16. EvidenceOK'
  <2>1. Made' <=> Made BY <1>1 DEF Made, OfRun, ByWorkflow, project
  <2>2. k = "squash" => Made BY <1>1 DEF IInv, EvidenceOK
  <2>3. /\ eff'["commit"] = eff["commit"] /\ eff'["squash"].st = eff["squash"].st
        /\ eff'["squash"].pre = eff["squash"].pre
        /\ eff'["squash"].st = "succeeded" => eff'["squash"] = eff["squash"]
        /\ eff'["squash"].receipt => eff["squash"].receipt \/ k = "squash"
    BY <1>4, <1>7 DEF Effects
  <2>4. Since(head, "commit")' <=> Since(head, "commit") BY <1>1, <2>3 DEF Since, project
  <2>5. Since(head, "squash")' <=> Since(head, "squash") BY <1>1, <2>3 DEF Since, project
  <2> QED BY <1>1, <1>8, <2>1, <2>2, <2>3, <2>4, <2>5 DEF IInv, EvidenceOK, project
<1>17. WholeOK'
  <2>1. ~Written' BY <1>8 DEF Written
  <2>2. eff'["apply"] = eff["apply"] BY <1>7 DEF Effects
  <2>3. job.pc # "artifact" /\ job.pc # "finish" BY <1>1
  <2> QED BY <1>1, <1>3, <1>8, <2>1, <2>2, <2>3, OnwardWhole
<1> QED BY <1>9, <1>11, <1>12, <1>13, <1>14, <1>15, <1>16, <1>17 DEF IInv

LEMMA StepAfterSquash == ASSUME IInv, AfterSquash PROVE IInv'
<1>1. /\ job.pc = "after" /\ job.fx = "squash"
      /\ UNCHANGED <<cfg, project, backup, eff, art, up, n, whole>>
  BY DEF AfterSquash, Here
<1>2. Owner("squash") /\ job.pc \notin Idle \cup Recovery BY <1>1, AtEffect DEF Around
<1>3. OfAutomation BY <1>2 DEF Owner
<1>4. own \in Owns /\ eff \in Ledgers BY DEF IInv, TypeOK
<1>5. CASE job.res = "ok"
  <2> DEFINE points == <<eff["squash"].sha>>
  <2>1. points \in Seq(Shas) BY <1>4 DEF Ledgers, Effects
  <2>2. own' = [own EXCEPT !.points = points] /\ Goto("finish") /\ UNCHANGED <<wf, asked>>
    BY <1>5 DEF AfterSquash
  <2> HIDE DEF points
  <2>3. own' \in Owns /\ own'.base = own.base BY <1>4, <2>1, <2>2 DEF Owns
  <2> QED BY <1>1, <1>2, <2>2, <2>3, FinishPlain
<1>6. CASE job.res = "nothing"
  <2>1. Goto("finish") /\ UNCHANGED <<own, wf, asked>> BY <1>6 DEF AfterSquash
  <2> QED BY <1>1, <1>2, <1>4, <2>1, FinishPlain
<1>7. CASE job.res \notin {"ok", "nothing"}
  <2>1. Throw /\ UNCHANGED own BY <1>7 DEF AfterSquash
  <2> QED BY <1>1, <1>2, <1>3, <2>1, ThrowEnds
<1> QED BY <1>5, <1>6, <1>7

LEMMA StepRestore == ASSUME IInv, Restore PROVE IInv'
<1>1. job.pc = "restore" /\ UNCHANGED <<cfg, project, backup, own, wf, asked, eff, art, up, n, whole>> /\ Do("restore")
  BY DEF Restore, Here
<1>2. OfManual /\ job.pc \notin Idle \cup Recovery \cup {"artifact", "finish"}
  BY <1>1 DEF IInv, PlaceOK, Idle, Recovery
<1>3. job' \in Jobs /\ job'.pc = "begin" /\ job'.fx = "restore" /\ SameOwner
  BY <1>1, DoFields DEF IInv, TypeOK, Effects
<1>4. Owner("restore") BY <1>2 DEF Owner
<1> QED BY <1>1, <1>2, <1>3, <1>4, BeginEffect

LEMMA AtRestore ==
  ASSUME IInv, job.pc \in Restoring
  PROVE  /\ job.fx = "restore" /\ job.pc \in Carried /\ job.pc \notin Idle \cup Recovery \cup {"artifact", "finish"}
         /\ OfManual /\ wf.kind = "manual" /\ eff["commit"].st = "none" /\ eff["squash"].st = "none"
<1>1. job.fx = "restore" /\ job.pc \in Carried BY DEF IInv, EffectOK, Carried
<1>2. Owner("restore") /\ job.pc \notin Idle \cup Recovery BY <1>1, AtEffect
<1>3. job.pc \notin {"artifact", "finish"} BY DEF Restoring
<1>4. OfManual /\ wf.kind = "manual" BY <1>2 DEF Owner, OfManual
<1>5. eff["commit"].st = "none" /\ eff["squash"].st = "none" BY <1>4 DEF IInv, EvidenceOK
<1> QED BY <1>1, <1>2, <1>3, <1>4, <1>5

LEMMA StepRewind == ASSUME IInv, Rewind PROVE IInv'
<1>1. /\ job.pc = "rewind"
      /\ UNCHANGED <<cfg, file, objects, tracked, backup, own, wf, asked, eff, art, up, n, whole>>
  BY DEF Rewind, Here
<1>2. /\ job.fx = "restore" /\ job.pc \in Carried /\ job.pc \notin Idle \cup Recovery \cup {"artifact", "finish"}
      /\ OfManual /\ wf.kind = "manual" /\ eff["commit"].st = "none" /\ eff["squash"].st = "none"
  BY <1>1, AtRestore DEF Restoring
<1>3. job \in Jobs /\ own \in Owns /\ head \in DOMAIN objects /\ refs \in [squash : Shas, restore : Shas]
  BY DEF IInv, TypeOK
<1>4. job.left \subseteq Paths BY <1>1 DEF IInv, LeftOK
<1>5. PICK pc \in {"restoring", "settle"} :
        /\ job' \in Jobs /\ job'.pc = pc /\ job'.fx = job.fx /\ job'.left = job.left /\ SameOwner
        /\ pc = "settle" => job'.res = "restore-failed"
        /\ pc = "restoring" => own.base # 0
        /\ \/ UNCHANGED <<refs, head>>
           \/ own.base # 0 /\ refs' = [refs EXCEPT !.restore = head] /\ head' = own.base
  <2>1. CASE own.base = 0 \/ job.left = {}
    BY <1>3, <2>1, DoneFields DEF Rewind, Results, SameLoad
  <2>2. CASE own.base # 0 /\ job.left # {} /\ ExactGraph
    BY <1>3, <2>2, GotoFields DEF Rewind, Places, SameTask, SameLoad
  <2>3. CASE own.base # 0 /\ job.left # {} /\ ~ExactGraph
    BY <1>3, <2>3, GotoFields DEF Rewind, Places, SameTask, SameLoad
  <2> QED BY <2>1, <2>2, <2>3
<1>6. own.base \in Shas /\ (own.base # 0 => own.base \in DOMAIN objects) /\ head \in Shas
  BY <1>3, ShasFacts DEF IInv, Owns
<1>7. head' \in DOMAIN objects /\ refs' \in [squash : Shas, restore : Shas] BY <1>3, <1>5, <1>6
<1>8. TypeOK' BY <1>1, <1>5, <1>7, SameTypes DEF IInv, TypeOK
<1>9. Onward BY <1>1, <1>2, <1>5 DEF Onward, Idle, Recovery
<1>10. PlaceOK' /\ ActionOK' /\ EffectOK'
  BY <1>1, <1>2, <1>5, <1>9, EffectMove DEF Carried, Applying, Squashing, Restoring
<1>11. LeftOK' BY <1>1, <1>4, <1>5 DEF LeftOK
<1>12. ReviewedOK' /\ InspectedOK' BY <1>5, Unguarded DEF Guarded
<1>13. GraphOK' /\ CommitIsReviewed' BY <1>1, GraphKept
<1>14. EvidenceOK'
  <2>1. Made' <=> Made BY <1>1 DEF Made, OfRun, ByWorkflow
  <2> QED BY <1>1, <1>2, <1>5, <2>1 DEF IInv, EvidenceOK
<1>15. WholeOK'
  <2>1. ~Written' BY <1>1, <1>2, <1>5 DEF Written, Around
  <2> QED BY <1>1, <1>2, <1>5, <2>1, OnwardWhole
<1> QED BY <1>8, <1>10, <1>11, <1>12, <1>13, <1>14, <1>15 DEF IInv

LEMMA StepRestoreOne == ASSUME IInv, RestoreOne PROVE IInv'
<1>1. /\ job.pc = "restoring"
      /\ UNCHANGED <<cfg, objects, head, refs, backup, own, wf, asked, eff, art, up, n, whole>>
  BY DEF RestoreOne, Here
<1>2. /\ job.fx = "restore" /\ job.pc \in Carried /\ job.pc \notin Idle \cup Recovery \cup {"artifact", "finish"}
      /\ wf.kind = "manual"
  BY <1>1, AtRestore DEF Restoring
<1>3. job.left \subseteq Paths /\ own.base # 0 BY <1>1 DEF IInv, LeftOK
<1>4. PICK p \in job.left :
        /\ file' = [file EXCEPT ![p] = Tree(own.base)[p]]
        /\ tracked' = IF Tree(own.base)[p] = "none" THEN tracked \ {p} ELSE tracked \cup {p}
        /\ job' = [job EXCEPT !.left = @ \ {p}, !.pc = IF job.left = {p} THEN "restore-receipt" ELSE @]
  BY DEF RestoreOne
<1>5. Tree(own.base) \in [Paths -> Contents]
  <2>1. own.base \in DOMAIN objects BY <1>3, ShasFacts DEF IInv, TypeOK, Owns
  <2>2. objects[own.base] \in Objects BY <2>1, ShasFacts, ElementOfSeq DEF IInv, TypeOK
  <2> QED BY <2>2 DEF Tree, Objects
<1>6. file' \in [Paths -> Contents] /\ tracked' \subseteq Paths BY <1>3, <1>4, <1>5 DEF IInv, TypeOK
<1>7. /\ job' \in Jobs /\ job'.pc \in {"restoring", "restore-receipt"} /\ job'.fx = job.fx
      /\ job'.left = job.left \ {p} /\ SameOwner
  BY <1>1, <1>4, ZenonT(40) DEF IInv, TypeOK, Jobs, Places, SameOwner
<1>8. TypeOK' BY <1>1, <1>6, <1>7, SameTypes DEF IInv, TypeOK
<1>9. Onward BY <1>1, <1>2, <1>7 DEF Onward, Idle, Recovery
<1>10. PlaceOK' /\ ActionOK' /\ EffectOK'
  BY <1>1, <1>2, <1>7, <1>9, EffectMove DEF Carried, Applying, Squashing, Restoring
<1>11. LeftOK' BY <1>1, <1>3, <1>7 DEF LeftOK
<1>12. ReviewedOK' /\ InspectedOK' BY <1>7, Unguarded DEF Guarded
<1>13. GraphOK' /\ CommitIsReviewed' BY <1>1, GraphKept
<1>14. EvidenceOK' BY <1>1, <1>7, EvidenceKept
<1>15. WholeOK'
  <2>1. ~Written' BY <1>7 DEF Written, Around
  <2> QED BY <1>1, <1>2, <1>7, <2>1, OnwardWhole
<1> QED BY <1>8, <1>10, <1>11, <1>12, <1>13, <1>14, <1>15 DEF IInv

LEMMA StepAfterRestore == ASSUME IInv, AfterRestore PROVE IInv'
<1>1. /\ job.pc = "after" /\ job.fx = "restore"
      /\ UNCHANGED <<cfg, project, backup, eff, art, up, n, whole>>
  BY DEF AfterRestore, Here
<1>2. Owner("restore") /\ job.pc \notin Idle \cup Recovery BY <1>1, AtEffect DEF Around
<1>3. OfManual BY <1>2 DEF Owner
<1>4. own \in Owns BY DEF IInv, TypeOK
<1>5. CASE job.res = "ok"
  <2>1. own' = [NoOwn EXCEPT !.base = own.base] /\ Goto("finish") /\ UNCHANGED <<wf, asked>>
    BY <1>5 DEF AfterRestore
  <2>2. NoOwn \in Owns BY NoOwnType DEF IInv
  <2>3. own' \in Owns /\ own'.base = own.base
    <3> HIDE DEF NoOwn
    <3> QED BY <1>4, <2>1, <2>2 DEF Owns
  <2> QED BY <1>1, <1>2, <2>1, <2>3, FinishPlain
<1>6. CASE job.res # "ok"
  <2>1. Throw /\ UNCHANGED own BY <1>6 DEF AfterRestore
  <2> QED BY <1>1, <1>2, <1>3, <2>1, ThrowEnds
<1> QED BY <1>5, <1>6

-----------------------------------------------------------------------------
(* Runs start, the daemon stops, ends and starts again                      *)

(* Counting one more of what is bounded. *)
LEMMA CountUp ==
  ASSUME n \in Counters
  PROVE  /\ n.runs < MaxRuns => [n EXCEPT !.runs = n.runs + 1] \in Counters
         /\ n.edits < MaxEdits => [n EXCEPT !.edits = n.edits + 1] \in Counters
         /\ n.commits < MaxUserCommits => [n EXCEPT !.commits = n.commits + 1] \in Counters
         /\ n.crashes < MaxCrashes => [n EXCEPT !.crashes = n.crashes + 1] \in Counters
         /\ n.stops < MaxStops => [n EXCEPT !.stops = n.stops + 1] \in Counters
         /\ n.runs \in Nat
<1>1. /\ MaxRuns \in Nat /\ MaxEdits \in Nat /\ MaxUserCommits \in Nat /\ MaxCrashes \in Nat
      /\ MaxStops \in Nat
  BY BoundsAssumption DEF BoundsAssumption
<1>2. /\ n.runs \in 0..MaxRuns /\ n.edits \in 0..MaxEdits /\ n.commits \in 0..MaxUserCommits
      /\ n.crashes \in 0..MaxCrashes /\ n.stops \in 0..MaxStops
  BY DEF Counters
<1>3. n.runs < MaxRuns => n.runs + 1 \in 0..MaxRuns BY <1>1, <1>2
<1>4. n.edits < MaxEdits => n.edits + 1 \in 0..MaxEdits BY <1>1, <1>2
<1>5. n.commits < MaxUserCommits => n.commits + 1 \in 0..MaxUserCommits BY <1>1, <1>2
<1>6. n.crashes < MaxCrashes => n.crashes + 1 \in 0..MaxCrashes BY <1>1, <1>2
<1>7. n.stops < MaxStops => n.stops + 1 \in 0..MaxStops BY <1>1, <1>2
<1>8. n.runs \in Nat BY <1>1, <1>2
<1> QED BY <1>3, <1>4, <1>5, <1>6, <1>7, <1>8 DEF Counters

(* What the earlier runs committed. *)
LEMMA EarlierRuns ==
  ASSUME IInv
  PROVE  \A s \in DOMAIN objects : objects[s].run <= n.runs + 1 /\ objects[s].run # n.runs + 1
<1> SUFFICES ASSUME NEW s \in DOMAIN objects PROVE objects[s].run <= n.runs + 1 /\ objects[s].run # n.runs + 1
  OBVIOUS
<1>1. objects[s] \in Objects BY ShasFacts, ElementOfSeq DEF IInv, TypeOK
<1>2. MaxRuns \in Nat BY BoundsAssumption DEF BoundsAssumption
<1>3. objects[s].run \in 0..MaxRuns BY <1>1 DEF Objects
<1>4. objects[s].run <= n.runs BY DEF IInv, GraphOK
<1>5. n.runs \in Nat BY CountUp DEF IInv, TypeOK
<1>6. ASSUME NEW r \in 0..MaxRuns, NEW k \in Nat, r <= k PROVE r <= k + 1 /\ r # k + 1 BY <1>2, <1>6
<1> QED BY <1>3, <1>4, <1>5, <1>6

LEMMA StepStartRun ==
  ASSUME IInv, NEW kind \in Kinds, NEW u \in Updates \cup {""}, NEW pc \in {"artifact", "finalize", "restore"},
         StartRun(kind, u, pc), pc = "artifact" => kind = "passive" /\ u \in Updates,
         pc = "finalize" => kind = "automation", pc = "restore" => kind = "manual"
  PROVE  IInv'
<1>1. /\ job.pc = "off" /\ up /\ wf.life = "ready" /\ n.runs < MaxRuns
      /\ backup' = NoBackup /\ asked' = NoAsk /\ eff' = [k \in Effects |-> NoEffect]
      /\ UNCHANGED <<cfg, project, own, art, up, whole>>
  BY DEF StartRun, Here
<1>2. TypeOK /\ wf \in WorkflowRecords /\ n \in Counters BY DEF IInv, TypeOK
<1>3. MaxRuns \in Nat BY BoundsAssumption DEF BoundsAssumption
<1>4. n' = [n EXCEPT !.runs = n.runs + 1] BY DEF StartRun
<1>5. n' \in Counters /\ n'.runs = n.runs + 1 /\ n.runs \in Nat BY <1>1, <1>2, <1>4, CountUp DEF Counters
<1>50. \A s \in DOMAIN objects : objects[s].run <= n'.runs /\ objects[s].run # n'.runs BY <1>5, EarlierRuns
<1>6. /\ wf' \in WorkflowRecords /\ wf'.life = "running" /\ wf'.kind = kind /\ wf'.u = u /\ wf'.act = ""
  <2> DEFINE planned == wf.planned \/ SomePlanned
  <2>1. planned \in BOOLEAN BY <1>2 DEF WorkflowRecords, SomePlanned
  <2>2. wf' = [wf EXCEPT !.life = "running", !.kind = kind, !.u = u, !.stop = FALSE, !.planned = planned]
    BY DEF StartRun
  <2>3. wf.act = "" BY <1>1 DEF IInv, TypeOK
  <2> HIDE DEF planned
  <2> QED BY <1>2, <2>1, <2>2, <2>3 DEF WorkflowRecords
<1>7. job' \in Jobs /\ job'.pc = pc /\ job'.by = kind /\ job'.u = u /\ job'.fx = ""
  <2>1. Off \in Jobs /\ Off.fx = "" BY <1>2, OffFields
  <2>2. pc \in Places /\ kind \in Actors BY DEF Places, Actors
  <2>3. job' = [Off EXCEPT !.pc = pc, !.u = u, !.by = kind] BY DEF StartRun
  <2> HIDE DEF Off
  <2> QED BY <2>1, <2>2, <2>3 DEF Jobs
<1>8. /\ eff' \in Ledgers /\ \A k \in Effects : eff'[k].st = "none" /\ ~eff'[k].receipt
  <2>1. 0 \in Shas BY <1>2, ShasFacts
  <2> QED BY <1>1, <2>1 DEF NoEffect, Ledgers, Statuses, Results
<1>9. backup' \in Backups /\ ~backup'.receipt BY <1>1, NoStates DEF NoBackup, Backups
<1>10. asked' \in Asks BY <1>1, <1>2, NoAskType
<1>11. TypeOK' BY <1>1, <1>5, <1>6, <1>7, <1>8, <1>9, <1>10, SameTypes DEF IInv, TypeOK, project
<1>12. PlaceOK'
  BY <1>1, <1>6, <1>7 DEF PlaceOK, OfPassive, OfAutomation, OfManual, Idle, Recovery, Passive, Kinds
<1>13. EffectOK' BY <1>7, <1>8 DEF EffectOK, Around, Carried, Applying, Squashing, Restoring
<1>14. LeftOK' BY <1>7 DEF LeftOK
<1>15. ActionOK' BY <1>6, <1>7 DEF ActionOK, Pending
<1>16. ReviewedOK' /\ InspectedOK' BY <1>7, Unguarded DEF Guarded
<1>17. GraphOK' /\ CommitIsReviewed'
  <2>1. \A s \in DOMAIN objects : objects[s].run <= n'.runs BY <1>50
  <2> QED BY <1>1, <2>1 DEF project, IInv, GraphOK, CommitIsReviewed, ByWorkflow, Tree
<1>18. EvidenceOK'
  <2>1. ~Made'
    <3>1. \A s \in DOMAIN objects : objects[s].run # n'.runs BY <1>50
    <3> QED BY <1>1, <3>1 DEF Made, OfRun, project
  <2>2. eff'["commit"].st = "none" /\ eff'["squash"].st = "none" /\ ~eff'["squash"].receipt BY <1>8 DEF Effects
  <2> QED BY <1>7, <2>1, <2>2 DEF EvidenceOK
<1>19. WholeOK'
  <2>1. PassiveApplyIsWhole' BY <1>1 DEF IInv, WholeOK, PassiveApplyIsWhole
  <2>2. ~Written' BY <1>7 DEF Written, Around
  <2>3. eff'["apply"].st = "none" BY <1>8 DEF Effects
  <2>4. job'.pc = "finalize" \/ job'.pc = "restore" => wf'.kind # "passive" BY <1>6, <1>7
  <2> QED BY <1>6, <1>7, <1>9, <2>1, <2>2, <2>3, <2>4
          DEF WholeOK, Around, Carried, Applying, Squashing, Restoring
<1> QED BY <1>11, <1>12, <1>13, <1>14, <1>15, <1>16, <1>17, <1>18, <1>19 DEF IInv

LEMMA StepRunStarts == ASSUME IInv, Observe \/ Finalize \/ RestoreStart PROVE IInv'
<1>1. CASE Observe
  <2>1. PICK u \in Updates : StartRun("passive", u, "artifact") BY <1>1 DEF Observe
  <2> QED BY <2>1, StepStartRun DEF Kinds
<1>2. CASE Finalize BY <1>2, StepStartRun DEF Finalize, Kinds
<1>3. CASE RestoreStart BY <1>3, StepStartRun DEF RestoreStart, Kinds
<1> QED BY <1>1, <1>2, <1>3

LEMMA StepStop == ASSUME IInv, Stop PROVE IInv'
<1>1. /\ job.pc = "off" /\ wf.life \in {"ready", "running", "recovering"} /\ n.stops < MaxStops
      /\ n' = [n EXCEPT !.stops = n.stops + 1] /\ eff' = Cancelled
      /\ UNCHANGED <<cfg, project, backup, own, asked, art, job, up, whole>>
  BY DEF Stop, Here
<1>2. wf \in WorkflowRecords /\ n \in Counters /\ wf.act = "" BY <1>1 DEF IInv, TypeOK
<1>3. n' \in Counters /\ n'.runs = n.runs
  BY <1>1, <1>2, CountUp DEF Counters
<1>4. /\ wf' \in WorkflowRecords /\ wf'.act = "" /\ wf'.life # "waiting" /\ wf'.kind = wf.kind /\ wf'.u = wf.u
      /\ wf'.life \in {"stopped", wf.life}
  <2>1. CASE Unsettled # {}
    <3>1. wf' = [wf EXCEPT !.stop = TRUE, !.planned = FALSE] BY <2>1 DEF Stop
    <3> QED BY <1>1, <1>2, <3>1 DEF WorkflowRecords
  <2>2. CASE Unsettled = {}
    <3>1. wf' = [wf EXCEPT !.life = "stopped", !.act = "", !.stop = FALSE, !.planned = FALSE] BY <2>2 DEF Stop
    <3> QED BY <1>1, <1>2, <3>1 DEF WorkflowRecords, Actions
  <2> QED BY <2>1, <2>2
<1> QED BY <1>1, <1>3, <1>4, StopKeeps

LEMMA StepStopCommand == ASSUME IInv, StopCommand PROVE IInv'
<1>1. /\ job.pc = "off" /\ up /\ n.stops < MaxStops /\ n' = [n EXCEPT !.stops = n.stops + 1] /\ Goto("self")
      /\ UNCHANGED <<cfg, project, backup, own, wf, asked, eff, art, up, whole>>
  BY DEF StopCommand, Here
<1>2. /\ wf \in WorkflowRecords /\ n \in Counters /\ asked \in Asks /\ art \in [Updates -> Artifacts] /\ up \in BOOLEAN
      /\ ((wf.act # "") <=> (wf.life = "waiting"))
  BY DEF IInv, TypeOK
<1>3. n' \in Counters /\ n'.runs = n.runs
  BY <1>1, <1>2, CountUp DEF Counters
<1>4. job' \in Jobs /\ job'.pc = "self" /\ SameLoad BY <1>1, GotoFields DEF IInv, TypeOK, Places
<1>5. ActionOK' BY <1>1, <1>4 DEF IInv, ActionOK, Pending
<1>6. PassiveApplyIsWhole' BY <1>1 DEF IInv, WholeOK, PassiveApplyIsWhole
<1> QED BY <1>1, <1>2, <1>3, <1>4, <1>5, <1>6, Leave DEF project, Idle

LEMMA StepActivate == ASSUME IInv, Activate PROVE IInv'
<1>1. /\ job.pc = "off" /\ End("ready")
      /\ UNCHANGED <<cfg, project, backup, own, asked, eff, art, job, up, n, whole>>
  BY DEF Activate, Here
<1>2. wf' \in WorkflowRecords /\ wf'.life = "ready" /\ wf'.act = "" /\ wf'.kind = wf.kind /\ wf'.u = wf.u
  BY <1>1, EndFields DEF IInv, TypeOK
<1>3. /\ n' \in Counters /\ asked' \in Asks /\ art' \in [Updates -> Artifacts] /\ up' \in BOOLEAN /\ job' \in Jobs
  BY <1>1, SameTypes DEF IInv, TypeOK, project
<1>4. ActionOK' BY <1>1, <1>2 DEF ActionOK, Pending
<1>5. PassiveApplyIsWhole' BY <1>1 DEF IInv, WholeOK, PassiveApplyIsWhole
<1> QED BY <1>1, <1>2, <1>3, <1>4, <1>5, Leave DEF project, Idle

LEMMA StepCrash == ASSUME IInv, Crash PROVE IInv'
<1>1. /\ up /\ n.crashes < MaxCrashes /\ up' = FALSE /\ job' = Off /\ n' = [n EXCEPT !.crashes = n.crashes + 1]
      /\ UNCHANGED <<cfg, project, backup, own, wf, asked, eff, art, whole>>
  BY DEF Crash
<1>2. /\ wf \in WorkflowRecords /\ n \in Counters /\ asked \in Asks /\ art \in [Updates -> Artifacts]
      /\ ((wf.act # "") <=> (wf.life = "waiting"))
  BY DEF IInv, TypeOK
<1>3. n' \in Counters /\ n'.runs = n.runs
  BY <1>1, <1>2, CountUp DEF Counters
<1>4. job' \in Jobs /\ job'.pc = "off" BY <1>1, OffFields DEF IInv
<1>5. ActionOK'
  <2>1. job.pc = "restore-action" => wf.act = "" BY DEF IInv, PlaceOK, Idle
  <2> QED BY <1>1, <1>4, <2>1 DEF IInv, ActionOK, Pending
<1>6. PassiveApplyIsWhole' BY <1>1 DEF IInv, WholeOK, PassiveApplyIsWhole
<1> QED BY <1>1, <1>2, <1>3, <1>4, <1>5, <1>6, Leave DEF project, Idle

LEMMA StepRestart == ASSUME IInv, Restart PROVE IInv'
<1>1. ~up /\ up' = TRUE /\ UNCHANGED <<cfg, project, backup, own, asked, eff, art, n, whole>>
  BY DEF Restart
<1>2. job.pc = "off" BY <1>1 DEF IInv, PlaceOK
<1>3. /\ wf \in WorkflowRecords /\ n \in Counters /\ asked \in Asks /\ art \in [Updates -> Artifacts] /\ job \in Jobs
      /\ ((wf.act # "") <=> (wf.life = "waiting"))
  BY DEF IInv, TypeOK
<1>4. PassiveApplyIsWhole' BY <1>1 DEF IInv, WholeOK, PassiveApplyIsWhole
<1>5. CASE wf.life \in {"ready", "stopped"}
  <2>1. UNCHANGED <<wf, job>> BY <1>5 DEF Restart
  <2>2. ActionOK' BY <1>1, <1>2, <2>1 DEF IInv, ActionOK, Pending
  <2> QED BY <1>1, <1>2, <1>3, <1>4, <2>1, <2>2, Leave DEF project, Idle
<1>6. CASE wf.life \notin {"ready", "stopped"}
  <2> DEFINE pc == IF wf.act # "" THEN "restore-action" ELSE "reconcile"
             left == Unsettled \ {"prompt"}
  <2>1. /\ wf' = [wf EXCEPT !.life = "recovering", !.act = ""]
        /\ job' = [Off EXCEPT !.pc = pc, !.act = wf.act, !.left = left]
    BY <1>6 DEF Restart
  <2>2. pc \in Places /\ left \subseteq Paths \cup Effects /\ wf.act \in Actions
    BY <1>3 DEF Places, Unsettled, WorkflowRecords
  <2>3. left' = left BY <1>1 DEF Unsettled
  <2>4. pc = "restore-action" <=> wf.act # "" OBVIOUS
  <2>5. pc \in {"restore-action", "reconcile"} OBVIOUS
  <2> HIDE DEF pc
  <2>6. wf' \in WorkflowRecords /\ wf'.life = "recovering" /\ wf'.act = "" /\ wf'.kind = wf.kind /\ wf'.u = wf.u
    BY <1>3, <2>1 DEF WorkflowRecords, Actions
  <2>7. /\ job' \in Jobs /\ job'.pc = pc /\ job'.act = wf.act /\ job'.left = Unsettled \ {"prompt"}
    <3>1. Off \in Jobs BY OffFields DEF IInv
    <3> HIDE DEF Off, left
    <3>2. job' \in Jobs /\ job'.pc = pc /\ job'.act = wf.act /\ job'.left = left BY <2>1, <2>2, <3>1 DEF Jobs
    <3> QED BY <3>2 DEF left
  <2>8. TypeOK' BY <1>1, <2>6, <2>7, SameTypes DEF IInv, TypeOK, project
  <2>9. PlaceOK' BY <1>1, <1>6, <2>4, <2>5, <2>6, <2>7 DEF IInv, PlaceOK, Idle, Recovery, Passive
  <2>10. EffectOK' BY <1>1, <2>5, <2>7 DEF IInv, EffectOK, Around, Carried, Applying, Squashing, Restoring
  <2>11. LeftOK' BY <1>1, <2>5, <2>7 DEF LeftOK, Unsettled
  <2>12. ActionOK' BY <1>1, <1>2, <2>4, <2>5, <2>6, <2>7 DEF IInv, ActionOK, Pending
  <2>13. ReviewedOK' /\ InspectedOK' BY <2>5, <2>7, Unguarded DEF Guarded
  <2>14. GraphOK' /\ CommitIsReviewed' BY <1>1, GraphKept DEF project
  <2>15. EvidenceOK' BY <1>1, <2>5, <2>6, <2>7, EvidenceKept DEF project
  <2>16. WholeOK'
    <3>1. ~Written' BY <2>5, <2>7 DEF Written, Around
    <3> QED BY <1>1, <1>4, <2>5, <2>6, <2>7, <3>1
            DEF IInv, WholeOK, Recovery, Around, Carried, Applying, Squashing, Restoring
  <2> QED BY <2>8, <2>9, <2>10, <2>11, <2>12, <2>13, <2>14, <2>15, <2>16 DEF IInv
<1> QED BY <1>5, <1>6

LEMMA StepRestoreAction == ASSUME IInv, RestoreAction PROVE IInv'
<1>1. /\ job.pc = "restore-action" /\ up /\ Wait(job.act, asked)
      /\ UNCHANGED <<cfg, project, backup, own, eff, art, up, n, whole>>
  BY DEF RestoreAction, Here
<1>2. /\ wf \in WorkflowRecords /\ n \in Counters /\ asked \in Asks /\ art \in [Updates -> Artifacts] /\ up \in BOOLEAN
      /\ job.act \in Actions /\ job.act # ""
  BY <1>1 DEF IInv, TypeOK, Jobs, PlaceOK
<1>3. /\ wf' \in WorkflowRecords /\ wf'.life = "waiting" /\ wf'.act = job.act /\ wf'.kind = wf.kind /\ wf'.u = wf.u
      /\ asked' = asked /\ job' = Off
  BY <1>1, <1>2, WaitFields
<1>4. job' \in Jobs /\ job'.pc = "off" BY <1>3, OffFields DEF IInv
<1>5. ActionOK' BY <1>1, <1>3, <1>4 DEF IInv, ActionOK, Pending
<1>6. PassiveApplyIsWhole' BY <1>1 DEF IInv, WholeOK, PassiveApplyIsWhole
<1> QED BY <1>1, <1>2, <1>3, <1>4, <1>5, <1>6, Leave DEF project, Idle

(* What reconciliation proves is true: a commit or squash it takes for made was made by this run,
   a commit it takes for not started was not. *)
LEMMA ProofIsTrue ==
  ASSUME IInv, job.pc = "reconcile", NEW k \in Effects, k \in job.left
  PROVE  /\ k # "prompt" /\ eff[k].st \in {"dispatched", "uncertain"}
         /\ Proof(k) \in {"succeeded", "not_started", "uncertain"}
         /\ k \in {"commit", "squash"} /\ Proof(k) = "succeeded" => Made
         /\ k = "commit" /\ Proof(k) = "not_started" => ~Made
         /\ k = "apply" /\ Proof(k) = "succeeded" => wf.u \in whole
<1>1. k # "prompt" /\ eff[k].st \in {"dispatched", "uncertain"} BY DEF IInv, LeftOK, Unsettled
<1>2. head \in DOMAIN objects /\ \A s \in DOMAIN objects : objects[s].parent < s BY DEF IInv, TypeOK
<1>3. CASE k = "apply"
  <2>1. Proof(k) = IF backup.receipt THEN "succeeded" ELSE IF ~backup.taken THEN "not_started" ELSE "uncertain"
    BY <1>3 DEF Proof
  <2>2. backup.receipt => wf.u \in whole BY DEF IInv, WholeOK
  <2> QED BY <1>1, <1>3, <2>1, <2>2
<1>4. CASE k = "commit"
  <2>1. Proof(k) = CommitProof BY <1>4 DEF Proof
  <2>2. Since(head, "commit") /\ (Made => head # eff["commit"].pre) BY <1>1, <1>4 DEF IInv, EvidenceOK
  <2>3. head # eff["commit"].pre /\ ByWorkflow(head) => Made BY <1>2, <2>2 DEF Since, Made, OfRun
  <2> QED BY <1>1, <1>4, <2>1, <2>2, <2>3 DEF CommitProof
<1>5. CASE k = "squash"
  <2>1. Proof(k) = SquashProof BY <1>5 DEF Proof
  <2>2. eff["squash"].receipt => Made BY DEF IInv, EvidenceOK
  <2>3. Since(head, "squash") \/ head = own.base BY <1>1, <1>5 DEF IInv, EvidenceOK
  <2>4. head # eff["squash"].pre /\ ByWorkflow(head) /\ objects[head].parent = own.base => Made
    <3> SUFFICES ASSUME head # eff["squash"].pre, ByWorkflow(head), objects[head].parent = own.base PROVE Made
      OBVIOUS
    <3>1. objects[head].parent < head BY <1>2
    <3>2. head \in Nat /\ objects[head].parent \in Nat
      <4>1. head \in Nat BY <1>2, ShasFacts DEF IInv
      <4>2. objects[head] \in Objects BY <1>2, ShasFacts, ElementOfSeq DEF IInv, TypeOK
      <4> QED BY <4>1, <4>2 DEF Objects
    <3>3. head # own.base BY <3>1, <3>2
    <3>4. objects[head].run = n.runs BY <2>3, <3>3 DEF Since
    <3> QED BY <1>2, <3>4 DEF Made, OfRun
  <2>5. CASE eff["squash"].receipt BY <1>1, <1>5, <2>1, <2>2, <2>5 DEF SquashProof
  <2>6. CASE ~eff["squash"].receipt /\ head = eff["squash"].pre BY <1>1, <1>5, <2>1, <2>6 DEF SquashProof
  <2>7. CASE ~eff["squash"].receipt /\ head # eff["squash"].pre
    BY <1>1, <1>5, <2>1, <2>4, <2>7 DEF SquashProof
  <2> QED BY <2>5, <2>6, <2>7
<1>6. CASE k = "revert"
  <2>1. Proof(k) = RevertProof BY <1>6 DEF Proof
  <2> QED BY <1>1, <1>6, <2>1 DEF RevertProof
<1>7. CASE k = "restore"
  <2>1. Proof(k) = RestoreProof BY <1>7 DEF Proof
  <2>2. RestoreProof \in {"succeeded", "not_started", "uncertain"}
    <3>1. CASE eff["restore"].receipt BY <3>1 DEF RestoreProof
    <3>2. CASE ~eff["restore"].receipt /\ (own.base = 0 \/ DOMAIN own.states = {}) BY <3>2 DEF RestoreProof
    <3>3. CASE ~eff["restore"].receipt /\ ~(own.base = 0 \/ DOMAIN own.states = {}) BY <3>3 DEF RestoreProof
    <3> QED BY <3>1, <3>2, <3>3
  <2> QED BY <1>1, <1>7, <2>1, <2>2
<1> QED BY <1>1, <1>3, <1>4, <1>5, <1>6, <1>7 DEF Effects

LEMMA StepReconcile == ASSUME IInv, Reconcile PROVE IInv'
<1>1. /\ job.pc = "reconcile" /\ up
      /\ UNCHANGED <<cfg, project, backup, own, wf, asked, art, up, n, whole>>
  BY DEF Reconcile, Here
<1>2. /\ job \in Jobs /\ eff \in Ledgers /\ wf \in WorkflowRecords /\ n \in Counters /\ asked \in Asks
      /\ art \in [Updates -> Artifacts] /\ up \in BOOLEAN /\ ((wf.act # "") <=> (wf.life = "waiting"))
  BY DEF IInv, TypeOK
<1>3. job.left \subseteq Unsettled \ {"prompt"} /\ wf.act = "" BY <1>1 DEF IInv, LeftOK, PlaceOK, Idle
<1>4. PassiveApplyIsWhole' BY <1>1 DEF IInv, WholeOK, PassiveApplyIsWhole
<1>5. PICK k \in job.left :
        IF Proof(k) = "not_started" /\ k \in {"apply", "squash"}
        THEN job' = Off /\ UNCHANGED eff
        ELSE /\ job' = [job EXCEPT !.left = @ \ {k}]
             /\ eff' = [eff EXCEPT ![k] = CASE Proof(k) = "succeeded" -> [@ EXCEPT !.st = "succeeded", !.res = "ok", !.sha = head]
                                            [] Proof(k) = "not_started" -> [@ EXCEPT !.st = "planned"]
                                            [] OTHER -> [@ EXCEPT !.st = "uncertain"]]
  BY DEF Reconcile
<1>6. /\ k \in Effects /\ k # "prompt" /\ eff[k].st \in {"dispatched", "uncertain"}
      /\ Proof(k) \in {"succeeded", "not_started", "uncertain"}
      /\ k \in {"commit", "squash"} /\ Proof(k) = "succeeded" => Made
      /\ k = "commit" /\ Proof(k) = "not_started" => ~Made
      /\ k = "apply" /\ Proof(k) = "succeeded" => wf.u \in whole
  <2>1. k \in Effects BY <1>3 DEF Unsettled
  <2> QED BY <1>1, <2>1, ProofIsTrue
<1>7. CASE Proof(k) = "not_started" /\ k \in {"apply", "squash"}
  <2>1. job' = Off /\ UNCHANGED eff BY <1>5, <1>7
  <2>2. job' \in Jobs /\ job'.pc = "off" BY <2>1, OffFields DEF IInv
  <2>3. ActionOK' BY <1>1, <1>3, <2>2 DEF ActionOK, Pending
  <2> QED BY <1>1, <1>2, <1>4, <2>1, <2>2, <2>3, Leave DEF project, Idle
<1>8. CASE ~(Proof(k) = "not_started" /\ k \in {"apply", "squash"})
  <2>1. job' = [job EXCEPT !.left = job.left \ {k}] BY <1>5, <1>8
  <2>2. job' \in Jobs /\ job'.pc = "reconcile" /\ job'.left = job.left \ {k} /\ job'.act = job.act
    BY <1>1, <1>2, <2>1 DEF Jobs
  <2> DEFINE rec == CASE Proof(k) = "succeeded" -> [eff[k] EXCEPT !.st = "succeeded", !.res = "ok", !.sha = head]
                      [] Proof(k) = "not_started" -> [eff[k] EXCEPT !.st = "planned"]
                      [] OTHER -> [eff[k] EXCEPT !.st = "uncertain"]
             Records == [st : Statuses, pre : Shas, res : Results, sha : Shas, receipt : BOOLEAN]
  <2>3. eff' = [eff EXCEPT ![k] = rec] BY <1>5, <1>8
  <2>4. eff[k] \in Records BY <1>2, <1>6 DEF Ledgers
  <2>5. head \in Shas BY ShasFacts DEF IInv
  <2>6. /\ rec \in Records /\ rec.pre = eff[k].pre /\ rec.receipt = eff[k].receipt
        /\ rec.st = (IF Proof(k) = "succeeded" THEN "succeeded" ELSE IF Proof(k) = "not_started" THEN "planned" ELSE "uncertain")
        /\ (Proof(k) = "succeeded" => rec.res = "ok")
    <3>1. CASE Proof(k) = "succeeded"
      <4>1. rec = [eff[k] EXCEPT !.st = "succeeded", !.res = "ok", !.sha = head] BY <3>1
      <4> HIDE DEF rec
      <4> QED BY <2>4, <2>5, <3>1, <4>1 DEF Statuses, Results
    <3>2. CASE Proof(k) = "not_started"
      <4>1. rec = [eff[k] EXCEPT !.st = "planned"] BY <3>2
      <4> HIDE DEF rec
      <4> QED BY <2>4, <3>2, <4>1 DEF Statuses
    <3>3. CASE Proof(k) = "uncertain"
      <4>1. rec = [eff[k] EXCEPT !.st = "uncertain"] BY <3>3
      <4> HIDE DEF rec
      <4> QED BY <2>4, <3>3, <4>1 DEF Statuses
    <3> QED BY <1>6, <3>1, <3>2, <3>3
  <2> HIDE DEF rec
  <2>7. eff' \in Ledgers /\ (\A j \in Effects \ {k} : eff'[j] = eff[j]) /\ eff'[k] = rec
    BY <1>2, <1>6, <2>3, <2>6 DEF Ledgers
  <2>8. TypeOK' BY <1>1, <2>2, <2>7, SameTypes DEF IInv, TypeOK, project
  <2>9. PlaceOK' BY <1>1, <2>2 DEF IInv, PlaceOK, Idle, Recovery, Passive
  <2>10. EffectOK'
    <3>1. \A j \in Effects : eff'[j].st = "succeeded" => eff'[j].res \in {"ok", "nothing"}
      BY <2>6, <2>7 DEF IInv, EffectOK
    <3> QED BY <2>2, <3>1 DEF EffectOK, Around, Carried, Applying, Squashing, Restoring
  <2>11. LeftOK' BY <1>3, <2>2, <2>7 DEF LeftOK, Unsettled
  <2>12. ActionOK' BY <1>1, <1>3, <2>2 DEF ActionOK, Pending
  <2>13. ReviewedOK' /\ InspectedOK' BY <2>2, Unguarded DEF Guarded
  <2>14. GraphOK' /\ CommitIsReviewed' BY <1>1, GraphKept DEF project
  <2>15. EvidenceOK'
    <3>1. CASE Proof(k) # "not_started"
      BY <1>1, <1>6, <2>2, <2>6, <2>7, <3>1, EvidenceEffect DEF project
    <3>2. CASE Proof(k) = "not_started"
      <4>1. k \notin {"apply", "squash"} BY <1>8, <3>2
      <4>2. eff'["squash"] = eff["squash"] BY <2>7, <4>1 DEF Effects
      <4>3. Made' <=> Made BY <1>1 DEF Made, OfRun, ByWorkflow, project
      <4>4. CASE k = "commit"
        <5>1. ~Made BY <1>6, <3>2, <4>4
        <5>2. eff'["commit"].st = "planned" /\ eff'["commit"].pre = eff["commit"].pre /\ eff["commit"].st # "none"
          BY <1>6, <2>6, <2>7, <3>2, <4>4
        <5>3. Since(head, "commit")' <=> Since(head, "commit") BY <1>1, <5>2 DEF Since, project
        <5>4. Since(head, "squash")' <=> Since(head, "squash") BY <1>1, <4>2 DEF Since, project
        <5> QED BY <1>1, <2>2, <4>2, <4>3, <5>1, <5>2, <5>3, <5>4 DEF IInv, EvidenceOK, project
      <4>5. CASE k # "commit"
        <5>1. eff'["commit"] = eff["commit"] BY <2>7, <4>5 DEF Effects
        <5>2. Since(head, "commit")' <=> Since(head, "commit") BY <1>1, <5>1 DEF Since, project
        <5>3. Since(head, "squash")' <=> Since(head, "squash") BY <1>1, <4>2 DEF Since, project
        <5> QED BY <1>1, <2>2, <4>2, <4>3, <5>1, <5>2, <5>3 DEF IInv, EvidenceOK, project
      <4> QED BY <4>4, <4>5
    <3> QED BY <3>1, <3>2
  <2>16. WholeOK'
    <3>1. ~Written' BY <2>2 DEF Written, Around
    <3>2. eff'["apply"].st = "succeeded" /\ eff'["apply"].res = "ok" => wf.u \in whole
      <4>1. CASE k = "apply" BY <1>6, <2>6, <2>7, <4>1
      <4>2. CASE k # "apply" BY <2>7, <4>2 DEF IInv, WholeOK, Effects
      <4> QED BY <4>1, <4>2
    <3> QED BY <1>1, <1>4, <2>2, <3>1, <3>2
            DEF IInv, WholeOK, Recovery, Around, Carried, Applying, Squashing, Restoring
  <2> QED BY <2>8, <2>9, <2>10, <2>11, <2>12, <2>13, <2>14, <2>15, <2>16 DEF IInv
<1> QED BY <1>7, <1>8

LEMMA StepResume == ASSUME IInv, Resume PROVE IInv'
<1>1. /\ job.pc = "reconcile" /\ up
      /\ UNCHANGED <<cfg, project, backup, own, eff, art, up, n, whole>>
  BY DEF Resume, Here
<1>2. /\ wf \in WorkflowRecords /\ n \in Counters /\ asked \in Asks /\ art \in [Updates -> Artifacts] /\ up \in BOOLEAN
      /\ wf.act = "" /\ wf.life = "recovering" /\ wf.kind # "" /\ (wf.kind = "passive" => wf.u \in Updates)
  BY <1>1 DEF IInv, TypeOK, PlaceOK, Idle, Recovery
<1>3. CASE Unsettled = {} /\ wf.kind # "manual"
  <2> DEFINE pc == IF wf.kind = "passive" THEN "artifact" ELSE "finalize"
  <2>1. wf' = [wf EXCEPT !.life = "running"] /\ UNCHANGED asked
        /\ job' = [Off EXCEPT !.pc = pc, !.by = wf.kind, !.u = wf.u]
    BY <1>3 DEF Resume
  <2>2. wf' \in WorkflowRecords /\ wf'.life = "running" /\ wf'.act = "" /\ wf'.kind = wf.kind /\ wf'.u = wf.u
    BY <1>2, <2>1 DEF WorkflowRecords
  <2>3. pc \in Places /\ wf.kind \in Actors \cup {""} /\ wf.u \in Updates \cup {""} /\ wf.kind \in Kinds
    BY <1>2 DEF Places, Actors, WorkflowRecords
  <2>4. (pc = "artifact" /\ wf.kind = "passive") \/ (pc = "finalize" /\ wf.kind = "automation")
    BY <1>3, <2>3 DEF Kinds
  <2> HIDE DEF pc
  <2>5. job' \in Jobs /\ job'.pc = pc /\ job'.by = wf.kind /\ job'.u = wf.u
    <3>1. Off \in Jobs BY OffFields DEF IInv
    <3> HIDE DEF Off
    <3> QED BY <2>1, <2>3, <3>1 DEF Jobs
  <2>6. (job'.pc = "finalize" => OfAutomation') /\ (job'.pc # "finalize" => OfPassive')
    BY <1>2, <2>2, <2>4, <2>5 DEF OfAutomation, OfPassive
  <2> QED BY <1>1, <2>1, <2>2, <2>4, <2>5, <2>6, Launch
<1>4. CASE ~(Unsettled = {} /\ wf.kind # "manual")
  <2>1. Wait("recovery", asked) BY <1>4 DEF Resume
  <2>2. /\ wf' \in WorkflowRecords /\ wf'.life = "waiting" /\ wf'.act = "recovery" /\ wf'.kind = wf.kind
        /\ wf'.u = wf.u /\ asked' = asked /\ job' = Off
    BY <1>2, <2>1, WaitFields DEF Actions
  <2>3. job' \in Jobs /\ job'.pc = "off" BY <2>2, OffFields DEF IInv
  <2>4. ActionOK' BY <2>2, <2>3 DEF ActionOK, Pending
  <2>5. PassiveApplyIsWhole' BY <1>1 DEF IInv, WholeOK, PassiveApplyIsWhole
  <2> QED BY <1>1, <1>2, <2>2, <2>3, <2>4, <2>5, Leave DEF project, Idle
<1> QED BY <1>3, <1>4

-----------------------------------------------------------------------------
(* The user in the same tree                                                *)

LEMMA UserActs ==
  ASSUME IInv, UserMayAct, UNCHANGED <<cfg, backup, own, wf, asked, eff, art, job, up, whole>>
  PROVE  /\ PlaceOK' /\ EffectOK' /\ LeftOK' /\ ActionOK' /\ ReviewedOK' /\ InspectedOK' /\ WholeOK'
         /\ job.pc \notin Guarded \cup {"squash-receipt", "settle"}
<1>1. job.pc \notin Guarded \cup {"squash-receipt", "settle"} BY DEF UserMayAct, IInv, PlaceOK, Guarded
<1>2. PlaceOK' BY DEF IInv, PlaceOK, OfPassive, OfAutomation, OfManual
<1>3. EffectOK'
  <2>1. \A k \in Effects : Owner(k)' <=> Owner(k) BY DEF Owner, OfPassive, OfAutomation, OfManual
  <2> QED BY <2>1 DEF IInv, EffectOK
<1>4. LeftOK' BY DEF IInv, LeftOK, Unsettled
<1>5. ActionOK' BY DEF IInv, ActionOK, Pending
<1>6. ReviewedOK' /\ InspectedOK' BY <1>1, Unguarded
<1>7. WholeOK'
  <2>1. (Written' <=> Written) /\ (PassiveApplyIsWhole' <=> PassiveApplyIsWhole) BY DEF Written, PassiveApplyIsWhole
  <2> QED BY <2>1 DEF IInv, WholeOK
<1> QED BY <1>1, <1>2, <1>3, <1>4, <1>5, <1>6, <1>7

LEMMA StepEdit == ASSUME IInv, Edit PROVE IInv'
<1>1. /\ UserMayAct /\ n.edits < MaxEdits /\ n' = [n EXCEPT !.edits = n.edits + 1]
      /\ UNCHANGED <<cfg, objects, head, tracked, refs, backup, own, wf, asked, eff, art, job, up, whole>>
  BY DEF Edit
<1>2. n' \in Counters /\ n'.runs = n.runs BY <1>1, CountUp DEF IInv, TypeOK, Counters
<1>3. file' \in [Paths -> Contents] BY DEF Edit, IInv, TypeOK, Contents
<1>4. TypeOK' BY <1>1, <1>2, <1>3, SameTypes DEF IInv, TypeOK
<1>5. /\ PlaceOK' /\ EffectOK' /\ LeftOK' /\ ActionOK' /\ ReviewedOK' /\ InspectedOK' /\ WholeOK'
      /\ job.pc \notin Guarded \cup {"squash-receipt", "settle"}
  BY <1>1, UserActs
<1>6. GraphOK' /\ CommitIsReviewed' BY <1>1, <1>2, GraphKept
<1>7. EvidenceOK' BY <1>1, <1>2, <1>5, EvidenceKept DEF Guarded
<1> QED BY <1>4, <1>5, <1>6, <1>7 DEF IInv

LEMMA StepUserCommit == ASSUME IInv, UserCommit PROVE IInv'
<1>1. /\ UserMayAct /\ n.commits < MaxUserCommits /\ n' = [n EXCEPT !.commits = n.commits + 1]
      /\ UNCHANGED <<cfg, file, refs, backup, own, wf, asked, eff, art, job, up, whole>>
  BY DEF UserCommit
<1>2. PICK S \in SUBSET Paths : CommitOnly(head, S, "user", NoPath) BY DEF UserCommit, Dirty
<1>3. n' \in Counters /\ n'.runs = n.runs BY <1>1, CountUp DEF IInv, TypeOK, Counters
<1>4. /\ head' \in DOMAIN objects' /\ head' \notin Shas /\ DOMAIN objects \subseteq DOMAIN objects'
      /\ (\A s \in DOMAIN objects : objects'[s] = objects[s])
      /\ (\A s \in DOMAIN objects' : s \in DOMAIN objects \/ s = head')
      /\ objects'[head'].by = "user" /\ objects'[head'].run = n.runs
      /\ GraphOK' /\ CommitIsReviewed'
  BY <1>2, <1>3, NoStates, CommitGrows
<1>5. eff \in Ledgers /\ job \in Jobs BY DEF IInv, TypeOK
<1>6. TypeOK' BY <1>1, <1>2, <1>3, <1>5, NoStates, CommitTypes
<1>7. /\ PlaceOK' /\ EffectOK' /\ LeftOK' /\ ActionOK' /\ ReviewedOK' /\ InspectedOK' /\ WholeOK'
      /\ job.pc \notin Guarded \cup {"squash-receipt", "settle"}
  BY <1>1, UserActs
<1>8. Made' <=> Made BY <1>1, <1>3, <1>4 DEF Made, OfRun, ByWorkflow
<1>9. Since(head, "commit")' /\ Since(head, "squash")' BY <1>3, <1>4 DEF Since
<1>10. head' # eff["commit"].pre BY <1>4, <1>5 DEF Ledgers, Effects
<1>11. EvidenceOK' BY <1>1, <1>7, <1>8, <1>9, <1>10 DEF IInv, EvidenceOK, Guarded
<1> QED BY <1>4, <1>6, <1>7, <1>11 DEF IInv

-----------------------------------------------------------------------------
(* The theorems                                                             *)

LEMMA Stutters == ASSUME IInv, UNCHANGED vars PROVE IInv'
<1>1. UNCHANGED <<cfg, objects, head, tracked, refs, file, backup, own, wf, asked, eff, art, job, up, n, whole>>
  BY DEF vars
<1>2. TypeOK' BY <1>1, SameTypes DEF IInv, TypeOK
<1>3. PlaceOK' BY <1>1 DEF IInv, PlaceOK, OfPassive, OfAutomation, OfManual
<1>4. EffectOK'
  <2>1. \A k \in Effects : Owner(k)' <=> Owner(k) BY <1>1 DEF Owner, OfPassive, OfAutomation, OfManual
  <2> QED BY <1>1, <2>1 DEF IInv, EffectOK
<1>5. LeftOK' BY <1>1 DEF IInv, LeftOK, Unsettled
<1>6. ActionOK' BY <1>1 DEF IInv, ActionOK, Pending
<1>7. ReviewedOK' BY <1>1 DEF IInv, ReviewedOK, Unchanged
<1>8. InspectedOK'
  <2>1. \A p : Known(p)' <=> Known(p) BY <1>1 DEF Known, Tip, Tree
  <2> QED BY <1>1, <2>1 DEF IInv, InspectedOK
<1>9. GraphOK' /\ CommitIsReviewed' BY <1>1, GraphKept
<1>10. EvidenceOK'
  <2>1. Made' <=> Made BY <1>1 DEF Made, OfRun, ByWorkflow
  <2>2. \A k : Since(head, k)' <=> Since(head, k) BY <1>1 DEF Since
  <2>3. Since(own.points[Len(own.points)], "squash")' <=> Since(own.points[Len(own.points)], "squash")
    BY <1>1 DEF Since
  <2> QED BY <1>1, <2>1, <2>2, <2>3 DEF IInv, EvidenceOK
<1>11. WholeOK'
  <2>1. (Written' <=> Written) /\ (PassiveApplyIsWhole' <=> PassiveApplyIsWhole) BY <1>1 DEF Written, PassiveApplyIsWhole
  <2> QED BY <1>1, <2>1 DEF IInv, WholeOK
<1> QED BY <1>2, <1>3, <1>4, <1>5, <1>6, <1>7, <1>8, <1>9, <1>10, <1>11 DEF IInv

LEMMA Starts == ASSUME Init PROVE IInv
<1> DEFINE first == [parent |-> 0, tree |-> file, by |-> "start", seen |-> NoPath, run |-> 0]
<1>1. /\ file = [p \in Paths |-> IF p \in Present THEN "base" ELSE "none"]
      /\ objects = <<first>> /\ head = 1 /\ tracked = Present /\ refs = [squash |-> 0, restore |-> 0]
      /\ backup = NoBackup /\ own = NoOwn /\ asked = NoAsk /\ cfg \in Configs
      /\ wf = [life |-> "ready", kind |-> "", act |-> "", stop |-> FALSE, u |-> "", planned |-> FALSE]
      /\ eff = [k \in Effects |-> NoEffect] /\ art = [u \in Updates |-> "none"]
      /\ job = Off /\ up = TRUE /\ whole = {}
      /\ n = [runs |-> 0, edits |-> 0, commits |-> 0, crashes |-> 0, stops |-> 0]
  BY DEF Init
<1>2. /\ MaxRuns \in Nat /\ MaxEdits \in Nat /\ MaxUserCommits \in Nat /\ MaxCrashes \in Nat /\ MaxStops \in Nat
  BY BoundsAssumption DEF BoundsAssumption
<1>3. file \in [Paths -> Contents] BY <1>1 DEF Contents
<1>4. first \in Objects /\ first.parent = 0 /\ first.by = "start" /\ first.run = 0
  BY <1>2, <1>3, NoStates DEF Objects
<1> HIDE DEF first
<1>5. objects \in Seq(Objects) /\ Len(objects) = 1 /\ objects[1] = first /\ DOMAIN objects = {1}
  <2>1. objects = <<first>> BY <1>1
  <2>2. Len(objects) = 1 /\ objects[1] = first BY <2>1
  <2>3. objects \in Seq(Objects) BY <1>4, <2>1
  <2>4. DOMAIN objects = 1..1 BY <2>2, <2>3, LenProperties
  <2> QED BY <2>2, <2>3, <2>4
<1>6. Shas = {0, 1} BY <1>5 DEF Shas
<1>7. <<>> \in Seq(Shas) BY EmptySeq
<1>8. own \in Owns /\ asked \in Asks BY <1>1, <1>6, <1>7, NoStates DEF NoOwn, NoAsk, Owns, Asks
<1>9. eff \in Ledgers /\ \A k \in Effects : eff[k].st = "none" /\ ~eff[k].receipt
  BY <1>1, <1>6 DEF NoEffect, Ledgers, Statuses, Results
<1>10. backup \in Backups /\ ~backup.receipt BY <1>1, NoStates DEF NoBackup, Backups
<1>11. job \in Jobs /\ job.pc = "off" BY <1>1, <1>6, NoStates DEF Off, Jobs, Places, Results, Actions
<1>12. n \in Counters /\ n.runs = 0
  <2>1. 0 \in 0..MaxRuns /\ 0 \in 0..MaxEdits /\ 0 \in 0..MaxUserCommits /\ 0 \in 0..MaxCrashes /\ 0 \in 0..MaxStops
    BY <1>2
  <2> QED BY <1>1, <2>1 DEF Counters
<1>13. wf \in WorkflowRecords /\ wf.life = "ready" /\ wf.kind = "" /\ wf.act = "" BY <1>1 DEF WorkflowRecords, Actions
<1>14. tracked \subseteq Paths BY <1>1, WritesAssumption DEF WritesAssumption
<1>15. art \in [Updates -> Artifacts] /\ \A u \in Updates : art[u] = "none" BY <1>1 DEF Artifacts
<1>16. TypeOK
  <2>1. \A s \in DOMAIN objects : objects[s].parent < s BY <1>4, <1>5
  <2>2. head \in DOMAIN objects /\ refs \in [squash : Shas, restore : Shas] BY <1>1, <1>5, <1>6
  <2> QED BY <1>1, <1>3, <1>5, <1>8, <1>9, <1>10, <1>11, <1>12, <1>13, <1>14, <1>15, <2>1, <2>2 DEF TypeOK
<1>17. PlaceOK BY <1>1, <1>11, <1>13 DEF PlaceOK, Idle, Recovery, Passive
<1>18. EffectOK BY <1>9, <1>11 DEF EffectOK, Around, Carried, Applying, Squashing, Restoring
<1>19. LeftOK /\ ActionOK BY <1>11, <1>13 DEF LeftOK, ActionOK, Pending
<1>20. ReviewedOK /\ InspectedOK BY <1>11 DEF ReviewedOK, InspectedOK
<1>21. GraphOK /\ CommitIsReviewed /\ ~Made
  <2>1. \A s \in DOMAIN objects : objects[s].run <= n.runs /\ ~ByWorkflow(s) BY <1>4, <1>5, <1>12 DEF ByWorkflow
  <2> QED BY <2>1 DEF GraphOK, CommitIsReviewed, Made, OfRun
<1>22. EvidenceOK
  <2>1. eff["commit"].st = "none" /\ eff["squash"].st = "none" /\ ~eff["squash"].receipt BY <1>9 DEF Effects
  <2> QED BY <1>11, <1>21, <2>1 DEF EvidenceOK
<1>23. WholeOK
  <2>1. PassiveApplyIsWhole BY <1>15 DEF PassiveApplyIsWhole
  <2>2. ~Written BY <1>11 DEF Written, Around
  <2>3. eff["apply"].st = "none" BY <1>9 DEF Effects
  <2> QED BY <1>10, <1>11, <1>13, <2>1, <2>2, <2>3 DEF WholeOK, Around, Carried, Applying, Squashing, Restoring
<1> QED BY <1>16, <1>17, <1>18, <1>19, <1>20, <1>21, <1>22, <1>23 DEF IInv

LEMMA Steps == ASSUME IInv, [Next]_vars PROVE IInv'
<1>1. CASE Observe \/ Finalize \/ RestoreStart BY <1>1, StepRunStarts
<1>2. CASE Artifact \/ Plan \/ Inspect BY <1>2, StepArtifact, StepPlan, StepInspect
<1>3. CASE Begin \/ Dispatch \/ Settle BY <1>3, StepBegin, StepDispatch, StepSettle
<1>4. CASE Backup \/ WriteOne \/ ChecksPass \/ ApplyReceipt \/ UndoOne
  BY <1>4, StepBackup, StepWriteOne, StepChecksPass, StepApplyReceipt, StepUndoOne
<1>5. CASE WriteFails BY <1>5, StepCatch DEF WriteFails, Here
<1>6. CASE ChecksFail BY <1>6, StepCatch DEF ChecksFail, Here
<1>7. CASE AfterApply \/ Capture \/ FailedChecks BY <1>7, StepAfterApply, StepCapture, StepFailedChecks
<1>8. CASE MaybeCommit \/ AfterPrompt \/ Message \/ Approved
  BY <1>8, StepMaybeCommit, StepAfterPrompt, StepMessage, StepApproved
<1>9. CASE PromptAnswers BY <1>9, StepPrompted DEF PromptAnswers
<1>10. CASE PromptFails BY <1>10, StepPrompted DEF PromptFails
<1>11. CASE Commit \/ AfterCommit \/ Complete \/ Finish BY <1>11, StepCommit, StepAfterCommit, StepComplete, StepFinish
<1>12. CASE Choose \/ AfterRevert \/ Reverted BY <1>12, StepChoose, StepAfterRevert, StepReverted
<1>13. CASE FinalizeStep \/ Squash \/ SquashCommit \/ AfterSquash
  BY <1>13, StepFinalizeStep, StepSquash, StepSquashCommit, StepAfterSquash
<1>14. CASE SquashReceipt BY <1>14, StepReceipt DEF SquashReceipt
<1>15. CASE Restore \/ Rewind \/ RestoreOne \/ AfterRestore
  BY <1>15, StepRestore, StepRewind, StepRestoreOne, StepAfterRestore
<1>16. CASE RestoreReceipt BY <1>16, StepReceipt DEF RestoreReceipt
<1>17. CASE Stop \/ StopCommand \/ Activate BY <1>17, StepStop, StepStopCommand, StepActivate
<1>18. CASE Crash \/ Restart \/ RestoreAction \/ Reconcile \/ Resume
  BY <1>18, StepCrash, StepRestart, StepRestoreAction, StepReconcile, StepResume
<1>19. CASE Edit \/ UserCommit BY <1>19, StepEdit, StepUserCommit
<1>20. CASE UNCHANGED vars BY <1>20, Stutters
<1> QED
  BY <1>1, <1>2, <1>3, <1>4, <1>5, <1>6, <1>7, <1>8, <1>9, <1>10, <1>11, <1>12, <1>13, <1>14, <1>15, <1>16,
     <1>17, <1>18, <1>19, <1>20
  DEF Next

(* Inductive: whatever the workflow, the user and the daemon's ends do, the recorded state, the
   files and git stay in the relation IInv. *)
THEOREM Inductive == Spec => []IInv
<1>1. Init => IInv BY Starts
<1>2. IInv /\ [Next]_vars => IInv' BY Steps
<1> QED BY <1>1, <1>2, PTL DEF Spec

(* The shape of the state holds for any files, updates, configurations and bounds. *)
THEOREM TypeCorrect == Spec => []TypeOK
<1>1. IInv => TypeOK BY DEF IInv
<1> QED BY <1>1, Inductive, PTL

(* Every commit of the workflow holds exactly the states it recorded of its own paths: the files
   compared before commitGit are still the compared ones at commit --only (gitCommit.js), whatever
   the user edits and commits while the daemon waits, and after any restart. *)
THEOREM CommitsAreReviewed == Spec => []CommitIsReviewed
<1>1. IInv => CommitIsReviewed BY DEF IInv
<1> QED BY <1>1, Inductive, PTL

(* The ledger of effects tells the truth about git after any crash and reconciliation
   (reconcileLocalEffect): recorded as made is made, planned is not made. *)
THEOREM EvidenceHolds == Spec => []EvidenceIsTrue
<1>1. IInv => EvidenceIsTrue
  <2> SUFFICES ASSUME IInv PROVE EvidenceIsTrue OBVIOUS
  <2>1. \A k \in {"commit", "squash"} : eff[k].st = "succeeded" /\ eff[k].res = "ok" => Made BY DEF IInv, EvidenceOK
  <2>2. eff["commit"].st = "none" \/ eff["squash"].st = "none" BY DEF IInv, EvidenceOK
  <2>3. eff["commit"].st \in {"none", "planned"} /\ eff["squash"].st \in {"none", "planned"} => ~Made
    BY DEF IInv, EvidenceOK
  <2>4. \A k \in {"commit", "squash"} : eff[k].st = "planned" => ~Made BY <2>2, <2>3
  <2> QED BY <2>1, <2>4 DEF EvidenceIsTrue, Made
<1> QED BY <1>1, Inductive, PTL

(* What a passive run, or a decision it waited for, recorded as applied was written as a whole and
   not undone since (applyCompletionService.complete after TransactionalApplier.apply).  The ZIPs
   that an automation run applies are not in the specification. *)
THEOREM PassiveApplyWhole == Spec => []PassiveApplyIsWhole
<1>1. IInv => PassiveApplyIsWhole BY DEF IInv, WholeOK
<1> QED BY <1>1, Inductive, PTL

(* No file with an edit of the user that is neither committed nor captured is overwritten by an
   update, when the workflow works with git: what #assertNoUserOverlap saw still holds at each write. *)
THEOREM EditsKept == Spec => EditsUntouched
<1> DEFINE Kept == \A p \in Paths :
                     (job.pc = "write" /\ cfg.commit # "none" /\ file[p] = "mine" /\ file'[p] # "mine")
                       => Tip[p] = "mine" \/ (p \in DOMAIN own.states /\ own.states[p] = "mine")
<1>1. IInv /\ [Next]_vars => [Kept]_vars
  <2> SUFFICES ASSUME IInv, [Next]_vars, NEW p \in Paths, job.pc = "write", cfg.commit # "none", file[p] = "mine",
                      file'[p] # "mine"
               PROVE  Tip[p] = "mine" \/ (p \in DOMAIN own.states /\ own.states[p] = "mine")
    OBVIOUS
  <2>1. file' # file OBVIOUS
  <2>2. WriteOne
    BY <2>1 DEF Next, vars, project, Here, Observe, Finalize, RestoreStart, StartRun, Artifact, Plan, Inspect, Begin,
         Dispatch, Settle, Backup, WriteFails, ChecksPass, ChecksFail, Catch, ApplyReceipt, UndoOne, AfterApply,
         Capture, FailedChecks, MaybeCommit, PromptAnswers, PromptFails, Prompted, AfterPrompt, Message, Approved,
         Commit, AfterCommit, Complete, Finish, Choose, ChooseApprove, ChooseReject, ChooseCommit, ChooseNoCommit,
         ChooseFix, ChooseKeep, ChooseRevert, ChooseRetry, ChooseStop, Choice, AfterRevert, Reverted, FinalizeStep,
         Squash, SquashCommit, SquashReceipt, Receipt, AfterSquash, Restore, Rewind, RestoreOne, RestoreReceipt,
         AfterRestore, Stop, StopCommand, Activate, Crash, Restart, RestoreAction, Reconcile, Resume, Edit,
         UserMayAct, UserCommit, IInv, PlaceOK
  <2>3. PICK q \in job.left : file' = [file EXCEPT ![q] = job.u] BY <2>2 DEF WriteOne
  <2>4. p = q BY <2>3 DEF IInv, TypeOK
  <2>5. Known(p) BY <2>3, <2>4 DEF IInv, InspectedOK
  <2> QED BY <2>5 DEF Known
<1>2. Spec => [][Kept]_vars BY <1>1, Inductive, PTL DEF Spec
<1> QED BY <1>2 DEF EditsUntouched

-----------------------------------------------------------------------------
(* The history of git                                                       *)
(*                                                                          *)
(* Ancestors and After walk over the commits by recursion.  That such an    *)
(* equation has exactly one solution, and what the walk returns, is an      *)
(* induction over the commits; as a step adds at most one commit, it is     *)
(* carried out as an invariant: WellFounded holds of the first commit and   *)
(* is kept by the next one.                                                 *)

Ancestry(objs, a) ==
  a = [s \in 0..Len(objs) |-> IF s = 0 THEN {} ELSE a[objs[s].parent] \cup {s}]

Walk(objs, past, f) ==
  f = [s \in 0..Len(objs) |-> IF s \in past \cup {0} THEN <<>> ELSE Append(f[objs[s].parent], s)]

Elements(q) == {q[i] : i \in 1..Len(q)}

WellFounded(objs) ==
  /\ \E a : Ancestry(objs, a)
  /\ \A a, b : Ancestry(objs, a) /\ Ancestry(objs, b) => a = b
  /\ \A a : Ancestry(objs, a) => \A s \in 0..Len(objs) : a[s] \subseteq 1..s
  /\ \A past : \E f : Walk(objs, past, f)
  /\ \A past, f, g : Walk(objs, past, f) /\ Walk(objs, past, g) => f = g
  /\ \A past, f : Walk(objs, past, f) => \A s \in 0..Len(objs) : f[s] \in Seq(Nat)
  /\ \A a, f : \A b \in 0..Len(objs) :
       Ancestry(objs, a) /\ Walk(objs, a[b], f) => \A s \in 0..Len(objs) : a[s] \subseteq a[b] \cup Elements(f[s])

LEMMA AncestryAt ==
  ASSUME NEW objs, NEW a, Ancestry(objs, a)
  PROVE  /\ DOMAIN a = 0..Len(objs)
         /\ \A s \in 0..Len(objs) : a[s] = IF s = 0 THEN {} ELSE a[objs[s].parent] \cup {s}
BY DEF Ancestry

LEMMA WalkAt ==
  ASSUME NEW objs, NEW past, NEW f, Walk(objs, past, f)
  PROVE  /\ DOMAIN f = 0..Len(objs)
         /\ \A s \in 0..Len(objs) :
              f[s] = IF s \in past \cup {0} THEN <<>> ELSE Append(f[objs[s].parent], s)
BY DEF Walk

LEMMA ElementsAppend ==
  ASSUME NEW q \in Seq(Nat), NEW e \in Nat
  PROVE  Elements(Append(q, e)) = Elements(q) \cup {e}
<1>1. Len(Append(q, e)) = Len(q) + 1 /\ Len(q) \in Nat BY AppendProperties, LenProperties
<1>2. \A i \in 1..Len(q) : Append(q, e)[i] = q[i] BY AppendProperties
<1>3. Append(q, e)[Len(q) + 1] = e BY AppendProperties
<1> QED BY <1>1, <1>2, <1>3 DEF Elements

LEMMA FirstCommit ==
  ASSUME NEW objs, Len(objs) = 1, objs[1].parent = 0
  PROVE  WellFounded(objs)
<1>1. 0..Len(objs) = {0, 1} OBVIOUS
<1>2. \A a : Ancestry(objs, a) => a = [s \in {0, 1} |-> IF s = 0 THEN {} ELSE {1}]
  <2> SUFFICES ASSUME NEW a, Ancestry(objs, a)
               PROVE  a = [s \in {0, 1} |-> IF s = 0 THEN {} ELSE {1}]
    OBVIOUS
  <2>1. a[0] = {} /\ a[1] = {1}
    <3>1. 0 \in 0..Len(objs) /\ 1 \in 0..Len(objs) BY <1>1
    <3>2. \A s \in 0..Len(objs) : a[s] = IF s = 0 THEN {} ELSE a[objs[s].parent] \cup {s} BY AncestryAt
    <3>3. a[0] = {} BY <3>1, <3>2
    <3>4. a[1] = a[0] \cup {1} BY <3>1, <3>2
    <3> QED BY <3>3, <3>4
  <2>2. a = [s \in {0, 1} |-> IF s = 0 THEN {} ELSE a[objs[s].parent] \cup {s}] BY <1>1 DEF Ancestry
  <2> QED BY <2>1, <2>2
<1>3. Ancestry(objs, [s \in {0, 1} |-> IF s = 0 THEN {} ELSE {1}]) BY <1>1 DEF Ancestry
<1>4. \A past, f : Walk(objs, past, f) => f = [s \in {0, 1} |-> IF s \in past \cup {0} THEN <<>> ELSE <<1>>]
  <2> SUFFICES ASSUME NEW past, NEW f, Walk(objs, past, f)
               PROVE  f = [s \in {0, 1} |-> IF s \in past \cup {0} THEN <<>> ELSE <<1>>]
    OBVIOUS
  <2>1. f[0] = <<>> /\ f[1] = IF 1 \in past THEN <<>> ELSE Append(<<>>, 1)
    <3>1. 0 \in 0..Len(objs) /\ 1 \in 0..Len(objs) BY <1>1
    <3>2. \A s \in 0..Len(objs) :
            f[s] = IF s \in past \cup {0} THEN <<>> ELSE Append(f[objs[s].parent], s)
      BY DEF Walk
    <3>3. f[0] = <<>> BY <3>1, <3>2
    <3>4. f[1] = IF 1 \in past THEN <<>> ELSE Append(f[0], 1) BY <3>1, <3>2
    <3> QED BY <3>3, <3>4
  <2>2. Append(<<>>, 1) = <<1>> OBVIOUS
  <2>3. f = [s \in {0, 1} |-> IF s \in past \cup {0} THEN <<>> ELSE Append(f[objs[s].parent], s)]
    BY <1>1 DEF Walk
  <2> QED BY <2>1, <2>2, <2>3
<1>5. \A past : Walk(objs, past, [s \in {0, 1} |-> IF s \in past \cup {0} THEN <<>> ELSE <<1>>])
  <2>1. Append(<<>>, 1) = <<1>> OBVIOUS
  <2> QED BY <1>1, <2>1 DEF Walk
<1>6. \A past, f : Walk(objs, past, f) => \A s \in 0..Len(objs) : f[s] \in Seq(Nat)
  <2>1. <<>> \in Seq(Nat) /\ <<1>> \in Seq(Nat) OBVIOUS
  <2> QED BY <1>1, <1>4, <2>1
<1>7. \A a, f : \A b \in 0..Len(objs) :
         Ancestry(objs, a) /\ Walk(objs, a[b], f) => \A s \in 0..Len(objs) : a[s] \subseteq a[b] \cup Elements(f[s])
  <2> SUFFICES ASSUME NEW a, NEW f, NEW b \in {0, 1}, Ancestry(objs, a), Walk(objs, a[b], f), NEW s \in {0, 1}
               PROVE  a[s] \subseteq a[b] \cup Elements(f[s])
    BY <1>1
  <2>1. a[0] = {} /\ a[1] = {1} BY <1>2
  <2>2. CASE b = 0 /\ s = 1
    <3>1. f[1] = <<1>> BY <1>4, <2>1, <2>2
    <3>2. Elements(<<1>>) = {1} BY DEF Elements
    <3> QED BY <2>1, <2>2, <3>1, <3>2
  <2> QED BY <2>1, <2>2
<1>8. \A a : Ancestry(objs, a) => \A s \in 0..Len(objs) : a[s] \subseteq 1..s BY <1>1, <1>2
<1> QED BY <1>2, <1>3, <1>4, <1>5, <1>6, <1>7, <1>8 DEF WellFounded

(* What a commit N adds to the walks. *)
WalksGrow(objs, next, parent, N) ==
  /\ \A a, b : Ancestry(objs, a) /\ Ancestry(next, b) =>
       b[N] = a[parent] \cup {N} /\ \A s \in 0..Len(objs) : b[s] = a[s]
  /\ \A past, f, g : Walk(objs, past, f) /\ Walk(next, past, g) =>
       /\ g[N] = IF N \in past THEN <<>> ELSE Append(f[parent], N)
       /\ \A s \in 0..Len(objs) : g[s] = f[s]

LEMMA NextCommit ==
  ASSUME NEW Commits, NEW objs \in Seq(Commits), NEW c \in Commits, c.parent \in 0..Len(objs),
         \A s \in 1..Len(objs) : objs[s].parent \in 0..Len(objs),
         WellFounded(objs), NEW N, N = Len(objs) + 1, NEW next, next = Append(objs, c)
  PROVE  WellFounded(next) /\ WalksGrow(objs, next, c.parent, N)
<1> DEFINE D    == 0..Len(objs)
           p    == c.parent
<1>1. /\ Len(objs) \in Nat /\ N \in Nat /\ N # 0 /\ N \notin D /\ p \in D /\ p # N /\ 0 \in D
      /\ 0..N = D \cup {N}
  BY LenProperties
<1>2. /\ Len(next) = N /\ next[N] = c
      /\ \A s \in 1..Len(objs) : next[s] = objs[s]
  BY AppendProperties
<1>3. \A s \in D : s # 0 => s \in 1..Len(objs) /\ objs[s].parent \in D /\ next[s] = objs[s]
  BY <1>1, <1>2
<1> HIDE DEF D
<1>d. D = 0..Len(objs) BY DEF D
(* The ancestors. *)
<1>4. ASSUME NEW b, Ancestry(next, b)
      PROVE  /\ Ancestry(objs, [s \in D |-> b[s]])
             /\ b[N] = b[p] \cup {N}
             /\ b = [s \in D \cup {N} |-> b[s]]
  <2>1. b = [s \in D \cup {N} |-> IF s = 0 THEN {} ELSE b[next[s].parent] \cup {s}]
    BY <1>1, <1>2, <1>4 DEF Ancestry
  <2>2. b[N] = b[p] \cup {N} BY <1>1, <1>2, <2>1
  <2>3. \A s \in D : b[s] = IF s = 0 THEN {} ELSE b[objs[s].parent] \cup {s}
    BY <1>1, <1>3, <2>1
  <2>4. [s \in D |-> b[s]] = [s \in D |-> IF s = 0 THEN {} ELSE [r \in D |-> b[r]][objs[s].parent] \cup {s}]
    BY <1>3, <2>3
  <2>5. Ancestry(objs, [s \in D |-> b[s]]) BY <1>d, <2>4 DEF Ancestry
  <2> QED BY <2>1, <2>2, <2>5
<1>5. ASSUME NEW a, Ancestry(objs, a)
      PROVE  Ancestry(next, [s \in D \cup {N} |-> IF s = N THEN a[p] \cup {N} ELSE a[s]])
  <2> DEFINE b == [s \in D \cup {N} |-> IF s = N THEN a[p] \cup {N} ELSE a[s]]
  <2>1. \A s \in D : a[s] = IF s = 0 THEN {} ELSE a[objs[s].parent] \cup {s}
    BY <1>d, <1>5 DEF Ancestry
  <2>2. \A s \in D : b[s] = a[s] BY <1>1
  <2>3. b[N] = b[next[N].parent] \cup {N} BY <1>1, <1>2, <2>2
  <2> HIDE DEF b
  <2>4. \A s \in D : b[s] = IF s = 0 THEN {} ELSE b[next[s].parent] \cup {s}
    BY <1>3, <2>1, <2>2
  <2>5. b = [s \in D \cup {N} |-> b[s]] BY DEF b
  <2>6. \A s \in D \cup {N} : b[s] = IF s = 0 THEN {} ELSE b[next[s].parent] \cup {s}
    BY <1>1, <2>3, <2>4
  <2>7. b = [s \in D \cup {N} |-> IF s = 0 THEN {} ELSE b[next[s].parent] \cup {s}]
    BY <2>5, <2>6
  <2>8. Ancestry(next, b) BY <1>1, <1>2, <2>7 DEF Ancestry
  <2> QED BY <2>8 DEF b
<1>6. ASSUME NEW a, NEW b, Ancestry(objs, a), Ancestry(next, b)
      PROVE  b[N] = a[p] \cup {N} /\ \A s \in D : b[s] = a[s]
  <2>1. Ancestry(objs, [s \in D |-> b[s]]) BY <1>4, <1>6
  <2>2. [s \in D |-> b[s]] = a BY <1>6, <2>1 DEF WellFounded
  <2>3. \A s \in D : b[s] = a[s] BY <2>2
  <2> QED BY <1>1, <1>4, <1>6, <2>3
(* The commits after a base. *)
<1>7. ASSUME NEW past, NEW g, Walk(next, past, g)
      PROVE  /\ Walk(objs, past, [s \in D |-> g[s]])
             /\ g[N] = IF N \in past THEN <<>> ELSE Append(g[p], N)
             /\ g = [s \in D \cup {N} |-> g[s]]
  <2>1. g = [s \in D \cup {N} |-> IF s \in past \cup {0} THEN <<>> ELSE Append(g[next[s].parent], s)]
    BY <1>1, <1>2, <1>7 DEF Walk
  <2>2. g[N] = IF N \in past THEN <<>> ELSE Append(g[p], N) BY <1>1, <1>2, <2>1
  <2>3. \A s \in D : g[s] = IF s \in past \cup {0} THEN <<>> ELSE Append(g[objs[s].parent], s)
    BY <1>1, <1>3, <2>1
  <2>4. [s \in D |-> g[s]] = [s \in D |-> IF s \in past \cup {0} THEN <<>>
                                          ELSE Append([r \in D |-> g[r]][objs[s].parent], s)]
    BY <1>3, <2>3
  <2>5. Walk(objs, past, [s \in D |-> g[s]]) BY <1>d, <2>4 DEF Walk
  <2> QED BY <2>1, <2>2, <2>5
<1>8. ASSUME NEW past, NEW f, Walk(objs, past, f)
      PROVE  Walk(next, past, [s \in D \cup {N} |-> IF s # N THEN f[s]
                                                    ELSE IF N \in past THEN <<>> ELSE Append(f[p], N)])
  <2> DEFINE g == [s \in D \cup {N} |-> IF s # N THEN f[s] ELSE IF N \in past THEN <<>> ELSE Append(f[p], N)]
  <2>1. \A s \in D : f[s] = IF s \in past \cup {0} THEN <<>> ELSE Append(f[objs[s].parent], s)
    BY <1>d, <1>8 DEF Walk
  <2>2. \A s \in D : g[s] = f[s] BY <1>1
  <2>3. g[N] = IF N \in past \cup {0} THEN <<>> ELSE Append(g[next[N].parent], N) BY <1>1, <1>2, <2>2
  <2>4. \A s \in D : g[s] = IF s \in past \cup {0} THEN <<>> ELSE Append(g[next[s].parent], s)
    BY <1>3, <2>1, <2>2
  <2>5. g = [s \in D \cup {N} |-> g[s]] OBVIOUS
  <2> HIDE DEF g
  <2>6. \A s \in D \cup {N} : g[s] = IF s \in past \cup {0} THEN <<>> ELSE Append(g[next[s].parent], s)
    BY <1>1, <2>3, <2>4
  <2>7. g = [s \in D \cup {N} |-> IF s \in past \cup {0} THEN <<>> ELSE Append(g[next[s].parent], s)]
    BY <2>5, <2>6
  <2>8. Walk(next, past, g) BY <1>1, <1>2, <2>7 DEF Walk
  <2> QED BY <2>8 DEF g
<1>9. ASSUME NEW past, NEW f, NEW g, Walk(objs, past, f), Walk(next, past, g)
      PROVE  /\ g[N] = IF N \in past THEN <<>> ELSE Append(f[p], N)
             /\ \A s \in D : g[s] = f[s]
  <2>1. Walk(objs, past, [s \in D |-> g[s]]) BY <1>7, <1>9
  <2>2. [s \in D |-> g[s]] = f BY <1>9, <2>1 DEF WellFounded
  <2>3. \A s \in D : g[s] = f[s] BY <2>2
  <2>4. g[N] = IF N \in past THEN <<>> ELSE Append(g[p], N) BY <1>7, <1>9
  <2>5. g[p] = f[p] BY <1>1, <2>3
  <2> QED BY <2>3, <2>4, <2>5
(* One solution each, and what it returns. *)
<1>10. \E b : Ancestry(next, b) BY <1>5 DEF WellFounded
<1>11. ASSUME NEW a, NEW b, Ancestry(next, a), Ancestry(next, b)  PROVE a = b
  <2>1. PICK o : Ancestry(objs, o) BY DEF WellFounded
  <2>2. /\ a[N] = o[p] \cup {N} /\ \A s \in D : a[s] = o[s]
        /\ b[N] = o[p] \cup {N} /\ \A s \in D : b[s] = o[s]
    BY <1>6, <1>11, <2>1
  <2>3. a = [s \in D \cup {N} |-> a[s]] /\ b = [s \in D \cup {N} |-> b[s]] BY <1>4, <1>11
  <2>4. \A s \in D \cup {N} : a[s] = b[s] BY <2>2
  <2>5. [s \in D \cup {N} |-> a[s]] = [s \in D \cup {N} |-> b[s]] BY <2>4
  <2> QED BY <2>3, <2>5
<1>12. ASSUME NEW b, Ancestry(next, b), NEW s \in D \cup {N}  PROVE b[s] \subseteq 1..s
  <2>1. PICK a : Ancestry(objs, a) BY DEF WellFounded
  <2>2. \A r \in D : a[r] \subseteq 1..r BY <1>d, <2>1 DEF WellFounded
  <2>3. b[N] = a[p] \cup {N} /\ \A r \in D : b[r] = a[r] BY <1>6, <1>12, <2>1
  <2>4. a[p] \subseteq 1..N
    <3>1. a[p] \subseteq 1..p BY <1>1, <2>2
    <3>2. 1..p \subseteq 1..N BY <1>1 DEF D
    <3> QED BY <3>1, <3>2
  <2>5. N \in 1..N BY <1>1
  <2> QED BY <2>2, <2>3, <2>4, <2>5
<1>13. \A past : \E g : Walk(next, past, g) BY <1>8 DEF WellFounded
<1>14. ASSUME NEW past, NEW f, NEW g, Walk(next, past, f), Walk(next, past, g)  PROVE f = g
  <2>1. PICK o : Walk(objs, past, o) BY DEF WellFounded
  <2>2. /\ f[N] = (IF N \in past THEN <<>> ELSE Append(o[p], N)) /\ \A s \in D : f[s] = o[s]
        /\ g[N] = (IF N \in past THEN <<>> ELSE Append(o[p], N)) /\ \A s \in D : g[s] = o[s]
    BY <1>9, <1>14, <2>1
  <2>3. f = [s \in D \cup {N} |-> f[s]] /\ g = [s \in D \cup {N} |-> g[s]] BY <1>7, <1>14
  <2>4. \A s \in D \cup {N} : f[s] = g[s] BY <2>2
  <2>5. [s \in D \cup {N} |-> f[s]] = [s \in D \cup {N} |-> g[s]] BY <2>4
  <2> QED BY <2>3, <2>5
<1>15. ASSUME NEW past, NEW g, Walk(next, past, g), NEW s \in D \cup {N}  PROVE g[s] \in Seq(Nat)
  <2>1. PICK f : Walk(objs, past, f) BY DEF WellFounded
  <2>2. \A r \in D : f[r] \in Seq(Nat) BY <1>d, <2>1 DEF WellFounded
  <2>3. g[N] = (IF N \in past THEN <<>> ELSE Append(f[p], N)) /\ \A r \in D : g[r] = f[r] BY <1>9, <1>15, <2>1
  <2>4. Append(f[p], N) \in Seq(Nat) BY <1>1, <2>2, AppendProperties
  <2>5. <<>> \in Seq(Nat) OBVIOUS
  <2> QED BY <2>2, <2>3, <2>4, <2>5
<1>16. ASSUME NEW b, NEW g, NEW r \in D \cup {N}, Ancestry(next, b), Walk(next, b[r], g), NEW s \in D \cup {N}
       PROVE  b[s] \subseteq b[r] \cup Elements(g[s])
  <2>1. PICK a : Ancestry(objs, a) BY DEF WellFounded
  <2>2. b[N] = a[p] \cup {N} /\ \A t \in D : b[t] = a[t] BY <1>6, <1>16, <2>1
  <2> DEFINE q == IF r = N THEN p ELSE r
  <2>3. q \in D /\ a[q] \subseteq b[r] /\ b[r] \subseteq a[q] \cup {N} BY <1>1, <2>2
  <2>4. \A t \in D : t \in b[r] <=> t \in a[q] BY <1>1, <2>3
  <2>5. Walk(objs, a[q], [t \in D |-> g[t]])
    <3>1. Walk(objs, b[r], [t \in D |-> g[t]]) BY <1>7, <1>16
    <3> HIDE DEF q
    <3>2. \A t \in D : t \in b[r] \cup {0} <=> t \in a[q] \cup {0} BY <2>4
    <3>3. [t \in D |-> g[t]] = [t \in D |-> IF t \in b[r] \cup {0} THEN <<>> ELSE Append([u \in D |-> g[u]][objs[t].parent], t)]
      BY <1>d, <3>1 DEF Walk
    <3>4. [t \in D |-> g[t]] = [t \in D |-> IF t \in a[q] \cup {0} THEN <<>> ELSE Append([u \in D |-> g[u]][objs[t].parent], t)]
      BY <3>2, <3>3
    <3> QED BY <1>d, <3>4 DEF Walk
  <2>6. \A t \in D : a[t] \subseteq a[q] \cup Elements(g[t])
    <3>1. \A t \in D : a[t] \subseteq a[q] \cup Elements([u \in D |-> g[u]][t])
      BY <1>d, <2>1, <2>3, <2>5 DEF WellFounded
    <3> QED BY <3>1
  <2>7. CASE s \in D
    <3>1. b[s] = a[s] BY <2>2, <2>7
    <3>2. a[s] \subseteq a[q] \cup Elements(g[s]) BY <2>6, <2>7
    <3> QED BY <2>3, <3>1, <3>2
  <2>8. CASE s = N /\ r = N BY <2>8
  <2>9. CASE s = N /\ r # N
    <3>1. N \notin b[r]
      <4>1. a[r] \subseteq 1..r BY <1>d, <2>1, <2>9 DEF WellFounded
      <4>2. N \notin 1..r BY <1>1, <2>9 DEF D
      <4>3. b[r] = a[r] BY <2>2, <2>9
      <4> QED BY <4>1, <4>2, <4>3
    <3>2. g[N] = Append(g[p], N) BY <1>7, <1>16, <3>1
    <3>3. g[p] \in Seq(Nat) BY <1>1, <1>15, <1>16
    <3>4. Elements(g[N]) = Elements(g[p]) \cup {N} BY <1>1, <3>2, <3>3, ElementsAppend
    <3>5. a[p] \subseteq a[q] \cup Elements(g[p]) BY <1>1, <2>6
    <3> QED BY <2>2, <2>3, <2>9, <3>4, <3>5
  <2> QED BY <2>7, <2>8, <2>9
<1>17. WellFounded(next)
  <2>1. 0..Len(next) = D \cup {N} BY <1>1, <1>2
  <2>2. \A a, b : Ancestry(next, a) /\ Ancestry(next, b) => a = b BY <1>11
  <2>3. \A a : Ancestry(next, a) => \A s \in D \cup {N} : a[s] \subseteq 1..s BY <1>12
  <2>4. \A past, f, g : Walk(next, past, f) /\ Walk(next, past, g) => f = g BY <1>14
  <2>5. \A past, f : Walk(next, past, f) => \A s \in D \cup {N} : f[s] \in Seq(Nat) BY <1>15
  <2>6. \A a, f : \A b \in D \cup {N} :
          Ancestry(next, a) /\ Walk(next, a[b], f) => \A s \in D \cup {N} : a[s] \subseteq a[b] \cup Elements(f[s])
    BY <1>16
  <2> QED BY <1>10, <1>13, <2>1, <2>2, <2>3, <2>4, <2>5, <2>6 DEF WellFounded
<1> QED BY <1>6, <1>9, <1>17 DEF D, p, WalksGrow

(* The walks of the model. *)
LEMMA AncestorsGiven ==
  ASSUME WellFounded(objects)
  PROVE  Ancestry(objects, Ancestors)
BY DEF WellFounded, Ancestry, Ancestors, Shas

LEMMA AncestorsGivenNext ==
  ASSUME WellFounded(objects')
  PROVE  Ancestry(objects', Ancestors')
BY DEF WellFounded, Ancestry, Ancestors, Shas

LEMMA AfterGiven ==
  ASSUME WellFounded(objects), NEW base
  PROVE  \E f : Walk(objects, Ancestors[base], f) /\ \A tip : After(base, tip) = f[tip]
<1> DEFINE f == CHOOSE g : Walk(objects, Ancestors[base], g)
<1>1. Walk(objects, Ancestors[base], f) BY DEF WellFounded
<1>2. ASSUME NEW tip PROVE After(base, tip) = f[tip] BY DEF After, Walk, Shas
<1> QED BY <1>1, <1>2

LEMMA AfterGivenNext ==
  ASSUME WellFounded(objects'), NEW base
  PROVE  \E f : Walk(objects', Ancestors'[base], f) /\ \A tip : After(base, tip)' = f[tip]
<1> DEFINE f == CHOOSE g : Walk(objects', Ancestors'[base], g)
<1>1. Walk(objects', Ancestors'[base], f) BY DEF WellFounded
<1>2. ASSUME NEW tip PROVE After(base, tip)' = f[tip] BY DEF After, Walk, Shas
<1> QED BY <1>1, <1>2

LEMMA AncestorsFacts ==
  ASSUME WellFounded(objects)
  PROVE  \A s \in Shas : /\ Ancestors[s] = IF s = 0 THEN {} ELSE Ancestors[objects[s].parent] \cup {s}
                         /\ Ancestors[s] \subseteq 1..s
BY AncestorsGiven, AncestryAt DEF Shas, WellFounded

LEMMA AfterFacts ==
  ASSUME WellFounded(objects), NEW b \in Shas, NEW t \in Shas
  PROVE  /\ After(b, t) = IF t \in Ancestors[b] \cup {0} THEN <<>> ELSE Append(After(b, objects[t].parent), t)
         /\ After(b, t) \in Seq(Nat)
         /\ Ancestors[t] \subseteq Ancestors[b] \cup Elements(After(b, t))
<1>1. PICK f : Walk(objects, Ancestors[b], f) /\ \A tip : After(b, tip) = f[tip] BY AfterGiven
<1>2. f[t] = IF t \in Ancestors[b] \cup {0} THEN <<>> ELSE Append(f[objects[t].parent], t)
  BY <1>1, WalkAt DEF Shas
<1>3. f[t] \in Seq(Nat) BY <1>1 DEF WellFounded, Shas
<1>4. Ancestors[t] \subseteq Ancestors[b] \cup Elements(f[t])
  BY <1>1, AncestorsGiven DEF WellFounded, Shas
<1> QED BY <1>1, <1>2, <1>3, <1>4

(* What one commit on top of the head adds to the walks. *)
LEMMA CommitWalks ==
  ASSUME TypeOK, WellFounded(objects), NEW c \in Objects, c.parent = head, objects' = Append(objects, c),
         NEW N, N = Len(objects) + 1
  PROVE  /\ WellFounded(objects')
         /\ Shas' = Shas \cup {N} /\ N \notin Shas
         /\ \A s \in Shas : Ancestors'[s] = Ancestors[s]
         /\ Ancestors'[N] = Ancestors[head] \cup {N}
         /\ \A b \in Shas, t \in Shas : After(b, t)' = After(b, t)
         /\ \A b \in Shas : After(b, N)' = Append(After(b, head), N)
         /\ \A t \in Shas : After(N, t)' = After(head, t)
         /\ After(N, N)' = <<>>
<1>1. /\ objects \in Seq(Objects) /\ Len(objects) \in Nat /\ head \in Shas /\ 0 \in Shas
      /\ DOMAIN objects = 1..Len(objects) /\ Shas = 0..Len(objects)
  BY ShasFacts DEF TypeOK, Shas
<1>2. \A s \in 1..Len(objects) : objects[s].parent \in 0..Len(objects)
  <2>1. \A s \in 1..Len(objects) : objects[s] \in Objects BY <1>1, ElementOfSeq
  <2>2. \A s \in 1..Len(objects) : objects[s].parent \in Nat BY <2>1 DEF Objects
  <2>3. \A s \in 1..Len(objects) : objects[s].parent < s BY <1>1 DEF TypeOK
  <2> QED BY <1>1, <2>2, <2>3
<1>3. WellFounded(objects') /\ WalksGrow(objects, objects', head, N)
  <2>1. c \in Objects /\ objects \in Seq(Objects) /\ c.parent \in 0..Len(objects) BY <1>1
  <2> QED BY <1>2, <2>1, NextCommit
<1>4. WellFounded(objects') BY <1>3
<1>5. Shas' = Shas \cup {N} /\ N \notin Shas
  <2>1. Len(objects') = N BY <1>1, AppendProperties
  <2> QED BY <1>1, <2>1 DEF Shas
<1>6. Ancestors'[N] = Ancestors[head] \cup {N} /\ \A s \in Shas : Ancestors'[s] = Ancestors[s]
  BY <1>1, <1>3, <1>4, AncestorsGiven, AncestorsGivenNext DEF WalksGrow
<1>7. \A s \in Shas : Ancestors[s] \subseteq Shas
  <2>1. \A s \in Shas : Ancestors[s] \subseteq 1..s BY AncestorsFacts
  <2>2. \A s \in Shas : 1..s \subseteq Shas BY <1>1
  <2> QED BY <2>1, <2>2
<1>8. ASSUME NEW b \in Shas
      PROVE  (\A t \in Shas : After(b, t)' = After(b, t)) /\ After(b, N)' = Append(After(b, head), N)
  <2>1. PICK f : Walk(objects, Ancestors[b], f) /\ \A t : After(b, t) = f[t] BY AfterGiven
  <2>2. PICK g : Walk(objects', Ancestors'[b], g) /\ \A t : After(b, t)' = g[t] BY <1>4, AfterGivenNext
  <2>3. Ancestors'[b] = Ancestors[b] /\ N \notin Ancestors[b] BY <1>5, <1>6, <1>7, <1>8
  <2>4. /\ g[N] = IF N \in Ancestors[b] THEN <<>> ELSE Append(f[head], N)
        /\ \A t \in Shas : g[t] = f[t]
    <3>1. Walk(objects', Ancestors[b], g) BY <2>2, <2>3
    <3> QED BY <1>1, <1>3, <2>1, <3>1 DEF WalksGrow
  <2> QED BY <1>1, <2>1, <2>2, <2>3, <2>4
<1>9. (\A t \in Shas : After(N, t)' = After(head, t)) /\ After(N, N)' = <<>>
  <2>1. PICK f : Walk(objects, Ancestors[head], f) /\ \A t : After(head, t) = f[t] BY AfterGiven
  <2>2. PICK g : Walk(objects', Ancestors'[N], g) /\ \A t : After(N, t)' = g[t] BY <1>4, AfterGivenNext
  <2>3. Walk(objects, Ancestors'[N], f)
    <3>1. \A s \in 0..Len(objects) : s \in Ancestors'[N] \cup {0} <=> s \in Ancestors[head] \cup {0} BY <1>1, <1>5, <1>6
    <3>2. f = [s \in 0..Len(objects) |-> IF s \in Ancestors[head] \cup {0} THEN <<>> ELSE Append(f[objects[s].parent], s)]
      BY <2>1 DEF Walk
    <3>3. [s \in 0..Len(objects) |-> IF s \in Ancestors[head] \cup {0} THEN <<>> ELSE Append(f[objects[s].parent], s)]
          = [s \in 0..Len(objects) |-> IF s \in Ancestors'[N] \cup {0} THEN <<>> ELSE Append(f[objects[s].parent], s)]
      BY <3>1
    <3>4. f = [s \in 0..Len(objects) |-> IF s \in Ancestors'[N] \cup {0} THEN <<>> ELSE Append(f[objects[s].parent], s)]
      BY <3>2, <3>3
    <3> QED BY <3>4 DEF Walk
  <2>4. (\A t \in Shas : g[t] = f[t]) /\ g[N] = <<>> BY <1>1, <1>3, <1>6, <2>2, <2>3 DEF WalksGrow
  <2> QED BY <2>1, <2>2, <2>4
<1> QED BY <1>4, <1>5, <1>6, <1>8, <1>9

-----------------------------------------------------------------------------
(* The commits of the user                                                  *)

UserFree(points) == \A i \in DOMAIN points : points[i] \in DOMAIN objects => objects[points[i]].by # "user"

(* Checkpoints that a base and a tip reproduce are not the user's; a record without a base may still
   get any. *)
RecordGood(o) ==
  \A b \in Shas \ {0}, t \in Shas : (b = o.base \/ o.base = 0) /\ After(b, t) = o.points => UserFree(o.points)

(* A commit that, on its own after the base, is one of the workflow. *)
Beyond(s) == s \in DOMAIN objects /\ own.base # 0 /\ s > own.base /\ (ByWorkflow(s) \/ objects[s].parent > own.base)

HoldsUserCommits(s) == \A u \in DOMAIN objects : objects[u].by = "user" => u \in Ancestors[s]

Recorded(k) == eff[k].st = "succeeded" /\ eff[k].res = "ok"

(* What the ledger and the job know of the commits they name. *)
CommitsTold ==
  /\ Recorded("commit") => eff["commit"].sha \in DOMAIN objects /\ ByWorkflow(eff["commit"].sha)
  /\ Recorded("squash") => Beyond(eff["squash"].sha)
  /\ eff["squash"].receipt => eff["squash"].st \notin {"none", "planned"} /\ Beyond(head)

JobTold ==
  /\ job.pc = "settle" /\ job.fx = "commit" /\ job.res = "ok" => ByWorkflow(head)
  /\ job.pc = "settle" /\ job.fx = "squash" /\ job.res = "ok" => eff["squash"].receipt
  /\ job.pc = "after" /\ job.fx \in {"commit", "squash"} /\ job.res = "ok" => Recorded(job.fx)
  /\ job.pc \in Squashing => ~eff["squash"].receipt
  /\ job.pc = "squash-receipt" => Beyond(head)
  /\ job.pc = "squash-commit" =>
       /\ head = own.base /\ own.points # <<>> /\ own.points[Len(own.points)] \in DOMAIN objects
       /\ HoldsUserCommits(own.points[Len(own.points)])

HistoryGood == WellFounded(objects) /\ UserCommitsKept
RecordsGood == RecordGood(own) /\ RecordGood(asked.prev)
KeptInv == HistoryGood /\ RecordsGood /\ CommitsTold /\ JobTold

(* A record keeps its checkpoints, and its base once it has one. *)
LEMMA SameRecord ==
  ASSUME UNCHANGED objects, NEW o, NEW p, RecordGood(o), p.points = o.points, p.base = o.base \/ o.base = 0
  PROVE  RecordGood(p)'
<1>1. Shas' = Shas BY DEF Shas
<1>2. \A b, t : After(b, t)' = After(b, t) BY <1>1 DEF After, Ancestors
<1>3. SUFFICES ASSUME NEW b \in Shas \ {0}, NEW t \in Shas, b = p.base \/ p.base = 0, After(b, t) = p.points
               PROVE  UserFree(p.points)'
  BY <1>1, <1>2 DEF RecordGood
<1>4. UserFree(o.points) BY <1>3 DEF RecordGood
<1> QED BY <1>4 DEF UserFree

LEMMA EmptyRecord ==
  ASSUME NEW o, o.points = <<>>
  PROVE  RecordGood(o)'
BY DEF RecordGood, UserFree

(* A record whose checkpoints are none of the user. *)
LEMMA FreeRecord ==
  ASSUME NEW o, UserFree(o.points)'
  PROVE  RecordGood(o)'
BY DEF RecordGood

LEMMA Parents ==
  ASSUME TypeOK, NEW s \in DOMAIN objects
  PROVE  objects[s].parent \in Shas /\ s \in Shas /\ s # 0
<1>1. objects \in Seq(Objects) /\ objects[s].parent < s BY DEF TypeOK
<1>2. DOMAIN objects = 1..Len(objects) /\ Len(objects) \in Nat BY ShasFacts
<1>3. objects[s] \in Objects BY <1>1, <1>2, ElementOfSeq
<1>4. objects[s].parent \in Nat BY <1>3 DEF Objects
<1> QED BY <1>1, <1>2, <1>4 DEF Shas

(* A record stays good when a commit is added on top of the head. *)
LEMMA RecordGrows ==
  ASSUME TypeOK, WellFounded(objects), NEW c \in Objects, c.parent = head, objects' = Append(objects, c),
         NEW o \in Owns, RecordGood(o)
  PROVE  RecordGood(o)'
<1> DEFINE M == Len(objects) + 1
<1>1. PICK N : N = M OBVIOUS
<1>2. /\ Shas' = Shas \cup {N} /\ N \notin Shas
      /\ \A b \in Shas, t \in Shas : After(b, t)' = After(b, t)
      /\ \A b \in Shas : After(b, N)' = Append(After(b, head), N)
      /\ \A t \in Shas : After(N, t)' = After(head, t)
      /\ After(N, N)' = <<>>
  BY <1>1, CommitWalks
<1>3. o.base \in Shas /\ o.points \in Seq(Shas) BY DEF Owns
<1>4. UserFree(o.points) => UserFree(o.points)'
  <2>1. \A i \in DOMAIN o.points : o.points[i] \in Shas BY <1>3, ElementOfSeq, LenProperties
  <2>2. DOMAIN objects' = DOMAIN objects \cup {N} /\ \A s \in DOMAIN objects : objects'[s] = objects[s]
    <3>1. objects \in Seq(Objects) BY DEF TypeOK
    <3>2. DOMAIN objects = 1..Len(objects) /\ Len(objects) \in Nat BY ShasFacts
    <3>3. DOMAIN objects' = 1..N BY <1>1, <3>1, AppendProperties, LenProperties
    <3> QED BY <1>1, <3>1, <3>2, <3>3, AppendProperties
  <2> QED BY <1>2, <2>1, <2>2 DEF UserFree
<1>5. SUFFICES ASSUME NEW b \in Shas' \ {0}, NEW t \in Shas', b = o.base \/ o.base = 0, After(b, t)' = o.points
               PROVE  UserFree(o.points)'
  BY DEF RecordGood
<1>6. head \in Shas \ {0}
  <2>1. head \in DOMAIN objects BY DEF TypeOK
  <2> QED BY <2>1, Parents
<1>7. CASE b \in Shas /\ t \in Shas
  <2>1. After(b, t) = o.points BY <1>2, <1>5, <1>7
  <2> QED BY <1>4, <1>5, <1>7, <2>1 DEF RecordGood
<1>8. CASE b \in Shas /\ t = N
  <2>1. o.points = Append(After(b, head), N) BY <1>2, <1>5, <1>8
  <2>2. After(b, head) \in Seq(Nat) BY <1>6, <1>8, AfterFacts
  <2>3. N \in Nat BY <1>1, ShasFacts
  <2>4. Len(o.points) = Len(After(b, head)) + 1 /\ o.points[Len(o.points)] = N BY <2>1, <2>2, <2>3, AppendProperties
  <2>5. Len(o.points) \in 1..Len(o.points) BY <2>2, <2>4, LenProperties
  <2>6. o.points[Len(o.points)] \in Shas BY <1>3, <2>5, ElementOfSeq
  <2> QED BY <1>2, <2>4, <2>6
<1>9. CASE b = N /\ t \in Shas
  <2>1. o.base = 0 BY <1>2, <1>3, <1>5, <1>9
  <2>2. After(head, t) = o.points BY <1>2, <1>5, <1>9
  <2> QED BY <1>4, <1>6, <1>9, <2>1, <2>2 DEF RecordGood
<1>10. CASE b = N /\ t = N
  <2>1. o.points = <<>> BY <1>2, <1>5, <1>10
  <2> QED BY <2>1 DEF UserFree
<1> QED BY <1>2, <1>7, <1>8, <1>9, <1>10

(* A checkpoint of the workflow is added to a record. *)
LEMMA RecordPoint ==
  ASSUME TypeOK, WellFounded(objects), UNCHANGED objects, NEW o \in Owns, RecordGood(o),
         NEW sha \in DOMAIN objects, ByWorkflow(sha),
         NEW p, p.points = Append(o.points, sha), p.base = o.base \/ o.base = 0
  PROVE  RecordGood(p)'
<1>1. Shas' = Shas BY DEF Shas
<1>2. \A b, t : After(b, t)' = After(b, t) BY <1>1 DEF After, Ancestors
<1>3. SUFFICES ASSUME NEW b \in Shas \ {0}, NEW t \in Shas, b = p.base \/ p.base = 0, After(b, t) = p.points
               PROVE  UserFree(p.points)'
  BY <1>1, <1>2 DEF RecordGood
<1>4. o.points \in Seq(Shas) /\ sha \in Shas BY Parents DEF Owns
<1>5. o.points \in Seq(Nat) /\ sha \in Nat /\ t \in Nat
  <2>1. Shas \subseteq Nat BY DEF Shas
  <2> QED BY <1>4, <2>1
<1>6. p.points # <<>> BY <1>5, AppendProperties
<1>7. t \in DOMAIN objects /\ p.points = Append(After(b, objects[t].parent), t)
  <2>1. t # 0 /\ p.points = Append(After(b, objects[t].parent), t) BY <1>3, <1>6, AfterFacts
  <2> QED BY <2>1, ShasFacts
<1>8. objects[t].parent \in Shas BY <1>7, Parents
<1>9. After(b, objects[t].parent) = o.points
  <2>1. After(b, objects[t].parent) \in Seq(Nat) BY <1>8, AfterFacts
  <2>2. PICK q \in Seq(Nat) : q = After(b, objects[t].parent) BY <2>1
  <2>3. PICK r \in Seq(Nat) : r = o.points BY <1>5
  <2>4. Append(q, t) = Append(r, sha) BY <1>7, <2>2, <2>3
  <2>5. q = r BY <1>5, <2>4, AppendInjective
  <2> QED BY <2>2, <2>3, <2>5
<1>10. UserFree(o.points) BY <1>3, <1>8, <1>9 DEF RecordGood
<1>11. \A i \in DOMAIN p.points : (i \in DOMAIN o.points /\ p.points[i] = o.points[i]) \/ p.points[i] = sha
  <2>1. Len(p.points) = Len(o.points) + 1 /\ Len(o.points) \in Nat BY <1>5, AppendProperties, LenProperties
  <2>2. DOMAIN p.points = 1..Len(p.points) /\ DOMAIN o.points = 1..Len(o.points) BY <1>5, AppendProperties, LenProperties
  <2>3. p.points[Len(o.points) + 1] = sha BY <1>5, AppendProperties
  <2>4. \A i \in 1..Len(o.points) : p.points[i] = o.points[i] BY <1>5, AppendProperties
  <2> QED BY <2>1, <2>2, <2>3, <2>4
<1> QED BY <1>10, <1>11 DEF UserFree, ByWorkflow

(* The one checkpoint of a squash. *)
LEMMA RecordSquash ==
  ASSUME TypeOK, WellFounded(objects), UNCHANGED objects, NEW sha, Beyond(sha), own.base \in Shas,
         NEW p, p.points = <<sha>>, p.base = own.base
  PROVE  RecordGood(p)'
<1>1. Shas' = Shas BY DEF Shas
<1>2. \A b, t : After(b, t)' = After(b, t) BY <1>1 DEF After, Ancestors
<1>3. SUFFICES ASSUME NEW t \in Shas, After(own.base, t) = <<sha>>
               PROVE  UserFree(p.points)'
  BY <1>1, <1>2 DEF RecordGood, Beyond
<1>4. t \in DOMAIN objects /\ <<sha>> = Append(After(own.base, objects[t].parent), t)
  <2>1. After(own.base, t) # <<>> BY <1>3
  <2>2. t \notin Ancestors[own.base] \cup {0} /\ <<sha>> = Append(After(own.base, objects[t].parent), t)
    BY <1>3, <2>1, AfterFacts
  <2> QED BY <2>2, ShasFacts
<1>5. objects[t].parent \in Shas BY <1>4, Parents
<1>6. sha = t /\ After(own.base, objects[t].parent) = <<>>
  <2>1. After(own.base, objects[t].parent) \in Seq(Nat) /\ <<>> \in Seq(Nat) BY <1>5, AfterFacts
  <2>2. t \in Nat /\ sha \in Nat BY <1>3, ShasFacts DEF Shas, Beyond
  <2>3. <<sha>> = Append(<<>>, sha) OBVIOUS
  <2> QED BY <1>4, <2>1, <2>2, <2>3, AppendInjective
<1>7. objects[t].parent \in Ancestors[own.base] \cup {0}
  <2>1. After(own.base, objects[t].parent) =
          IF objects[t].parent \in Ancestors[own.base] \cup {0} THEN <<>>
          ELSE Append(After(own.base, objects[objects[t].parent].parent), objects[t].parent)
    BY <1>5, AfterFacts
  <2> SUFFICES ASSUME objects[t].parent \notin Ancestors[own.base] \cup {0} PROVE FALSE OBVIOUS
  <2>2. objects[t].parent \in DOMAIN objects BY <1>5, ShasFacts
  <2>3. objects[objects[t].parent].parent \in Shas BY <2>2, Parents
  <2>4. After(own.base, objects[objects[t].parent].parent) \in Seq(Nat) BY <2>3, AfterFacts
  <2>5. objects[t].parent \in Nat BY <1>5 DEF Shas
  <2> QED BY <1>6, <2>1, <2>4, <2>5, AppendProperties
<1>8. objects[t].parent <= own.base
  <2>1. Ancestors[own.base] \subseteq 1..own.base BY AncestorsFacts
  <2>2. own.base \in Nat BY DEF Shas
  <2> QED BY <1>7, <2>1, <2>2
<1>9. ByWorkflow(sha) BY <1>5, <1>6, <1>8 DEF Beyond, Shas
<1> QED BY <1>9 DEF UserFree, ByWorkflow

-----------------------------------------------------------------------------
(* What keeps the invariant                                                 *)

LEMMA HistoryStays ==
  ASSUME HistoryGood, UNCHANGED <<objects, head>>
  PROVE  HistoryGood'
BY DEF HistoryGood, UserCommitsKept, Ancestors, Shas

(* A job that carries out no squash and brings no result of a commit or squash. *)
Telling ==
  \/ job.pc \in Squashing
  \/ job.pc \in {"settle", "after"} /\ job.fx \in {"commit", "squash"} /\ job.res = "ok"

LEMMA NothingTold ==
  ASSUME ~Telling'
  PROVE  JobTold'
BY DEF Telling, JobTold, Squashing

LEMMA SameCommits ==
  ASSUME TypeOK, CommitsTold, UNCHANGED <<objects, head>>, own'.base = own.base \/ own.base = 0,
         \A k \in {"commit", "squash"} : eff'[k].st = "succeeded" => eff'[k] = eff[k],
         eff'["squash"].receipt => eff["squash"].receipt /\ eff'["squash"].st \notin {"none", "planned"}
  PROVE  CommitsTold'
<1>1. \A s : Beyond(s) => Beyond(s)' BY DEF Beyond, ByWorkflow
<1>2. Recorded("commit")' => Recorded("commit") /\ eff'["commit"] = eff["commit"] BY DEF Recorded
<1>3. Recorded("squash")' => Recorded("squash") /\ eff'["squash"] = eff["squash"] BY DEF Recorded
<1>4. Recorded("commit")' => eff'["commit"].sha \in DOMAIN objects' /\ ByWorkflow(eff["commit"].sha)'
  BY <1>2 DEF CommitsTold, ByWorkflow
<1>5. Recorded("squash")' => Beyond(eff["squash"].sha)'
  <2> SUFFICES ASSUME Recorded("squash")' PROVE Beyond(eff["squash"].sha)' OBVIOUS
  <2>1. PICK s : s = eff["squash"].sha OBVIOUS
  <2>2. Beyond(s)' BY <1>1, <1>3, <2>1 DEF CommitsTold
  <2>3. eff'["squash"].sha = s BY <1>3, <2>1
  <2> QED BY <2>2, <2>3 DEF Beyond, ByWorkflow
<1>6. eff'["squash"].receipt => Beyond(head)'
  <2>1. PICK s : s = head OBVIOUS
  <2>2. eff'["squash"].receipt => Beyond(s)' BY <1>1, <2>1 DEF CommitsTold
  <2> QED BY <2>1, <2>2 DEF Beyond, ByWorkflow
<1>7. Recorded("commit")' => (eff["commit"].sha \in DOMAIN objects /\ ByWorkflow(eff["commit"].sha))'
  BY <1>2 DEF CommitsTold, ByWorkflow
<1> QED BY <1>5, <1>6, <1>7 DEF CommitsTold

SameRecords ==
  /\ own'.points = own.points /\ (own'.base = own.base \/ own.base = 0)
  /\ asked'.prev \in {asked.prev, own, NoOwn}

LEMMA RecordsStay ==
  ASSUME RecordsGood, UNCHANGED objects, SameRecords
  PROVE  RecordsGood'
<1>1. RecordGood(own) /\ RecordGood(asked.prev) BY DEF RecordsGood
<1>2. RecordGood(own)'
  <2>1. PICK o : o = own OBVIOUS
  <2>2. PICK p : p = own' OBVIOUS
  <2>3. RecordGood(p)' BY <1>1, <2>1, <2>2, SameRecord DEF SameRecords
  <2> QED BY <2>2, <2>3
<1>3. RecordGood(asked.prev)'
  <2>1. PICK p : p = asked'.prev OBVIOUS
  <2>2. PICK o : o = own OBVIOUS
  <2>3. PICK q : q = asked.prev OBVIOUS
  <2>4. CASE p = o BY <1>1, <2>1, <2>2, <2>4, SameRecord
  <2>5. CASE p = q BY <1>1, <2>1, <2>3, <2>5, SameRecord
  <2>6. CASE p = NoOwn BY <2>1, <2>6, EmptyRecord DEF NoOwn
  <2> QED BY <2>1, <2>2, <2>3, <2>4, <2>5, <2>6 DEF SameRecords
<1> QED BY <1>2, <1>3 DEF RecordsGood

SameLedger ==
  /\ \A k \in {"commit", "squash"} : eff'[k].st = "succeeded" => eff'[k] = eff[k]
  /\ eff'["squash"].receipt => eff["squash"].receipt /\ eff'["squash"].st \notin {"none", "planned"}

(* A step that moves neither git nor what is known of it. *)
LEMMA Quiet ==
  ASSUME IInv, KeptInv, UNCHANGED <<objects, head>>, SameRecords, SameLedger
  PROVE  HistoryGood' /\ RecordsGood' /\ CommitsTold'
<1>1. HistoryGood' BY HistoryStays DEF KeptInv
<1>2. RecordsGood' BY RecordsStay DEF KeptInv
<1>3. CommitsTold' BY SameCommits DEF IInv, KeptInv, SameRecords, SameLedger
<1> QED BY <1>1, <1>2, <1>3

LEMMA QuietMove ==
  ASSUME IInv, KeptInv, UNCHANGED <<objects, head, own, eff>>, asked'.prev \in {asked.prev, own, NoOwn}, ~Telling'
  PROVE  KeptInv'
<1>1. SameRecords BY DEF SameRecords
<1>2. SameLedger BY DEF SameLedger, KeptInv, CommitsTold
<1>3. HistoryGood' /\ RecordsGood' /\ CommitsTold' BY <1>1, <1>2, Quiet
<1> QED BY <1>3, NothingTold DEF KeptInv

Silent == Places \ (Squashing \cup {"settle", "after"})

LEMMA GoesSilent ==
  ASSUME job'.pc \in Silent
  PROVE  ~Telling'
BY DEF Silent, Telling

LEMMA OffSilent ==
  ASSUME TypeOK, job' = Off
  PROVE  job'.pc \in Silent
BY OffFields DEF Silent, Places, Squashing

LEMMA ThrowQuiet ==
  ASSUME TypeOK, Throw
  PROVE  job'.pc \in Silent /\ asked'.prev = asked.prev
<1>1. asked' = asked \/ asked' = [asked EXCEPT !.u = job.u] BY DEF Throw
<1>2. asked'.prev = asked.prev BY <1>1 DEF TypeOK, Asks
<1> QED BY <1>2, OffSilent DEF Throw

(* A run up to the decision about the commit. *)
LEMMA KeepsApply ==
  ASSUME IInv, KeptInv,
         Artifact \/ Plan \/ Inspect \/ Backup \/ WriteOne \/ WriteFails \/ ChecksFail \/ ChecksPass \/ ApplyReceipt
         \/ UndoOne \/ AfterApply \/ FailedChecks
  PROVE  KeptInv'
<1>1. TypeOK /\ job \in Jobs /\ EffectOK BY DEF IInv, TypeOK
<1>2. UNCHANGED <<objects, head, own, eff>>
  BY DEF Artifact, Plan, Inspect, Backup, WriteOne, WriteFails, ChecksFail, Catch, ChecksPass, ApplyReceipt, UndoOne,
         AfterApply, FailedChecks, project
<1>3. asked'.prev \in {asked.prev, own, NoOwn}
  <2>1. CASE Plan BY <2>1 DEF Plan, Wait, NoAsk
  <2>2. CASE Inspect BY <1>1, <2>2, ThrowQuiet DEF Inspect
  <2>3. CASE FailedChecks BY <2>3 DEF FailedChecks, Wait
  <2>4. CASE Artifact \/ Backup \/ WriteOne \/ WriteFails \/ ChecksFail \/ ChecksPass \/ ApplyReceipt \/ UndoOne \/ AfterApply
    BY <2>4 DEF Artifact, Backup, WriteOne, WriteFails, ChecksFail, Catch, ChecksPass, ApplyReceipt, UndoOne, AfterApply
  <2> QED BY <2>1, <2>2, <2>3, <2>4
<1>4. ~Telling'
  <2>1. CASE Artifact
    <3>1. job'.pc \in Silent BY <1>1, <2>1, OffSilent DEF Artifact, Goto, Jobs, Silent, Places, Squashing
    <3> QED BY <3>1, GoesSilent
  <2>2. CASE Plan
    <3>1. job'.pc \in Silent BY <1>1, <2>2, OffSilent DEF Plan, Wait, Goto, Jobs, Silent, Places, Squashing
    <3> QED BY <3>1, GoesSilent
  <2>3. CASE Inspect
    <3>1. Throw \/ job'.pc = "begin" BY <1>1, <2>3 DEF Inspect, Jobs
    <3>2. job'.pc \in Silent BY <1>1, <3>1, ThrowQuiet DEF Silent, Places, Squashing
    <3> QED BY <3>2, GoesSilent
  <2>4. CASE Backup \/ ChecksPass
    <3>1. job'.pc \in {"write", "receipt"} BY <1>1, <2>4 DEF Backup, ChecksPass, Goto, Jobs
    <3>2. job'.pc \in Silent BY <3>1 DEF Silent, Places, Squashing
    <3> QED BY <3>2, GoesSilent
  <2>5. CASE WriteOne
    <3>1. job'.pc \in {"write", "checks"} BY <1>1, <2>5 DEF WriteOne, Jobs
    <3>2. job'.pc \in Silent BY <3>1 DEF Silent, Places, Squashing
    <3> QED BY <3>2, GoesSilent
  <2>6. CASE WriteFails \/ ChecksFail \/ ApplyReceipt
    <3>1. job.fx = "apply" BY <1>1, <2>6 DEF WriteFails, ChecksFail, ApplyReceipt, Here, EffectOK, Applying
    <3>2. job'.fx = "apply" /\ job'.pc \in {"undo", "settle"}
      BY <1>1, <2>6, <3>1 DEF WriteFails, ChecksFail, Catch, ApplyReceipt, Done, Jobs
    <3> QED BY <3>2 DEF Telling, Squashing
  <2>7. CASE UndoOne
    <3>1. job.pc = "undo" /\ job.fx \in {"apply", "revert"} BY <1>1, <2>7 DEF UndoOne, Here, EffectOK
    <3>2. job'.fx = job.fx /\ job'.pc \in {"undo", "settle"} BY <1>1, <2>7, <3>1 DEF UndoOne, Jobs
    <3> QED BY <3>1, <3>2 DEF Telling, Squashing
  <2>8. CASE AfterApply
    <3>1. job' = Off \/ Goto("commit") \/ Goto("capture") BY <2>8 DEF AfterApply
    <3>2. job'.pc \in Silent BY <1>1, <3>1, OffSilent DEF Goto, Jobs, Silent, Places, Squashing
    <3> QED BY <3>2, GoesSilent
  <2>9. CASE FailedChecks BY <1>1, <2>9, OffSilent, GoesSilent DEF FailedChecks, Wait
  <2> QED BY <2>1, <2>2, <2>3, <2>4, <2>5, <2>6, <2>7, <2>8, <2>9
<1> QED BY <1>2, <1>3, <1>4, QuietMove

(* The run around its commit, and its end. *)
LEMMA KeepsRun ==
  ASSUME IInv, KeptInv,
         PromptAnswers \/ PromptFails \/ AfterPrompt \/ Approved \/ Complete \/ Finish \/ Reverted \/ FinalizeStep
         \/ Restore \/ RestoreOne
  PROVE  KeptInv'
<1>1. TypeOK /\ job \in Jobs /\ EffectOK BY DEF IInv, TypeOK
<1>2. UNCHANGED <<objects, head, own, eff>>
  BY DEF PromptAnswers, PromptFails, Prompted, AfterPrompt, Approved, Complete, Finish, Reverted, FinalizeStep,
         Restore, RestoreOne, project
<1>3. CASE PromptAnswers \/ PromptFails
  <2>1. job.fx = "prompt" BY <1>1, <1>3 DEF PromptAnswers, PromptFails, Prompted, Here, EffectOK
  <2>2. job'.fx = "prompt" /\ job'.pc = "settle"
    BY <1>1, <1>3, <2>1 DEF PromptAnswers, PromptFails, Prompted, Done, Jobs
  <2>3. ~Telling' BY <2>2 DEF Telling, Squashing
  <2>4. asked' = asked BY <1>3 DEF PromptAnswers, PromptFails, Prompted
  <2> QED BY <1>2, <2>3, <2>4, QuietMove
<1>4. CASE AfterPrompt
  <2>1. Throw \/ ((Goto("message") \/ Goto("complete")) /\ asked' = asked) BY <1>4 DEF AfterPrompt, CommitThrows
  <2>2. job'.pc \in Silent /\ asked'.prev = asked.prev
    BY <1>1, <2>1, ThrowQuiet DEF Goto, Jobs, Silent, Places, Squashing
  <2> QED BY <1>2, <2>2, GoesSilent, QuietMove
<1>5. CASE Approved
  <2>1. Throw \/ (Do("commit") /\ asked' = asked) BY <1>5 DEF Approved
  <2>2. job'.pc \in Silent /\ asked'.prev = asked.prev
    BY <1>1, <2>1, ThrowQuiet DEF Do, Jobs, Silent, Places, Squashing
  <2> QED BY <1>2, <2>2, GoesSilent, QuietMove
<1>6. CASE FinalizeStep
  <2>1. \/ Throw
        \/ asked' = asked /\ (Goto("finish") \/ Do("squash") \/ job'.pc \in {"finish", "begin"})
    BY <1>1, <1>6 DEF FinalizeStep, Jobs
  <2>2. job'.pc \in Silent /\ asked'.prev = asked.prev
    BY <1>1, <2>1, ThrowQuiet DEF Do, Goto, Jobs, Silent, Places, Squashing
  <2> QED BY <1>2, <2>2, GoesSilent, QuietMove
<1>7. CASE Complete \/ Finish \/ Reverted \/ Restore \/ RestoreOne
  <2>1. asked' = asked BY <1>7 DEF Complete, Finish, Reverted, Restore, RestoreOne
  <2>2. job'.pc \in Silent
    <3>1. CASE Complete \/ Reverted BY <1>1, <3>1 DEF Complete, Reverted, Goto, Jobs, Silent, Places, Squashing
    <3>2. CASE Finish BY <1>1, <3>2, OffSilent DEF Finish, Off, Silent, Places, Squashing
    <3>3. CASE Restore BY <1>1, <3>3 DEF Restore, Do, Jobs, Silent, Places, Squashing
    <3>4. CASE RestoreOne
      <4>1. job'.pc \in {"restore-receipt", "restoring"} BY <1>1, <3>4 DEF RestoreOne, Here, Jobs
      <4> QED BY <4>1 DEF Silent, Places, Squashing
    <3> QED BY <1>7, <3>1, <3>2, <3>3, <3>4
  <2> QED BY <1>2, <2>1, <2>2, GoesSilent, QuietMove
<1> QED BY <1>3, <1>4, <1>5, <1>6, <1>7

(* The user's decisions and edits, and the life of the daemon. *)
Decides == ChooseApprove \/ ChooseReject \/ ChooseCommit \/ ChooseNoCommit \/ ChooseFix \/ ChooseKeep
           \/ ChooseRevert \/ ChooseRetry

LEMMA KeepsDecision ==
  ASSUME IInv, KeptInv, Decides
  PROVE  KeptInv'
<1>1. TypeOK BY DEF IInv
<1>2. UNCHANGED <<objects, head, own, eff, asked>>
  BY DEF Decides, ChooseApprove, ChooseReject, ChooseCommit, ChooseNoCommit, ChooseFix, ChooseKeep, ChooseRevert,
         ChooseRetry, Choice, project
<1>3. job'.pc \in Silent
  <2>1. \A pc, by : Job(pc, by).pc = pc BY DEF Job, Off
  <2>2. Off.pc = "off" BY DEF Off
  <2>3. CASE ChooseApprove \/ ChooseCommit \/ ChooseNoCommit \/ ChooseFix \/ ChooseKeep
    <3>1. job'.pc \in {"inspect", "approved", "complete", "commit"}
      BY <2>1, <2>3 DEF ChooseApprove, ChooseCommit, ChooseNoCommit, ChooseFix, ChooseKeep, Choice
    <3> QED BY <3>1 DEF Silent, Places, Squashing
  <2>4. CASE ChooseReject BY <2>2, <2>4 DEF ChooseReject, Choice, Silent, Places, Squashing
  <2>5. CASE ChooseRevert
    <3>1. job'.pc = "begin" BY <2>5 DEF ChooseRevert, Choice, Job, Off
    <3> QED BY <3>1 DEF Silent, Places, Squashing
  <2>6. CASE ChooseRetry
    <3>1. job'.pc \in {"finalize", "off"} BY <2>6 DEF ChooseRetry, Choice, Off
    <3> QED BY <3>1 DEF Silent, Places, Squashing
  <2> QED BY <2>3, <2>4, <2>5, <2>6 DEF Decides
<1> QED BY <1>2, <1>3, GoesSilent, QuietMove

LEMMA KeepsLife ==
  ASSUME IInv, KeptInv, StopCommand \/ Activate \/ Crash \/ Restart \/ RestoreAction \/ Resume \/ Edit
  PROVE  KeptInv'
<1>1. TypeOK /\ job \in Jobs /\ PlaceOK BY DEF IInv, TypeOK
<1>2. UNCHANGED <<objects, head, own, eff, asked>>
  BY DEF StopCommand, Activate, Crash, Restart, RestoreAction, Resume, Edit, Wait, project
<1>3. job'.pc \in Silent
  <2>1. CASE StopCommand BY <1>1, <2>1 DEF StopCommand, Goto, Jobs, Silent, Places, Squashing
  <2>2. CASE Activate BY <2>2 DEF Activate, Here, Silent, Places, Squashing
  <2>3. CASE Crash BY <1>1, <2>3, OffSilent DEF Crash
  <2>4. CASE Restart
    <3>1. job.pc = "off" BY <1>1, <2>4 DEF Restart, PlaceOK
    <3>2. job' = job \/ job'.pc \in {"restore-action", "reconcile"} BY <2>4 DEF Restart, Off
    <3> QED BY <3>1, <3>2 DEF Silent, Places, Squashing
  <2>5. CASE RestoreAction BY <1>1, <2>5, OffSilent DEF RestoreAction, Wait
  <2>6. CASE Resume
    <3>1. job' = Off \/ job'.pc \in {"artifact", "finalize"} BY <2>6 DEF Resume, Wait, Off
    <3> QED BY <1>1, <3>1, OffSilent DEF Silent, Places, Squashing
  <2>7. CASE Edit BY <1>1, <2>7 DEF Edit, UserMayAct, PlaceOK, Silent, Places, Squashing
  <2> QED BY <2>1, <2>2, <2>3, <2>4, <2>5, <2>6, <2>7
<1> QED BY <1>2, <1>3, GoesSilent, QuietMove

(* What is recorded without a new checkpoint. *)
LEMMA MergedStates ==
  ASSUME TypeOK, NEW base, NEW states, own' = Merged(base, <<>>, states)
  PROVE  own'.points = own.points /\ (own'.base = own.base \/ own.base = 0)
<1>1. own.points \in Seq(Shas) BY DEF TypeOK, Owns
<1>2. own.points \o <<>> = own.points BY <1>1
<1> QED BY <1>2 DEF Merged

LEMMA KeepsRecord ==
  ASSUME IInv, KeptInv, Capture \/ MaybeCommit \/ Message
  PROVE  KeptInv'
<1>1. TypeOK /\ job \in Jobs BY DEF IInv, TypeOK
<1>2. UNCHANGED <<objects, head, eff>> BY DEF Capture, MaybeCommit, Message, project
<1>3. own'.points = own.points /\ (own'.base = own.base \/ own.base = 0)
  <2>1. own' = own \/ \E base, states : own' = Merged(base, <<>>, states)
    BY DEF Capture, MaybeCommit, Message
  <2> QED BY <1>1, <2>1, MergedStates
<1>4. asked'.prev \in {asked.prev, own, NoOwn}
  <2>1. CASE Capture BY <2>1 DEF Capture
  <2>2. CASE MaybeCommit BY <2>2 DEF MaybeCommit
  <2>3. CASE Message
    <3>1. \/ asked' = asked
          \/ asked' = [NoAsk EXCEPT !.u = job.u, !.states = job.states, !.pre = job.pre]
          \/ Throw
      BY <2>3 DEF Message, Wait, CommitThrows
    <3> QED BY <1>1, <3>1, ThrowQuiet DEF NoAsk
  <2> QED BY <2>1, <2>2, <2>3
<1>5. job'.pc \in Silent
  <2>1. CASE Capture BY <1>1, <2>1 DEF Capture, Goto, Jobs, Silent, Places, Squashing
  <2>2. CASE MaybeCommit
    <3>1. job'.pc \in {"complete", "message", "begin"} BY <1>1, <2>2 DEF MaybeCommit, Jobs
    <3> QED BY <3>1 DEF Silent, Places, Squashing
  <2>3. CASE Message
    <3>1. Throw \/ job' = Off \/ Goto("complete") \/ Do("commit") BY <2>3 DEF Message, Wait, CommitThrows
    <3> QED BY <1>1, <3>1, ThrowQuiet, OffSilent DEF Goto, Do, Jobs, Silent, Places, Squashing
  <2> QED BY <2>1, <2>2, <2>3
<1>6. SameRecords BY <1>3, <1>4 DEF SameRecords
<1>7. SameLedger BY <1>2 DEF SameLedger, KeptInv, CommitsTold
<1> QED BY <1>2, <1>5, <1>6, <1>7, GoesSilent, NothingTold, Quiet DEF KeptInv

-----------------------------------------------------------------------------
(* The steps that write the ledger                                          *)

LEMMA KeepsStart ==
  ASSUME IInv, KeptInv, Observe \/ Finalize \/ RestoreStart
  PROVE  KeptInv'
<1>1. PICK kind, u, pc : StartRun(kind, u, pc) /\ pc \in {"artifact", "finalize", "restore"}
  BY DEF Observe, Finalize, RestoreStart
<1>2. UNCHANGED <<objects, head, own>> /\ asked' = NoAsk /\ eff' = [k \in Effects |-> NoEffect]
  BY <1>1 DEF StartRun, project
<1>3. job'.pc = pc BY <1>1 DEF StartRun, Off
<1>4. ~Telling' BY <1>1, <1>3 DEF Telling, Squashing
<1>5. SameRecords BY <1>2 DEF SameRecords, NoAsk
<1>6. SameLedger BY <1>2 DEF SameLedger, Effects, NoEffect
<1> QED BY <1>2, <1>4, <1>5, <1>6, Quiet, NothingTold DEF KeptInv

LEMMA KeepsStop ==
  ASSUME IInv, KeptInv, Stop \/ ChooseStop
  PROVE  KeptInv'
<1>1. UNCHANGED <<objects, head, own, asked, job>> /\ eff' = Cancelled BY DEF Stop, ChooseStop, project
<1>2. job.pc = "off" BY DEF Stop, ChooseStop, Here
<1>3. eff \in Ledgers BY DEF IInv, TypeOK
<1>4. \A k \in {"commit", "squash"} : eff'[k] = IF eff[k].st = "planned" THEN [eff[k] EXCEPT !.st = "cancelled"] ELSE eff[k]
  BY <1>1 DEF Cancelled, Effects
<1>5. SameRecords BY <1>1 DEF SameRecords
<1>6. SameLedger
  <2>1. \A k \in {"commit", "squash"} : eff'[k].st = "succeeded" => eff'[k] = eff[k]
    BY <1>3, <1>4 DEF Ledgers, Effects
  <2>2. eff'["squash"].receipt => eff["squash"].receipt
    BY <1>3, <1>4 DEF Ledgers, Effects
  <2>3. eff["squash"].receipt => eff["squash"].st \notin {"none", "planned"} BY DEF KeptInv, CommitsTold
  <2> QED BY <1>4, <2>1, <2>2, <2>3 DEF SameLedger
<1>7. ~Telling' BY <1>1, <1>2 DEF Telling, Squashing
<1> QED BY <1>1, <1>5, <1>6, <1>7, Quiet, NothingTold DEF KeptInv

(* A settled effect answers from its record. *)
LEMMA KeepsBegin ==
  ASSUME IInv, KeptInv, Begin
  PROVE  KeptInv'
<1>1. TypeOK /\ job \in Jobs /\ eff \in Ledgers BY DEF IInv, TypeOK
<1>2. UNCHANGED <<objects, head, own, asked>> /\ job.pc = "begin" BY DEF Begin, project, Here
<1>3. SameRecords BY <1>2 DEF SameRecords
<1>4. job.fx \in Effects BY <1>2 DEF IInv, EffectOK, Around
<1>5. CASE eff' = eff
  <2>1. SameLedger BY <1>5 DEF SameLedger, KeptInv, CommitsTold
  <2>2. JobTold'
    <3>1. CASE job'.pc = "after"
      <4>1. job'.fx = job.fx BY <1>1 DEF Begin, Jobs, Goto
      <4>2. job'.res = "ok" => eff[job.fx].st = "succeeded" /\ eff[job.fx].res = "ok"
        BY <1>1, <1>2, <3>1 DEF Begin, Jobs, Goto
      <4> QED BY <1>5, <3>1, <4>1, <4>2 DEF JobTold, Recorded, Squashing
    <3>2. CASE job'.pc # "after"
      <4>1. job'.pc = "dispatch" BY <1>1, <1>2, <3>2 DEF Begin, Jobs, Goto
      <4> QED BY <4>1, NothingTold DEF Telling, Squashing
    <3> QED BY <3>1, <3>2
  <2> QED BY <1>2, <1>3, <2>1, <2>2, Quiet DEF KeptInv
<1>6. CASE eff' # eff
  <2>1. /\ eff' = [eff EXCEPT ![job.fx] = [NoEffect EXCEPT !.st = "planned", !.pre = IF job.fx \in {"commit", "squash", "restore"} THEN head ELSE 0]]
        /\ Goto("dispatch")
    BY <1>6 DEF Begin
  <2>2. eff'[job.fx].st = "planned" /\ ~eff'[job.fx].receipt BY <1>1, <1>4, <2>1 DEF Ledgers, NoEffect
  <2>3. \A k \in Effects : k # job.fx => eff'[k] = eff[k] BY <1>1, <2>1 DEF Ledgers
  <2>4. SameLedger
    <3>1. \A k \in Effects : eff'[k].st = "succeeded" => eff'[k] = eff[k] BY <2>2, <2>3
    <3>2. eff'["squash"].receipt => job.fx # "squash" BY <2>2
    <3>3. eff'["squash"].receipt => eff'["squash"] = eff["squash"] BY <2>3, <3>2 DEF Effects
    <3> QED BY <3>1, <3>3 DEF SameLedger, Effects, KeptInv, CommitsTold
  <2>5. ~Telling'
    <3>1. job'.pc = "dispatch" BY <1>1, <2>1 DEF Goto, Jobs
    <3> QED BY <3>1 DEF Telling, Squashing
  <2> QED BY <1>2, <1>3, <2>4, <2>5, Quiet, NothingTold DEF KeptInv
<1> QED BY <1>5, <1>6

LEMMA KeepsDispatch ==
  ASSUME IInv, KeptInv, Dispatch
  PROVE  KeptInv'
<1>1. TypeOK /\ job \in Jobs /\ eff \in Ledgers BY DEF IInv, TypeOK
<1>2. UNCHANGED <<objects, head, own, asked>> /\ job.pc = "dispatch" BY DEF Dispatch, project, Here
<1>3. SameRecords BY <1>2 DEF SameRecords
<1>4. job.fx \in Effects /\ eff[job.fx].st = "planned" BY <1>2 DEF IInv, EffectOK, Around
<1>5. eff' = [eff EXCEPT ![job.fx].st = "dispatched"] BY DEF Dispatch
<1>6. eff'[job.fx].st = "dispatched" /\ eff'[job.fx].receipt = eff[job.fx].receipt BY <1>1, <1>4, <1>5 DEF Ledgers
<1>7. \A k \in Effects : k # job.fx => eff'[k] = eff[k] BY <1>1, <1>5 DEF Ledgers
<1>8. eff["squash"].receipt => eff["squash"].st \notin {"none", "planned"} BY DEF KeptInv, CommitsTold
<1>9. SameLedger
  <2>1. \A k \in Effects : eff'[k].st = "succeeded" => eff'[k] = eff[k] BY <1>6, <1>7
  <2>2. eff'["squash"].receipt => job.fx # "squash" BY <1>4, <1>6, <1>8
  <2>3. eff'["squash"].receipt => eff'["squash"] = eff["squash"] BY <1>7, <2>2 DEF Effects
  <2> QED BY <1>8, <2>1, <2>3 DEF SameLedger, Effects
<1>10. JobTold'
  <2>1. job'.fx = job.fx /\ job'.pc = FirstStep(job.fx) BY <1>1 DEF Dispatch, Jobs
  <2>2. job'.pc \in {"backup", "prompting", "committing", "squashing", "undo", "rewind"}
        /\ (job'.pc = "squashing" => job.fx = "squash")
    BY <1>4, <2>1 DEF FirstStep, Effects
  <2>3. job.fx = "squash" => ~eff'["squash"].receipt BY <1>4, <1>6, <1>8
  <2> QED BY <2>1, <2>2, <2>3 DEF JobTold, Squashing
<1> QED BY <1>2, <1>3, <1>9, <1>10, Quiet DEF KeptInv

LEMMA KeepsSettle ==
  ASSUME IInv, KeptInv, Settle
  PROVE  KeptInv'
<1>1. TypeOK /\ job \in Jobs /\ eff \in Ledgers /\ head \in DOMAIN objects BY DEF IInv, TypeOK
<1>2. UNCHANGED <<objects, head, own, asked>> /\ job.pc = "settle" BY DEF Settle, project, Here
<1>3. HistoryGood' /\ RecordsGood'
  <2>1. SameRecords BY <1>2 DEF SameRecords
  <2> QED BY <1>2, <2>1, HistoryStays, RecordsStay DEF KeptInv
<1>4. job.fx \in Effects BY <1>2 DEF IInv, EffectOK, Around
<1> DEFINE st == IF job.res \in {"ok", "nothing"} THEN "succeeded" ELSE "failed"
<1>5. eff' = [eff EXCEPT ![job.fx].st = st, ![job.fx].res = job.res, ![job.fx].sha = head] BY DEF Settle
<1>6. /\ eff'[job.fx].st = st /\ eff'[job.fx].res = job.res /\ eff'[job.fx].sha = head
      /\ eff'[job.fx].receipt = eff[job.fx].receipt
      /\ \A k \in Effects : k # job.fx => eff'[k] = eff[k]
  <2> HIDE DEF st
  <2> QED BY <1>1, <1>4, <1>5 DEF Ledgers
<1>7. job'.pc = "after" /\ job'.fx = job.fx /\ job'.res = job.res BY <1>1 DEF Settle, Goto, Jobs
<1>8. \A s : Beyond(s) => Beyond(s)' BY <1>2 DEF Beyond, ByWorkflow
<1>9. KeptInv => CommitsTold /\ JobTold BY DEF KeptInv
<1>10. eff'["squash"].receipt => eff'["squash"].st \notin {"none", "planned"} /\ Beyond(head)'
  <2>1. eff'["squash"].receipt = eff["squash"].receipt BY <1>6 DEF Effects
  <2>2. eff["squash"].receipt => eff'["squash"].st \notin {"none", "planned"} BY <1>6, <1>9 DEF Effects, CommitsTold
  <2>3. eff["squash"].receipt => Beyond(head)
    BY <1>9 DEF CommitsTold
  <2> QED BY <1>2, <2>1, <2>2, <2>3 DEF Beyond, ByWorkflow
<1>11. (Recorded("commit") => eff["commit"].sha \in DOMAIN objects /\ ByWorkflow(eff["commit"].sha))'
  <2>1. CASE job.fx = "commit"
    <3>1. Recorded("commit")' => job.res = "ok" BY <1>6, <2>1 DEF Recorded
    <3>2. job.res = "ok" => ByWorkflow(head) BY <1>2, <1>9, <2>1 DEF JobTold
    <3> QED BY <1>1, <1>2, <1>6, <2>1, <3>1, <3>2 DEF ByWorkflow
  <2>2. CASE job.fx # "commit"
    <3>1. eff'["commit"] = eff["commit"] BY <1>6, <2>2 DEF Effects
    <3> QED BY <1>2, <1>9, <3>1 DEF CommitsTold, Recorded, ByWorkflow
  <2> QED BY <2>1, <2>2
<1>12. (Recorded("squash") => Beyond(eff["squash"].sha))'
  <2>1. CASE job.fx = "squash"
    <3>1. Recorded("squash")' => job.res = "ok" BY <1>6, <2>1 DEF Recorded
    <3>2. job.res = "ok" => Beyond(head) BY <1>2, <1>9, <2>1 DEF JobTold, CommitsTold
    <3> QED BY <1>2, <1>6, <2>1, <3>1, <3>2 DEF Beyond, ByWorkflow
  <2>2. CASE job.fx # "squash"
    <3>1. eff'["squash"] = eff["squash"] BY <1>6, <2>2 DEF Effects
    <3> QED BY <1>2, <1>9, <3>1 DEF CommitsTold, Recorded, Beyond, ByWorkflow
  <2> QED BY <2>1, <2>2
<1>13. JobTold'
  <2>1. job.res = "ok" => Recorded(job.fx)' BY <1>4, <1>6, <1>7 DEF Recorded
  <2> QED BY <1>7, <2>1 DEF JobTold, Squashing, Recorded
<1> QED BY <1>3, <1>10, <1>11, <1>12, <1>13 DEF KeptInv, CommitsTold

LEMMA KeepsReceipt ==
  ASSUME IInv, KeptInv, SquashReceipt \/ RestoreReceipt
  PROVE  KeptInv'
<1>1. TypeOK /\ job \in Jobs /\ eff \in Ledgers BY DEF IInv, TypeOK
<1>2. UNCHANGED <<objects, head, own, asked>> BY DEF SquashReceipt, RestoreReceipt, Receipt, project
<1>3. SameRecords BY <1>2 DEF SameRecords
<1>4. job'.pc = "settle" /\ job'.fx = job.fx /\ job'.res = "ok"
  BY <1>1 DEF SquashReceipt, RestoreReceipt, Receipt, Done, Jobs
<1>5. CASE RestoreReceipt
  <2>1. job.fx = "restore" BY <1>5 DEF RestoreReceipt, Receipt, Here, IInv, EffectOK, Restoring
  <2>2. eff'["commit"] = eff["commit"] /\ eff'["squash"] = eff["squash"]
    BY <1>1, <1>5 DEF RestoreReceipt, Receipt, Ledgers, Effects
  <2>3. SameLedger BY <2>2 DEF SameLedger, KeptInv, CommitsTold
  <2>4. ~Telling' BY <1>4, <2>1 DEF Telling, Squashing
  <2> QED BY <1>2, <1>3, <2>3, <2>4, Quiet, NothingTold DEF KeptInv
<1>6. CASE SquashReceipt
  <2>1. job.pc = "squash-receipt" BY <1>6 DEF SquashReceipt, Receipt, Here
  <2>2. job.fx = "squash" /\ eff["squash"].st = "dispatched"
    BY <2>1 DEF IInv, EffectOK, Squashing, Carried
  <2>3. eff' = [eff EXCEPT !["squash"].receipt = TRUE] BY <1>6 DEF SquashReceipt, Receipt
  <2>4. eff'["commit"] = eff["commit"] /\ eff'["squash"].st = "dispatched" /\ eff'["squash"].receipt
    BY <1>1, <2>2, <2>3 DEF Ledgers, Effects
  <2>5. Beyond(head) BY <2>1 DEF KeptInv, JobTold
  <2>6. Beyond(head)' BY <1>2, <2>5 DEF Beyond, ByWorkflow
  <2>7. CommitsTold' BY <1>2, <2>4, <2>6 DEF KeptInv, CommitsTold, Recorded, ByWorkflow
  <2>8. JobTold' BY <1>4, <2>2, <2>4 DEF JobTold, Squashing
  <2>9. HistoryGood' /\ RecordsGood' BY <1>2, <1>3, HistoryStays, RecordsStay DEF KeptInv
  <2> QED BY <2>7, <2>8, <2>9 DEF KeptInv
<1> QED BY <1>5, <1>6

(* A restart finds a commit of the workflow at the head, or a squash behind a receipt or on its base. *)
LEMMA KeepsReconcile ==
  ASSUME IInv, KeptInv, Reconcile
  PROVE  KeptInv'
<1>1. TypeOK /\ job \in Jobs /\ eff \in Ledgers /\ head \in DOMAIN objects BY DEF IInv, TypeOK
<1>2. UNCHANGED <<objects, head, own, asked>> /\ job.pc = "reconcile" BY DEF Reconcile, project, Here
<1>3. SameRecords BY <1>2 DEF SameRecords
<1>4. ~Telling'
  <2>1. job' = Off \/ job'.pc = "reconcile" BY <1>1, <1>2 DEF Reconcile, Jobs
  <2> QED BY <1>1, <2>1, OffSilent, GoesSilent DEF Telling, Squashing
<1>5. CASE eff' = eff BY <1>2, <1>4, <1>5, QuietMove
<1>6. CASE eff' # eff
  <2>1. PICK k \in job.left :
          /\ ~(Proof(k) = "not_started" /\ k \in {"apply", "squash"})
          /\ eff' = [eff EXCEPT ![k] = CASE Proof(k) = "succeeded" -> [@ EXCEPT !.st = "succeeded", !.res = "ok", !.sha = head]
                                         [] Proof(k) = "not_started" -> [@ EXCEPT !.st = "planned"]
                                         [] OTHER -> [@ EXCEPT !.st = "uncertain"]]
    BY <1>6 DEF Reconcile
  <2>2. k \in Effects BY <1>2 DEF IInv, LeftOK, Unsettled
  <2>3. \A j \in Effects : j # k => eff'[j] = eff[j] BY <1>1, <2>1 DEF Ledgers
  <2>4. eff'[k].receipt = eff[k].receipt
    <3>1. eff[k] \in [st : Statuses, pre : Shas, res : Results, sha : Shas, receipt : BOOLEAN] BY <1>1, <2>2 DEF Ledgers
    <3> QED BY <1>1, <2>1, <2>2, <3>1 DEF Ledgers
  <2>5. eff'[k].st \in {"succeeded", "uncertain"} \/ (eff'[k].st = "planned" /\ k # "squash")
    <3>1. eff[k] \in [st : Statuses, pre : Shas, res : Results, sha : Shas, receipt : BOOLEAN] BY <1>1, <2>2 DEF Ledgers
    <3> QED BY <1>1, <2>1, <2>2, <3>1 DEF Ledgers
  <2>6. eff'[k].st = "succeeded" => Proof(k) = "succeeded" /\ eff'[k].sha = head
    <3>1. eff[k] \in [st : Statuses, pre : Shas, res : Results, sha : Shas, receipt : BOOLEAN] BY <1>1, <2>2 DEF Ledgers
    <3> QED BY <1>1, <2>1, <2>2, <3>1 DEF Ledgers
  <2>7. KeptInv => CommitsTold BY DEF KeptInv
  <2>8. (eff["squash"].receipt => eff["squash"].st \notin {"none", "planned"} /\ Beyond(head))'
    <3>1. eff'["squash"].receipt = eff["squash"].receipt BY <2>3, <2>4 DEF Effects
    <3>2. eff["squash"].receipt => eff'["squash"].st \notin {"none", "planned"}
      BY <2>3, <2>5, <2>7 DEF Effects, CommitsTold
    <3>3. eff["squash"].receipt => Beyond(head) BY <2>7 DEF CommitsTold
    <3> QED BY <1>2, <3>1, <3>2, <3>3 DEF Beyond, ByWorkflow
  <2>9. (Recorded("commit") => eff["commit"].sha \in DOMAIN objects /\ ByWorkflow(eff["commit"].sha))'
    <3>1. CASE k = "commit"
      <4>1. Proof("commit") = "succeeded" => ByWorkflow(head) BY DEF Proof, CommitProof
      <4> QED BY <1>1, <1>2, <2>6, <3>1, <4>1 DEF Recorded, ByWorkflow
    <3>2. CASE k # "commit"
      <4>1. eff'["commit"] = eff["commit"] BY <2>3, <3>2 DEF Effects
      <4> QED BY <1>2, <2>7, <4>1 DEF CommitsTold, Recorded, ByWorkflow
    <3> QED BY <3>1, <3>2
  <2>10. (Recorded("squash") => Beyond(eff["squash"].sha))'
    <3>1. CASE k = "squash"
      <4>1. Proof("squash") = "succeeded" => Beyond(head)
        <5> SUFFICES ASSUME Proof("squash") = "succeeded" PROVE Beyond(head) OBVIOUS
        <5>1. eff["squash"].receipt \/ (ByWorkflow(head) /\ objects[head].parent = own.base) BY DEF Proof, SquashProof
        <5>2. CASE eff["squash"].receipt BY <2>7, <5>2 DEF CommitsTold
        <5>3. CASE ByWorkflow(head) /\ objects[head].parent = own.base
          <6>1. own.base \in DOMAIN objects BY <1>1, <5>3 DEF IInv, GraphOK
          <6>2. own.base # 0 /\ own.base \in Shas /\ head \in Shas BY <1>1, <6>1, Parents
          <6>3. own.base < head BY <1>1, <5>3 DEF TypeOK
          <6> QED BY <1>1, <5>3, <6>2, <6>3 DEF Beyond, Shas
        <5> QED BY <5>1, <5>2, <5>3
      <4> QED BY <1>2, <2>6, <3>1, <4>1 DEF Recorded, Beyond, ByWorkflow
    <3>2. CASE k # "squash"
      <4>1. eff'["squash"] = eff["squash"] BY <2>3, <3>2 DEF Effects
      <4> QED BY <1>2, <2>7, <4>1 DEF CommitsTold, Recorded, Beyond, ByWorkflow
    <3> QED BY <3>1, <3>2
  <2>11. HistoryGood' /\ RecordsGood' BY <1>2, <1>3, HistoryStays, RecordsStay DEF KeptInv
  <2> QED BY <1>4, <2>8, <2>9, <2>10, <2>11, NothingTold DEF KeptInv, CommitsTold
<1> QED BY <1>5, <1>6

-----------------------------------------------------------------------------
(* The steps that record checkpoints                                        *)

LEMMA PreviousStays ==
  ASSUME KeptInv, UNCHANGED objects, asked'.prev = asked.prev
  PROVE  RecordGood(asked.prev)'
<1>1. PICK o : o = asked.prev OBVIOUS
<1>2. RecordGood(o)' BY <1>1, SameRecord DEF KeptInv, RecordsGood
<1> QED BY <1>1, <1>2

LEMMA KeepsAfterCommit ==
  ASSUME IInv, KeptInv, AfterCommit
  PROVE  KeptInv'
<1>1. TypeOK /\ job \in Jobs /\ own \in Owns BY DEF IInv, TypeOK
<1>2. UNCHANGED <<objects, head, eff>> /\ job.pc = "after" /\ job.fx = "commit" BY DEF AfterCommit, Here, project
<1>3. asked'.prev = asked.prev
  <2>1. asked' = asked \/ Throw BY DEF AfterCommit, CommitThrows
  <2> QED BY <1>1, <2>1, ThrowQuiet
<1>4. job'.pc \in Silent
  <2>1. Goto("complete") \/ Goto("finish") \/ Throw BY DEF AfterCommit, CommitThrows
  <2> QED BY <1>1, <2>1, ThrowQuiet DEF Goto, Jobs, Silent, Places, Squashing
<1>5. SameLedger BY <1>2 DEF SameLedger, KeptInv, CommitsTold
<1>6. CASE own' = own
  <2>1. SameRecords BY <1>3, <1>6 DEF SameRecords
  <2> QED BY <1>2, <1>4, <1>5, <2>1, GoesSilent, NothingTold, Quiet DEF KeptInv
<1>7. CASE own' # own
  <2> DEFINE sha == eff["commit"].sha
  <2>1. /\ job.res = "ok"
        /\ own' = Merged(job.pre, <<sha>>, job.states) \/ own' = [own EXCEPT !.points = <<sha>>]
    BY <1>7 DEF AfterCommit
  <2>2. sha \in DOMAIN objects /\ ByWorkflow(sha) BY <1>2, <2>1 DEF KeptInv, JobTold, CommitsTold
  <2>3. PICK s \in DOMAIN objects : s = sha /\ ByWorkflow(s) BY <2>2
  <2> HIDE DEF sha
  <2>4. own.points \in Seq(Shas) /\ s \in Shas BY <1>1, Parents DEF Owns
  <2>5. own.points \o <<s>> = Append(own.points, s) BY <2>4
  <2>6. \/ own'.points = own.points /\ (own'.base = own.base \/ own.base = 0)
        \/ own'.points = Append(own.points, s) /\ (own'.base = own.base \/ own.base = 0)
        \/ own'.points = <<s>> /\ own'.base = own.base
    BY <1>1, <2>1, <2>3, <2>5 DEF Merged, Owns
  <2>7. PICK o \in Owns : o = own BY <1>1
  <2>8. PICK p : p = own' OBVIOUS
  <2>9. RecordGood(o) /\ WellFounded(objects) BY <2>7 DEF KeptInv, RecordsGood, HistoryGood
  <2>10. RecordGood(p)'
    <3>1. CASE own'.points = own.points /\ (own'.base = own.base \/ own.base = 0)
      BY <1>2, <2>7, <2>8, <2>9, <3>1, SameRecord
    <3>2. CASE own'.points = Append(own.points, s) /\ (own'.base = own.base \/ own.base = 0)
      BY <1>1, <1>2, <2>3, <2>7, <2>8, <2>9, <3>2, RecordPoint
    <3>3. CASE own'.points = <<s>> /\ own'.base = own.base
      <4>1. UserFree(p.points)' BY <1>2, <2>3, <2>8, <3>3 DEF UserFree, ByWorkflow
      <4> QED BY <4>1, FreeRecord
    <3> QED BY <2>6, <3>1, <3>2, <3>3
  <2>11. RecordGood(own)' BY <2>8, <2>10
  <2>12. own'.base = own.base \/ own.base = 0 BY <2>6
  <2>13. CommitsTold' BY <1>1, <1>2, <1>5, <2>12, SameCommits DEF KeptInv, SameLedger
  <2>14. HistoryGood' /\ RecordGood(asked.prev)' BY <1>2, <1>3, HistoryStays, PreviousStays DEF KeptInv
  <2> QED BY <1>4, <2>11, <2>13, <2>14, GoesSilent, NothingTold DEF KeptInv, RecordsGood
<1> QED BY <1>6, <1>7

LEMMA KeepsAfterRevert ==
  ASSUME IInv, KeptInv, AfterRevert
  PROVE  KeptInv'
<1>1. TypeOK /\ job \in Jobs /\ eff \in Ledgers BY DEF IInv, TypeOK
<1>2. UNCHANGED <<objects, head, eff>> /\ job.pc = "after" /\ job.fx = "revert" BY DEF AfterRevert, Here, project
<1>3. asked'.prev = asked.prev
  <2>1. asked' = asked \/ Throw BY DEF AfterRevert
  <2> QED BY <1>1, <2>1, ThrowQuiet
<1>4. job'.pc \in Silent
  <2>1. Goto("reverted") \/ Throw BY DEF AfterRevert
  <2> QED BY <1>1, <2>1, ThrowQuiet DEF Goto, Jobs, Silent, Places, Squashing
<1>5. RecordGood(own)'
  <2>1. PICK p : p = own' OBVIOUS
  <2>2. PICK o : o = own OBVIOUS
  <2>3. PICK q : q = asked.prev OBVIOUS
  <2>4. p = o \/ p = q BY <2>1, <2>2, <2>3 DEF AfterRevert
  <2>5. RecordGood(o) /\ RecordGood(q) BY <2>2, <2>3 DEF KeptInv, RecordsGood
  <2>6. RecordGood(p)' BY <1>2, <2>4, <2>5, SameRecord
  <2> QED BY <2>1, <2>6
<1>6. CommitsTold'
  <2>1. wf.kind = "passive" BY <1>2, AtPassive DEF Around, OfPassive
  <2>2. eff["squash"].st = "none" BY <1>1, <2>1 DEF IInv, EvidenceOK
  <2>3. ~Recorded("squash") /\ ~eff["squash"].receipt BY <2>2 DEF Recorded, KeptInv, CommitsTold
  <2> QED BY <1>2, <2>3 DEF KeptInv, CommitsTold, Recorded, ByWorkflow
<1>7. HistoryGood' /\ RecordGood(asked.prev)' BY <1>2, <1>3, HistoryStays, PreviousStays DEF KeptInv
<1> QED BY <1>4, <1>5, <1>6, <1>7, GoesSilent, NothingTold DEF KeptInv, RecordsGood

LEMMA KeepsAfterSquash ==
  ASSUME IInv, KeptInv, AfterSquash \/ AfterRestore
  PROVE  KeptInv'
<1>1. TypeOK /\ job \in Jobs /\ own \in Owns BY DEF IInv, TypeOK
<1>2. UNCHANGED <<objects, head, eff>> /\ job.pc = "after" BY DEF AfterSquash, AfterRestore, Here, project
<1>3. asked'.prev = asked.prev
  <2>1. asked' = asked \/ Throw BY DEF AfterSquash, AfterRestore
  <2> QED BY <1>1, <2>1, ThrowQuiet
<1>4. job'.pc \in Silent
  <2>1. Goto("finish") \/ Throw BY DEF AfterSquash, AfterRestore
  <2> QED BY <1>1, <2>1, ThrowQuiet DEF Goto, Jobs, Silent, Places, Squashing
<1>5. PICK p : p = own' OBVIOUS
<1>6. own'.base = own.base BY <1>1 DEF AfterSquash, AfterRestore, Owns, NoOwn
<1>7. RecordGood(own)'
  <2>1. CASE own' = own
    <3>1. PICK o : o = own OBVIOUS
    <3>2. RecordGood(o) BY <3>1 DEF KeptInv, RecordsGood
    <3>3. RecordGood(p)' BY <1>2, <1>5, <2>1, <3>1, <3>2, SameRecord
    <3> QED BY <1>5, <3>3
  <2>2. CASE AfterSquash /\ own' # own
    <3>1. job.fx = "squash" /\ job.res = "ok" /\ own' = [own EXCEPT !.points = <<eff["squash"].sha>>]
      BY <2>2 DEF AfterSquash
    <3>2. Beyond(eff["squash"].sha) BY <1>2, <3>1 DEF KeptInv, JobTold, CommitsTold
    <3>3. PICK s : s = eff["squash"].sha OBVIOUS
    <3>4. Beyond(s) /\ own.base \in Shas BY <1>1, <3>2, <3>3 DEF Owns
    <3>5. p.points = <<s>> /\ p.base = own.base BY <1>1, <1>5, <3>1, <3>3 DEF Owns
    <3>6. WellFounded(objects) BY DEF KeptInv, HistoryGood
    <3>7. RecordGood(p)' BY <1>1, <1>2, <3>4, <3>5, <3>6, RecordSquash
    <3> QED BY <1>5, <3>7
  <2>3. CASE AfterRestore /\ own' # own
    <3>1. p.points = <<>> BY <1>5, <2>3 DEF AfterRestore, NoOwn
    <3>2. RecordGood(p)' BY <3>1, EmptyRecord
    <3> QED BY <1>5, <3>2
  <2> QED BY <2>1, <2>2, <2>3
<1>8. CommitsTold'
  <2>1. SameLedger BY <1>2 DEF SameLedger, KeptInv, CommitsTold
  <2> QED BY <1>1, <1>2, <1>6, <2>1, SameCommits DEF KeptInv, SameLedger
<1>9. HistoryGood' /\ RecordGood(asked.prev)' BY <1>2, <1>3, HistoryStays, PreviousStays DEF KeptInv
<1> QED BY <1>4, <1>7, <1>8, <1>9, GoesSilent, NothingTold DEF KeptInv, RecordsGood

-----------------------------------------------------------------------------
(* The steps of git                                                         *)

LEMMA GitGrows ==
  ASSUME IInv, KeptInv, NEW S \in SUBSET Paths, NEW by \in {"workflow", "user"}, NEW seen \in States,
         CommitOnly(head, S, by, seen), n'.runs = n.runs, by = "workflow" => DOMAIN seen = S /\ Unchanged(seen),
         UNCHANGED <<own, asked, eff>>
  PROVE  HistoryGood' /\ RecordsGood' /\ CommitsTold' /\ objects'[head'].by = by /\ head' > head /\ head' \in DOMAIN objects'
<1>1. TypeOK /\ head \in DOMAIN objects /\ objects \in Seq(Objects) BY DEF IInv, TypeOK
<1>2. /\ objects' \in Seq(Objects) /\ head' \in DOMAIN objects' /\ head' \notin Shas /\ head' = Len(objects) + 1
      /\ DOMAIN objects \subseteq DOMAIN objects'
      /\ (\A s \in DOMAIN objects : objects'[s] = objects[s])
      /\ (\A s \in DOMAIN objects' : s \in DOMAIN objects \/ s = head')
      /\ objects'[head'].by = by
  BY CommitGrows
<1>3. PICK c : c = NewCommit(head, S, by, seen) OBVIOUS
<1>4. objects' = Append(objects, c) /\ c.parent = head BY <1>3 DEF CommitOnly, NewCommit
<1>5. objects'[head'] = c BY <1>1, <1>2, <1>4, AppendProperties
<1>6. c \in Objects
  <2>1. DOMAIN objects' = 1..Len(objects') BY <1>2, LenProperties
  <2> QED BY <1>2, <1>5, <2>1, ElementOfSeq
<1>7. PICK N : N = Len(objects) + 1 OBVIOUS
<1>8. WellFounded(objects) BY DEF KeptInv, HistoryGood
<1>9. /\ WellFounded(objects')
      /\ \A s \in Shas : Ancestors'[s] = Ancestors[s]
      /\ Ancestors'[N] = Ancestors[head] \cup {N}
  BY <1>1, <1>4, <1>6, <1>7, <1>8, CommitWalks
<1>10. HistoryGood'
  <2>1. ASSUME NEW s \in DOMAIN objects', objects'[s].by = "user" PROVE s \in Ancestors'[head']
    <3>1. CASE s \in DOMAIN objects
      <4>1. s \in Ancestors[head] BY <1>2, <2>1, <3>1 DEF KeptInv, HistoryGood, UserCommitsKept
      <4> QED BY <1>2, <1>7, <1>9, <4>1
    <3>2. CASE s = head' BY <1>2, <1>7, <1>9, <3>2
    <3> QED BY <1>2, <3>1, <3>2
  <2> QED BY <1>9, <2>1 DEF HistoryGood, UserCommitsKept
<1>11. RecordsGood'
  <2>1. own \in Owns /\ asked.prev \in Owns BY <1>1 DEF TypeOK, Asks
  <2>2. PICK o \in Owns : o = own BY <2>1
  <2>3. PICK p \in Owns : p = asked.prev BY <2>1
  <2>4. RecordGood(o) /\ RecordGood(p) BY <2>2, <2>3 DEF KeptInv, RecordsGood
  <2>5. RecordGood(o)' /\ RecordGood(p)' BY <1>1, <1>4, <1>6, <1>8, <2>4, RecordGrows
  <2>6. own' = o /\ asked'.prev = p BY <2>2, <2>3
  <2>7. RecordGood(own)' BY <2>5, <2>6
  <2>8. RecordGood(asked.prev)' BY <2>5, <2>6
  <2> QED BY <2>7, <2>8 DEF RecordsGood
<1>12. head' > head
  <2>1. head \in 1..Len(objects) /\ Len(objects) \in Nat BY <1>1, ShasFacts
  <2> QED BY <1>2, <2>1
<1>13. \A s : Beyond(s) => Beyond(s)' BY <1>2 DEF Beyond, ByWorkflow
<1>14. Beyond(head) => Beyond(head)'
  <2> SUFFICES ASSUME Beyond(head) PROVE Beyond(head)' OBVIOUS
  <2>1. own.base # 0 /\ head > own.base BY DEF Beyond
  <2>2. own.base \in Nat /\ head \in Nat /\ head' \in Nat
    <3>1. own.base \in Shas BY <1>1 DEF TypeOK, Owns
    <3> QED BY <1>1, <1>2, <3>1, ShasFacts DEF Shas
  <2>3. head' > own.base BY <1>12, <2>1, <2>2
  <2>4. objects'[head'].parent > own.base BY <1>4, <1>5, <2>1
  <2> QED BY <1>2, <2>1, <2>3, <2>4 DEF Beyond
<1>15. CommitsTold'
  <2>1. KeptInv => CommitsTold BY DEF KeptInv
  <2>2. (Recorded("commit") => eff["commit"].sha \in DOMAIN objects /\ ByWorkflow(eff["commit"].sha))'
    BY <1>2, <2>1 DEF CommitsTold, Recorded, ByWorkflow
  <2>3. (Recorded("squash") => Beyond(eff["squash"].sha))'
    <3>1. PICK s : s = eff["squash"].sha OBVIOUS
    <3>2. Recorded("squash") => Beyond(s)' BY <1>13, <2>1, <3>1 DEF CommitsTold
    <3>3. eff'["squash"].sha = s /\ (Recorded("squash")' <=> Recorded("squash")) BY <3>1 DEF Recorded
    <3> QED BY <3>2, <3>3 DEF Beyond, ByWorkflow
  <2>4. (eff["squash"].receipt => eff["squash"].st \notin {"none", "planned"} /\ Beyond(head))'
    BY <1>14, <2>1 DEF CommitsTold
  <2> QED BY <2>2, <2>3, <2>4 DEF CommitsTold
<1> QED BY <1>2, <1>10, <1>11, <1>12, <1>15

LEMMA KeepsCommit ==
  ASSUME IInv, KeptInv, Commit
  PROVE  KeptInv'
<1>1. job \in Jobs BY DEF IInv, TypeOK
<1>2. job.pc = "committing" /\ UNCHANGED <<own, asked, eff, n>> BY DEF Commit, Here
<1>3. job.fx = "commit" /\ DOMAIN job.states \subseteq Paths /\ job.states \in States BY <1>2, AtCommitting
<1>4. PICK res \in {"ok", "nothing", "commit-failed"} :
        /\ Done(res)
        /\ \/ res = "ok" /\ CommitOnly(head, DOMAIN job.states, "workflow", job.states)
           \/ res # "ok" /\ UNCHANGED <<objects, head, tracked>>
  BY DEF Commit
<1>5. job'.pc = "settle" /\ job'.fx = "commit" /\ job'.res = res BY <1>1, <1>3, <1>4 DEF Done, Jobs
<1>6. CASE res # "ok" /\ UNCHANGED <<objects, head, tracked>>
  <2>1. ~Telling' BY <1>5, <1>6 DEF Telling, Squashing
  <2> QED BY <1>2, <1>6, <2>1, QuietMove
<1>7. CASE res = "ok" /\ CommitOnly(head, DOMAIN job.states, "workflow", job.states)
  <2>1. Unchanged(job.states) BY <1>2 DEF IInv, ReviewedOK
  <2>2. HistoryGood' /\ RecordsGood' /\ CommitsTold' /\ objects'[head'].by = "workflow"
    BY <1>2, <1>3, <1>7, <2>1, GitGrows
  <2>3. JobTold' BY <1>5, <2>2 DEF JobTold, Squashing, ByWorkflow
  <2> QED BY <2>2, <2>3 DEF KeptInv
<1> QED BY <1>4, <1>6, <1>7

LEMMA KeepsUserCommit ==
  ASSUME IInv, KeptInv, UserCommit
  PROVE  KeptInv'
<1>1. UserMayAct /\ n' = [n EXCEPT !.commits = n.commits + 1] /\ UNCHANGED <<own, asked, eff, job>>
  BY DEF UserCommit
<1>2. PICK S \in SUBSET Paths : CommitOnly(head, S, "user", NoPath) BY DEF UserCommit, Dirty
<1>3. n'.runs = n.runs BY <1>1 DEF IInv, TypeOK, Counters
<1>4. HistoryGood' /\ RecordsGood' /\ CommitsTold' BY <1>1, <1>2, <1>3, NoStates, GitGrows
<1>5. ~Telling' BY <1>1 DEF UserMayAct, IInv, PlaceOK, Telling, Squashing
<1> QED BY <1>4, <1>5, NothingTold DEF KeptInv

(* HEAD may go back to the base when the history holds exactly the recorded checkpoints: none of
   those is the user's, so the user's commits lie behind the base. *)
LEMMA BaseHolds ==
  ASSUME IInv, KeptInv, own.base # 0, ExactGraph
  PROVE  own.base \in DOMAIN objects /\ HoldsUserCommits(own.base)
<1>1. TypeOK /\ head \in DOMAIN objects /\ own.base \in Shas /\ own.points \in Seq(Shas) BY DEF IInv, TypeOK, Owns
<1>2. head \in Shas \ {0} /\ own.base \in DOMAIN objects BY <1>1, Parents, ShasFacts
<1>3. After(own.base, head) = own.points BY DEF ExactGraph
<1>4. UserFree(own.points) BY <1>1, <1>2, <1>3 DEF KeptInv, RecordsGood, RecordGood
<1>5. Ancestors[head] \subseteq Ancestors[own.base] \cup Elements(own.points)
  BY <1>1, <1>2, <1>3, AfterFacts DEF KeptInv, HistoryGood
<1>6. ASSUME NEW u \in DOMAIN objects, objects[u].by = "user" PROVE u \in Ancestors[own.base]
  <2>1. u \in Ancestors[head] BY <1>6 DEF KeptInv, HistoryGood, UserCommitsKept
  <2>2. u \notin Elements(own.points)
    <3>1. DOMAIN own.points = 1..Len(own.points) BY <1>1, LenProperties
    <3> QED BY <1>4, <1>6, <3>1 DEF UserFree, Elements
  <2> QED BY <1>5, <2>1, <2>2
<1> QED BY <1>2, <1>6 DEF HoldsUserCommits

(* HEAD moves to a commit behind which all of the user's lie. *)
LEMMA HeadMoves ==
  ASSUME IInv, KeptInv, UNCHANGED <<objects, own, asked, eff>>, HoldsUserCommits(head'), ~eff["squash"].receipt
  PROVE  HistoryGood' /\ RecordsGood' /\ CommitsTold'
<1>1. Ancestors' = Ancestors BY DEF Ancestors, Shas
<1>2. HistoryGood' BY <1>1 DEF KeptInv, HistoryGood, UserCommitsKept, HoldsUserCommits
<1>3. RecordsGood' BY RecordsStay DEF KeptInv, SameRecords
<1>4. CommitsTold' BY DEF KeptInv, CommitsTold, Recorded, Beyond, ByWorkflow
<1> QED BY <1>2, <1>3, <1>4

LEMMA KeepsSquash ==
  ASSUME IInv, KeptInv, Squash
  PROVE  KeptInv'
<1>1. TypeOK /\ job \in Jobs /\ head \in DOMAIN objects BY DEF IInv, TypeOK
<1>2. job.pc = "squashing" /\ UNCHANGED <<objects, own, asked, eff>> BY DEF Squash, Here
<1>3. ~eff["squash"].receipt BY <1>2 DEF KeptInv, JobTold, Squashing
<1>4. CASE own.base # 0 /\ ExactGraph
  <2>1. head' = own.base /\ job'.pc = "squash-commit" BY <1>1, <1>4 DEF Squash, Goto, Jobs
  <2>2. own.base \in DOMAIN objects /\ HoldsUserCommits(own.base) BY <1>4, BaseHolds
  <2>3. HistoryGood' /\ RecordsGood' /\ CommitsTold' BY <1>2, <1>3, <2>1, <2>2, HeadMoves
  <2>4. own.points # <<>> /\ own.points[Len(own.points)] = head BY <1>4 DEF ExactGraph
  <2>5. (HoldsUserCommits(own.points[Len(own.points)]))'
    <3>1. Ancestors' = Ancestors BY <1>2 DEF Ancestors, Shas
    <3>2. HoldsUserCommits(head) BY DEF KeptInv, HistoryGood, UserCommitsKept, HoldsUserCommits
    <3> QED BY <1>2, <2>4, <3>1, <3>2 DEF HoldsUserCommits
  <2>6. JobTold' BY <1>1, <1>2, <1>3, <2>1, <2>4, <2>5 DEF JobTold
  <2> QED BY <2>3, <2>6 DEF KeptInv
<1>5. CASE ~(own.base # 0 /\ ExactGraph)
  <2>1. head' = head /\ job'.res = "nothing" /\ job'.pc = "settle" BY <1>1, <1>5 DEF Squash, Done, Jobs
  <2>2. ~Telling' BY <2>1 DEF Telling, Squashing
  <2> QED BY <1>2, <2>1, <2>2, QuietMove
<1> QED BY <1>4, <1>5

LEMMA KeepsSquashCommit ==
  ASSUME IInv, KeptInv, SquashCommit
  PROVE  KeptInv'
<1>1. TypeOK /\ job \in Jobs /\ own \in Owns BY DEF IInv, TypeOK
<1>2. job.pc = "squash-commit" /\ UNCHANGED <<own, asked, eff, n>> BY DEF SquashCommit, Here
<1>3. /\ head = own.base /\ HoldsUserCommits(own.points[Len(own.points)]) /\ ~eff["squash"].receipt
  BY <1>2 DEF KeptInv, JobTold, Squashing
<1>4. own.states \in States /\ DOMAIN own.states \subseteq Paths BY <1>1, StatesDomain DEF Owns
<1>5. CASE CommitOnly(head, DOMAIN own.states, "workflow", own.states) /\ Goto("squash-receipt")
  <2>1. Unchanged(own.states) BY <1>2 DEF IInv, ReviewedOK
  <2>2. /\ HistoryGood' /\ RecordsGood' /\ CommitsTold'
        /\ objects'[head'].by = "workflow" /\ head' > head /\ head' \in DOMAIN objects'
    BY <1>2, <1>4, <1>5, <2>1, GitGrows
  <2>3. job'.pc = "squash-receipt" BY <1>1, <1>5 DEF Goto, Jobs
  <2>4. own.base # 0 BY <1>1, <1>3, Parents DEF TypeOK
  <2>5. Beyond(head)' BY <1>2, <1>3, <2>2, <2>4 DEF Beyond, ByWorkflow
  <2>6. JobTold' BY <1>2, <1>3, <2>3, <2>5 DEF JobTold
  <2> QED BY <2>2, <2>6 DEF KeptInv
<1>6. CASE head' = own.points[Len(own.points)] /\ Done("squash-failed") /\ UNCHANGED <<objects, tracked>>
  <2>1. job'.pc = "settle" /\ job'.res = "squash-failed" BY <1>1, <1>6 DEF Done, Jobs
  <2>2. ~Telling' BY <2>1 DEF Telling, Squashing
  <2>3. HoldsUserCommits(head') BY <1>3, <1>6
  <2>4. HistoryGood' /\ RecordsGood' /\ CommitsTold' BY <1>2, <1>3, <1>6, <2>3, HeadMoves
  <2> QED BY <2>2, <2>4, NothingTold DEF KeptInv
<1> QED BY <1>5, <1>6 DEF SquashCommit

LEMMA KeepsRewind ==
  ASSUME IInv, KeptInv, Rewind
  PROVE  KeptInv'
<1>1. TypeOK /\ job \in Jobs BY DEF IInv, TypeOK
<1>2. job.pc = "rewind" /\ UNCHANGED <<objects, own, asked, eff>> BY DEF Rewind, Here
<1>3. job.fx = "restore" /\ eff["squash"].st = "none" BY <1>2, AtRestore DEF Restoring
<1>4. ~eff["squash"].receipt BY <1>3 DEF KeptInv, CommitsTold
<1>5. ~Telling'
  <2>1. job'.pc = "restoring" \/ (job'.pc = "settle" /\ job'.fx = "restore")
    BY <1>1, <1>3 DEF Rewind, Goto, Done, Jobs
  <2> QED BY <2>1 DEF Telling, Squashing
<1>6. CASE head' = head BY <1>2, <1>5, <1>6, QuietMove
<1>7. CASE head' # head
  <2>1. own.base # 0 /\ ExactGraph /\ head' = own.base BY <1>7 DEF Rewind
  <2>2. HoldsUserCommits(head') BY <2>1, BaseHolds
  <2>3. HistoryGood' /\ RecordsGood' /\ CommitsTold' BY <1>2, <1>4, <2>2, HeadMoves
  <2> QED BY <1>5, <2>3, NothingTold DEF KeptInv
<1> QED BY <1>6, <1>7

LEMMA KeptAtStart == ASSUME Init PROVE KeptInv
<1>1. /\ objects = <<[parent |-> 0, tree |-> file, by |-> "start", seen |-> NoPath, run |-> 0]>>
      /\ own = NoOwn /\ asked = NoAsk /\ eff = [k \in Effects |-> NoEffect] /\ job = Off
  BY DEF Init
<1>2. Len(objects) = 1 /\ objects[1].parent = 0 /\ objects[1].by = "start" /\ DOMAIN objects = {1} BY <1>1
<1>3. HistoryGood BY <1>2, FirstCommit DEF HistoryGood, UserCommitsKept
<1>4. UserFree(<<>>) BY DEF UserFree
<1>5. RecordsGood BY <1>1, <1>4 DEF RecordsGood, RecordGood, NoOwn, NoAsk
<1>6. eff["commit"] = NoEffect /\ eff["squash"] = NoEffect BY <1>1 DEF Effects
<1>7. CommitsTold
  <2>1. NoEffect.st = "none" /\ NoEffect.receipt = FALSE BY DEF NoEffect
  <2>2. ~Recorded("commit") /\ ~Recorded("squash") BY <1>6, <2>1 DEF Recorded
  <2>3. ~eff["squash"].receipt BY <1>6, <2>1
  <2> QED BY <2>2, <2>3 DEF CommitsTold
<1>8. JobTold BY <1>1 DEF JobTold, Off, Squashing
<1> QED BY <1>3, <1>5, <1>7, <1>8 DEF KeptInv

LEMMA KeptSteps == ASSUME IInv, KeptInv, [Next]_vars PROVE KeptInv'
<1>1. CASE Observe \/ Finalize \/ RestoreStart BY <1>1, KeepsStart
<1>2. CASE Artifact \/ Plan \/ Inspect \/ Backup \/ WriteOne \/ WriteFails \/ ChecksPass \/ ChecksFail \/ ApplyReceipt
           \/ UndoOne \/ AfterApply \/ FailedChecks
  BY <1>2, KeepsApply
<1>3. CASE Begin \/ Dispatch \/ Settle BY <1>3, KeepsBegin, KeepsDispatch, KeepsSettle
<1>4. CASE Capture \/ MaybeCommit \/ Message BY <1>4, KeepsRecord
<1>5. CASE PromptAnswers \/ PromptFails \/ AfterPrompt \/ Approved \/ Complete \/ Finish \/ Reverted \/ FinalizeStep
           \/ Restore \/ RestoreOne
  BY <1>5, KeepsRun
<1>6. CASE Commit \/ AfterCommit \/ AfterRevert \/ AfterSquash \/ AfterRestore
  BY <1>6, KeepsCommit, KeepsAfterCommit, KeepsAfterRevert, KeepsAfterSquash
<1>7. CASE Choose \/ Stop BY <1>7, KeepsDecision, KeepsStop DEF Choose, Decides
<1>8. CASE Squash \/ SquashCommit \/ Rewind BY <1>8, KeepsSquash, KeepsSquashCommit, KeepsRewind
<1>9. CASE SquashReceipt \/ RestoreReceipt BY <1>9, KeepsReceipt
<1>10. CASE StopCommand \/ Activate \/ Crash \/ Restart \/ RestoreAction \/ Resume \/ Edit BY <1>10, KeepsLife
<1>11. CASE Reconcile \/ UserCommit BY <1>11, KeepsReconcile, KeepsUserCommit
<1>12. CASE UNCHANGED vars
  <2>1. UNCHANGED <<objects, head, own, asked, eff, job>> BY <1>12 DEF vars, project
  <2>2. SameRecords /\ SameLedger BY <2>1 DEF SameRecords, SameLedger, KeptInv, CommitsTold
  <2>3. JobTold'
    <3>1. Ancestors' = Ancestors BY <2>1 DEF Ancestors, Shas
    <3> QED BY <2>1, <3>1 DEF KeptInv, JobTold, Recorded, Beyond, ByWorkflow, HoldsUserCommits
  <2> QED BY <2>1, <2>2, <2>3, Quiet DEF KeptInv
<1> QED BY <1>1, <1>2, <1>3, <1>4, <1>5, <1>6, <1>7, <1>8, <1>9, <1>10, <1>11, <1>12 DEF Next

(* What the records of checkpoints, the ledger and the job know about the commits stays true, and
   so do the walks over the history, whatever the user commits and wherever the daemon ends. *)
THEOREM KeptInductive == Spec => []KeptInv
<1>1. Init => KeptInv BY KeptAtStart
<1>2. IInv /\ KeptInv /\ [Next]_vars => KeptInv' BY KeptSteps
<1> QED BY <1>1, <1>2, Inductive, PTL DEF Spec

(* No commit of the user ever leaves the history of HEAD: the resets of a squash and of a restore
   (localEffects.js, gitCommit.js squashWorkflowCommits) happen only when the commits after the base
   are exactly the recorded checkpoints, and no recorded checkpoint is a commit of the user, though
   the ledger may take the user's HEAD for the result of a squash after a restart. *)
THEOREM UserCommitsStay == Spec => []UserCommitsKept
<1>1. KeptInv => UserCommitsKept BY DEF KeptInv, HistoryGood
<1> QED BY <1>1, KeptInductive, PTL
=============================================================================
