------------------------- MODULE WorkflowTransaction -------------------------
(***************************************************************************)
(* How one workflow changes a project: an update (a ZIP) is verified,      *)
(* planned, approved, written over the files, checked, committed, squashed *)
(* or undone, while the user edits and commits in the same tree and the    *)
(* daemon may stop at any step.  Every write to the project is a local     *)
(* effect (state/localEffects.js): planned, dispatched, carried out and    *)
(* settled in separate durable steps; a restart reconciles the ones it     *)
(* finds open from receipts, the backup and the state of git.              *)
(*                                                                         *)
(* Git is a set of commits with a parent each, a head, and the paths the   *)
(* index knows.  One job of the project queue runs at a time.  The user    *)
(* acts when the daemon waits: no job runs, the checks run, the commit     *)
(* message is awaited, or the daemon is down.                              *)
(*                                                                         *)
(* Updates are applied by passive runs here, one each.  An automation run  *)
(* only finalizes: the cycles in which it applies ZIPs are not modelled,   *)
(* and the second ZIP of one run is answered from the record of the first  *)
(* (applyVerifiedService.js:45, localEffects.js:202): it is not written    *)
(* and yet recorded as applied (applyCompletionService.js:16-18).          *)
(***************************************************************************)
EXTENDS Integers, Sequences, FiniteSets

CONSTANTS
  Paths,           \* the files of the project
  Updates,         \* the results (ZIPs) the conversation may offer
  Writes,          \* [Updates -> SUBSET Paths]: the files of each
  Present,         \* the paths that exist at the start
  Configs,         \* the configurations of the workflow, chosen at the start
  MaxRuns, MaxEdits, MaxUserCommits, MaxCrashes, MaxStops,
  MaxDisturbances  \* of these four kinds together

ASSUME WritesAssumption ==
  /\ Writes \in [Updates -> SUBSET Paths]
  /\ Present \subseteq Paths

(* ask: the plan needs approval; commit: who decides about the commit;      *)
(* chat: the message comes from the conversation; rollback: a failed apply  *)
(* undoes itself; squash: checkpoints are squashed at the end.              *)
ConfigRecords == [ask : BOOLEAN, commit : {"none", "auto", "ask", "final"},
                  chat : BOOLEAN, rollback : BOOLEAN, squash : BOOLEAN]

ASSUME ConfigsAssumption == Configs \subseteq ConfigRecords

ASSUME BoundsAssumption == \A b \in {MaxRuns, MaxEdits, MaxUserCommits, MaxCrashes, MaxStops, MaxDisturbances} : b \in Nat

VARIABLES
  cfg, file, objects, head, tracked, refs, backup, own, wf, asked, eff, art, job, up, n,
  \* History: the updates whose files were all written by their last apply and not undone.
  whole

project == <<file, objects, head, tracked, refs>>
vars == <<cfg, file, objects, head, tracked, refs, backup, own, wf, asked, eff, art, job, up, n, whole>>

Effects == {"apply", "prompt", "commit", "squash", "revert", "restore"}
Contents == {"base", "none", "mine"} \cup Updates
NoPath == [p \in {} |-> "none"]

-----------------------------------------------------------------------------
(* Git. *)
Tree(s) == objects[s].tree
Tip == Tree(head)
Dirty == {p \in Paths : file[p] # Tip[p]}

Shas == 0..Len(objects)   \* 0: no commit

Ancestors[s \in Shas] == IF s = 0 THEN {} ELSE Ancestors[objects[s].parent] \cup {s}

(* rev-list --reverse base..tip: the commits after base, the oldest first. *)
After(base, tip) ==
  LET from[s \in Shas] == IF s \in Ancestors[base] \cup {0} THEN <<>> ELSE Append(from[objects[s].parent], s)
  IN  from[tip]

(* commit --only: the named paths as they are in the working tree, everything else as in the parent. *)
OnlyTree(parent, S) == [p \in Paths |-> IF p \in S THEN file[p] ELSE Tree(parent)[p]]

NewCommit(parent, S, by, seen) == [parent |-> parent, tree |-> OnlyTree(parent, S), by |-> by, seen |-> seen, run |-> n.runs]

CommitOnly(parent, S, by, seen) ==
  /\ objects' = Append(objects, NewCommit(parent, S, by, seen))
  /\ head' = Len(objects) + 1
  /\ tracked' = {p \in Paths : IF p \in S THEN file[p] # "none" ELSE p \in tracked}

(* captureGitPathStates and verifyGitPathStates. *)
Captured(S) == [p \in S |-> file[p]]
\* Mutant: nothing is compared before the commit.
Unchanged_Assumed(states) == TRUE

Unchanged(states) == \A p \in DOMAIN states : file[p] = states[p]

-----------------------------------------------------------------------------
(* The recorded git state of the workflow and the local effects. *)
Over(f, g) == [p \in DOMAIN f \cup DOMAIN g |-> IF p \in DOMAIN g THEN g[p] ELSE f[p]]

(* GIT_STATE_UPDATED: the first base stays, a new checkpoint is added once. *)
Merged(base, points, states) ==
  [base |-> IF own.base # 0 THEN own.base ELSE base,
   points |-> IF \E i \in DOMAIN own.points : points = <<own.points[i]>> THEN own.points ELSE own.points \o points,
   states |-> Over(own.states, states)]

NoOwn == [base |-> 0, points |-> <<>>, states |-> NoPath]
NoEffect == [st |-> "none", pre |-> 0, res |-> "", sha |-> 0, receipt |-> FALSE]
NoBackup == [manifest |-> NoPath, taken |-> FALSE, receipt |-> FALSE, undone |-> FALSE]
NoAsk == [u |-> "", states |-> NoPath, pre |-> 0, prev |-> NoOwn]
Off == [pc |-> "off", fx |-> "", u |-> "", by |-> "", states |-> NoPath, pre |-> 0, left |-> {}, res |-> "", act |-> ""]

Unsettled == {k \in Effects : eff[k].st \in {"dispatched", "uncertain"}}
SomePlanned == \E k \in Effects : eff[k].st = "planned"
Room == n.edits + n.commits + n.crashes + n.stops < MaxDisturbances

Goto(pc) == job' = [job EXCEPT !.pc = pc]
Do(k) == job' = [job EXCEPT !.pc = "begin", !.fx = k, !.res = ""]
Here(pc) == up /\ job.pc = pc

Init ==
  /\ cfg \in Configs
  /\ file = [p \in Paths |-> IF p \in Present THEN "base" ELSE "none"]
  /\ objects = <<[parent |-> 0, tree |-> file, by |-> "start", seen |-> NoPath, run |-> 0]>>
  /\ head = 1 /\ tracked = Present
  /\ refs = [squash |-> 0, restore |-> 0]
  /\ backup = NoBackup /\ own = NoOwn
  /\ wf = [life |-> "ready", kind |-> "", act |-> "", stop |-> FALSE, u |-> "", planned |-> FALSE]
  /\ asked = NoAsk
  /\ eff = [k \in Effects |-> NoEffect]
  /\ art = [u \in Updates |-> "none"]
  /\ job = Off /\ up = TRUE /\ whole = {}
  /\ n = [runs |-> 0, edits |-> 0, commits |-> 0, crashes |-> 0, stops |-> 0]

-----------------------------------------------------------------------------
(* Runs start and end. *)
StartRun(kind, u, pc) ==
  /\ Here("off") /\ wf.life = "ready" /\ n.runs < MaxRuns
  /\ wf' = [wf EXCEPT !.life = "running", !.kind = kind, !.u = u, !.stop = FALSE, !.planned = @ \/ SomePlanned]
  /\ job' = [Off EXCEPT !.pc = pc, !.u = u, !.by = kind]
  /\ n' = [n EXCEPT !.runs = @ + 1]
  /\ eff' = [k \in Effects |-> NoEffect] /\ backup' = NoBackup /\ asked' = NoAsk
  /\ UNCHANGED <<cfg, project, own, art, up, whole>>

Observe == \E u \in Updates : StartRun("passive", u, "artifact")
Finalize == StartRun("automation", "", "finalize")
RestoreStart == Here("off") /\ StartRun("manual", "", "restore")

End(life) == wf' = [wf EXCEPT !.life = life, !.act = "", !.stop = FALSE]

(* A job that throws: a passive or automation run fails, an approved apply asks again, the
   handler of any other action only returns the error. *)
Throw ==
  /\ job' = Off
  /\ IF wf.life # "running" THEN UNCHANGED <<wf, asked>>
     ELSE CASE job.by \in {"passive", "automation", "manual"} -> End("ready") /\ UNCHANGED asked
            [] job.by = "approve" -> /\ wf' = [wf EXCEPT !.life = "waiting", !.act = "apply"]
                                     /\ asked' = [asked EXCEPT !.u = job.u]
            [] OTHER -> UNCHANGED <<wf, asked>>

Wait(act, payload) ==
  /\ wf' = [wf EXCEPT !.life = "waiting", !.act = act]
  /\ asked' = payload
  /\ job' = Off

-----------------------------------------------------------------------------
(* An observed result, up to its application. *)
Artifact ==
  /\ Here("artifact")
  /\ IF art[job.u] \in {"applied", "verified", "pending-approval", "awaiting-commit"}
     THEN End("ready") /\ job' = Off /\ UNCHANGED art
     ELSE art' = [art EXCEPT ![job.u] = "verified"] /\ Goto("plan") /\ UNCHANGED wf
  /\ UNCHANGED <<cfg, project, backup, own, asked, eff, up, n, whole>>

Plan ==
  /\ Here("plan")
  /\ IF cfg.ask
     THEN art' = [art EXCEPT ![job.u] = "pending-approval"] /\ Wait("apply", [NoAsk EXCEPT !.u = job.u])
     ELSE Goto("inspect") /\ UNCHANGED <<art, wf, asked>>
  /\ UNCHANGED <<cfg, project, backup, own, eff, up, n, whole>>

\* Mutant: what the workflow once wrote stays its own.
Overlap_ByPath(u) == (Writes[u] \cap Dirty) \ DOMAIN own.states

(* An uncommitted change on a path of the update that the workflow did not make itself. *)
Overlap(u) == {p \in Writes[u] \cap Dirty : p \notin DOMAIN own.states \/ own.states[p] # file[p]}

Inspect ==
  /\ Here("inspect")
  /\ IF cfg.commit # "none" /\ Overlap(job.u) # {}
     THEN Throw
     ELSE /\ job' = [job EXCEPT !.pc = "begin", !.fx = "apply", !.pre = IF cfg.commit = "none" THEN 0 ELSE head]
          /\ UNCHANGED <<wf, asked>>
  /\ UNCHANGED <<cfg, project, backup, own, eff, art, up, n, whole>>

-----------------------------------------------------------------------------
(* executeLocalEffect. *)
FirstStep(k) ==
  CASE k = "apply" -> "backup" [] k = "prompt" -> "prompting" [] k = "commit" -> "committing"
    [] k = "squash" -> "squashing" [] k = "revert" -> "undo" [] k = "restore" -> "rewind"

(* A settled effect answers from its record, one that is open or failed is refused. *)
Begin ==
  /\ Here("begin")
  /\ LET k == job.fx IN
     CASE wf.stop \/ eff[k].st \notin {"none", "planned", "succeeded"} ->
            job' = [job EXCEPT !.pc = "after", !.res = "threw"] /\ UNCHANGED eff
       [] ~wf.stop /\ eff[k].st = "succeeded" ->
            job' = [job EXCEPT !.pc = "after", !.res = eff[k].res] /\ UNCHANGED eff
       [] ~wf.stop /\ eff[k].st = "none" ->
            eff' = [eff EXCEPT ![k] = [NoEffect EXCEPT !.st = "planned", !.pre = IF k \in {"commit", "squash", "restore"} THEN head ELSE 0]] /\ Goto("dispatch")
       [] OTHER -> Goto("dispatch") /\ UNCHANGED eff
  /\ UNCHANGED <<cfg, project, backup, own, wf, asked, art, up, n, whole>>

Dispatch ==
  /\ Here("dispatch")
  /\ eff' = [eff EXCEPT ![job.fx].st = "dispatched"]
  /\ job' = [job EXCEPT !.pc = FirstStep(job.fx),
                        !.left = IF job.fx = "revert" THEN DOMAIN backup.manifest
                                 ELSE IF job.fx = "restore" THEN DOMAIN own.states ELSE {}]
  /\ UNCHANGED <<cfg, project, backup, own, wf, asked, art, up, n, whole>>

Done(res) == job' = [job EXCEPT !.pc = "settle", !.res = res]

Settle ==
  /\ Here("settle")
  /\ eff' = [eff EXCEPT ![job.fx].st = IF job.res \in {"ok", "nothing"} THEN "succeeded" ELSE "failed",
                        ![job.fx].res = job.res, ![job.fx].sha = head]
  /\ Goto("after")
  /\ UNCHANGED <<cfg, project, backup, own, wf, asked, art, up, n, whole>>

-----------------------------------------------------------------------------
(* TransactionalApplier.apply and rollback. *)
Backup ==
  /\ Here("backup")
  /\ backup' = [NoBackup EXCEPT !.manifest = Captured(Writes[job.u]), !.taken = TRUE]
  /\ job' = [job EXCEPT !.pc = "write", !.left = Writes[job.u]]
  /\ UNCHANGED <<cfg, project, own, wf, asked, eff, art, up, n, whole>>

WriteOne ==
  /\ Here("write")
  /\ \E p \in job.left :
       /\ file' = [file EXCEPT ![p] = job.u]
       /\ job' = [job EXCEPT !.left = @ \ {p}, !.pc = IF job.left = {p} THEN "checks" ELSE "write"]
       /\ whole' = IF job.left = {p} THEN whole \cup {job.u} ELSE whole \ {job.u}
  /\ UNCHANGED <<cfg, objects, head, tracked, refs, backup, own, wf, asked, eff, art, up, n>>

(* The catch of apply: undo from the backup, or leave what was written. *)
Catch(why) ==
  /\ job' = [job EXCEPT !.pc = IF cfg.rollback THEN "undo" ELSE "settle", !.left = DOMAIN backup.manifest, !.res = why]
  /\ UNCHANGED <<cfg, project, backup, own, wf, asked, eff, art, up, n, whole>>

WriteFails == Here("write") /\ Catch("write-failed")
ChecksFail == Here("checks") /\ Catch("checks-failed")

ChecksPass ==
  /\ Here("checks") /\ Goto("receipt")
  /\ UNCHANGED <<cfg, project, backup, own, wf, asked, eff, art, up, n, whole>>

ApplyReceipt ==
  /\ Here("receipt") /\ Done("ok")
  /\ backup' = [backup EXCEPT !.receipt = TRUE]
  /\ UNCHANGED <<cfg, project, own, wf, asked, eff, art, up, n, whole>>

(* The rollback of a failed apply writes no receipt, the one of a revert does. *)
UndoOne ==
  /\ Here("undo")
  /\ \E p \in job.left :
       /\ file' = [file EXCEPT ![p] = backup.manifest[p]]
       /\ job' = IF job.left # {p} THEN [job EXCEPT !.left = @ \ {p}]
                 ELSE [job EXCEPT !.left = {}, !.pc = "settle", !.res = IF job.fx = "revert" THEN "ok" ELSE @]
       /\ backup' = [backup EXCEPT !.undone = job.left = {p} /\ job.fx = "revert"]
       /\ whole' = whole \ {job.u}
  /\ UNCHANGED <<cfg, objects, head, tracked, refs, own, wf, asked, eff, art, up, n>>

\* Mutant: any failure that was not undone is put to the user as failed checks.
AfterApply_AnyFailure ==
  /\ Here("after") /\ job.fx = "apply"
  /\ CASE job.res = "ok" -> Goto("commit") /\ UNCHANGED wf
       [] job.res \in {"checks-failed", "write-failed"} /\ ~cfg.rollback -> Goto("capture") /\ UNCHANGED wf
       [] OTHER -> job' = Off /\ End("ready")
  /\ UNCHANGED <<cfg, project, backup, own, asked, eff, art, up, n, whole>>

AfterApply ==
  /\ Here("after") /\ job.fx = "apply"
  /\ CASE job.res = "ok" -> Goto("commit") /\ UNCHANGED wf
       [] job.res = "checks-failed" /\ ~cfg.rollback -> Goto("capture") /\ UNCHANGED wf
       [] OTHER -> job' = Off /\ End("ready")
  /\ UNCHANGED <<cfg, project, backup, own, asked, eff, art, up, n, whole>>

(* capture: the files are now the workflow's, and the user decides. *)
Capture ==
  /\ Here("capture")
  /\ own' = Merged(job.pre, <<>>, Captured(Writes[job.u]))
  /\ asked' = [u |-> job.u, states |-> Captured(Writes[job.u]), pre |-> job.pre, prev |-> own]
  /\ Goto("failed-checks")
  /\ UNCHANGED <<cfg, project, backup, wf, eff, art, up, n, whole>>

FailedChecks ==
  /\ Here("failed-checks")
  /\ art' = [art EXCEPT ![job.u] = "awaiting-check-decision"]
  /\ Wait("failed-checks", asked)
  /\ UNCHANGED <<cfg, project, backup, own, eff, up, n, whole>>

-----------------------------------------------------------------------------
(* maybeCommit. *)
MaybeCommit ==
  /\ Here("commit")
  /\ LET states == Captured(Writes[job.u])
         next(pc) == job' = [job EXCEPT !.pc = pc, !.states = states, !.fx = "", !.res = ""]
     IN CASE cfg.commit = "none" -> own' = Merged(0, <<>>, states) /\ next("complete")
          [] cfg.commit # "none" /\ Dirty = {} -> next("complete") /\ UNCHANGED own
          [] cfg.commit # "none" /\ Dirty # {} /\ cfg.chat ->
               job' = [job EXCEPT !.pc = "begin", !.states = states, !.fx = "prompt", !.res = ""] /\ UNCHANGED own
          [] OTHER -> next("message") /\ UNCHANGED own
  /\ UNCHANGED <<cfg, project, backup, wf, asked, eff, art, up, n, whole>>

Prompted(res) ==
  /\ Here("prompting") /\ Done(res)
  /\ UNCHANGED <<cfg, project, backup, own, wf, asked, eff, art, up, n, whole>>

PromptAnswers == Prompted("ok")
PromptFails == Prompted("prompt-failed")

(* An error of maybeCommit: the turn completes with a warning, "keep" fails. *)
CommitThrows == IF job.by = "keep" THEN Throw ELSE Goto("complete") /\ UNCHANGED <<wf, asked>>

AfterPrompt ==
  /\ Here("after") /\ job.fx = "prompt"
  /\ IF job.res = "ok" THEN Goto("message") /\ UNCHANGED <<wf, asked>> ELSE CommitThrows
  /\ UNCHANGED <<cfg, project, backup, own, eff, art, up, n, whole>>

(* With the message known: deferred to the end, put to the user, or committed if nothing changed. *)
Message ==
  /\ Here("message")
  /\ CASE cfg.commit = "final" -> own' = Merged(job.pre, <<>>, job.states) /\ Goto("complete") /\ UNCHANGED <<wf, asked, art>>
       [] cfg.commit = "ask" -> /\ Wait("commit", [NoAsk EXCEPT !.u = job.u, !.states = job.states, !.pre = job.pre])
                                /\ art' = IF job.by = "keep" THEN art ELSE [art EXCEPT ![job.u] = "awaiting-commit"]
                                /\ UNCHANGED own
       [] OTHER -> IF Unchanged(job.states) THEN Do("commit") /\ UNCHANGED <<own, wf, asked, art>>
                   ELSE CommitThrows /\ UNCHANGED <<own, art>>
  /\ UNCHANGED <<cfg, project, backup, eff, up, n, whole>>

(* approvePending. *)
Approved ==
  /\ Here("approved")
  /\ IF Unchanged(job.states) THEN Do("commit") /\ UNCHANGED <<wf, asked>> ELSE Throw
  /\ UNCHANGED <<cfg, project, backup, own, eff, art, up, n, whole>>

(* createGitCommit: add -A, then commit --only; a hook that refuses resets the index. *)
Commit ==
  /\ Here("committing")
  /\ LET S == DOMAIN job.states IN
     IF S \cap Dirty = {} THEN Done("nothing") /\ UNCHANGED <<objects, head, tracked>>
     ELSE \/ CommitOnly(head, S, "workflow", job.states) /\ Done("ok")
          \/ Done("commit-failed") /\ UNCHANGED <<objects, head, tracked>>
  /\ UNCHANGED <<cfg, file, refs, backup, own, wf, asked, eff, art, up, n, whole>>

AfterCommit ==
  /\ Here("after") /\ job.fx = "commit"
  /\ LET point == <<eff["commit"].sha>>
     IN CASE job.res = "ok" /\ job.by # "automation" ->
               own' = Merged(job.pre, point, job.states) /\ Goto("complete") /\ UNCHANGED <<wf, asked>>
          [] job.res = "ok" /\ job.by = "automation" ->
               own' = [own EXCEPT !.points = point] /\ Goto("finish") /\ UNCHANGED <<wf, asked>>
          [] job.res = "nothing" /\ job.by \in {"passive", "approve", "keep"} ->
               Goto("complete") /\ UNCHANGED <<own, wf, asked>>
          [] job.res = "nothing" /\ job.by = "automation" -> Goto("finish") /\ UNCHANGED <<own, wf, asked>>
          [] job.res # "ok" /\ job.by \in {"commit", "automation"} /\ (job.res # "nothing" \/ job.by = "commit") ->
               Throw /\ UNCHANGED own
          [] OTHER -> CommitThrows /\ UNCHANGED own
  /\ UNCHANGED <<cfg, project, backup, eff, art, up, n, whole>>

(* applyCompletionService.complete, then the end of the run; keepAndStop then waits for a stop
   that is queued behind the very job that waits. *)
Complete ==
  /\ Here("complete")
  /\ art' = [art EXCEPT ![job.u] = "applied"]
  /\ Goto("finish")
  /\ UNCHANGED <<cfg, project, backup, own, wf, asked, eff, up, n, whole>>

Finish ==
  /\ Here("finish")
  /\ End("ready")
  /\ job' = IF job.by = "keep" THEN [Off EXCEPT !.pc = "self"] ELSE Off
  /\ UNCHANGED <<cfg, project, backup, own, asked, eff, art, up, n, whole>>

-----------------------------------------------------------------------------
(* The user's decisions (dispatchWorkflowCommand after ACTION_RESOLVED). *)
Choice(act, life, next) ==
  /\ Here("off") /\ wf.life = "waiting" /\ wf.act = act
  /\ wf' = [wf EXCEPT !.life = life, !.act = ""]
  /\ job' = next
  /\ UNCHANGED <<cfg, project, backup, own, asked, eff, art, up, n, whole>>

Job(pc, by) == [Off EXCEPT !.pc = pc, !.by = by, !.u = asked.u, !.states = asked.states, !.pre = asked.pre]

ChooseApprove == Choice("apply", "running", Job("inspect", "approve"))
ChooseReject == Choice("apply", "ready", Off)
ChooseCommit == Choice("commit", "running", Job("approved", "commit"))
ChooseNoCommit == Choice("commit", "running", Job("complete", "commit"))
ChooseFix == Choice("failed-checks", "running", Job("complete", "fix"))
ChooseKeep == Choice("failed-checks", "running", Job("commit", "keep"))
ChooseRevert == Choice("failed-checks", "running", [Job("begin", "revert") EXCEPT !.fx = "revert"])
ChooseRetry ==
  /\ eff["prompt"].st \notin {"dispatched", "uncertain"}
  /\ Choice("recovery", "running", IF wf.kind = "automation" THEN [Off EXCEPT !.pc = "finalize", !.by = "automation"] ELSE Off)
(* An effect that is open, of this run or only planned by an earlier one, turns the stop into a request. *)
Cancelled == [k \in Effects |-> IF eff[k].st = "planned" THEN [eff[k] EXCEPT !.st = "cancelled"] ELSE eff[k]]

ChooseStop ==
  /\ Here("off") /\ wf.life = "waiting"
  /\ LET open == Unsettled # {} \/ SomePlanned \/ wf.planned IN
     wf' = [wf EXCEPT !.life = IF open THEN "recovering" ELSE "stopped", !.act = "", !.stop = open, !.planned = FALSE]
  /\ eff' = Cancelled
  /\ UNCHANGED <<cfg, project, backup, own, asked, art, job, up, n, whole>>

AfterRevert ==
  /\ Here("after") /\ job.fx = "revert"
  /\ IF job.res = "ok" THEN own' = asked.prev /\ Goto("reverted") /\ UNCHANGED <<wf, asked>>
     ELSE Throw /\ UNCHANGED own
  /\ UNCHANGED <<cfg, project, backup, eff, art, up, n, whole>>

Reverted ==
  /\ Here("reverted")
  /\ art' = [art EXCEPT ![job.u] = "reverted"]
  /\ Goto("finish")
  /\ UNCHANGED <<cfg, project, backup, own, wf, asked, eff, up, n, whole>>

-----------------------------------------------------------------------------
(* finalize: what a passed automation run does with the checkpoints. *)
FinalizeStep ==
  /\ Here("finalize")
  /\ CASE cfg.commit \notin {"auto", "final"} -> Goto("finish") /\ UNCHANGED <<wf, asked>>
       [] cfg.commit \in {"auto", "final"} /\ ~Unchanged(own.states) -> Throw
       [] cfg.commit = "final" /\ Unchanged(own.states) ->
            /\ job' = IF DOMAIN own.states = {} THEN [job EXCEPT !.pc = "finish"]
                      ELSE [job EXCEPT !.pc = "begin", !.fx = "commit", !.states = own.states]
            /\ UNCHANGED <<wf, asked>>
       [] OTHER -> /\ IF cfg.squash /\ Len(own.points) >= 2 THEN Do("squash") ELSE Goto("finish")
                   /\ UNCHANGED <<wf, asked>>
  /\ UNCHANGED <<cfg, project, backup, own, eff, art, up, n, whole>>

\* Mutant: only the newest checkpoint is looked for.
ExactGraph_TipOnly == own.points # <<>> /\ own.points[Len(own.points)] \in Ancestors[head]

(* Rewriting history is allowed while it holds exactly the recorded checkpoints. *)
ExactGraph == own.points # <<>> /\ head = own.points[Len(own.points)] /\ After(own.base, head) = own.points

Squash ==
  /\ Here("squashing")
  /\ IF own.base # 0 /\ ExactGraph
     THEN refs' = [refs EXCEPT !.squash = head] /\ head' = own.base /\ Goto("squash-commit")
     ELSE Done("nothing") /\ UNCHANGED <<refs, head>>
  /\ UNCHANGED <<cfg, file, objects, tracked, backup, own, wf, asked, eff, art, up, n, whole>>

SquashCommit ==
  /\ Here("squash-commit")
  /\ LET S == DOMAIN own.states IN
     \/ CommitOnly(head, S, "workflow", own.states) /\ S \cap Dirty # {} /\ Goto("squash-receipt")
     \/ head' = own.points[Len(own.points)] /\ Done("squash-failed") /\ UNCHANGED <<objects, tracked>>
  /\ UNCHANGED <<cfg, file, refs, backup, own, wf, asked, eff, art, up, n, whole>>

Receipt(pc, k) ==
  /\ Here(pc) /\ Done("ok")
  /\ eff' = [eff EXCEPT ![k].receipt = TRUE]
  /\ UNCHANGED <<cfg, project, backup, own, wf, asked, art, up, n, whole>>

SquashReceipt == Receipt("squash-receipt", "squash")

AfterSquash ==
  /\ Here("after") /\ job.fx = "squash"
  /\ CASE job.res = "ok" -> own' = [own EXCEPT !.points = <<eff["squash"].sha>>] /\ Goto("finish") /\ UNCHANGED <<wf, asked>>
       [] job.res = "nothing" -> Goto("finish") /\ UNCHANGED <<own, wf, asked>>
       [] OTHER -> Throw /\ UNCHANGED own
  /\ UNCHANGED <<cfg, project, backup, eff, art, up, n, whole>>

-----------------------------------------------------------------------------
(* restoreStartingState. *)
Restore ==
  /\ Here("restore") /\ Do("restore")
  /\ UNCHANGED <<cfg, project, backup, own, wf, asked, eff, art, up, n, whole>>

Rewind ==
  /\ Here("rewind")
  /\ CASE own.base = 0 \/ job.left = {} -> Done("restore-failed") /\ UNCHANGED <<refs, head>>
       [] own.base # 0 /\ job.left # {} /\ ExactGraph ->
            refs' = [refs EXCEPT !.restore = head] /\ head' = own.base /\ Goto("restoring")
       [] OTHER -> Goto("restoring") /\ UNCHANGED <<refs, head>>
  /\ UNCHANGED <<cfg, file, objects, tracked, backup, own, wf, asked, eff, art, up, n, whole>>

RestoreOne ==
  /\ Here("restoring")
  /\ \E p \in job.left :
       LET was == Tree(own.base)[p] IN
       /\ file' = [file EXCEPT ![p] = was]
       /\ tracked' = IF was = "none" THEN tracked \ {p} ELSE tracked \cup {p}
       /\ job' = [job EXCEPT !.left = @ \ {p}, !.pc = IF job.left = {p} THEN "restore-receipt" ELSE @]
  /\ UNCHANGED <<cfg, objects, head, refs, backup, own, wf, asked, eff, art, up, n, whole>>

RestoreReceipt == Receipt("restore-receipt", "restore")

AfterRestore ==
  /\ Here("after") /\ job.fx = "restore"
  /\ IF job.res = "ok" THEN own' = [NoOwn EXCEPT !.base = own.base] /\ Goto("finish") /\ UNCHANGED <<wf, asked>>
     ELSE Throw /\ UNCHANGED own
  /\ UNCHANGED <<cfg, project, backup, eff, art, up, n, whole>>

-----------------------------------------------------------------------------
(* Stopping.  The command variant runs inside the queue it then waits for. *)
Stop ==
  /\ Here("off") /\ wf.life \in {"ready", "running", "recovering"}
  /\ n.stops < MaxStops /\ Room
  /\ wf' = IF Unsettled # {} THEN [wf EXCEPT !.stop = TRUE, !.planned = FALSE]
           ELSE [wf EXCEPT !.life = "stopped", !.act = "", !.stop = FALSE, !.planned = FALSE]
  /\ n' = [n EXCEPT !.stops = @ + 1]
  /\ eff' = Cancelled
  /\ UNCHANGED <<cfg, project, backup, own, asked, art, job, up, whole>>

StopCommand ==
  /\ Here("off") /\ ~(wf.kind = "automation" /\ wf.life \notin {"ready", "stopped"})
  /\ n.stops < MaxStops /\ Room
  /\ Goto("self")
  /\ n' = [n EXCEPT !.stops = @ + 1]
  /\ UNCHANGED <<cfg, project, backup, own, wf, asked, eff, art, up, whole>>

Activate ==
  /\ Here("off") /\ wf.life = "stopped"
  /\ End("ready")
  /\ UNCHANGED <<cfg, project, backup, own, asked, eff, art, job, up, n, whole>>

-----------------------------------------------------------------------------
(* The daemon ends and starts again. *)
Crash ==
  /\ up /\ n.crashes < MaxCrashes /\ Room
  /\ up' = FALSE /\ job' = Off
  /\ n' = [n EXCEPT !.crashes = @ + 1]
  /\ UNCHANGED <<cfg, project, backup, own, wf, asked, eff, art, whole>>

Restart ==
  /\ ~up /\ up' = TRUE
  /\ IF wf.life \in {"ready", "stopped"} THEN UNCHANGED <<wf, job>>
     ELSE /\ wf' = [wf EXCEPT !.life = "recovering", !.act = ""]
          /\ job' = [Off EXCEPT !.pc = IF wf.act # "" THEN "restore-action" ELSE "reconcile",
                                !.act = wf.act, !.left = Unsettled \ {"prompt"}]
  /\ UNCHANGED <<cfg, project, backup, own, asked, eff, art, n, whole>>

RestoreAction ==
  /\ Here("restore-action") /\ Wait(job.act, asked)
  /\ UNCHANGED <<cfg, project, backup, own, eff, art, up, n, whole>>

(* reconcileLocalEffect: what the receipts, the backup and git prove. *)
ByWorkflow(s) == objects[s].by = "workflow"

\* Mutant: any new head proves the commit.
CommitProof_AnyHead == IF head = eff["commit"].pre THEN "not_started" ELSE "succeeded"

CommitProof ==
  CASE head = eff["commit"].pre -> "not_started"
    [] head # eff["commit"].pre /\ ByWorkflow(head) -> "succeeded"
    [] OTHER -> "uncertain"

SquashProof ==
  CASE eff["squash"].receipt -> "succeeded"
    [] ~eff["squash"].receipt /\ head = eff["squash"].pre -> "not_started"
    [] OTHER -> IF ByWorkflow(head) /\ objects[head].parent = own.base /\ refs.squash # 0
                   /\ After(own.base, refs.squash) = own.points THEN "succeeded" ELSE "uncertain"

RevertProof ==
  CASE backup.undone -> "succeeded"
    [] ~backup.undone /\ ~backup.taken -> "not_started"
    [] OTHER -> IF Unchanged(backup.manifest) THEN "succeeded" ELSE "uncertain"

(* git diff --name-only base -- paths: files the index does not know are not listed. *)
Listed == {p \in DOMAIN own.states : file[p] # Tree(own.base)[p] /\ (p \in tracked \/ Tree(own.base)[p] # "none")}

Rewindable ==
  LET pre == eff["restore"].pre IN
  own.points # <<>> /\ pre = own.points[Len(own.points)] /\ After(own.base, pre) = own.points

RestoreProof ==
  CASE eff["restore"].receipt -> "succeeded"
    [] ~eff["restore"].receipt /\ (own.base = 0 \/ DOMAIN own.states = {}) -> "uncertain"
    [] OTHER -> IF /\ Listed = {}
                   /\ IF Rewindable THEN refs.restore = own.points[Len(own.points)] /\ head = own.base
                      ELSE head = eff["restore"].pre
                THEN "succeeded" ELSE "uncertain"

Proof(k) ==
  CASE k = "apply" -> (IF backup.receipt THEN "succeeded" ELSE IF ~backup.taken THEN "not_started" ELSE "uncertain")
    [] k = "commit" -> CommitProof
    [] k = "squash" -> SquashProof
    [] k = "revert" -> RevertProof
    [] k = "restore" -> RestoreProof

(* "Not started" is refused for the kinds whose retry policy is never: recovery ends there. *)
Reconcile ==
  /\ Here("reconcile")
  /\ \E k \in job.left :
       LET proof == Proof(k) IN
       IF proof = "not_started" /\ k \in {"apply", "squash"}
       THEN job' = Off /\ UNCHANGED eff
       ELSE /\ job' = [job EXCEPT !.left = @ \ {k}]
            /\ eff' = [eff EXCEPT ![k] = CASE proof = "succeeded" -> [@ EXCEPT !.st = "succeeded", !.res = "ok", !.sha = head]
                                           [] proof = "not_started" -> [@ EXCEPT !.st = "planned"]
                                           [] OTHER -> [@ EXCEPT !.st = "uncertain"]]
  /\ UNCHANGED <<cfg, project, backup, own, wf, asked, art, up, n, whole>>

Resume ==
  /\ Here("reconcile") /\ job.left = {}
  /\ IF Unsettled = {} /\ wf.kind # "manual"
     THEN /\ wf' = [wf EXCEPT !.life = "running"]
          /\ job' = [Off EXCEPT !.pc = IF wf.kind = "passive" THEN "artifact" ELSE "finalize", !.by = wf.kind, !.u = wf.u]
          /\ UNCHANGED asked
     ELSE Wait("recovery", asked)
  /\ UNCHANGED <<cfg, project, backup, own, eff, art, up, n, whole>>

-----------------------------------------------------------------------------
(* The user in the same tree. *)
UserMayAct == ~up \/ job.pc \in {"off", "checks", "prompting", "self"}

Edit ==
  /\ UserMayAct /\ n.edits < MaxEdits /\ Room
  /\ \E p \in Paths : file[p] # "mine" /\ file' = [file EXCEPT ![p] = "mine"]
  /\ n' = [n EXCEPT !.edits = @ + 1]
  /\ UNCHANGED <<cfg, objects, head, tracked, refs, backup, own, wf, asked, eff, art, job, up, whole>>

UserCommit ==
  /\ UserMayAct /\ n.commits < MaxUserCommits /\ Room
  /\ \E S \in SUBSET Dirty : S # {} /\ CommitOnly(head, S, "user", NoPath)
  /\ n' = [n EXCEPT !.commits = @ + 1]
  /\ UNCHANGED <<cfg, file, refs, backup, own, wf, asked, eff, art, job, up, whole>>

Choose == ChooseApprove \/ ChooseReject \/ ChooseCommit \/ ChooseNoCommit \/ ChooseFix \/ ChooseKeep
          \/ ChooseRevert \/ ChooseRetry \/ ChooseStop

Next ==
  \/ Observe \/ Finalize \/ RestoreStart \/ Artifact \/ Plan \/ Inspect
  \/ Begin \/ Dispatch \/ Settle
  \/ Backup \/ WriteOne \/ WriteFails \/ ChecksPass \/ ChecksFail \/ ApplyReceipt \/ UndoOne
  \/ AfterApply \/ Capture \/ FailedChecks
  \/ MaybeCommit \/ PromptAnswers \/ PromptFails \/ AfterPrompt \/ Message \/ Approved \/ Commit \/ AfterCommit
  \/ Complete \/ Finish \/ Choose \/ AfterRevert \/ Reverted
  \/ FinalizeStep \/ Squash \/ SquashCommit \/ SquashReceipt \/ AfterSquash
  \/ Restore \/ Rewind \/ RestoreOne \/ RestoreReceipt \/ AfterRestore
  \/ Stop \/ StopCommand \/ Activate
  \/ Crash \/ Restart \/ RestoreAction \/ Reconcile \/ Resume
  \/ Edit \/ UserCommit

Spec == Init /\ [][Next]_vars

-----------------------------------------------------------------------------
States == UNION {[S -> Contents] : S \in SUBSET Paths}
Statuses == {"none", "planned", "dispatched", "succeeded", "failed", "uncertain", "cancelled"}
Results == {"", "ok", "nothing", "threw", "write-failed", "checks-failed", "prompt-failed", "commit-failed",
            "squash-failed", "restore-failed"}
Places == {"off", "self", "artifact", "plan", "inspect", "begin", "dispatch", "settle", "after", "backup", "write",
           "checks", "receipt", "undo", "capture", "failed-checks", "commit", "prompting", "message", "approved",
           "committing", "complete", "reverted", "finish", "finalize", "squashing", "squash-commit", "squash-receipt",
           "restore", "rewind", "restoring", "restore-receipt", "restore-action", "reconcile"}
Kinds == {"passive", "automation", "manual"}
Actors == Kinds \cup {"approve", "commit", "keep", "fix", "revert"}
Actions == {"", "apply", "commit", "failed-checks", "recovery"}

Objects == [parent : Nat, tree : [Paths -> Contents], by : {"start", "workflow", "user"}, seen : States, run : 0..MaxRuns]
Owns == [base : Shas, points : Seq(Shas), states : States]
WorkflowRecords == [life : {"stopped", "ready", "running", "waiting", "recovering"}, kind : Kinds \cup {""}, act : Actions,
                    stop : BOOLEAN, u : Updates \cup {""}, planned : BOOLEAN]
Asks == [u : Updates \cup {""}, states : States, pre : Shas, prev : Owns]
Ledgers == [Effects -> [st : Statuses, pre : Shas, res : Results, sha : Shas, receipt : BOOLEAN]]
Backups == [manifest : States, taken : BOOLEAN, receipt : BOOLEAN, undone : BOOLEAN]
Artifacts == {"none", "verified", "pending-approval", "awaiting-check-decision", "awaiting-commit", "applied", "reverted"}
Jobs == [pc : Places, fx : Effects \cup {""}, u : Updates \cup {""}, by : Actors \cup {""}, states : States, pre : Shas,
         left : SUBSET (Paths \cup Effects), res : Results, act : Actions]
Counters == [runs : 0..MaxRuns, edits : 0..MaxEdits, commits : 0..MaxUserCommits, crashes : 0..MaxCrashes, stops : 0..MaxStops]

(* The shape of the state: the workflow record, the ledger of effects, git, the job in the queue. *)
TypeOK ==
  /\ cfg \in Configs
  /\ file \in [Paths -> Contents] /\ tracked \subseteq Paths
  /\ objects \in Seq(Objects) /\ \A s \in DOMAIN objects : objects[s].parent < s
  /\ head \in DOMAIN objects /\ refs \in [squash : Shas, restore : Shas]
  /\ own \in Owns /\ wf \in WorkflowRecords /\ asked \in Asks /\ eff \in Ledgers /\ backup \in Backups
  /\ art \in [Updates -> Artifacts] /\ job \in Jobs /\ n \in Counters
  /\ up \in BOOLEAN /\ whole \subseteq Updates
  /\ (wf.act # "") <=> (wf.life = "waiting")

(* A commit the workflow makes holds the states it recorded after its apply (what the user was
   asked to approve) on its own paths, and nothing else: the user's changes on other paths, or
   made since, are not in it (gitCommit.js verifyGitPathStates and commit --only). *)
CommitIsReviewed ==
  \A s \in DOMAIN objects : ByWorkflow(s) =>
    \A p \in Paths : Tree(s)[p] = IF p \in DOMAIN objects[s].seen THEN objects[s].seen[p] ELSE Tree(objects[s].parent)[p]

(* Rewriting the history, for a squash or a restore, never drops a commit of the user. *)
UserCommitsKept ==
  \A s \in DOMAIN objects : objects[s].by = "user" => s \in Ancestors[head]

(* Applying an update never overwrites a file with an edit of the user that is neither committed
   nor taken over by an earlier capture, when the workflow works with git (#assertNoUserOverlap). *)
EditsUntouched ==
  [][\A p \in Paths :
       (job.pc = "write" /\ cfg.commit # "none" /\ file[p] = "mine" /\ file'[p] # "mine")
         => Tip[p] = "mine" \/ (p \in DOMAIN own.states /\ own.states[p] = "mine")]_vars

OfRun(s) == ByWorkflow(s) /\ objects[s].run = n.runs

(* The ledger tells the truth after any restart: a commit or squash recorded as made exists, and
   one that is planned again has not been made (reconcileLocalEffect). *)
EvidenceIsTrue ==
  \A k \in {"commit", "squash"} :
    /\ eff[k].st = "succeeded" /\ eff[k].res = "ok" => \E s \in DOMAIN objects : OfRun(s)
    /\ eff[k].st = "planned" => \A s \in DOMAIN objects : ~OfRun(s)

(* A passive run, or the decision of the user it waited for (approve, commit or not, keep, fix),
   records its artifact as applied only if the last application of it wrote every file and was not
   undone since, whatever failed, was reverted or was interrupted on the way.  Nothing is said of
   the ZIPs of an automation run: its second one is recorded as applied without being written. *)
PassiveApplyIsWhole == \A u \in Updates : art[u] = "applied" => u \in whole
=============================================================================
