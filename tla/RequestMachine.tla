---------------------------- MODULE RequestMachine ----------------------------
(***************************************************************************)
(* The canonical request of the bridge server: one ChatGPT request, from   *)
(* the moment it is created until its terminal outcome.                    *)
(*                                                                         *)
(* The state is the one src/bridge/state/requestPolicy.js creates, without *)
(* the fields no decision reads (texts, urls, timestamps, diagnostics).    *)
(* An action is one server handler: the events it feeds to the reducer,    *)
(* in order, with the guards the handler and the reducer put on them.  A   *)
(* rejected event commits nothing (entityStore.js), hence is a stuttering  *)
(* step.                                                                   *)
(*                                                                         *)
(* The environment is open: any page may be observed at any time, any      *)
(* browser effect may report any outcome, late, twice or out of order.     *)
(***************************************************************************)
EXTENDS Naturals

CONSTANTS
  Clients,        \* the browser clients (scoped tabs) that talk to the server
  NoClient,
  Keys,           \* user-turn keys
  NoKey,
  BrowserEffects, \* physical browser effects of this request
  Unconfirmed,    \* the server's own ":prompt.submit:unconfirmed" effect
  CoordEffects,   \* server-side (coordinator) effects of this request
  NoEffect,
  KindOf,         \* the kind of each browser effect
  MaxRetries,     \* responseRetryPolicy.maxRetries
  MaxEpoch,       \* bound on the response epochs explored
  Required        \* does the caller require an output artifact?

Kinds == {"prepare", "submit", "resubmit", "cancel", "steer"}

ASSUME RequestConstants ==
  /\ NoClient \notin Clients
  /\ NoKey \notin Keys
  /\ NoEffect \notin BrowserEffects \cup CoordEffects
  /\ KindOf \in [BrowserEffects -> Kinds]
  /\ Unconfirmed \in BrowserEffects /\ KindOf[Unconfirmed] = "submit"
  /\ MaxRetries \in Nat
  /\ MaxEpoch \in Nat
  /\ Required \in BOOLEAN

VARIABLES
  lifecycle,    \* state.lifecycle
  submission,   \* state.submission
  generation,   \* state.generation
  blocker,      \* state.blocker
  output,       \* state.output
  artifact,     \* state.artifact.status
  response,     \* state.response: epoch, its user-turn key, the previous key
  lastKey,      \* boundary key of state.lastObservation, if it established one
  client,       \* state.source.clientId
  connection,   \* state.source.connection
  heartbeat,    \* has a heartbeat been seen (timestamps.heartbeatAt > 0)?
  browser,      \* state.effect.browser: active effect and last result
  coordinator,  \* state.effect.coordinator.activeId
  completion,   \* state.completion: pending, and is a settle deadline set?
  retry,        \* state.responseRetry
  terminal,     \* state.terminal.code
  target,       \* clientId of the pending runtime: where messages come from
  emitted       \* canonical effects the last accepted handler asked for

page    == <<generation, blocker, output, artifact>>
source  == <<client, connection, heartbeat>>
effects == <<browser, coordinator>>
turn    == <<response, lastKey>>
vars    == <<lifecycle, submission, page, turn, source, effects, completion,
             retry, terminal, target, emitted>>

-----------------------------------------------------------------------------
(* Values *)

LiveStages == {"created", "preparing", "submitted", "awaiting_assistant",
               "generating", "finalizing", "artifact_settling"}
Lifecycles == LiveStages \cup {"completed", "failed", "cancelled"}

NoCode == "none"
Codes  == {"completed", "cancelled", "failed", "explicit_ui_error", "source_lost",
           "conversation_changed", "request_replaced", "effect_failed",
           "invalid_transition", "required_artifact_missing", "deadline_exceeded",
           "recovery_uncertain", "retry_exhausted"}

Results == {"none", "succeeded", "failed", "cancelled", "uncertain", "reconciled"}

DeadlineKinds == {"recovery", "source_reconnect", "hard_liveness",
                  "response_retry", "artifact_settle", "artifact_probe",
                  "forced_snapshot", "progress_liveness"}

(* LIFECYCLE_RANK; "targeting_source" and "submitting" are never entered.  *)
Rank == [l \in Lifecycles |->
  CASE l = "created"            -> 0
    [] l = "preparing"          -> 2
    [] l = "submitted"          -> 4
    [] l = "awaiting_assistant" -> 5
    [] l = "generating"         -> 6
    [] l = "finalizing"         -> 7
    [] l = "artifact_settling"  -> 8
    [] OTHER                    -> 9]

(* The canonical effects a transition can ask for.                          *)
EffectRequests ==
       [type : {"release"}, on : Clients]
  \cup [type : {"reconcile", "step", "cancel_retry"}, on : BrowserEffects]
  \cup [type : {"snapshot", "probe", "response_retry"}, on : {NoEffect}]

PhysicalEffects == BrowserEffects \ {Unconfirmed}

TypeOK ==
  /\ lifecycle \in Lifecycles
  /\ submission \in {"pending", "accepted", "submitted"}
  /\ generation \in {"idle", "active", "stopped"}
  /\ blocker \in {"none", "recovery", "explicit_error"}
  /\ output \in {"none", "streaming", "final"}
  /\ artifact \in {"not_expected", "pending", "ready"}
  /\ response \in [epoch : Nat, key : Keys \cup {NoKey}, previous : Keys \cup {NoKey}]
  /\ lastKey \in Keys \cup {NoKey}
  /\ client \in Clients \cup {NoClient}
  /\ connection \in {"unknown", "connected", "disconnected", "reconciling"}
  /\ heartbeat \in BOOLEAN
  /\ browser \in [active : BrowserEffects \cup {NoEffect},
                  result : Results,
                  of     : BrowserEffects \cup {NoEffect}]
  /\ coordinator \in CoordEffects \cup {NoEffect}
  /\ completion \in [pending : BOOLEAN, deadline : BOOLEAN]
  /\ retry \in [attempts : Nat, scheduled : Nat,
                status : {"idle", "scheduled", "dispatching"},
                key : Keys \cup {NoKey}]
  /\ terminal \in Codes \cup {NoCode}
  /\ target \in Clients \cup {NoClient}
  /\ emitted \in SUBSET EffectRequests

-----------------------------------------------------------------------------
(* Policy operators *)

Live == terminal = NoCode

CanAdvance(from, to) ==
  \/ from = "generating" /\ to = "awaiting_assistant"
  \/ from = "finalizing" /\ to = "generating"
  \/ Rank[to] >= Rank[from]

(* applyLifecyclePatch: a regression is ignored, not an error.              *)
Advance(from, to) == IF CanAdvance(from, to) THEN to ELSE from

ContractSatisfied(status) == Required => status = "ready"

(* Mutant: the lifecycle takes the terminal code.                           *)
CodeAsLifecycle(code) == code

TerminalLifecycle(code) ==
  CASE code = "completed" -> "completed"
    [] code = "cancelled" -> "cancelled"
    [] OTHER              -> "failed"

InitialArtifact == IF Required THEN "pending" ELSE "not_expected"

HasActiveEffect == browser.active # NoEffect \/ coordinator # NoEffect

RetryPending == retry.status \in {"scheduled", "dispatching"}

(* requestDeadlinePolicy.js.  The coordinator re-syncs its timers after     *)
(* every commit, so the timers armed are a function of the state.  A next   *)
(* probe time is set exactly while a completion is pending, and nothing     *)
(* ever arms a deadline of kind "effect".                                   *)
Answering == connection \notin {"reconciling", "disconnected"}
Settling  == lifecycle = "artifact_settling"

(* Mutant: a source that beats is not watched for silence.                  *)
DueWithoutLiveness == [
  recovery          |-> connection = "reconciling",
  source_reconnect  |-> connection = "disconnected",
  hard_liveness     |-> FALSE,
  response_retry    |-> Answering /\ retry.status = "scheduled",
  artifact_settle   |-> Answering /\ Settling /\ completion.deadline,
  artifact_probe    |-> Answering /\ Settling /\ completion.pending /\ ~HasActiveEffect,
  forced_snapshot   |-> Answering /\ ~Settling /\ client # NoClient /\ ~HasActiveEffect,
  progress_liveness |-> Answering /\ ~Settling /\ submission # "submitted"
                        /\ generation # "active"]

Due == [
  recovery          |-> connection = "reconciling",
  source_reconnect  |-> connection = "disconnected",
  hard_liveness     |-> Answering /\ client # NoClient /\ heartbeat,
  response_retry    |-> Answering /\ retry.status = "scheduled",
  artifact_settle   |-> Answering /\ Settling /\ completion.deadline,
  artifact_probe    |-> Answering /\ Settling /\ completion.pending /\ ~HasActiveEffect,
  forced_snapshot   |-> Answering /\ ~Settling /\ client # NoClient /\ ~HasActiveEffect,
  progress_liveness |-> Answering /\ ~Settling /\ submission # "submitted"
                        /\ generation # "active"]

Armed == {k \in DeadlineKinds : Live /\ Due[k]}

-----------------------------------------------------------------------------
(* Creation: sendRequest creates an unbound request, resumeActiveRequest    *)
(* one that is already submitted and bound to the tab that runs it, at the  *)
(* response epoch that tab reports.                                         *)

NoRetry      == [attempts |-> 0, scheduled |-> 0, status |-> "idle", key |-> NoKey]
NoCompletion == [pending |-> FALSE, deadline |-> FALSE]

Fresh ==
  /\ lifecycle = "created"
  /\ submission = "pending"
  /\ client = NoClient /\ target = NoClient
  /\ connection = "unknown"
  /\ artifact = InitialArtifact
  /\ response = [epoch |-> 0, key |-> NoKey, previous |-> NoKey]

(* A resumed request never requires an artifact.                            *)
ResumedOn(c) ==
  /\ ~Required
  /\ lifecycle = "awaiting_assistant"
  /\ submission = "submitted"
  /\ client = c /\ target = c
  /\ connection = "connected"
  /\ artifact = "not_expected"
  /\ \E e \in 0..MaxEpoch : response = [epoch |-> e, key |-> NoKey, previous |-> NoKey]

Init ==
  /\ Fresh \/ \E c \in Clients : ResumedOn(c)
  /\ generation = "idle" /\ blocker = "none" /\ output = "none"
  /\ lastKey = NoKey
  /\ heartbeat = FALSE
  /\ browser = [active |-> NoEffect, result |-> "none", of |-> NoEffect]
  /\ coordinator = NoEffect
  /\ completion = NoCompletion
  /\ retry = NoRetry
  /\ terminal = NoCode
  /\ emitted = {}

-----------------------------------------------------------------------------
(* Shared parts of the handlers *)

BrowserResult(result, e) ==
  browser' = [active |-> NoEffect, result |-> result, of |-> e]

(* Mutant: the browser slot survives the outcome.                           *)
KeepBrowserEffect == UNCHANGED browser

NoBrowserEffect == browser' = [browser EXCEPT !.active = NoEffect]

(* terminalResult: the outcome, and a release request to the source client. *)
(* The callers say what becomes of the browser slot.                        *)
Terminate(code) ==
  /\ terminal' = code
  /\ lifecycle' = TerminalLifecycle(code)
  /\ generation' = "stopped"
  /\ coordinator' = NoEffect
  /\ completion' = [completion EXCEPT !.pending = FALSE]
  /\ emitted' = [type : {"release"}, on : {client'} \ {NoClient}]

(* A terminal event that carries no page facts.                             *)
End(code) ==
  /\ UNCHANGED <<blocker, output, artifact, turn, source, retry, target>>
  /\ Terminate(code)

(* PROMPT_RETRY_ACCEPTED and STEER_ACCEPTED open the next response epoch.   *)
NextEpoch(k) ==
  /\ response.epoch < MaxEpoch
  /\ response' = [epoch |-> response.epoch + 1, key |-> k, previous |-> response.key]
  /\ generation' = "idle" /\ blocker' = "none" /\ output' = "none"
  /\ artifact' = InitialArtifact
  /\ completion' = NoCompletion
  /\ UNCHANGED lastKey

-----------------------------------------------------------------------------
(* Binding to a tab *)

(* sendRequest resolved a tab and sent it the prompt.                       *)
SourceBound(c) ==
  /\ Live /\ target = NoClient
  /\ target' = c /\ client' = c /\ connection' = "connected"
  /\ lifecycle' = Advance(lifecycle, "preparing")
  /\ emitted' = {}
  /\ UNCHANGED <<submission, page, turn, heartbeat, effects, completion, retry,
                 terminal>>

-----------------------------------------------------------------------------
(* Messages of the bound client about this request (handleClientMessage).   *)
(* The first one implicitly accepts the prompt (markPromptAccepted),        *)
(* whatever becomes of the message itself.                                  *)

Message == Live /\ target # NoClient

AcceptedSubmission == IF submission = "pending" THEN "accepted" ELSE submission
AcceptedLifecycle ==
  IF submission = "pending" THEN Advance(lifecycle, "preparing") ELSE lifecycle

(* A message without an event of its own, or whose event is rejected.       *)
ImplicitlyAccepted ==
  /\ Message /\ submission = "pending"
  /\ submission' = AcceptedSubmission /\ lifecycle' = AcceptedLifecycle
  /\ emitted' = {}
  /\ UNCHANGED <<page, turn, source, effects, completion, retry, terminal, target>>

EffectStarted(e) ==
  /\ Message
  /\ browser.active \in {NoEffect, e}
  /\ browser' = [active |-> e, result |-> "none", of |-> NoEffect]
  /\ submission' = AcceptedSubmission /\ lifecycle' = AcceptedLifecycle
  /\ emitted' = {}
  /\ UNCHANGED <<page, turn, source, coordinator, completion, retry, terminal, target>>

EffectStartConflict(e) ==
  /\ Message
  /\ browser.active \notin {NoEffect, e}
  /\ NoBrowserEffect
  /\ submission' = AcceptedSubmission
  /\ End("invalid_transition")

(* A result is a duplicate if it repeats the last one, stale if another     *)
(* effect is active.                                                        *)
FreshResult(result, e) ==
  /\ browser.active \in {NoEffect, e}
  /\ ~(browser.result = result /\ browser.of = e)

PreparationSucceeded(e) ==
  /\ Message /\ KindOf[e] \in {"prepare", "steer"} /\ FreshResult("succeeded", e)
  /\ BrowserResult("succeeded", e)
  /\ submission' = AcceptedSubmission /\ lifecycle' = AcceptedLifecycle
  /\ emitted' = {r \in [type : {"step"}, on : {e}] :
                   KindOf[e] = "prepare" /\ submission # "submitted"}
  /\ UNCHANGED <<page, turn, source, coordinator, completion, retry, terminal, target>>

(* The result of prompt.submit is the proof of submission.                  *)
PromptSubmitted(e) ==
  /\ Message /\ KindOf[e] = "submit" /\ FreshResult("succeeded", e)
  /\ BrowserResult("succeeded", e)
  /\ submission' = "submitted"
  /\ lifecycle' = Advance(AcceptedLifecycle, "submitted")
  /\ emitted' = {}
  /\ UNCHANGED <<page, turn, source, coordinator, completion, retry, terminal, target>>

(* A submit that carries retryAttempt: PROMPT_RETRY_ACCEPTED if it fits the *)
(* epoch and the scheduled attempt, else only the effect result.            *)
AwaitedAttempt == IF retry.scheduled = 0 THEN 1 ELSE retry.scheduled
RetryMatches(from, attempt) == from = response.epoch /\ attempt = AwaitedAttempt

RetryAccepted(e, attempt, k) ==
  /\ Message /\ KindOf[e] = "resubmit" /\ FreshResult("succeeded", e)
  /\ attempt = AwaitedAttempt
  /\ BrowserResult("succeeded", e)
  /\ NextEpoch(k)
  /\ submission' = "submitted"
  /\ lifecycle' = Advance(AcceptedLifecycle, "awaiting_assistant")
  /\ retry' = [NoRetry EXCEPT !.attempts = attempt]
  /\ emitted' = {}
  /\ UNCHANGED <<source, coordinator, terminal, target>>

RetryMismatched(e, from, attempt) ==
  /\ Message /\ KindOf[e] = "resubmit" /\ FreshResult("succeeded", e)
  /\ ~RetryMatches(from, attempt)
  /\ BrowserResult("succeeded", e)
  /\ submission' = AcceptedSubmission /\ lifecycle' = AcceptedLifecycle
  /\ emitted' = {}
  /\ UNCHANGED <<page, turn, source, coordinator, completion, retry, terminal, target>>

CancelSucceeded(e) ==
  /\ Message /\ KindOf[e] = "cancel" /\ FreshResult("succeeded", e)
  /\ BrowserResult("succeeded", e)
  /\ submission' = AcceptedSubmission
  /\ End("cancelled")

EffectCancelled(e) ==
  /\ Message /\ KindOf[e] # "cancel" /\ FreshResult("cancelled", e)
  /\ BrowserResult("cancelled", e)
  /\ submission' = AcceptedSubmission /\ lifecycle' = AcceptedLifecycle
  /\ emitted' = {}
  /\ UNCHANGED <<page, turn, source, coordinator, completion, retry, terminal, target>>

CancelNotExecuted(e) ==
  /\ Message /\ KindOf[e] = "cancel" /\ FreshResult("cancelled", e)
  /\ BrowserResult("cancelled", e)
  /\ submission' = AcceptedSubmission
  /\ End("effect_failed")

(* EFFECT_FAILED looks neither at the active effect nor at the last result. *)
EffectFailed(e) ==
  /\ Message
  /\ BrowserResult("failed", e)
  /\ submission' = AcceptedSubmission
  /\ End("effect_failed")

EffectFailedRetryably(e) ==
  /\ Message
  /\ BrowserResult("failed", e)
  /\ submission' = AcceptedSubmission /\ lifecycle' = AcceptedLifecycle
  /\ emitted' = {}
  /\ UNCHANGED <<page, turn, source, coordinator, completion, retry, terminal, target>>

-----------------------------------------------------------------------------
(* Uncertain effects and their reconciliation *)

Uncertain(e) ==
  /\ browser.active \in {NoEffect, e}
  /\ ~(browser.result = "uncertain" /\ browser.of = e /\ connection = "reconciling")
  /\ BrowserResult("uncertain", e)
  /\ connection' = "reconciling"
  /\ blocker' = "recovery"
  /\ emitted' = [type : {"reconcile"}, on : {e}]
  /\ UNCHANGED <<generation, output, artifact, turn, client, heartbeat, coordinator,
                 completion, retry, terminal, target>>

(* The message carries the response epoch of the effect.                    *)
EffectUncertain(e, epoch) ==
  /\ Message /\ epoch = response.epoch
  /\ Uncertain(e)
  /\ submission' = AcceptedSubmission /\ lifecycle' = AcceptedLifecycle

(* recoverUnsubmittedReload: the bound tab reported ready or changed before *)
(* the submission was proved.                                               *)
UnsubmittedReload ==
  /\ Message /\ submission # "submitted"
  /\ Uncertain(IF browser.active = NoEffect THEN Unconfirmed ELSE browser.active)
  /\ UNCHANGED <<submission, lifecycle>>

(* The answer to request.effect.reconcile: no check against the active      *)
(* effect, which it clears.                                                 *)
Reconciled(e) ==
  /\ Message
  /\ BrowserResult("reconciled", e)
  /\ connection' = "connected" /\ blocker' = "none"
  /\ UNCHANGED <<lifecycle, submission, generation, output, artifact, turn, client,
                 heartbeat, coordinator, completion, retry, terminal, target>>

ReconciledSucceeded(e) ==
  /\ KindOf[e] # "cancel"
  /\ Reconciled(e)
  /\ emitted' = {r \in [type : {"step"}, on : {e}] :
                   KindOf[e] = "prepare" /\ submission # "submitted"}

ReconciledCancelSucceeded(e) ==
  /\ Message /\ KindOf[e] = "cancel"
  /\ BrowserResult("reconciled", e)
  /\ UNCHANGED submission
  /\ End("cancelled")

ReconciledNotStarted(e) ==
  /\ Reconciled(e)
  /\ emitted' = [type : {IF KindOf[e] = "cancel" THEN "cancel_retry" ELSE "step"},
                 on : {e}]

(* not_started under the retry policy "never", or failed.                   *)
ReconciledFatal(code) ==
  /\ Message
  /\ NoBrowserEffect
  /\ UNCHANGED submission
  /\ End(code)

-----------------------------------------------------------------------------
(* Coordinator effects (EffectRunner): prompt delivery, resume, forced      *)
(* snapshots, artifact probes, response retries, steers.                    *)

CoordinatorStarted(x) ==
  /\ Message
  /\ coordinator \in {NoEffect, x}
  /\ coordinator' = x
  /\ emitted' = {}
  /\ UNCHANGED <<lifecycle, submission, page, turn, source, browser, completion,
                 retry, terminal, target>>

CoordinatorConflict(x) ==
  /\ Message
  /\ coordinator \notin {NoEffect, x}
  /\ NoBrowserEffect /\ UNCHANGED submission
  /\ End("invalid_transition")

(* Succeeded, cancelled or retryably failed.  PROMPT_DELIVERED, which       *)
(* follows the delivery effect, finds the lifecycle already "preparing".    *)
CoordinatorSettled(x) ==
  /\ Message /\ coordinator = x
  /\ coordinator' = NoEffect
  /\ emitted' = {}
  /\ UNCHANGED <<lifecycle, submission, page, turn, source, browser, completion,
                 retry, terminal, target>>

CoordinatorFailed ==
  /\ Message
  /\ NoBrowserEffect /\ UNCHANGED submission
  /\ End("effect_failed")

-----------------------------------------------------------------------------
(* Observations of a page (tabObservationAdapter.js).  A page says which    *)
(* request the content script works on, the user-turn key it submitted, the *)
(* user turn it displays, what ChatGPT shows there, and whether the         *)
(* required artifact is among what it shows.                                *)

Shows == {"idle", "active", "stopped", "final",
          "transient",     \* the transient request error, retryable
          "fatal",         \* any other explicit error
          "final_error"}   \* the transient error beside a finished answer

Page == {p \in [owner : {"this", "other", "none"},
                key   : Keys \cup {NoKey},
                turn  : Keys \cup {NoKey},
                shows : Shows,
                ready : BOOLEAN] :
          /\ p.owner # "this" => p.key = NoKey /\ p.shows = "idle" /\ ~p.ready
          /\ p.ready => Required /\ p.shows \in {"active", "stopped", "final", "final_error"}}

PageGeneration(p) ==
  CASE p.shows = "active" -> "active"
    [] p.shows = "idle"   -> "idle"
    [] OTHER              -> "stopped"

PageOutput(p) ==
  CASE p.shows = "active"                              -> "streaming"
    [] p.shows \in {"stopped", "final", "final_error"} -> "final"
    [] OTHER                                           -> "none"

PageError(p) == p.shows \in {"transient", "fatal", "final_error"}

(* The blockers that wait for the user decide nothing: they count as none.  *)
PageBlocker(p) == IF PageError(p) THEN "explicit_error" ELSE "none"

PageLifecycle(p) ==
  CASE p.shows = "active"      -> "generating"
    [] PageOutput(p) = "final" -> "finalizing"
    [] OTHER                   -> "awaiting_assistant"

PageArtifact(p) ==
  IF ~Required THEN "not_expected" ELSE IF p.ready THEN "ready" ELSE "pending"

(* The submitted user turn, as the server knows it, else as the page does.  *)
SubmittedKey(p) ==
  CASE response.key # NoKey -> response.key
    [] response.key = NoKey /\ lastKey # NoKey -> lastKey
    [] OTHER -> p.key

DirectBoundary(p) == SubmittedKey(p) # NoKey /\ SubmittedKey(p) = p.turn

(* After a steer ChatGPT may continue the answer under the original turn.   *)
ContinuationBoundary(p) ==
  /\ p.owner = "this"
  /\ response.epoch >= 1
  /\ p.key # NoKey /\ p.key = SubmittedKey(p)
  /\ p.turn # NoKey /\ p.turn = response.previous

(* Mutant: the user turn is enough, submitted or not.                       *)
EstablishedUnsubmitted(p) == DirectBoundary(p) \/ ContinuationBoundary(p)

Established(p) ==
  /\ submission = "submitted"
  /\ DirectBoundary(p) \/ ContinuationBoundary(p)

Applies(p)   == p.owner = "this" /\ Established(p)
Candidate(p) == p.shows \in {"final", "final_error"} /\ Applies(p)
Bound        == submission \in {"accepted", "submitted"}

(* Mutant: every tab is heard.                                              *)
HearsAnyone(c, p) == Live /\ (p.owner = "this" => target # NoClient)

(* A tab that is not the target is heard as long as there is no target, but *)
(* it cannot work on this request.                                          *)
Hears(c, p) ==
  /\ Live
  /\ target \in {c, NoClient}
  /\ p.owner = "this" => target = c

(* What the observation patches before anything is decided about it.        *)
SeenBlocker(p)   == IF p.owner = "this" THEN PageBlocker(p) ELSE blocker
SeenOutput(p)    == IF Applies(p) THEN PageOutput(p) ELSE output
SeenArtifact(p)  == IF Applies(p) THEN PageArtifact(p) ELSE artifact
SeenGeneration(p)== IF Applies(p) THEN PageGeneration(p) ELSE generation
SeenLifecycle(p) == IF Applies(p) THEN Advance(lifecycle, PageLifecycle(p)) ELSE lifecycle
(* Mutant: an established user turn is not recorded.                        *)
SameResponse(p)  == response

SeenResponse(p)  == [response EXCEPT !.key = IF Established(p) THEN SubmittedKey(p) ELSE @]

Seen(c, p) ==
  /\ client' = c
  /\ response' = SeenResponse(p)
  /\ lastKey' = IF Applies(p) THEN SubmittedKey(p) ELSE NoKey
  /\ artifact' = SeenArtifact(p)
  /\ UNCHANGED target

(* The heartbeat that follows an observation by the owner of the request.   *)
Beat(p) ==
  IF p.owner = "this"
  THEN connection' = "connected" /\ heartbeat' = TRUE
  ELSE UNCHANGED <<connection, heartbeat>>

(* The terminal outcomes an observation can have.                           *)
SeenEnd(c, p, code) ==
  /\ Seen(c, p)
  /\ NoBrowserEffect
  /\ UNCHANGED <<submission, connection, heartbeat, retry>>
  /\ Terminate(code)

ObserveConversationChanged(c, p) ==
  /\ Hears(c, p) /\ Bound
  /\ blocker' = SeenBlocker(p) /\ output' = SeenOutput(p)
  /\ SeenEnd(c, p, "conversation_changed")

ObserveReplaced(c, p) ==
  /\ Hears(c, p) /\ Bound /\ p.owner = "other"
  /\ blocker' = SeenBlocker(p) /\ output' = SeenOutput(p)
  /\ SeenEnd(c, p, "request_replaced")

(* A page of another request is a replacement once the prompt is accepted.  *)
Replaced(p)       == Bound /\ p.owner = "other"
RecoveredFinal(p) == p.shows = "final_error" /\ Candidate(p)
Errs(p) == /\ ~Replaced(p) /\ ~RecoveredFinal(p)
           /\ SeenBlocker(p) = "explicit_error"

RetryableError(p) ==
  /\ p.owner = "this" /\ p.shows \in {"transient", "final_error"}
  /\ p.key # NoKey /\ p.key = SeenResponse(p).key

DuplicateError(p) == RetryPending /\ retry.key = p.key

ObserveExplicitError(c, p) ==
  /\ Hears(c, p) /\ Errs(p) /\ ~RetryableError(p)
  /\ blocker' = SeenBlocker(p) /\ output' = SeenOutput(p)
  /\ SeenEnd(c, p, "explicit_ui_error")

ObserveRetryExhausted(c, p) ==
  /\ Hears(c, p) /\ Errs(p) /\ RetryableError(p) /\ ~DuplicateError(p)
  /\ retry.attempts + 1 > MaxRetries
  /\ blocker' = SeenBlocker(p) /\ output' = SeenOutput(p)
  /\ SeenEnd(c, p, "retry_exhausted")

ObserveDuplicateError(c, p) ==
  /\ Hears(c, p) /\ Errs(p) /\ RetryableError(p) /\ DuplicateError(p)
  /\ Seen(c, p) /\ Beat(p)
  /\ lifecycle' = SeenLifecycle(p) /\ generation' = SeenGeneration(p)
  /\ blocker' = SeenBlocker(p) /\ output' = SeenOutput(p)
  /\ emitted' = {}
  /\ UNCHANGED <<submission, effects, completion, retry, terminal>>

(* Mutant: the retry budget is not checked.                                 *)
RetryWithoutBudget(c, p) ==
  /\ Hears(c, p) /\ Errs(p) /\ RetryableError(p) /\ ~DuplicateError(p)
  /\ Seen(c, p) /\ Beat(p)
  /\ lifecycle' = SeenLifecycle(p)
  /\ submission' = "accepted"
  /\ generation' = "stopped" /\ blocker' = "recovery" /\ output' = "none"
  /\ retry' = [retry EXCEPT !.scheduled = retry.attempts + 1,
                            !.status = "scheduled", !.key = p.key]
  /\ emitted' = {}
  /\ UNCHANGED <<effects, completion, terminal>>

ObserveRetryableError(c, p) ==
  /\ Hears(c, p) /\ Errs(p) /\ RetryableError(p) /\ ~DuplicateError(p)
  /\ retry.attempts + 1 <= MaxRetries
  /\ Seen(c, p) /\ Beat(p)
  /\ lifecycle' = SeenLifecycle(p)
  /\ submission' = "accepted"
  /\ generation' = "stopped" /\ blocker' = "recovery" /\ output' = "none"
  /\ retry' = [retry EXCEPT !.scheduled = retry.attempts + 1,
                            !.status = "scheduled", !.key = p.key]
  /\ emitted' = {}
  /\ UNCHANGED <<effects, completion, terminal>>

(* An answer in the awaited boundary cancels a retry that is pending.       *)
Resumes(p) == Applies(p) /\ (p.shows \in {"active", "final"})

SeenRetry(p) ==
  IF RetryPending /\ Resumes(p)
  THEN [retry EXCEPT !.status = "idle", !.scheduled = 0] ELSE retry

ObserveProgress(c, p) ==
  /\ Hears(c, p) /\ ~Replaced(p) /\ ~Errs(p) /\ ~Candidate(p)
  /\ Seen(c, p) /\ Beat(p)
  /\ lifecycle' = SeenLifecycle(p) /\ generation' = SeenGeneration(p)
  /\ blocker' = SeenBlocker(p) /\ output' = SeenOutput(p)
  /\ retry' = SeenRetry(p)
  /\ emitted' = {}
  /\ UNCHANGED <<submission, effects, completion, terminal>>

Finishes(p) == ~Replaced(p) /\ ~Errs(p) /\ Candidate(p)

(* Mutant: the output contract is not consulted.                            *)

ObserveCompleted(c, p) ==
  /\ Hears(c, p) /\ Finishes(p) /\ ContractSatisfied(PageArtifact(p))
  /\ blocker' = "none" /\ output' = "final"
  /\ Seen(c, p)
  /\ NoBrowserEffect
  /\ retry' = SeenRetry(p)
  /\ UNCHANGED <<submission, connection, heartbeat>>
  /\ Terminate("completed")

(* The observer knows no settle deadline: requestCanonicalCompletion, which *)
(* would set one, has no caller.                                            *)
ObserveArtifactMissing(c, p) ==
  /\ Hears(c, p) /\ Finishes(p) /\ ~ContractSatisfied(PageArtifact(p))
  /\ Seen(c, p) /\ Beat(p)
  /\ lifecycle' = "artifact_settling"
  /\ generation' = "stopped" /\ blocker' = "none" /\ output' = "final"
  /\ completion' = [pending |-> TRUE, deadline |-> FALSE]
  /\ retry' = SeenRetry(p)
  /\ emitted' = {}
  /\ UNCHANGED <<submission, effects, terminal>>

-----------------------------------------------------------------------------
(* The connection of the bound client *)

(* A heartbeat alone: an activity without an observation, a rejected        *)
(* observation, a reattachment after a reload.                              *)
Heartbeat ==
  /\ Message
  /\ client' = target /\ connection' = "connected" /\ heartbeat' = TRUE
  /\ emitted' = {}
  /\ UNCHANGED <<lifecycle, submission, page, turn, effects, completion, retry,
                 terminal, target>>

ClientClosed ==
  /\ Message
  /\ client' = target /\ connection' = "disconnected"
  /\ emitted' = {}
  /\ UNCHANGED <<lifecycle, submission, page, turn, heartbeat, effects, completion,
                 retry, terminal, target>>

(* ingestForcedSnapshot: an inactive answer while generation is thought     *)
(* active.  During a dispatched retry it names the next epoch: rejected.    *)
ForcedSnapshotInactive ==
  /\ Message
  /\ generation = "active" /\ response.key # NoKey
  /\ retry.status # "dispatching"
  /\ generation' = "stopped"
  /\ lifecycle' = Advance(lifecycle, "awaiting_assistant")
  /\ client' = target /\ lastKey' = response.key
  /\ emitted' = {}
  /\ UNCHANGED <<submission, blocker, output, artifact, response, connection,
                 heartbeat, effects, completion, retry, terminal, target>>

-----------------------------------------------------------------------------
(* Results of commands the server itself sent *)

SteerAccepted(k) ==
  /\ Message /\ submission # "pending"
  /\ NextEpoch(k)
  /\ lifecycle' = Advance(lifecycle, "awaiting_assistant")
  /\ emitted' = {}
  /\ UNCHANGED <<submission, source, effects, retry, terminal, target>>

BoundaryRebound(k) ==
  /\ Message /\ submission # "pending"
  /\ response' = [response EXCEPT !.key = k]
  /\ emitted' = {}
  /\ UNCHANGED <<lifecycle, submission, page, lastKey, source, effects, completion,
                 retry, terminal, target>>

BoundaryLost ==
  /\ Message /\ submission # "pending"
  /\ NoBrowserEffect /\ UNCHANGED submission
  /\ End("recovery_uncertain")

(* A rejected command, a failed delivery, an unresolvable target.           *)
Failed ==
  /\ Live
  /\ NoBrowserEffect /\ UNCHANGED submission
  /\ End("failed")

(* The caller cancels before a tab is bound.                                *)
CancelledWithoutSource ==
  /\ Live /\ target = NoClient
  /\ NoBrowserEffect /\ UNCHANGED submission
  /\ End("cancelled")

-----------------------------------------------------------------------------
(* Deadlines (DEADLINE_REACHED) *)

EndingDeadline ==
  [recovery          |-> "recovery_uncertain",
   source_reconnect  |-> "source_lost",
   artifact_settle   |-> "required_artifact_missing",
   progress_liveness |-> "deadline_exceeded"]

DeadlineEnds(k) ==
  /\ k \in Armed \cap DOMAIN EndingDeadline
  /\ NoBrowserEffect /\ UNCHANGED submission
  /\ End(EndingDeadline[k])

RetryDue ==
  /\ "response_retry" \in Armed
  /\ retry' = [retry EXCEPT !.status = "dispatching"]
  /\ emitted' = [type : {"response_retry"}, on : {NoEffect}]
  /\ UNCHANGED <<lifecycle, submission, page, turn, source, effects, completion,
                 terminal, target>>

ProbeDue(k, what) ==
  /\ k \in Armed
  /\ emitted' = [type : {what}, on : {NoEffect}]
  /\ UNCHANGED <<lifecycle, submission, page, turn, source, effects, completion,
                 retry, terminal, target>>

HardLivenessDue ==
  /\ "hard_liveness" \in Armed
  /\ connection' = "disconnected"
  /\ emitted' = {}
  /\ UNCHANGED <<lifecycle, submission, page, turn, client, heartbeat, effects,
                 completion, retry, terminal, target>>

-----------------------------------------------------------------------------
EffectMessage(e) ==
  \/ EffectStarted(e)
  \/ EffectStartConflict(e)
  \/ PreparationSucceeded(e)
  \/ PromptSubmitted(e)
  \/ CancelSucceeded(e)
  \/ EffectCancelled(e)
  \/ CancelNotExecuted(e)
  \/ EffectFailed(e)
  \/ EffectFailedRetryably(e)
  \/ \E epoch \in 0..MaxEpoch : EffectUncertain(e, epoch)
  \/ \E attempt \in 1..MaxRetries :
       \/ \E k \in Keys \cup {NoKey} : RetryAccepted(e, attempt, k)
       \/ \E from \in 0..MaxEpoch : RetryMismatched(e, from, attempt)

Reconciliation ==
  \/ UnsubmittedReload
  \/ \E e \in BrowserEffects :
       \/ ReconciledSucceeded(e)
       \/ ReconciledCancelSucceeded(e)
       \/ ReconciledNotStarted(e)
  \/ \E code \in {"recovery_uncertain", "effect_failed"} : ReconciledFatal(code)

CoordinatorEffect ==
  \/ CoordinatorFailed
  \/ \E x \in CoordEffects :
       CoordinatorStarted(x) \/ CoordinatorConflict(x) \/ CoordinatorSettled(x)

Observation(c, p) ==
  \/ ObserveConversationChanged(c, p)
  \/ ObserveReplaced(c, p)
  \/ ObserveExplicitError(c, p)
  \/ ObserveRetryExhausted(c, p)
  \/ ObserveDuplicateError(c, p)
  \/ ObserveRetryableError(c, p)
  \/ ObserveProgress(c, p)
  \/ ObserveCompleted(c, p)
  \/ ObserveArtifactMissing(c, p)

CommandResult ==
  \/ \E k \in Keys \cup {NoKey} : SteerAccepted(k)
  \/ \E k \in Keys : BoundaryRebound(k)
  \/ BoundaryLost
  \/ Failed
  \/ CancelledWithoutSource

Deadline ==
  \/ \E k \in DeadlineKinds : DeadlineEnds(k)
  \/ RetryDue
  \/ ProbeDue("forced_snapshot", "snapshot")
  \/ ProbeDue("artifact_probe", "probe")
  \/ HardLivenessDue

Next ==
  \/ \E c \in Clients : SourceBound(c)
  \/ ImplicitlyAccepted
  \/ \E e \in PhysicalEffects : EffectMessage(e)
  \/ Reconciliation
  \/ CoordinatorEffect
  \/ \E c \in Clients, p \in Page : Observation(c, p)
  \/ Heartbeat
  \/ ClientClosed
  \/ ForcedSnapshotInactive
  \/ CommandResult
  \/ Deadline

Spec == Init /\ [][Next]_vars

-----------------------------------------------------------------------------
(* Properties *)

(* What requestInvariants.js checks after every transition: a terminal      *)
(* request neither generates nor keeps an active effect in either domain,   *)
(* and the lifecycle and the outcome agree.  As it always holds, the        *)
(* reducer's fallback to "invalid_transition", which would not release the  *)
(* tab, is never taken.                                                     *)
RequestStateInvariants ==
  /\ ~Live => /\ generation # "active"
              /\ ~HasActiveEffect
              /\ lifecycle = TerminalLifecycle(terminal)
  /\ lifecycle \notin LiveStages => ~Live
  /\ lifecycle = "completed" => ContractSatisfied(artifact)

(* The automatic retry of a transient error stays within its budget, knows  *)
(* the attempt it waits for and the turn that failed, and is never pending  *)
(* while an answer is being generated (requestTransitions.js).              *)
RetryConsistent ==
  /\ retry.attempts <= MaxRetries
  /\ RetryPending => /\ retry.scheduled = retry.attempts + 1
                     /\ retry.scheduled <= MaxRetries
                     /\ retry.key # NoKey
                     /\ generation # "active"
  /\ ~RetryPending => retry.scheduled = 0

(* Generation is believed active only for a submitted user turn the server  *)
(* can name: steering, forced snapshots and the liveness policy rely on it. *)
GeneratingOwnTurn ==
  generation = "active" => response.key # NoKey /\ blocker # "explicit_error"

(* Evidence only completes a request whose prompt is proved to be submitted *)
(* and whose user turn is known, with its whole output contract fulfilled.  *)
CompletedWithEvidence ==
  terminal = "completed" =>
    /\ submission = "submitted"
    /\ response.key # NoKey
    /\ output = "final" /\ blocker = "none"
    /\ ContractSatisfied(artifact)

(* The canonical source is the tab the prompt went to, and every terminal   *)
(* outcome of a bound request asks that very tab to release it.             *)
TargetReleased ==
  target # NoClient =>
    /\ client = target
    /\ ~Live => emitted = [type : {"release"}, on : {target}]

(* A request that is still open is always watched: a deadline is armed or   *)
(* an effect whose own timeout reports back is running.                     *)
Watched == Live => Armed # {} \/ HasActiveEffect

(* Response epochs follow each other one by one, and no evidence of the     *)
(* previous epoch (activity, output, artifact, pending completion) is       *)
(* carried into the next one.                                               *)
EpochsOpenClean ==
  [][response'.epoch # response.epoch =>
       /\ response'.epoch = response.epoch + 1
       /\ response'.previous = response.key
       /\ generation' = "idle" /\ output' = "none" /\ blocker' = "none"
       /\ artifact' = InitialArtifact
       /\ ~completion'.pending]_vars

(* The machine implements the contract of a request.                        *)
Contract == INSTANCE RequestContract WITH
  tab       <- target,
  submitted <- submission = "submitted",
  epoch     <- response.epoch,
  attempts  <- retry.attempts,
  retrying  <- RetryPending,
  outcome   <- terminal

ImplementsContract == Contract!Spec
=============================================================================
