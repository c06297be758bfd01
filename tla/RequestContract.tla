---------------------------- MODULE RequestContract ----------------------------
(***************************************************************************)
(* What the bridge promises about one request, whatever the browser does:  *)
(* it is bound to one tab for its whole life, it is answered at most once, *)
(* each response epoch follows the one before it, automatic retries stay   *)
(* within their budget, and an answer is only reported for a prompt that   *)
(* is proved to be submitted.  RequestMachine implements it.               *)
(***************************************************************************)
EXTENDS Naturals

CONSTANTS Clients, NoClient, Codes, NoCode, MaxRetries, MaxEpoch, Required

VARIABLES
  tab,        \* the tab the prompt was sent to
  submitted,  \* is the current prompt proved to be submitted?
  epoch,      \* the response epoch
  attempts,   \* automatic retries that were accepted
  retrying,   \* is a retry scheduled or on its way?
  outcome

contract == <<tab, submitted, epoch, attempts, retrying, outcome>>

Open  == outcome = NoCode
Bound == Open /\ tab # NoClient

Unsent  == tab = NoClient /\ ~submitted /\ epoch = 0
Resumed == tab \in Clients /\ submitted /\ epoch \in 0..MaxEpoch

Init ==
  /\ Unsent \/ Resumed
  /\ attempts = 0 /\ ~retrying
  /\ outcome = NoCode

Bind ==
  /\ Open /\ tab = NoClient
  /\ tab' \in Clients
  /\ UNCHANGED <<submitted, epoch, attempts, retrying, outcome>>

Submit ==
  /\ Bound
  /\ submitted' = TRUE
  /\ UNCHANGED <<tab, epoch, attempts, retrying, outcome>>

(* The prompt failed: it no longer counts as submitted.                     *)
ScheduleRetry ==
  /\ Bound /\ attempts < MaxRetries
  /\ submitted' = FALSE /\ retrying' = TRUE
  /\ UNCHANGED <<tab, epoch, attempts, outcome>>

(* The answer to the failed prompt came after all.                          *)
AbandonRetry ==
  /\ Bound /\ submitted /\ retrying
  /\ retrying' = FALSE
  /\ UNCHANGED <<tab, submitted, epoch, attempts, outcome>>

AcceptRetry ==
  /\ Bound
  /\ epoch' = epoch + 1
  /\ submitted' = TRUE /\ retrying' = FALSE
  /\ attempts' \in 1..MaxRetries
  /\ retrying => attempts' = attempts + 1
  /\ UNCHANGED <<tab, outcome>>

Steer ==
  /\ Bound
  /\ epoch' = epoch + 1
  /\ UNCHANGED <<tab, submitted, attempts, retrying, outcome>>

Allowed(code) ==
  /\ code = "completed" => Bound /\ submitted
  /\ code = "retry_exhausted" => Bound /\ attempts = MaxRetries
  /\ code = "required_artifact_missing" => Bound /\ Required
  /\ code \in {"invalid_transition", "effect_failed", "source_lost",
               "recovery_uncertain", "explicit_ui_error",
               "conversation_changed", "request_replaced"} => Bound

(* A final answer may end the request and abandon its retry in one step.    *)
End ==
  /\ Open
  /\ \E code \in Codes : Allowed(code) /\ outcome' = code
  /\ retrying' \in {retrying, FALSE}
  /\ UNCHANGED <<tab, submitted, epoch, attempts>>

Next ==
  \/ Bind \/ Submit \/ ScheduleRetry \/ AbandonRetry \/ AcceptRetry \/ Steer
  \/ End

Spec == Init /\ [][Next]_contract
===============================================================================
