------------------------- MODULE ContentExecution -------------------------
(***************************************************************************)
(* The content script of one ChatGPT tab: the command handlers under       *)
(* tools/chrome-bridge-extension/content/, the execution store that holds  *)
(* the projection of the active request, and the page they act on.         *)
(*                                                                         *)
(* A handler is an async function; it is cut at every await, and between   *)
(* two of its steps the page, the person at the keyboard, another handler  *)
(* or a reload may act.  A user turn is known by its position, which is    *)
(* what its key stands for: a position at most the baseline was on the     *)
(* page when the baseline was taken.  External: the page, and the ledger   *)
(* of the background (module TabRuntime), which registers an effect before *)
(* its command arrives, delivers each command once, and makes what is      *)
(* still dispatched uncertain when the page reloads.                       *)
(***************************************************************************)
EXTENDS Naturals, Sequences, FiniteSets, SequencesExt

CONSTANTS
    Plans,         \* sets of commands the server may send: id -> command
    NoText,        \* an empty composer
    Typed,         \* what the person at the keyboard writes
    User,          \* the person, as the origin of a user turn
    NoRequest,     \* no request is claimed
    Survives,      \* may a lost port leave the page alive? (subset of BOOLEAN)
    MaxLosses,     \* bound: lost ports and reloads
    MaxTyped,      \* bound: texts typed by the person
    MaxLedgerFaults, \* bound: ledger writes that fail
    MaxTurns       \* bound: user turns on the page

Steps    == {"page", "session", "model", "files", "submit"}
Backed   == Steps \union {"steer", "cancel"}     \* commands with an effect
Writing  == {"submit", "steer", "passive"}       \* commands that send a text
CommandKinds    == Backed \union {"release", "resume", "reconcile", "passive"}

Ids == UNION {DOMAIN p : p \in Plans}

ASSUME ContentAssumption ==
    /\ \A p \in Plans : \A c \in DOMAIN p :
         /\ p[c].kind \in CommandKinds /\ p[c].retry \in BOOLEAN
         /\ p[c].after \subseteq DOMAIN p /\ p[c].of \in DOMAIN p
         /\ p[c].text # Typed /\ User \notin DOMAIN p
    /\ Survives \subseteq BOOLEAN
    /\ {MaxLosses, MaxTyped, MaxLedgerFaults, MaxTurns} \subseteq Nat

\* What the server sends: a retry is the first step of its plan, a message is
\* never empty, a passive prompt bears an identity of its own, and the prompts and
\* steers of one request are sent one after the other.
ASSUME SendingAssumption ==
    \A p \in Plans : \A c, d \in DOMAIN p :
        /\ p[c].retry => p[c].kind \in {"page", "release"}
        /\ p[c].kind \in Writing => p[c].text # NoText
        /\ p[c].kind = "passive" /\ p[d].request = p[c].request => c = d
        /\ /\ c # d /\ p[c].request = p[d].request
           /\ {p[c].kind, p[d].kind} \subseteq {"submit", "steer"}
           => c \in p[d].after \/ d \in p[c].after

VARIABLES
    plan,       \* the commands of this behaviour
    page,       \* what ChatGPT shows
    req,        \* the projection in the execution store
    task,       \* where the handler of each command is awaiting
    effect,     \* status of each command's effect in the ledger
    named,      \* the user turn an effect's result names, with its baseline
    report,     \* what is said of a command outside of the ledger
    budget,     \* what the bounds have left
    outlived    \* history: the commands whose handler outlived a port

contentVars == <<plan, page, req, task, effect, named, report, budget, outlived>>

Given == DOMAIN plan
Kind(c)  == plan[c].kind
Text(c)  == plan[c].text
RequestIds == UNION {{p[c].request : c \in DOMAIN p} : p \in Plans}
Texts    == (UNION {{p[c].text : c \in DOMAIN p} : p \in Plans}) \union {NoText, Typed}
Turn     == [text: Texts, by: Ids \union {User}]
Keys     == 0..MaxTurns              \* 0: no turn
Baseline == Keys \union {MaxTurns + 1}
NoBase   == MaxTurns + 1             \* pendingSubmittedTurnBaseline is null

Projection == [request: RequestIds, sent: BOOLEAN, key: Keys, pending: Baseline,
               text: Texts, armed: BOOLEAN, rank: {0, 1, 5, 6}]

ASSUME NoRequestAssumption == NoRequest \notin Projection

Waits == {"plan", "perform", "fill", "button", "evidence", "anchor", "settle",
          "boundary"}
Outcomes == {"none", "succeeded", "failed", "cancelled", "uncertain"}
Task == [at: Waits \union {"idle"}, base: Keys, entered: Keys, crossed: BOOLEAN,
         seen: BOOLEAN, before: Texts, outcome: Outcomes]
NoTask == [at |-> "idle", base |-> 0, entered |-> 0, crossed |-> FALSE,
         seen |-> FALSE, before |-> NoText, outcome |-> "none"]

Budget == [losses: 0..MaxLosses, typed: 0..MaxTyped, faults: 0..MaxLedgerFaults]

\* The projection, the tasks and the ledger have the form the code gives them.
ContentTypeOK ==
    /\ plan \in Plans
    /\ page \in [turns: Seq(Turn), composer: Texts, taken: Seq(Turn),
                 generating: BOOLEAN, failed: Keys,
                 moving: BOOLEAN, moved: BOOLEAN, model: BOOLEAN, files: BOOLEAN]
    /\ Len(page.turns) + Len(page.taken) \in Keys
    /\ req \in Projection \union {NoRequest}
    /\ task \in [Given -> Task]
    /\ effect \in [Given -> Outcomes \union {"dispatched", "notStarted"}]
    /\ named \in [Given -> [key: Keys, base: Keys]]
    /\ report \in [Given -> {"none", "submitted", "rejected", "uncertain",
                                "completed", "failed", "error", "duplicate"}]
    /\ budget \in Budget /\ outlived \subseteq Given

-----------------------------------------------------------------------------
(* The page (external) *)

Count == Len(page.turns)

\* selectLatestMatchingNewTurnRecord and userTurnMatchesExpectedText: the
\* newest user turn past the boundary that has the expected text.
Newest(base, text) ==
    LET new == {k \in base + 1 .. Count : text \in {page.turns[k].text, NoText}}
    IN IF new = {} THEN 0 ELSE CHOOSE k \in new : \A m \in new : m <= k

\* A submitted message appears as a user turn and its answer starts.
Render ==
    /\ page.taken # <<>>
    /\ page' = [page EXCEPT !.turns = @ \o page.taken, !.taken = <<>>,
                            !.generating = TRUE]
    /\ UNCHANGED <<req, task, effect, named, report, budget>>

\* A submitted message is lost before it appears.
Drop ==
    /\ page.taken # <<>>
    /\ page' = [page EXCEPT !.taken = <<>>]
    /\ UNCHANGED <<req, task, effect, named, report, budget>>

Finish ==
    /\ page.generating
    /\ \/ page' = [page EXCEPT !.generating = FALSE]
       \/ page' = [page EXCEPT !.generating = FALSE, !.failed = Count]
    /\ UNCHANGED <<req, task, effect, named, report, budget>>

\* A link or the "new chat" button was clicked and the route follows.
Move ==
    /\ page.moving
    /\ page' = [page EXCEPT !.moving = FALSE, !.moved = TRUE]
    /\ UNCHANGED <<req, task, effect, named, report, budget>>

\* The page takes what stands in the composer: a click, a form, the Enter key.
Takes(by) ==
    /\ page.composer # NoText
    /\ page.taken = <<>>
    /\ Count < MaxTurns
    /\ page' = [page EXCEPT !.composer = NoText,
                            !.taken = <<[text |-> page.composer, by |-> by]>>]

TypeText ==
    /\ budget.typed > 0
    /\ budget' = [budget EXCEPT !.typed = @ - 1]
    /\ page' = [page EXCEPT !.composer = Typed]
    /\ UNCHANGED <<req, task, effect, named, report>>

Press ==
    /\ Takes(User)
    /\ UNCHANGED <<req, task, effect, named, report, budget>>

-----------------------------------------------------------------------------
(* The execution store *)

Fresh(r) == [request |-> r, sent |-> FALSE, key |-> 0, pending |-> NoBase,
             text |-> NoText, armed |-> FALSE, rank |-> 0]

\* Only an idle store may be claimed; a handle of a dropped projection acts
\* on whatever projection is current, and is refused when there is none.
Holds     == req # NoRequest
Projects(r) == Holds /\ req.request = r
Claim(r)  == req' = IF Holds THEN req ELSE Fresh(r)
Release   == req' = NoRequest

\* A handshake projects the lease again.  What the page still knew is kept.
Recover(lease, kept) ==
    req' = IF ~lease THEN NoRequest
           ELSE [(IF kept THEN req ELSE Fresh(req.request))
                     EXCEPT !.rank = 0]

\* The newest user turn that is new since the baseline and has the expected
\* text becomes the submitted turn; it closes the pending boundary.
Adopted(p, k) == [p EXCEPT !.key = k, !.pending = NoBase, !.text = NoText,
                           !.rank = 6]

Armed(p, c, base) == [p EXCEPT !.pending = base, !.text = Text(c)]

\* The page monitor adopts the turn as soon as it sees it, whatever waits.
Collect ==
    /\ Holds /\ req.armed /\ req.pending # NoBase
    /\ LET k == Newest(req.pending, req.text) IN
         /\ k # 0
         /\ req' = Adopted(req, k)
    /\ UNCHANGED <<page, task, effect, named, report, budget>>

-----------------------------------------------------------------------------
(* How a handler ends *)

Await(c, where) == task' = [task EXCEPT ![c].at = where]
End(c)          == task' = [task EXCEPT ![c] = NoTask]
Awaits(c, where) == task[c].at = where

\* A thrown error: an executor that proves it did nothing cancels the effect,
\* a write is uncertain, a read has failed.
Verdict(c, proven) == IF proven THEN "cancelled"
                      ELSE IF Kind(c) = "page" THEN "failed" ELSE "uncertain"

Throw(c, proven) ==
    IF Kind(c) = "passive"
    THEN /\ report' = [report EXCEPT ![c] = IF task[c].crossed THEN "uncertain"
                                            ELSE "rejected"]
         /\ Release
         /\ End(c)
    ELSE /\ task' = [task EXCEPT ![c].at = "settle",
                                 ![c].outcome = Verdict(c, proven)]
         /\ UNCHANGED <<req, report>>

Succeed(c, k) ==
    /\ task' = [task EXCEPT ![c].at = "settle", ![c].outcome = "succeeded"]
    /\ named' = IF effect[c] # "dispatched" THEN named   \* the ledger refuses it
                ELSE [named EXCEPT ![c] = [key |-> k, base |-> task[c].base]]

\* Mutant: the handler returns without settling the effect.
SilentRefuse(c, verdict) == UNCHANGED task

\* settleUnexecutableEffect: the effect is checked and settled unexecuted.
RefuseEffect(c, verdict) ==
    task' = [task EXCEPT ![c] = [NoTask EXCEPT !.at = "plan", !.outcome = verdict]]

-----------------------------------------------------------------------------
(* Arrival of a command: the part of its handler before the first await *)

Done(c) == effect[c] = "succeeded" \/ report[c] \in {"completed", "submitted"}

\* External: the background grants the tab to one request at a time, and an
\* effect needs that lease until the release.
Closed(r) == \E b \in Given : /\ Kind(b) = "release" /\ plan[b].request = r
                                 /\ report[b] = "completed"
Leasable(r) == ~Closed(r) /\ \A b \in Given :
                   plan[b].request # r /\ effect[b] # "none" => Closed(plan[b].request)

Due(c) ==
    /\ Kind(c) \in Backed => Leasable(plan[c].request)
    /\ effect[c] = "none" /\ report[c] = "none" /\ task[c] = NoTask
    /\ \A b \in plan[c].after : Done(b)

Comes(c) ==
    /\ Due(c)
    /\ effect' = IF Kind(c) \in Backed
                 THEN [effect EXCEPT ![c] = "dispatched"] ELSE effect

Begins(c) == task' = [task EXCEPT ![c] = [NoTask EXCEPT !.at = "plan", !.base = Count]]

\* The retry of a prompt is accepted while the page shows exactly the error
\* of exactly the turn the server names.
RetryProved(c) ==
    /\ Holds /\ req.key # 0 /\ page.failed = req.key
    /\ \E b \in plan[c].after : named[b].key = req.key

Continues(c) == Projects(plan[c].request) /\ ~req.sent /\ req.key = 0

\* handlePromptSend: a step of the execution plan.
ReceiveStep(c) ==
    /\ Kind(c) \in Steps
    /\ Comes(c)
    /\ UNCHANGED <<page, named, budget>>
    /\ \/ /\ plan[c].retry /\ Holds /\ RetryProved(c)
          /\ req' = Fresh(req.request)
          /\ Begins(c)
          /\ UNCHANGED report
       \/ /\ plan[c].retry /\ Holds /\ ~RetryProved(c)
          /\ RefuseEffect(c, "uncertain")
          /\ UNCHANGED <<req, report>>
       \/ /\ ~(plan[c].retry /\ Holds)
          /\ ~Holds \/ Continues(c)
          /\ Begins(c)
          /\ LET p == IF Holds THEN req
                      ELSE [Fresh(plan[c].request) EXCEPT !.rank = 1]
             IN req' = CASE Kind(c) = "submit" -> [Armed(p, c, Count) EXCEPT !.armed = TRUE]
                         [] Kind(c) = "files"  -> [p EXCEPT !.rank = 5]
                         [] OTHER              -> p
          /\ UNCHANGED report
       \/ /\ ~(plan[c].retry /\ Holds) /\ Holds /\ ~Continues(c)
          /\ IF Projects(plan[c].request)
             THEN report' = [report EXCEPT ![c] = "duplicate"] /\ UNCHANGED task
             ELSE RefuseEffect(c, "uncertain") /\ UNCHANGED report
          /\ UNCHANGED req

\* handlePromptSteer.
ReceiveSteer(c) ==
    /\ Kind(c) = "steer"
    /\ Comes(c)
    /\ IF Projects(plan[c].request)
       THEN Begins(c) /\ req' = Armed(req, c, Count)
       ELSE /\ RefuseEffect(c, "uncertain")
            /\ req' = IF Holds THEN [req EXCEPT !.pending = NoBase, !.text = NoText]
                      ELSE req
    /\ UNCHANGED <<page, named, report, budget>>

\* handlePromptCancel.
ReceiveCancel(c) ==
    /\ Kind(c) = "cancel"
    /\ Comes(c)
    /\ IF Projects(plan[c].request) THEN Begins(c) ELSE RefuseEffect(c, "uncertain")
    /\ UNCHANGED <<page, req, named, report, budget>>

\* Mutant: the store is claimed without looking.
AlwaysMayClaim == TRUE

\* handlePassivePromptSubmit: a prompt outside of any request claims the store
\* for itself.
MayClaim == ~Holds

ReceivePassive(c) ==
    /\ Kind(c) = "passive"
    /\ Comes(c)
    /\ IF MayClaim
       THEN /\ Claim(plan[c].request)
            /\ task' = [task EXCEPT ![c] = [NoTask EXCEPT !.at = "perform"]]
            /\ UNCHANGED report
       ELSE /\ report' = [report EXCEPT ![c] = "rejected"]
            /\ UNCHANGED <<req, task>>
    /\ UNCHANGED <<page, named, budget>>

\* handleRequestRelease.  External: the background sends it when no effect of
\* the request is open (ReleaseBarrier of TabRuntime), and asks for a proof
\* that nothing is generated when it recovers a stale lease (retry).
ReceiveRelease(c) ==
    /\ Kind(c) = "release"
    /\ Comes(c)
    /\ \A b \in Given : plan[b].request = plan[c].request
                             => effect[b] # "dispatched"
    /\ LET stale  == plan[c].retry /\ page.generating
           other  == Holds /\ ~Projects(plan[c].request)
       IN /\ report' = [report EXCEPT ![c] = IF stale \/ other THEN "failed"
                                             ELSE "completed"]
          /\ IF ~stale /\ Projects(plan[c].request) THEN Release ELSE UNCHANGED req
    /\ UNCHANGED <<page, task, named, budget>>

\* handleRequestResume, up to the search of the projected turn on the page.
ReceiveResume(c) ==
    /\ Kind(c) = "resume"
    /\ Comes(c)
    /\ IF Projects(plan[c].request)
       THEN /\ task' = [task EXCEPT ![c] = [NoTask EXCEPT !.at = "boundary"]]
            /\ UNCHANGED report
       ELSE /\ report' = [report EXCEPT ![c] = "error"]
            /\ UNCHANGED task
    /\ UNCHANGED <<page, req, named, budget>>

Handle(c) == \/ ReceiveStep(c)    \/ ReceiveSteer(c)   \/ ReceiveCancel(c)
              \/ ReceivePassive(c) \/ ReceiveRelease(c) \/ ReceiveResume(c)

-----------------------------------------------------------------------------
(* Steps of the handlers *)

\* planEffect: the ledger confirms that the effect is dispatched; otherwise
\* nothing was done and nothing is settled.
Confirmed(c) == effect[c] = "dispatched"

\* enterPrompt looks first whether the prompt is already on its way: with no
\* turn on the page a running answer counts as one.
AlreadySent == Count = 0 /\ page.generating

Executor(c) == CASE Kind(c) \in {"submit", "steer"} ->
                        IF AlreadySent THEN "anchor" ELSE "fill"
                 [] OTHER -> "perform"

Confirm(c) ==
    /\ Awaits(c, "plan") /\ Confirmed(c)
    /\ task' = [task EXCEPT ![c].at = IF task[c].outcome = "none"
                                      THEN Executor(c) ELSE "settle",
                            ![c].entered = Count]
    /\ UNCHANGED <<page, req, effect, named, report, budget>>

\* A ledger write that fails or is refused ends the handler: it reports nothing.
NothingReported(c) ==
    /\ End(c)
    /\ req' = IF Kind(c) = "steer" /\ Holds
              THEN [req EXCEPT !.pending = NoBase, !.text = NoText] ELSE req
    /\ UNCHANGED <<page, effect, named, report>>

Unconfirmed(c) ==
    /\ \/ /\ Awaits(c, "settle") \/ (Awaits(c, "plan") /\ Confirmed(c))
          /\ budget.faults > 0 /\ budget' = [budget EXCEPT !.faults = @ - 1]
       \/ /\ Awaits(c, "plan") /\ ~Confirmed(c)
          /\ UNCHANGED budget
    /\ NothingReported(c)

\* waitForDocumentReady and waitForChatPageReady: the page is ready in time.
PageReady(c) ==
    /\ Kind(c) = "page" /\ Awaits(c, "perform")
    /\ \/ Succeed(c, 0) /\ UNCHANGED <<req, report>>
       \/ Throw(c, FALSE) /\ UNCHANGED named
    /\ UNCHANGED <<page, effect, budget>>

\* applySessionOptions: a click, then a bounded wait for the exact route.
GoTo(c) ==
    /\ Kind(c) = "session" /\ Awaits(c, "perform")
    /\ page' = IF page.moved THEN page ELSE [page EXCEPT !.moving = TRUE]
    /\ Await(c, "anchor")
    /\ UNCHANGED <<req, effect, named, report, budget>>

Routed(c) ==
    /\ Kind(c) = "session" /\ Awaits(c, "anchor")
    /\ \/ page.moved /\ Succeed(c, 0) /\ UNCHANGED <<req, report>>
       \/ ~page.moved /\ Throw(c, FALSE) /\ UNCHANGED named
    /\ UNCHANGED <<page, effect, budget>>

\* applyModelOptions: an option that cannot be verified is only a warning.
Choose(c) ==
    /\ Kind(c) = "model" /\ Awaits(c, "perform")
    /\ \E chosen \in BOOLEAN :
         /\ page' = [page EXCEPT !.model = chosen]
         /\ \/ Succeed(c, 0) /\ UNCHANGED <<req, report>>
            \/ Throw(c, FALSE) /\ UNCHANGED named
    /\ UNCHANGED <<effect, budget>>

\* attachFiles: a file that cannot be prepared, or no file input, is an
\* error; an upload that does not finish in time is only a warning.
Attach(c) ==
    /\ Kind(c) = "files" /\ Awaits(c, "perform")
    /\ \/ /\ page' = [page EXCEPT !.files = TRUE]
          /\ Succeed(c, 0)
          /\ UNCHANGED <<req, report>>
       \/ Throw(c, FALSE) /\ UNCHANGED <<page, named>>
    /\ UNCHANGED <<effect, budget>>

\* clickStopButton: the control may be missing although an answer runs.
Stop(c) ==
    /\ Kind(c) = "cancel" /\ Awaits(c, "perform")
    /\ \/ /\ page' = [page EXCEPT !.generating = FALSE]
          /\ Succeed(c, 0)
          /\ UNCHANGED <<req, report>>
       \/ page.generating /\ Throw(c, FALSE) /\ UNCHANGED <<page, named>>
    /\ UNCHANGED <<effect, budget>>

\* The preparation of a passive prompt, up to its baseline.
Prepare(c) ==
    /\ Kind(c) = "passive" /\ Awaits(c, "perform")
    /\ \/ /\ Holds
          /\ req' = [Armed(req, c, Count) EXCEPT !.armed = TRUE]
          /\ task' = [task EXCEPT ![c].at = "fill", ![c].base = Count,
                                  ![c].entered = Count]
          /\ UNCHANGED report
       \/ Throw(c, FALSE)
    /\ UNCHANGED <<page, effect, named, budget>>

\* The text is put into the composer; the setters may all fail, and the last
\* one that was refused leaves the composer empty.
Fill(c) ==
    /\ Awaits(c, "fill")
    /\ \/ /\ page' = [page EXCEPT !.composer = Text(c)]
          /\ task' = [task EXCEPT ![c].at = "button", ![c].before = page.composer]
          /\ UNCHANGED <<req, report>>
       \/ \E left \in {page.composer, NoText} :
             page' = [page EXCEPT !.composer = left] /\ Throw(c, FALSE)
    /\ UNCHANGED <<effect, named, budget>>

\* restoreComposerText: an empty draft clears every composer; another one is put
\* back into a text area only, and leaves an editable element as it stands.
Restored(c) ==
    {[page EXCEPT !.composer = left] :
        left \in IF task[c].before = NoText THEN {NoText}
                 ELSE {task[c].before, page.composer}}

\* promptSubmissionEvidence.
Evidence(c) ==
    LET new == Count > task[c].entered IN
    \/ Newest(task[c].entered, Text(c)) # 0
    \/ /\ ~new /\ Kind(c) # "passive"
       /\ \/ page.composer # Text(c)
          \/ task[c].entered = 0 /\ page.generating

\* submitComposer: the button, else the form or the Enter key.  The page may
\* ignore all of them.  The evidence of a prompt is watched before the click.
Click(c) ==
    /\ Awaits(c, "button")
    /\ \E seen \in {FALSE, Kind(c) # "steer" /\ Evidence(c)} :
          task' = [task EXCEPT ![c].at = "evidence", ![c].crossed = TRUE,
                               ![c].seen = seen]
    /\ Takes(c) \/ UNCHANGED page
    /\ UNCHANGED <<req, effect, named, report, budget>>

\* waitForSteerSubmitButton: the answer ended, or no enabled control appeared.
SteerClosed(c) ==
    /\ Kind(c) = "steer" /\ Awaits(c, "button")
    /\ page' \in Restored(c)
    /\ Throw(c, TRUE)
    /\ UNCHANGED <<effect, named, budget>>

Believe(c) ==
    /\ Awaits(c, "evidence")
    /\ task[c].seen \/ Evidence(c)
    /\ IF Holds
       THEN /\ req' = IF Kind(c) = "steer" THEN req
                      ELSE [req EXCEPT !.sent = TRUE,
                                       !.rank = IF Kind(c) = "submit" THEN 6 ELSE @]
            /\ Await(c, "anchor")
            /\ UNCHANGED report
       ELSE Throw(c, FALSE)
    /\ UNCHANGED <<page, effect, named, budget>>

\* Mutant: an idle page alone is taken for that proof.
IdlePage(c) == ~page.generating

\* No evidence in time.  A text that still stands in the composer while
\* nothing is generated proves that the click did nothing.
StillThere(c) == page.composer = Text(c) /\ ~page.generating

Doubt(c) ==
    /\ Awaits(c, "evidence")
    /\ ~task[c].seen /\ ~Evidence(c)
    /\ IF StillThere(c) THEN page' \in Restored(c) /\ Throw(c, TRUE)
       ELSE UNCHANGED page /\ Throw(c, FALSE)
    /\ UNCHANGED <<effect, named, budget>>

\* Mutant: a believed submission needs no turn.
AdmittedOnTrust(c) == Holds

\* requireNewUserTurnAnchor.
Admitted(c) == Holds /\ req.key > task[c].base

\* waitForSubmittedUserTurnAnchor: the turn, also when the monitor adopted it.
Anchored(c) ==
    IF ~Holds THEN 0
    ELSE IF req.key > task[c].base THEN req.key
    ELSE IF Kind(c) # "steer" /\ req.key # 0 THEN 0
    ELSE Newest(task[c].base, req.text)

Anchor(c) ==
    /\ Kind(c) \in Writing /\ Awaits(c, "anchor")
    /\ Anchored(c) # 0
    /\ IF Kind(c) = "passive"
       THEN /\ report' = [report EXCEPT ![c] = "submitted"]
            /\ named' = [named EXCEPT ![c] = [key |-> Anchored(c), base |-> task[c].base]]
            /\ Release
            /\ End(c)
       ELSE /\ req' = IF req.key = Anchored(c) THEN req ELSE Adopted(req, Anchored(c))
            /\ Succeed(c, Anchored(c))
            /\ UNCHANGED report
    /\ UNCHANGED <<page, effect, budget>>

\* No turn in time: a steer may have continued the turn it was written into.
NoAnchor(c) ==
    /\ Kind(c) \in Writing /\ Awaits(c, "anchor")
    /\ Anchored(c) = 0
    /\ IF Holds /\ (Kind(c) = "steer" \/ (Kind(c) = "submit" /\ Admitted(c)))
       THEN Succeed(c, req.key) /\ UNCHANGED <<req, report>>
       ELSE Throw(c, FALSE) /\ UNCHANGED named
    /\ UNCHANGED <<page, effect, budget>>

\* settleEffect, and what the handler does when it returns.
SettleEffect(c) ==
    /\ Awaits(c, "settle")
    /\ effect' = [effect EXCEPT ![c] = IF @ = "dispatched" THEN task[c].outcome ELSE @]
    /\ req' = IF Kind(c) # "steer" \/ ~Holds THEN req
              ELSE IF task[c].outcome = "succeeded" /\ effect[c] = "dispatched"
              THEN [req EXCEPT !.rank = 6]
              ELSE [req EXCEPT !.pending = NoBase, !.text = NoText]
    /\ End(c)
    /\ UNCHANGED <<page, named, report, budget>>

\* handleRequestResume: the projected turn, searched for a bounded time.
Projected(r) ==
    {named[b].key : b \in {b \in Given : /\ Kind(b) = "submit"
                                            /\ plan[b].request = r
                                            /\ effect[b] = "succeeded"}}

Resume(c) ==
    /\ Awaits(c, "boundary")
    /\ \/ /\ Holds
          /\ \E k \in Projected(req.request) \union {0} :
               /\ k = 0 => Projected(req.request) = {}
               /\ req' = IF k = 0 THEN req ELSE [req EXCEPT !.key = k, !.sent = TRUE]
          /\ report' = [report EXCEPT ![c] = "completed"]
       \/ report' = [report EXCEPT ![c] = "error"] /\ UNCHANGED req
    /\ End(c)
    /\ UNCHANGED <<page, effect, named, budget>>

NotReached(t, rank) == req.rank < rank

\* The text that still stands in the composer was not sent.
Unsent(t, rank) == page.composer = Text(t)

\* handleEffectReconcile: what the page proves about an uncertain effect.
Finding(t) ==
    IF ~Projects(plan[t].request) THEN {"uncertain"}
    ELSE CASE Kind(t) = "page"    -> {"succeeded", "uncertain"}
           [] Kind(t) = "session" -> {IF page.moved THEN "succeeded"
                                      ELSE IF NotReached(t, 3) THEN "notStarted"
                                      ELSE "uncertain"}
           [] Kind(t) = "model"   -> {IF page.model THEN "succeeded"
                                      ELSE IF NotReached(t, 4) THEN "notStarted"
                                      ELSE "uncertain"}
           [] Kind(t) = "files"   -> {IF page.files THEN "succeeded"
                                      ELSE IF NotReached(t, 5) THEN "notStarted"
                                      ELSE "uncertain"}
           [] Kind(t) = "submit"  -> {IF req.key # 0 THEN "succeeded"
                                      ELSE IF Unsent(t, 6) THEN "notStarted"
                                      ELSE "uncertain"}
           [] Kind(t) = "steer"   -> {IF req.pending \in 1..MaxTurns /\ req.key > req.pending
                                      THEN "succeeded"
                                      ELSE IF Unsent(t, 6) THEN "notStarted"
                                      ELSE "uncertain"}
           [] Kind(t) = "cancel"  -> {IF page.generating THEN "uncertain"
                                      ELSE "succeeded"}

Reconcile(c) ==
    LET t == plan[c].of IN
    /\ Kind(c) = "reconcile"
    /\ Due(c)
    /\ effect[t] = "uncertain"
    /\ \E found \in Finding(t) :
         /\ effect' = [effect EXCEPT ![t] = found]
         /\ named' = IF found = "succeeded"
                     THEN [named EXCEPT ![t] = [key |-> req.key, base |-> 0]]
                     ELSE named
    /\ report' = [report EXCEPT ![c] = "completed"]
    /\ UNCHANGED <<page, req, task, budget>>

Perform(c) ==
    \/ Confirm(c) \/ Unconfirmed(c) \/ PageReady(c) \/ GoTo(c) \/ Routed(c)
    \/ Choose(c) \/ Attach(c) \/ Stop(c) \/ Prepare(c) \/ Fill(c) \/ Click(c)
    \/ SteerClosed(c) \/ Believe(c) \/ Doubt(c) \/ Anchor(c) \/ NoAnchor(c)
    \/ SettleEffect(c) \/ Resume(c)

ContentStep(c) == c \in Given /\ Perform(c) /\ UNCHANGED <<plan, outlived>>

-----------------------------------------------------------------------------
(* The port is lost *)

Passives == {plan[c].request : c \in {c \in Given : Kind(c) = "passive"}}

\* Every hello counts as a reload: what was dispatched becomes uncertain.
\* With the page die its handlers; otherwise only those that wait for the
\* ledger end.
Lose(alive) ==
    /\ budget.losses > 0
    /\ budget' = [budget EXCEPT !.losses = @ - 1]
    /\ LET dies(c) == task[c] # NoTask
                        /\ (~alive \/ Awaits(c, "plan") \/ Awaits(c, "settle"))
       IN /\ task' = [c \in Given |-> IF dies(c) THEN NoTask ELSE task[c]]
          /\ report' = [c \in Given |->
                 IF ~dies(c) THEN report[c]
                 ELSE IF Kind(c) = "passive" THEN "uncertain"
                 ELSE IF Kind(c) = "resume" THEN "error" ELSE report[c]]
    /\ effect' = [c \in Given |-> IF effect[c] = "dispatched" THEN "uncertain"
                                     ELSE effect[c]]
    /\ IF ~Holds THEN UNCHANGED req
       ELSE IF req.request \in Passives
       THEN IF alive THEN UNCHANGED req ELSE Release
       ELSE Recover(TRUE, alive)
    /\ IF alive THEN UNCHANGED page
       ELSE \E draft \in {page.composer, NoText} :
              page' = [page EXCEPT !.composer = draft, !.moving = FALSE]
    /\ outlived' = outlived \union {c \in Given : task'[c] # NoTask}
    /\ UNCHANGED named

ContentInit ==
    /\ plan \in Plans
    /\ page = [turns |-> <<>>, composer |-> NoText, taken |-> <<>>,
               generating |-> FALSE, failed |-> 0,
               moving |-> FALSE, moved |-> FALSE, model |-> FALSE, files |-> FALSE]
    /\ req = NoRequest
    /\ task = [c \in Given |-> NoTask]
    /\ effect = [c \in Given |-> "none"]
    /\ named = [c \in Given |-> [key |-> 0, base |-> 0]]
    /\ report = [c \in Given |-> "none"]
    /\ budget = [losses |-> MaxLosses, typed |-> MaxTyped, faults |-> MaxLedgerFaults]
    /\ outlived = {}

Page == Render \/ Drop \/ Finish \/ Move \/ TypeText \/ Press

ContentNext ==
    \/ (Page \/ Collect) /\ UNCHANGED <<plan, outlived>>
    \/ \E c \in Given : (Handle(c) \/ Reconcile(c)) /\ UNCHANGED <<plan, outlived>>
    \/ \E c \in Ids : ContentStep(c)
    \/ \E alive \in Survives : Lose(alive) /\ UNCHANGED plan

\* Each await has a timeout or ends when the page is read.
ContentSpec == ContentInit /\ [][ContentNext]_contentVars /\ \A c \in Ids : WF_contentVars(ContentStep(c))

-----------------------------------------------------------------------------
(* Properties *)

Prompts == {"submit", "steer"}
InComposer == {"fill", "button", "evidence"}

\* A prompt or steer whose handler outlived a port: the ledger calls it uncertain
\* while it may still write and click.
Stray(c) == c \in outlived /\ Kind(c) \in Prompts

Strays == \E c \in Given : Stray(c)

\* The turns a command has sent, and those it has sent with its own text.
Origins == {page.turns[k].by : k \in 1..Count}
             \union {page.taken[i].by : i \in 1..Len(page.taken)}
Submitted == {page.turns[k] : k \in 1..Count}
               \union {page.taken[i] : i \in 1..Len(page.taken)}

Own(c) == [text |-> Text(c), by |-> c]

Alone(c) == \A d \in Given \ {c} : Text(d) # Text(c)
Lookalikes(c) == {d \in Given : Text(d) = Text(c) /\ plan[d].request # plan[c].request}

\* A passive prompt that was rejected before its submission has sent nothing.
\* An effect that its executor cancelled with proof, or that reconciliation
\* found not started, has not sent its text, whatever the person typed and
\* whatever handlers outlived a lost port meanwhile.  Two cases are excepted: a
\* stray handler, which may click after its effect was judged, and a text that
\* several commands have, which a stray handler may put back into the composer.
NotExecutedIsUnsent ==
    \A c \in Given :
        /\ report[c] = "rejected" => c \notin Origins
        /\ /\ effect[c] \in {"cancelled", "notStarted"} /\ ~Stray(c)
           /\ Strays => Alone(c)
           => Own(c) \notin Submitted

\* A prompt that succeeded, and a passive prompt reported as submitted, name a
\* user turn that was not on the page before and has the text of the prompt.  It
\* was sent by its own handler, by the person, by a handler that outlived a port,
\* or by a command of another request with the same text, whose turn appeared
\* late: the page tells turns apart by their text alone.  Excepted is a time
\* in which a handler of another request outlived a port: it takes what the store
\* holds now for its own turn.
SubmittedIsProved ==
    \A c \in Given :
        /\ \/ Kind(c) = "submit" /\ effect[c] = "succeeded"
           \/ report[c] = "submitted"
        /\ \A d \in outlived : plan[d].request = plan[c].request
      => /\ named[c].key \in named[c].base + 1 .. Count
         /\ page.turns[named[c].key].text = Text(c)
         /\ page.turns[named[c].key].by \in {c, User} \union outlived \union Lookalikes(c)

\* Two handlers never work in the composer at the same time, unless one of them is
\* stray: the store admits one request, the writes of one request come one after
\* the other, and a passive prompt holds its claim even when it outlives a port.
OneWriterInComposer ==
    Cardinality({c \in Given : task[c].at \in InComposer /\ ~Stray(c)}) <= 1

\* While an effect is dispatched its handler is at work: a command that is refused
\* ends with a verdict.  A ledger write that fails leaves an effect to the
\* deadlines of the server, and so does the repetition of a prompt that is under
\* way, which the page takes for a duplicate and does not answer.
NoEffectAbandoned ==
    \A c \in Given :
        effect[c] = "dispatched" /\ task[c] = NoTask =>
            budget.faults < MaxLedgerFaults \/ report[c] = "duplicate"

=============================================================================
