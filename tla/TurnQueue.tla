----------------------------- MODULE TurnQueue -----------------------------
(***************************************************************************)
(* The turns of the local server: turnManager.js creates, runs and cancels *)
(* them, turn/turnQueueCoordinator.js decides which may run, and           *)
(* turn/turnRecoveryService.js takes over a prompt that a restart of the   *)
(* server left in the browser.                                             *)
(*                                                                         *)
(* A turn bound to a browser client runs in the lane of that client; an    *)
(* unbound turn runs alone in the global lane.  Each async function is cut *)
(* at the awaits where another one can change what it goes on to use.      *)
(* Writes of the turn store are atomic and do not fail.                    *)
(***************************************************************************)
EXTENDS Naturals, SequencesExt

CONSTANTS
    Turns,        \* turn ids
    Browsers,     \* browser clients a turn may be bound to
    Global,       \* the lane of unbound turns
    NoTurn,       \* an idle lane
    Bindings,     \* the ways turns are bound to lanes in a configuration
    Reasons,      \* the statuses that the reason of a cancellation asks for
    MaxCalls      \* bound: cancellations, recoveries and restarts in all

ASSUME TurnAssumption ==
    /\ Global \notin Browsers
    /\ NoTurn \notin Turns
    /\ Bindings \subseteq [Turns -> Browsers \union {Global}]
    /\ Reasons \subseteq {"cancelled", "interrupted"}
    /\ MaxCalls \in Nat

VARIABLES
    lane,        \* the lane the input of each turn binds it to
    status,      \* status in the turn store ("none": not created)
    queues,      \* turns waiting in each lane
    running,     \* the turn that holds each lane
    stage,       \* where startTurn, runTurn or resumeActiveTurn is awaiting
    controller,  \* AbortController of a turn, or the reason it was aborted
    cancelling,  \* status that an unfinished cancelTurn is about to write
    prompted,    \* turns whose prompt was given to the bridge
    orphans,     \* turns that a restart cut off before they ended
    calls

turnVars == <<lane, status, queues, running, stage, controller, cancelling,
              prompted, orphans, calls>>

Lanes    == Browsers \union {Global}
Terminal == {"completed", "failed", "cancelled", "interrupted"}
Ended(t) == status[t] \in Terminal

\* A stage of Terminal is the outcome that is about to be written.
Starting == {"creating", "tracked"}
Working  == {"scheduled", "marking", "marked", "starting", "aborting", "sent",
             "resuming", "following", "closing"} \union Terminal

-----------------------------------------------------------------------------
(* The coordinator *)

\* Mutant: the global lane looks only at itself.
CanRunBeside(l, waiting, held) ==
    /\ held[Global] = NoTurn
    /\ l # Global => waiting[Global] = <<>> /\ held[l] = NoTurn

\* Mutant: an unbound turn also lets the waiting client turns go first.
CanRunPolitely(l, waiting, held) ==
    /\ held[Global] = NoTurn
    /\ IF l = Global
       THEN \A k \in Browsers : held[k] = NoTurn /\ waiting[k] = <<>>
       ELSE waiting[Global] = <<>> /\ held[l] = NoTurn

CanRun(l, waiting, held) ==
    /\ held[Global] = NoTurn
    /\ IF l = Global
       THEN \A k \in Lanes : held[k] = NoTurn
       ELSE waiting[Global] = <<>> /\ held[l] = NoTurn

\* The lanes that pump gives their first turn to.  The order in which it
\* visits them makes no difference: while an unbound turn waits no client
\* lane may start, and client lanes do not exclude each other.
Startable(waiting, held) ==
    {l \in Lanes : waiting[l] # <<>> /\ CanRun(l, waiting, held)}

\* Every change of the queues or the lanes ends with pump.
Pump(waiting, held, at) ==
    LET started == Startable(waiting, held)
    IN  /\ queues'  = [l \in Lanes |-> IF l \in started THEN Tail(waiting[l])
                                       ELSE waiting[l]]
        /\ running' = [l \in Lanes |-> IF l \in started THEN Head(waiting[l])
                                       ELSE held[l]]
        /\ stage'   = [t \in Turns |->
                          IF \E l \in started : Head(waiting[l]) = t
                          THEN "scheduled" ELSE at[t]]

Waiting(t) == \E l \in Lanes : Contains(queues[l], t)
Holds(t)   == \E l \in Lanes : running[l] = t

\* No turn waits twice (ServerProofs!Queued), so the filter takes out one place.
Place(l, t) == CHOOSE i \in 1 .. Len(queues[l]) : queues[l][i] = t
Without(t)  == [l \in Lanes |-> IF Contains(queues[l], t)
                                THEN RemoveAt(queues[l], Place(l, t))
                                ELSE queues[l]]
Freed(t)   == [l \in Lanes |-> IF running[l] = t THEN NoTurn ELSE running[l]]

At(t, s) == stage' = [stage EXCEPT ![t] = s]
Goto(t, from, to) == stage[t] = from /\ At(t, to) /\ UNCHANGED <<queues, running>>

-----------------------------------------------------------------------------
TurnInit ==
    /\ lane       \in Bindings
    /\ status     = [t \in Turns |-> "none"]
    /\ queues     = [l \in Lanes |-> <<>>]
    /\ running    = [l \in Lanes |-> NoTurn]
    /\ stage      = [t \in Turns |-> "idle"]
    /\ controller = [t \in Turns |-> "absent"]
    /\ cancelling = [t \in Turns |-> "no"]
    /\ prompted   = {}
    /\ orphans    = {}
    /\ calls      = 0

(* startTurn: the record is created, then tracked, then enqueued. *)

Create(t) ==
    /\ status[t] = "none"
    /\ status' = [status EXCEPT ![t] = "queued"]
    /\ Goto(t, "idle", "creating")
    /\ UNCHANGED <<lane, controller, cancelling, prompted, orphans, calls>>

Track(t) ==
    /\ Goto(t, "creating", "tracked")
    /\ controller' = [controller EXCEPT ![t] = "live"]
    /\ UNCHANGED <<lane, status, cancelling, prompted, orphans, calls>>

Enqueue(t) ==
    /\ stage[t] = "tracked"
    /\ Pump([queues EXCEPT ![lane[t]] = Append(@, t)], running,
            [stage EXCEPT ![t] = "idle"])
    /\ UNCHANGED <<lane, status, controller, cancelling, prompted, orphans,
                   calls>>

Call == calls < MaxCalls /\ calls' = calls + 1

(* cancelTurn: the signal and the queue at once, the status after an await. *)
(* Bound: one unfinished call for each turn.                                *)

Cancel(t, reason) ==
    /\ Call
    /\ status[t] # "none" /\ ~Ended(t)
    /\ cancelling[t] = "no"
    /\ cancelling' = [cancelling EXCEPT ![t] = reason]
    /\ controller' = [controller EXCEPT ![t] =
                         IF Waiting(t) THEN "absent"
                         ELSE IF @ = "live" THEN reason ELSE @]
    /\ Pump(Without(t), running, stage)
    /\ UNCHANGED <<lane, status, prompted, orphans>>

CancelWrite(t) ==
    /\ cancelling[t] # "no"
    /\ status' = [status EXCEPT ![t] = cancelling[t]]
    /\ cancelling' = [cancelling EXCEPT ![t] = "no"]
    /\ Pump(queues, running, stage)
    /\ UNCHANGED <<lane, controller, prompted, orphans, calls>>

(* runTurn *)

Aborted(t) == controller[t] \in Reasons

\* The end of a run: its runtime is cleared and its lane is free.
Release(t) ==
    /\ controller' = [controller EXCEPT ![t] = "absent"]
    /\ Pump(queues, Freed(t), [stage EXCEPT ![t] = "idle"])

\* A turn that is no longer queued, or was aborted, leaves before it is marked.
Begin(t) ==
    /\ stage[t] = "scheduled"
    /\ IF status[t] = "queued" /\ ~Aborted(t)
       THEN Goto(t, "scheduled", "marking") /\ UNCHANGED controller
       ELSE Release(t)
    /\ UNCHANGED <<lane, status, cancelling, prompted, orphans, calls>>

Mark(t, from, to) ==
    /\ Goto(t, from, to)
    /\ status' = [status EXCEPT ![t] = "running"]
    /\ UNCHANGED <<lane, controller, cancelling, prompted, orphans, calls>>

Check(t) ==
    /\ Goto(t, "marked", IF Aborted(t) THEN "aborting" ELSE "starting")
    /\ UNCHANGED <<lane, status, controller, cancelling, prompted, orphans,
                   calls>>

\* Aborted while it was being marked: an ended status is left alone.
Abandon(t) ==
    /\ stage[t] = "aborting"
    /\ IF Ended(t) THEN Release(t)
       ELSE Goto(t, "aborting", controller[t]) /\ UNCHANGED controller
    /\ UNCHANGED <<lane, status, cancelling, prompted, orphans, calls>>

\* bridge.sendRequest rejects at once when the signal is already aborted.
Send(t) ==
    /\ Goto(t, "starting", IF Aborted(t) THEN "interrupted" ELSE "sent")
    /\ prompted' = IF Aborted(t) THEN prompted ELSE prompted \union {t}
    /\ UNCHANGED <<lane, status, controller, cancelling, orphans, calls>>

\* The promise of sendRequest settles.  An abort is an AbortError, which is
\* written as interrupted whatever the reason was; an answer that came first
\* is resolved and written as completed although the turn was aborted.
Respond(t) ==
    /\ \E outcome \in {"completed", "failed"} \union
                      (IF Aborted(t) THEN {"interrupted"} ELSE {}) :
          Goto(t, "sent", outcome)
    /\ UNCHANGED <<lane, status, controller, cancelling, prompted, orphans,
                   calls>>

Write(t) ==
    /\ stage[t] \in Terminal
    /\ Goto(t, stage[t], "closing")
    /\ status' = [status EXCEPT ![t] = stage[t]]
    /\ UNCHANGED <<lane, controller, cancelling, prompted, orphans, calls>>

Close(t) ==
    /\ stage[t] = "closing"
    /\ Release(t)
    /\ UNCHANGED <<lane, status, cancelling, prompted, orphans, calls>>

(* resumeActiveTurn and recoverTurnFromLatestResponse *)

\* The prompt is found in a tab, which is released on its own time: it may be
\* there for as long as the turn has not ended.  The lane is that of its client.
Resume(t, l) ==
    /\ t \in prompted
    /\ ~Ended(t)
    /\ controller[t] = "absent"
    /\ ~Holds(t)
    /\ CanRun(l, queues, running)
    /\ controller' = [controller EXCEPT ![t] = "live"]
    /\ Pump(Without(t), [running EXCEPT ![l] = t],
            [stage EXCEPT ![t] = "resuming"])
    /\ UNCHANGED <<lane, status, cancelling, prompted, orphans, calls>>

\* A failed resumption keeps the status of a turn that has ended meanwhile.
Follow(t) ==
    /\ \/ Goto(t, "following", "completed")
       \/ /\ Ended(t)
          /\ Goto(t, "following", "closing")
       \/ /\ ~Ended(t)
          /\ \/ Goto(t, "following", "failed")
             \/ Aborted(t) /\ Goto(t, "following", controller[t])
    /\ UNCHANGED <<lane, status, controller, cancelling, prompted, orphans,
                   calls>>

\* /recover reads the visible answer and completes the turn, whatever its
\* status is and whether or not something else is working on it.
Recover(t) ==
    /\ Call
    /\ status[t] # "none"
    /\ status' = [status EXCEPT ![t] = "completed"]
    /\ UNCHANGED <<lane, queues, running, stage, controller, cancelling,
                   prompted, orphans>>

\* The turn store and the browser survive a restart of the server.
Restart ==
    /\ Call
    /\ orphans'    = {t \in Turns : status[t] # "none" /\ ~Ended(t)}
    /\ queues'     = [l \in Lanes |-> <<>>]
    /\ running'    = [l \in Lanes |-> NoTurn]
    /\ stage'      = [t \in Turns |-> "idle"]
    /\ controller' = [t \in Turns |-> "absent"]
    /\ cancelling' = [t \in Turns |-> "no"]
    /\ UNCHANGED <<lane, status, prompted>>

-----------------------------------------------------------------------------
Start(t) == Track(t) \/ Enqueue(t)

Run(t) ==
    \/ Begin(t) \/ Mark(t, "marking", "marked") \/ Check(t) \/ Abandon(t)
    \/ Send(t) \/ Respond(t)
    \/ Mark(t, "resuming", "following") \/ Follow(t)
    \/ Write(t) \/ Close(t)

TurnNext ==
    \/ \E t \in Turns :
          \/ Create(t) \/ Start(t) \/ Run(t) \/ CancelWrite(t) \/ Recover(t)
          \/ \E reason \in Reasons : Cancel(t, reason)
          \/ \E l \in Lanes : Resume(t, l)
    \/ Restart

\* Promises that were created settle: the store answers and the deadlines of
\* the bridge end every request.  Nobody has to create, cancel or resume.
Fairness == \A t \in Turns : /\ WF_turnVars(Start(t) \/ Run(t))
                             /\ WF_turnVars(CancelWrite(t))

TurnSpec == TurnInit /\ [][TurnNext]_turnVars /\ Fairness

-----------------------------------------------------------------------------
TurnTypeOK ==
    /\ lane       \in [Turns -> Lanes]
    /\ status     \in [Turns -> {"none", "queued", "running"} \union Terminal]
    /\ queues     \in [Lanes -> Seq(Turns)]
    /\ running    \in [Lanes -> Turns \union {NoTurn}]
    /\ stage      \in [Turns -> {"idle"} \union Starting \union Working]
    /\ controller \in [Turns -> {"absent", "live"} \union Reasons]
    /\ cancelling \in [Turns -> {"no"} \union Reasons]
    /\ prompted   \subseteq Turns
    /\ orphans    \subseteq Turns
    /\ calls      \in 0 .. MaxCalls

\* A lane is held by a turn that someone is working on, every turn that is
\* worked on holds exactly one lane, and an unbound turn runs alone: whatever
\* the order of pump, claim, release and cancel, no browser client ever has
\* two prompts (turnQueueCoordinator.js:44-93).
LaneExclusion ==
    /\ \A t \in Turns : stage[t] \in Working <=> Holds(t)
    /\ \A k, l \in Lanes : k # l /\ running[k] # NoTurn =>
          running[l] # running[k] /\ (k = Global => running[l] = NoTurn)

\* Every turn of this life of the server ends: no lane is kept by a run that
\* is over, and client turns and unbound turns do not wait for each other
\* forever, wherever cancellations fall (turnManager.js:206-427).  There are
\* finitely many turns, so in the end all of them have ended.
EveryTurnEnds ==
    <>[](\A t \in Turns : status[t] = "none" \/ Ended(t) \/ t \in orphans)
=============================================================================
