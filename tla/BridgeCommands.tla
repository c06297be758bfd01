---------------------------- MODULE BridgeCommands ----------------------------
(***************************************************************************)
(* The commands the bridge server sends to its browser tabs: which tab a   *)
(* prompt may use (BrowserClientCoordinator, RequestSubmissionCoordinator),*)
(* the registry that pairs a command with its answer, with its deadline,   *)
(* its withdrawal and the release barrier (BridgeCommandRegistry), the     *)
(* release of a stale lease, and the passive prompts whose ledger promises *)
(* that nothing is ever submitted twice.                                   *)
(*                                                                         *)
(* The server is one event loop: an action is a turn of it, or one job of  *)
(* its microtask queue.  The jobs run before the next turn (Quiet), in an  *)
(* order the code does not fix.                                            *)
(***************************************************************************)
EXTENDS Naturals, Sequences, FiniteSets

CONSTANTS Tabs, Requests, Passives,
          Want,            \* the tab a caller names for each of them, or Any
          Any, None,
          MaxCalls,        \* HTTP calls with the same passive prompt
          MaxUp,           \* answers and reports of a tab on their way
          MaxFaults        \* lost sockets and restarts of the server

ASSUME CommandAssumption ==
  /\ Want \in [Requests \cup Passives -> Tabs \cup {Any}]
  /\ Any \notin Tabs
  /\ None \notin Tabs \cup Requests \cup Passives
  /\ MaxCalls \in Nat /\ MaxUp \in Nat \ {0} /\ MaxFaults \in Nat

VARIABLES
  phase,        \* of each request
  at,           \* the tab it asks about, has reserved or is bound to
  waited,       \* it has waited for a release once
  stage,        \* of each command
  where,        \* the tab it was sent to
  result,       \* how that of a passive prompt ended
  barrier,      \* the release that keeps each tab back
  awaits,       \* the release a request or a command waits for
  woken,        \* the waiters whose barrier has been lifted
  held,         \* the request each tab is known to carry
  quarantined,  \* the tabs known to be unusable
  online,       \* the tabs with an open socket
  down, up,     \* messages to and from each tab
  lease,        \* the lease each tab really holds
  unproven,     \* the tabs whose last release could not be proved
  record,       \* the durable ledger of passive prompts
  calls,        \* the HTTP calls of each passive prompt
  told,         \* what their callers heard
  written,      \* how often each passive prompt was submitted in the page
  faults

server == <<phase, at, waited, stage, where, result, barrier, awaits, woken>>
known  == <<held, quarantined, online>>
links  == <<down, up>>
page   == <<lease, unproven, written>>
ledger == <<record, calls, told>>
vars   == <<server, known, links, page, ledger, faults>>

(***************************************************************************)
(* Names and state.                                                        *)
(***************************************************************************)
Releases == {"release", "stale"} \X Requests
Commands == Releases \cup ({"cancel"} \X Requests) \cup ({"passive"} \X Passives)

Of(c) == c[2]
ReleaseOf(r) == <<"release", r>>
StaleOf(r)   == <<"stale", r>>
CancelOf(r)  == <<"cancel", r>>
PassiveOf(p) == <<"passive", p>>

Callers == Passives \X (1..MaxCalls)

\* A request is not a command, and "no release" is not a release.
ASSUME NameAssumption == Requests \cap Commands = {} /\ None \notin Commands

(* pending holds a request from its start to its end; the registry holds a  *)
(* command from its sending to its settlement.                              *)
Pending(r)    == phase[r] \in {"choosing", "waiting", "asking", "reserved", "bound", "cancelling"}
Registered(c) == stage[c] \in {"open", "withdrawing"}

(* A message down the socket is a prompt or a command; one up is an answer  *)
(* or a report of the lease.                                               *)
Messages == ({"prompt"} \X Requests) \cup ({"command"} \X Commands)
Answers  == ({"released", "quarantined", "rejected", "done", "refused", "error"} \X Commands)
            \cup ({"report"} \X (Requests \cup {None}))

TypeOK ==
  /\ phase \in [Requests -> {"new", "choosing", "waiting", "asking", "reserved", "bound",
                             "cancelling", "ended", "lost"}]
  /\ at \in [Requests -> Tabs \cup {None}]
  /\ waited \subseteq Requests
  /\ stage \in [Commands -> {"none", "waiting", "open", "withdrawing", "settled"}]
  /\ where \in [Commands -> Tabs \cup {None}]
  /\ result \in [Passives -> {"none", "ok", "refused", "failed"}]
  /\ barrier \in [Tabs -> Releases \cup {None}]
  /\ awaits \in [Requests \cup Commands -> Releases \cup {None}]
  /\ woken \subseteq {w \in Requests \cup Commands : awaits[w] # None}
  /\ held \in [Tabs -> Requests \cup {None}]
  /\ quarantined \subseteq online /\ online \subseteq Tabs
  /\ down \in [Tabs -> Seq(Messages)] /\ up \in [Tabs -> Seq(Answers)]
  /\ lease \in [Tabs -> Requests \cup {None}]
  /\ unproven \subseteq {t \in Tabs : lease[t] # None}
  /\ record \in [Passives -> {"UNKNOWN", "INFLIGHT", "SUBMITTED", "REJECTED"}]
  /\ calls \in [Callers -> {"idle", "created", "sent", "done"}]
  /\ told \in [Callers -> {"none", "proof", "rejected", "unsure"}]
  /\ written \in [Passives -> Nat]
  /\ faults \in 0..MaxFaults

Init ==
  /\ phase = [r \in Requests |-> "new"]
  /\ at = [r \in Requests |-> None]
  /\ waited = {} /\ woken = {}
  /\ stage = [c \in Commands |-> "none"]
  /\ where = [c \in Commands |-> None]
  /\ result = [p \in Passives |-> "none"]
  /\ barrier = [t \in Tabs |-> None]
  /\ awaits = [w \in Requests \cup Commands |-> None]
  /\ held = [t \in Tabs |-> None]
  /\ quarantined = {} /\ online = Tabs
  /\ down = [t \in Tabs |-> <<>>] /\ up = [t \in Tabs |-> <<>>]
  /\ lease = [t \in Tabs |-> None] /\ unproven = {}
  /\ record = [p \in Passives |-> "UNKNOWN"]
  /\ calls = [k \in Callers |-> "idle"]
  /\ told = [k \in Callers |-> "none"]
  /\ written = [p \in Passives |-> 0]
  /\ faults = 0

(* The microtasks still queued; a turn of the loop starts when none is.     *)
Quiet ==
  /\ woken = {}
  /\ \A r \in Requests :
       /\ phase[r] \notin {"choosing", "reserved"}
       /\ phase[r] = "cancelling" => stage[CancelOf(r)] # "settled"

(***************************************************************************)
(* Choosing a tab for a prompt.                                            *)
(***************************************************************************)
UsedByOther(t, r) ==
  \E s \in Requests \ {r} : phase[s] \in {"reserved", "bound", "cancelling"} /\ at[s] = t

IsIdle(t, r) ==
  /\ t \in online \ quarantined
  /\ held[t] = None
  /\ barrier[t] = None
  /\ ~UsedByOther(t, r)

(* Requests for the same named tab, and all those that name none, are one  *)
(* at a time: the next holds the mutex when the last has settled.          *)
SameLock(r, s) == Want[r] = Want[s]

Submit(r) ==
  /\ phase[r] = "new"
  /\ \A s \in Requests : SameLock(r, s) => ~Pending(s)
  /\ phase' = [phase EXCEPT ![r] = "choosing"]
  /\ UNCHANGED <<at, waited, stage, where, result, barrier, awaits, woken,
                 known, links, page, ledger, faults>>

(* The request stops before it has a tab: nothing has to be released.       *)
Drop(r) ==
  /\ phase' = [phase EXCEPT ![r] = "ended"]
  /\ at' = [at EXCEPT ![r] = None]
  /\ awaits' = [awaits EXCEPT ![r] = None]
  /\ woken' = woken \ {r}

(* A bug: the tab is not looked at again when its user has agreed.          *)
Reserve_NoRecheck(r, t) ==
  /\ phase' = [phase EXCEPT ![r] = "reserved"]
  /\ at' = [at EXCEPT ![r] = t]

Reserve(r, t) ==
  /\ phase' = [phase EXCEPT ![r] = IF IsIdle(t, r) THEN "reserved" ELSE "ended"]
  /\ at' = [at EXCEPT ![r] = IF IsIdle(t, r) THEN t ELSE None]

Candidates(r) == IF Want[r] = Any THEN Tabs ELSE {Want[r]}
Releasing(r)  == {t \in Candidates(r) : t \in online /\ barrier[t] # None}
MayWait(r)    ==
  /\ r \notin waited
  /\ IF Want[r] = Any THEN (\A t \in Tabs : ~IsIdle(t, r)) /\ Cardinality(Releasing(r)) = 1
                      ELSE Releasing(r) # {}

WaitForRelease(r) ==
  \E t \in Releasing(r) :
    /\ phase' = [phase EXCEPT ![r] = "waiting"]
    /\ awaits' = [awaits EXCEPT ![r] = barrier[t]]
    /\ waited' = waited \cup {r}
    /\ UNCHANGED at

(* A named tab must be free; otherwise a free tab is taken at once, or its  *)
(* user is asked, or a new tab is opened: the last two take time.           *)
Ask(r, t) ==
  /\ phase' = [phase EXCEPT ![r] = "asking"]
  /\ at' = [at EXCEPT ![r] = t]

ResolvePromptClient(r) ==
  /\ phase[r] = "choosing"
  /\ IF MayWait(r) THEN WaitForRelease(r)
     ELSE /\ \/ Want[r] # Any /\ Reserve(r, Want[r])
             \/ Want[r] = Any /\ \E t \in Tabs : IsIdle(t, r) /\ (Reserve(r, t) \/ Ask(r, t))
             \/ Want[r] = Any /\ \E t \in Tabs \ online : Ask(r, t)
             \/ /\ Want[r] = Any /\ \A t \in Tabs : ~IsIdle(t, r)
                /\ phase' = [phase EXCEPT ![r] = "ended"] /\ UNCHANGED at
          /\ waited' = waited \ {r} /\ UNCHANGED awaits
  /\ UNCHANGED <<stage, where, result, barrier, woken, known, links, page, ledger, faults>>

ReleaseWaitOver(r) ==
  /\ r \in woken
  /\ phase' = [phase EXCEPT ![r] = "choosing"]
  /\ awaits' = [awaits EXCEPT ![r] = None]
  /\ woken' = woken \ {r}
  /\ UNCHANGED <<at, waited, stage, where, result, barrier,
                 known, links, page, ledger, faults>>

(* The user agrees, or the opened tab reports: it is free only if it is     *)
(* still free.                                                              *)
Confirm(r) ==
  /\ Quiet /\ phase[r] = "asking"
  /\ Reserve(r, at[r])
  /\ UNCHANGED <<waited, stage, where, result, barrier, awaits, woken,
                 known, links, page, ledger, faults>>

(* The user declines, the caller gives up, or the wait for a release is     *)
(* over its limit.                                                          *)
GiveUp(r) ==
  /\ Quiet /\ phase[r] \in {"waiting", "asking"}
  /\ Drop(r)
  /\ waited' = waited \ {r}
  /\ UNCHANGED <<stage, where, result, barrier,
                 known, links, page, ledger, faults>>

SendPrompt(r) ==
  /\ phase[r] = "reserved"
  /\ IF at[r] \in online
     THEN /\ phase' = [phase EXCEPT ![r] = "bound"]
          /\ down' = [down EXCEPT ![at[r]] = Append(@, <<"prompt", r>>)]
          /\ UNCHANGED <<at, awaits, woken>>
     ELSE Drop(r) /\ UNCHANGED down
  /\ UNCHANGED <<waited, stage, where, result, barrier,
                 known, up, page, ledger, faults>>

(* After a restart the request a tab still carries is adopted, if no local  *)
(* request has that tab.                                                    *)
ResumeActiveRequest(r) ==
  /\ Quiet /\ phase[r] = "lost"
  /\ \E t \in online :
       /\ held[t] = r /\ ~UsedByOther(t, r)
       /\ phase' = [phase EXCEPT ![r] = "bound"]
       /\ at' = [at EXCEPT ![r] = t]
  /\ UNCHANGED <<waited, stage, where, result, barrier, awaits, woken,
                 known, links, page, ledger, faults>>

(***************************************************************************)
(* The registry.                                                           *)
(***************************************************************************)
(* A command leaves the registry: the barrier it owns is lifted.            *)
Lifted(c)  == {t \in Tabs : barrier[t] = c}
Waiting(c) == {w \in Requests \cup Commands : awaits[w] = c}

(* Only a passive prompt looks at how its command ended.                    *)
Resulted(c, how) == IF c[1] = "passive" THEN [result EXCEPT ![Of(c)] = how] ELSE result

(* A bug: a command that is withdrawn keeps its barrier.                    *)
Remove_KeepsBarrier(c, how) ==
  /\ stage' = [stage EXCEPT ![c] = "settled"]
  /\ where' = [where EXCEPT ![c] = None]
  /\ result' = Resulted(c, how)
  /\ barrier' = IF how = "failed" THEN barrier ELSE [t \in Tabs |-> IF t \in Lifted(c) THEN None ELSE barrier[t]]
  /\ woken' = IF Lifted(c) = {} THEN woken ELSE woken \cup Waiting(c)

Remove(c, how) ==
  /\ stage' = [stage EXCEPT ![c] = "settled"]
  /\ where' = [where EXCEPT ![c] = None]
  /\ result' = Resulted(c, how)
  /\ barrier' = [t \in Tabs |-> IF t \in Lifted(c) THEN None ELSE barrier[t]]
  /\ woken' = IF Lifted(c) = {} THEN woken ELSE woken \cup Waiting(c)

(* send, after the barrier: the message goes out, or the hub refuses it.    *)
BeginsBarrier(c, t) == c \in Releases /\ t \in online

Dispatch(c, t) ==
  /\ IF t \in online
     THEN /\ stage' = [stage EXCEPT ![c] = "open"]
          /\ where' = [where EXCEPT ![c] = t]
          /\ down' = [down EXCEPT ![t] = Append(@, <<"command", c>>)]
          /\ UNCHANGED result
     ELSE /\ stage' = [stage EXCEPT ![c] = "settled"]
          /\ where' = [where EXCEPT ![c] = None]
          /\ result' = Resulted(c, "failed")
          /\ UNCHANGED down
  /\ barrier' = IF BeginsBarrier(c, t) THEN [barrier EXCEPT ![t] = c] ELSE barrier

(* Any command but a release waits once for the release in progress.        *)
Send(c, t) ==
  IF barrier[t] # None
  THEN /\ stage' = [stage EXCEPT ![c] = "waiting"]
       /\ where' = [where EXCEPT ![c] = t]
       /\ awaits' = [awaits EXCEPT ![c] = barrier[t]]
       /\ UNCHANGED <<result, barrier, down>>
  ELSE Dispatch(c, t) /\ UNCHANGED awaits

BarrierOver(c) ==
  /\ c \in woken
  /\ awaits' = [awaits EXCEPT ![c] = None]
  /\ woken' = woken \ {c}
  /\ Dispatch(c, where[c])
  /\ UNCHANGED <<phase, at, waited, known, up, page, ledger, faults>>

BarrierLimit(c) ==
  /\ Quiet /\ stage[c] = "waiting"
  /\ awaits' = [awaits EXCEPT ![c] = None]
  /\ Remove(c, "failed")
  /\ UNCHANGED <<phase, at, waited, known, links, page, ledger, faults>>

(* The deadline of a command first withdraws it, and the answer may still   *)
(* come meanwhile; it is rejected when the withdrawal has been answered or  *)
(* its own deadline is over, at once when the tab cannot be reached.  What  *)
(* the tab withdraws it answers with an error, like a failure.              *)
Timeout(c) ==
  /\ Quiet /\ stage[c] = "open"
  /\ IF where[c] \in online
     THEN stage' = [stage EXCEPT ![c] = "withdrawing"] /\ UNCHANGED <<where, result, barrier, woken>>
     ELSE Remove(c, "failed")
  /\ UNCHANGED <<phase, at, waited, awaits, known, links, page, ledger, faults>>

WithdrawalOver(c) ==
  /\ Quiet /\ stage[c] = "withdrawing"
  /\ Remove(c, "failed")
  /\ UNCHANGED <<phase, at, waited, awaits, known, links, page, ledger, faults>>

(***************************************************************************)
(* The end of a request and the release of its tab.                        *)
(***************************************************************************)
(* The canonical machine ends a bound request: its pending record goes, and *)
(* two microtasks later, before anything else can choose a tab, the release *)
(* is sent as the last effect of the request.                               *)
End(r) ==
  /\ phase' = [phase EXCEPT ![r] = "ended"]
  /\ Dispatch(ReleaseOf(r), at[r])
  /\ UNCHANGED <<at, waited, awaits, woken, known, up, page, ledger, faults>>

Finish(r) == Quiet /\ phase[r] = "bound" /\ End(r)

(* A deadline cancels the prompt in the tab before the request finishes.    *)
DeadlineExceeded(r) ==
  /\ Quiet /\ phase[r] = "bound"
  /\ stage[CancelOf(r)] = "none"
  /\ phase' = [phase EXCEPT ![r] = "cancelling"]
  /\ Send(CancelOf(r), at[r])
  /\ UNCHANGED <<at, waited, woken, known, up, page, ledger, faults>>

CancelSettled(r) ==
  phase[r] = "cancelling" /\ stage[CancelOf(r)] = "settled" /\ End(r)

(* An operator releases the lease a tab still reports although its request  *)
(* has ended, or belonged to a server that is gone.                         *)
ReleaseStaleLease(r, t) ==
  /\ Quiet
  /\ t \in online /\ held[t] = r
  /\ phase[r] \in {"ended", "lost"}
  /\ \A s \in Requests : phase[s] \in {"bound", "cancelling"} => at[s] # t
  /\ barrier[t] = None
  /\ stage[StaleOf(r)] = "none"
  /\ Dispatch(StaleOf(r), t)
  /\ UNCHANGED <<phase, at, waited, awaits, woken, known, up, page, ledger, faults>>

(***************************************************************************)
(* The tab (external here: TabRuntime and ContentExecution model it).  It   *)
(* holds one lease, refuses the prompt of another request, and answers      *)
(* every command it takes.                                                 *)
(***************************************************************************)
Take(t) ==
  /\ Quiet /\ t \in online /\ down[t] # <<>> /\ Len(up[t]) < MaxUp
  /\ down' = [down EXCEPT ![t] = Tail(@)]

Reply(t, kind, c) == up' = [up EXCEPT ![t] = Append(@, <<kind, c>>)]

TabPrompt(t, r) ==
  /\ Take(t) /\ Head(down[t]) = <<"prompt", r>>
  /\ lease' = IF lease[t] = None THEN [lease EXCEPT ![t] = r] ELSE lease
  /\ UNCHANGED <<server, known, up, unproven, written, ledger, faults>>

TabRelease(t, c) ==
  /\ Take(t) /\ Head(down[t]) = <<"command", c>> /\ c \in Releases
  /\ \/ /\ lease[t] = Of(c)
        /\ \/ /\ lease' = [lease EXCEPT ![t] = None]
              /\ unproven' = unproven \ {t}
              /\ Reply(t, "released", c)
           \/ /\ unproven' = unproven \cup {t}
              /\ Reply(t, "quarantined", c) /\ UNCHANGED lease
     \/ /\ lease[t] # Of(c) \/ t \in unproven
        /\ Reply(t, "rejected", c) /\ UNCHANGED <<lease, unproven>>
  /\ UNCHANGED <<server, known, written, ledger, faults>>

TabCommand(t, c) ==
  /\ Take(t) /\ Head(down[t]) = <<"command", c>> /\ c \notin Releases
  /\ \/ /\ c[1] = "passive"
        /\ written' = [written EXCEPT ![Of(c)] = @ + 1]
        /\ \E answer \in {"done", "error"} : Reply(t, answer, c)
     \/ /\ c[1] = "passive"
        /\ \E answer \in {"refused", "error"} : Reply(t, answer, c)
        /\ UNCHANGED written
     \/ /\ c[1] = "cancel"
        /\ \E answer \in {"done", "error"} : Reply(t, answer, c)
        /\ UNCHANGED written
  /\ UNCHANGED <<server, known, lease, unproven, ledger, faults>>

Report(t) ==
  /\ Quiet /\ t \in online /\ Len(up[t]) < MaxUp /\ held[t] # lease[t]
  /\ \A i \in 1..Len(up[t]) : up[t][i] # <<"report", lease[t]>>
  /\ Reply(t, "report", lease[t])
  /\ UNCHANGED <<server, known, down, page, ledger, faults>>

(***************************************************************************)
(* What the server makes of a message.                                     *)
(***************************************************************************)
Receive(t) ==
  /\ Quiet /\ t \in online /\ up[t] # <<>>
  /\ up' = [up EXCEPT ![t] = Tail(@)]

(* The hub knows the lease before a waiter looks at it again.               *)
Projected(t, kind) ==
  /\ quarantined' = CASE kind = "quarantined" -> quarantined \cup {t}
                       [] kind = "released"    -> quarantined \ {t}
                       [] OTHER                -> quarantined
  /\ held' = IF kind = "released" THEN [held EXCEPT ![t] = None] ELSE held

Outcome(kind) == CASE kind \in {"released", "done"} -> "ok"
                   [] kind = "refused"             -> "refused"
                   [] OTHER                        -> "failed"

(* A release accepts its own verdict, or a refusal before it was dispatched *)
(* because the tab is quarantined; every other answer is left to its        *)
(* deadline.                                                               *)
Settles(c, kind, t) ==
  /\ Registered(c)
  /\ where[c] = t
  /\ IF c \in Releases THEN kind \in {"released", "quarantined"} \/ (kind = "rejected" /\ t \in unproven)
                       ELSE kind \in {"done", "refused", "error"}

HandleResponse(t) ==
  /\ Receive(t)
  /\ LET kind == Head(up[t])[1]
         c    == Head(up[t])[2]
     IN /\ kind # "report"
        /\ Projected(t, kind)
        /\ IF Settles(c, kind, t) THEN Remove(c, Outcome(kind))
                                  ELSE UNCHANGED <<stage, where, result, barrier, woken>>
  /\ UNCHANGED <<phase, at, waited, awaits, online, down, page, ledger, faults>>

Observe(t) ==
  /\ Receive(t) /\ Head(up[t])[1] = "report"
  /\ held' = [held EXCEPT ![t] = Head(up[t])[2]]
  /\ UNCHANGED <<server, quarantined, online, down, page, ledger, faults>>

(***************************************************************************)
(* Passive prompts: PassivePromptService over the durable ledger.          *)
(***************************************************************************)
Tell(k, what) == /\ calls' = [calls EXCEPT ![k] = "done"]
                 /\ told' = [told EXCEPT ![k] = what]

(* One reservation per identity, for ever: a repeated call hears what is    *)
(* recorded.  Calls are numbered as they come.                             *)
Reservation(k) ==
  /\ Quiet /\ calls[k] = "idle"
  /\ \A n \in 1..(k[2] - 1) : calls[<<k[1], n>>] # "idle"
  /\ IF record[k[1]] = "UNKNOWN"
     THEN /\ record' = [record EXCEPT ![k[1]] = "INFLIGHT"]
          /\ calls' = [calls EXCEPT ![k] = "created"]
          /\ UNCHANGED told
     ELSE /\ Tell(k, CASE record[k[1]] = "SUBMITTED" -> "proof"
                       [] record[k[1]] = "REJECTED"  -> "rejected"
                       [] OTHER                      -> "unsure")
          /\ UNCHANGED record
  /\ UNCHANGED <<server, known, links, page, faults>>

SubmitPassive(k) ==
  /\ Quiet /\ calls[k] = "created"
  /\ ~Registered(PassiveOf(k[1]))
  /\ \E t \in Candidates(k[1]) : Send(PassiveOf(k[1]), t)
  /\ calls' = [calls EXCEPT ![k] = "sent"]
  /\ UNCHANGED <<phase, at, waited, woken, known, up, page,
                 record, told, faults>>

(* A bug: every failure counts as a refusal.                                *)
Verdict_FailureIsRefusal(how) == IF how = "ok" THEN "SUBMITTED" ELSE "REJECTED"

(* Only a proved submission is recorded as one, only a refusal that says    *)
(* nothing was submitted as a refusal; the rest stays in flight.            *)
Verdict(how) == CASE how = "ok"      -> "SUBMITTED"
                  [] how = "refused" -> "REJECTED"
                  [] OTHER           -> "INFLIGHT"

Record(k) ==
  /\ Quiet /\ calls[k] = "sent" /\ stage[PassiveOf(k[1])] = "settled"
  /\ record[k[1]] = "INFLIGHT"
  /\ LET verdict == Verdict(result[k[1]])
     IN /\ record' = [record EXCEPT ![k[1]] = verdict]
        /\ Tell(k, CASE verdict = "SUBMITTED" -> "proof"
                    [] verdict = "REJECTED"  -> "rejected"
                    [] OTHER                 -> "unsure")
  /\ UNCHANGED <<server, known, links, page, faults>>

(* The owner may attest that a prompt in flight was not sent: that is        *)
(* stored beside the record and changes neither it nor the right to retry.  *)
CanRetry(p) == record[p] = "REJECTED"

(***************************************************************************)
(* Faults.                                                                 *)
(***************************************************************************)
(* A socket is lost: what was on its way down is gone, the answers of the   *)
(* tab wait in its outbox, and the hub forgets the client.                  *)
SocketLost(t) ==
  /\ Quiet /\ t \in online /\ faults < MaxFaults
  /\ faults' = faults + 1
  /\ online' = online \ {t} /\ quarantined' = quarantined \ {t}
  /\ down' = [down EXCEPT ![t] = <<>>]
  /\ UNCHANGED <<server, held, up, page, ledger>>

(* The tab says hello: a new client, which carries the lease it reports.    *)
Hello(t) ==
  /\ Quiet /\ t \notin online
  /\ online' = online \cup {t}
  /\ held' = [held EXCEPT ![t] = lease[t]]
  /\ UNCHANGED <<server, quarantined, links, page, ledger, faults>>

(* The server stops: requests, commands and barriers are gone with it.      *)
Restart ==
  /\ faults < MaxFaults /\ faults' = faults + 1
  /\ phase' = [r \in Requests |-> IF phase[r] \in {"bound", "cancelling"} THEN "lost"
                                    ELSE IF Pending(r) THEN "ended" ELSE phase[r]]
  /\ at' = [r \in Requests |-> None]
  /\ waited' = {} /\ woken' = {}
  /\ stage' = [c \in Commands |-> IF stage[c] = "none" THEN "none" ELSE "settled"]
  /\ where' = [c \in Commands |-> None]
  /\ result' = [p \in Passives |-> IF Registered(PassiveOf(p)) \/ stage[PassiveOf(p)] = "waiting"
                                   THEN "failed" ELSE result[p]]
  /\ barrier' = [t \in Tabs |-> None]
  /\ awaits' = [w \in Requests \cup Commands |-> None]
  /\ online' = {} /\ quarantined' = {}
  /\ down' = [t \in Tabs |-> <<>>]
  /\ calls' = [k \in Callers |-> IF calls[k] = "idle" THEN "idle" ELSE "done"]
  /\ UNCHANGED <<held, up, page, record, told>>

Jobs ==
  \/ \E r \in Requests : ResolvePromptClient(r) \/ ReleaseWaitOver(r) \/ SendPrompt(r) \/ CancelSettled(r)
  \/ \E c \in Commands : BarrierOver(c)

Tab(t) ==
  \/ \E r \in Requests : TabPrompt(t, r)
  \/ \E c \in Commands : TabRelease(t, c) \/ TabCommand(t, c)

Next ==
  \/ Jobs
  \/ \E r \in Requests :
       \/ Submit(r) \/ Confirm(r) \/ GiveUp(r) \/ ResumeActiveRequest(r)
       \/ Finish(r) \/ DeadlineExceeded(r)
       \/ \E t \in Tabs : ReleaseStaleLease(r, t)
  \/ \E c \in Commands : BarrierLimit(c) \/ Timeout(c) \/ WithdrawalOver(c)
  \/ \E t \in Tabs : Tab(t) \/ Report(t) \/ HandleResponse(t) \/ Observe(t)
                    \/ SocketLost(t) \/ Hello(t)
  \/ \E k \in Callers : Reservation(k) \/ SubmitPassive(k) \/ Record(k)
  \/ Restart

Spec == Init /\ [][Next]_vars

(***************************************************************************)
(* Properties.                                                             *)
(***************************************************************************)
(* A tab is never promised to two requests at once, although the choice     *)
(* waits for a release, for its user or for a new tab to open, and named    *)
(* and unnamed requests and resumed ones do not share a lock; and between   *)
(* its choice and its prompt it neither starts to release nor is            *)
(* quarantined (browserClientCoordinator.js:54-71, 168-217).                *)
OneRequestPerTab ==
  /\ \A r, s \in Requests :
       r # s /\ phase[r] \in {"reserved", "bound", "cancelling"}
             /\ phase[s] \in {"reserved", "bound", "cancelling"} => at[r] # at[s]
  /\ \A r \in Requests : phase[r] = "reserved" => barrier[at[r]] = None /\ at[r] \in online \ quarantined

(* A tab is kept back only by a release that was sent to it and can still   *)
(* settle: none is blocked for ever by a release that is over, withdrawn,  *)
(* or was never delivered (bridgeCommandRegistry.js:393-407, 430-437).      *)
BarrierHasRelease ==
  \A t \in Tabs : barrier[t] # None => Registered(barrier[t]) /\ where[barrier[t]] = t

(* A passive prompt reaches the page at most once, and a caller who was     *)
(* told that nothing was submitted, and may therefore try again under       *)
(* another identity, was told the truth, for good: over repeated calls,     *)
(* late answers, timeouts and restarts (passivePromptLedger.js:157-200).    *)
SubmittedOnce ==
  \A p \in Passives :
    /\ written[p] <= 1
    /\ CanRetry(p) \/ (\E n \in 1..MaxCalls : told[<<p, n>>] = "rejected") => written[p] = 0
    /\ record[p] = "SUBMITTED" \/ (\E n \in 1..MaxCalls : told[<<p, n>>] = "proof") => written[p] = 1
===============================================================================
