-------------------------- MODULE ExtensionProofs --------------------------
(***************************************************************************)
(* Theorems about the two halves of the extension.                         *)
(*                                                                         *)
(* TabRuntime: for any command sequence, any number of requests and        *)
(* epochs, and any reloads, crashes and disconnects between the steps of a *)
(* handler.  ContentExecution: for any commands the server may send, any   *)
(* number of turns, texts typed and ledger writes that fail, and for lost  *)
(* ports with and without a page that outlives them.                       *)
(***************************************************************************)
EXTENDS TabRuntime, ContentExecution, FiniteSetTheorems, WellFoundedInduction, TLAPS

-----------------------------------------------------------------------------
(* TabRuntime *)

(* One terminal envelope exactly when a recorded command becomes terminal.  *)
OnceIn(st, an) ==
  \A c \in Commands : /\ an[c] <= 1
                      /\ st[c] # "absent" => (an[c] = 1 <=> st[c] \in Terminal)

(* The lease is of the request whose commands and effects are open.         *)
Child(c)       == RequestScoped(c) /\ ~IsRelease(c)
Covers(le, st) ==
  \A c \in Commands : Child(c) /\ st[c] \in Active => le # NoLease /\ le.req = script[c].req

(* Nothing is known of a command before it arrives.                         *)
Arrived == \A c \in Commands : c >= next => status[c] = "absent" /\ answers[c] = 0

(* What the handler takes for granted of the commands it works on.          *)
Worked ==
  /\ handler.pc \in {"status", "effect", "register", "dispatch", "post"} =>
        handler.cmd \in Commands /\ handler.cmd < next
  /\ handler.pc \in {"status", "effect", "register"} =>
        status[handler.cmd] = "absent" /\ answers[handler.cmd] = 0
  /\ handler.pc = "dispatch" => status[handler.cmd] = "registered"
  /\ handler.pc = "post" => status[handler.cmd] # "absent"
  /\ handler.pc = "unstarted" => \A x \in handler.todo : status[x] = "registered"
  /\ handler.pc = "typed" =>
        \A x \in handler.todo : status[x] = "dispatched" /\ ~IsRelease(x)

(* From its acceptance to its dispatch a command has the lease, and no      *)
(* commit in between can release it.                                        *)
Held ==
  /\ handler.pc = "status" =>
        RequestScoped(handler.cmd) /\ (lease = NoLease \/ lease.req = script[handler.cmd].req)
  /\ handler.pc \in {"effect", "register", "dispatch"} /\ Child(handler.cmd) =>
        /\ lease # NoLease /\ lease.req = script[handler.cmd].req
        /\ lease.status # "releasing"

IInv == TypeOK /\ SettledOnce /\ ReleaseBarrier /\ Arrived /\ Worked /\ Held

-----------------------------------------------------------------------------
(* Commands and leases                                                      *)

LEMMA Kinds ==
  ASSUME script \in Scripts, NEW c \in Commands
  PROVE  /\ Type(c) \in CommandTypes
         /\ RequestScoped(c) => script[c].req \in Requests
         /\ script[c].epoch \in Nat
         /\ IsRelease(c) => RequestScoped(c) /\ ~IsEffect(c) /\ ~IsWrite(c)
         /\ IsEffect(c) => RequestScoped(c)
<1>1. /\ script \in [Commands -> [type : CommandTypes, req : Requests \cup {"none"}, epoch : Nat]]
      /\ script[c].type \in WriteTypes \cup ReadTypes \/ script[c].req \in Requests
  BY TabAssumption DEF TabAssumption
<1>2. script[c] \in [type : CommandTypes, req : Requests \cup {"none"}, epoch : Nat]
  BY <1>1
<1> QED
  BY <1>1, <1>2 DEF Type, RequestScoped, IsRelease, IsEffect, IsWrite, CommandTypes,
     WriteTypes, ReadTypes, ReleaseTypes, EffectTypes, QueryTypes

(* A script is sent as it is: what a command is never changes.              *)
LEMMA SameKinds ==
  ASSUME script' = script, NEW c \in Commands
  PROVE  /\ Type(c)' = Type(c)
         /\ RequestScoped(c)' <=> RequestScoped(c)
         /\ IsRelease(c)' <=> IsRelease(c)
         /\ Child(c)' <=> Child(c)
         /\ ReloadManaged(c)' <=> ReloadManaged(c)
BY DEF Type, RequestScoped, IsRelease, Child, ReloadManaged, IsWrite

LEMMA LeaseIs ==
  ASSUME NEW le \in Leases
  PROVE  /\ le = NoLease \/ le.req \in Requests
         /\ NoLease \in Leases /\ NoLease.req \notin Requests
         /\ NoLease.status = "idle"
         /\ \A s \in {"claimed", "reconciling", "executing", "releasing", "quarantined"} :
              le # NoLease => /\ [le EXCEPT !.status = s] \in Leases
                              /\ [le EXCEPT !.status = s] # NoLease
                              /\ [le EXCEPT !.status = s].req = le.req
                              /\ [le EXCEPT !.status = s].status = s
BY TabAssumption DEF TabAssumption, Leases, NoLease

LEMMA LeaseWith ==
  ASSUME NEW le \in Leases, le # NoLease,
         NEW s \in {"claimed", "reconciling", "executing", "releasing", "quarantined"}
  PROVE  /\ [le EXCEPT !.status = s] \in Leases /\ [le EXCEPT !.status = s] # NoLease
         /\ [le EXCEPT !.status = s].req = le.req /\ [le EXCEPT !.status = s].status = s
BY DEF Leases, NoLease

LEMMA LeaseAt ==
  ASSUME NEW le \in Leases, le # NoLease, NEW e \in Nat
  PROVE  /\ [le EXCEPT !.epoch = e] \in Leases /\ [le EXCEPT !.epoch = e] # NoLease
         /\ [le EXCEPT !.epoch = e].req = le.req
BY TabAssumption DEF TabAssumption, Leases, NoLease

-----------------------------------------------------------------------------
(* What a committed transition leaves behind: settleReadyRelease may have   *)
(* answered a release and cleared the lease.                                *)
Settled(le, st, an) ==
  \E x \in Commands :
    /\ IsRelease(x) /\ st[x] = "dispatched"
    /\ status' = [st EXCEPT ![x] = "succeeded"]
    /\ answers' = [an EXCEPT ![x] = @ + 1]
    /\ lease' = NoLease
    /\ le.status = "releasing" /\ ActiveChildren(le, st) = {}

Plain(le, st, an) ==
  /\ status' = st /\ answers' = an
  /\ lease' = le \/ (le.status = "releasing" /\ lease' = Quarantined(le))

LEMMA CommitIs ==
  ASSUME NEW le, NEW st, NEW an, NEW rd \in SUBSET {c \in Commands : IsRelease(c)},
         Commit(le, st, rd, an)
  PROVE  (Settled(le, st, an) \/ Plain(le, st, an)) /\ ready' = rd
<1> DEFINE proved == {c \in rd : st[c] = "dispatched" /\ Owns(le, c)}
           x      == CHOOSE y \in proved : TRUE
           settle == /\ le.status = "releasing" /\ proved # {}
                     /\ ActiveChildren(le, st) = {}
<1>1. /\ ready' = rd
      /\ settle /\ RoomForTerminal =>
           /\ lease'   = NoLease
           /\ status'  = [st EXCEPT ![x] = "succeeded"]
           /\ answers' = [an EXCEPT ![x] = @ + 1]
      /\ ~(settle /\ RoomForTerminal) =>
           /\ lease' = IF settle THEN [le EXCEPT !.status = "quarantined"] ELSE le
           /\ status' = st /\ answers' = an
  BY DEF Commit
<1>2. CASE settle /\ RoomForTerminal
  <2>1. x \in proved
    BY <1>2
  <2>2. x \in Commands /\ IsRelease(x) /\ st[x] = "dispatched"
    BY <2>1
  <2>3. le.status = "releasing" /\ ActiveChildren(le, st) = {}
    BY <1>2
  <2> QED
    BY <1>1, <1>2, <2>2, <2>3 DEF Settled
<1>3. CASE ~(settle /\ RoomForTerminal)
  <2>1. settle => le.status = "releasing"
    OBVIOUS
  <2> HIDE DEF settle
  <2> QED
    BY <1>1, <1>3, <2>1 DEF Plain, Quarantined
<1> QED
  BY <1>1, <1>2, <1>3

(* What every action can rely on after its commit.                          *)
After(le, st, an) ==
  /\ lease' \in Leases
  /\ status' \in [Commands -> Statuses]
  /\ answers' \in [Commands -> Nat]
  /\ OnceIn(status', answers')
  /\ Covers(lease', status')
  /\ \A c \in Commands :
       \/ status'[c] = st[c] /\ answers'[c] = an[c]
       \/ IsRelease(c) /\ st[c] = "dispatched" /\ status'[c] = "succeeded"
  /\ lease' = NoLease \/ lease'.req = le.req
  /\ le.status # "releasing" => lease' = le

LEMMA CommitKeeps ==
  ASSUME NEW le \in Leases, NEW st \in [Commands -> Statuses], NEW an \in [Commands -> Nat],
         NEW rd \in SUBSET {c \in Commands : IsRelease(c)}, script \in Scripts,
         Commit(le, st, rd, an), OnceIn(st, an), Covers(le, st)
  PROVE  After(le, st, an) /\ ready' = rd
<1>1. (Settled(le, st, an) \/ Plain(le, st, an)) /\ ready' = rd
  BY CommitIs
<1>2. CASE Plain(le, st, an)
  <2>1. status' = st /\ answers' = an
    BY <1>2 DEF Plain
  <2>2. le.status = "releasing" => /\ le # NoLease
                                   /\ Quarantined(le) \in Leases /\ Quarantined(le) # NoLease
                                   /\ Quarantined(le).req = le.req
    BY LeaseIs DEF Quarantined
  <2>3. /\ lease' \in Leases /\ lease'.req = le.req /\ (le # NoLease => lease' # NoLease)
        /\ le.status # "releasing" => lease' = le
    BY <1>2, <2>2 DEF Plain
  <2>4. OnceIn(status', answers')
    BY <2>1
  <2>5. Covers(lease', status')
    BY <2>1, <2>3 DEF Covers
  <2> QED
    BY <1>1, <2>1, <2>3, <2>4, <2>5 DEF After
<1>3. CASE Settled(le, st, an)
  <2>1. PICK x \in Commands :
           /\ IsRelease(x) /\ st[x] = "dispatched"
           /\ status' = [st EXCEPT ![x] = "succeeded"]
           /\ answers' = [an EXCEPT ![x] = @ + 1]
           /\ lease' = NoLease
           /\ le.status = "releasing" /\ ActiveChildren(le, st) = {}
    BY <1>3 DEF Settled
  <2>2. \A c \in Commands : Child(c) => st[c] \notin Active
    <3> SUFFICES ASSUME NEW c \in Commands, Child(c), st[c] \in Active PROVE FALSE
      OBVIOUS
    <3>1. script[c].req = le.req
      BY DEF Covers
    <3> QED
      BY <2>1, <3>1 DEF ActiveChildren, Child
  <2>3. status' \in [Commands -> Statuses] /\ "succeeded" \in Terminal
    BY <2>1 DEF Statuses, Terminal
  <2>4. an[x] = 0
    BY <2>1 DEF OnceIn, Terminal
  <2>5. answers' \in [Commands -> Nat] /\ answers'[x] = 1 /\ status'[x] = "succeeded"
    BY <2>1, <2>4
  <2>6. \A c \in Commands \ {x} : status'[c] = st[c] /\ answers'[c] = an[c]
    BY <2>1
  <2>7. OnceIn(status', answers')
    BY <2>3, <2>5, <2>6 DEF OnceIn
  <2>8. ~Child(x)
    BY <2>1 DEF Child
  <2>9. Covers(lease', status')
    BY <2>2, <2>6, <2>8 DEF Covers
  <2> QED
    BY <1>1, <2>1, <2>3, <2>5, <2>6, <2>7, <2>9, LeaseIs DEF After
<1> QED
  BY <1>1, <1>2, <1>3

-----------------------------------------------------------------------------
(* The parts of the invariant                                               *)

Rels    == {c \in Commands : IsRelease(c)}
Managed == {c \in Commands : ReloadManaged(c)}

LEMMA SameSets == ASSUME script' = script PROVE Rels' = Rels /\ Managed' = Managed
BY SameKinds DEF Rels, Managed

DurableTypes ==
  /\ lease \in Leases
  /\ status \in [Commands -> Statuses]
  /\ ready \subseteq Rels
  /\ answers \in [Commands -> Nat]

Handlers == [pc : Places, cmd : Commands \cup {0}, todo : SUBSET Commands]

WorkerTypes ==
  /\ next \in 1 .. Length + 1
  /\ room \in Rooms \cup {"free"}
  /\ handler \in Handlers
  /\ executing \subseteq Commands
  /\ timers \subseteq Rels
  /\ reconciling \subseteq Managed
  /\ link \in {"down", "attached", "ready"}
  /\ faults \in 0 .. MaxFaults

(* What the durable state and the counters of answers promise.              *)
Core ==
  /\ DurableTypes
  /\ overflow \in BOOLEAN
  /\ SettledOnce
  /\ ReleaseBarrier
  /\ Arrived

LEMMA Parts == IInv <=> script \in Scripts /\ Core /\ WorkerTypes /\ Worked /\ Held
BY DEF IInv, TypeOK, Core, DurableTypes, WorkerTypes, Rels, Managed, Handlers

LEMMA NextParts ==
  ASSUME script' = script, script \in Scripts, Core', WorkerTypes', Worked', Held'
  PROVE  IInv'
<1>1. TypeOK'
  BY DEF TypeOK, Core, DurableTypes, WorkerTypes, Rels, Managed, Handlers
<1>2. SettledOnce' /\ ReleaseBarrier' /\ Arrived'
  BY DEF Core
<1> QED
  BY <1>1, <1>2 DEF IInv

LEMMA Durables ==
  ASSUME IInv
  PROVE  /\ script \in Scripts /\ DurableTypes /\ WorkerTypes /\ overflow \in BOOLEAN
         /\ OnceIn(status, answers) /\ Covers(lease, status)
         /\ ready \in SUBSET {c \in Commands : IsRelease(c)}
         /\ \A c \in executing : status[c] # "absent"
         /\ \A c \in Commands : c >= next => status[c] = "absent" /\ answers[c] = 0
         /\ \A c \in Commands : status[c] # "absent" => c < next
         /\ Length \in Nat /\ next \in Nat /\ next \in 1 .. Length + 1 /\ Commands \subseteq Nat
<1>1. /\ script \in Scripts /\ DurableTypes /\ WorkerTypes /\ overflow \in BOOLEAN
      /\ SettledOnce /\ ReleaseBarrier /\ Arrived
  BY Parts DEF Core
<1>2. Length \in Nat /\ next \in Nat /\ next \in 1 .. Length + 1 /\ Commands \subseteq Nat
  BY <1>1, TabAssumption DEF TabAssumption, WorkerTypes, Commands
<1>3. OnceIn(status, answers) /\ \A c \in executing : status[c] # "absent"
  BY <1>1 DEF SettledOnce, OnceIn, WorkerTypes
<1>4. Covers(lease, status)
  BY <1>1 DEF ReleaseBarrier, Covers, Child
<1>5. ready \in SUBSET {c \in Commands : IsRelease(c)}
  BY <1>1 DEF DurableTypes, Rels
<1>6. \A c \in Commands : c >= next => status[c] = "absent" /\ answers[c] = 0
  BY <1>1 DEF Arrived
<1>7. \A c \in Commands : status[c] # "absent" => c < next
  BY <1>2, <1>6
<1> QED
  BY <1>1, <1>2, <1>3, <1>4, <1>5, <1>6, <1>7

(* What has to be shown of the next durable state.                          *)
LEMMA NextCore ==
  ASSUME IInv, script' = script, DurableTypes', overflow' \in BOOLEAN,
         OnceIn(status', answers'), Covers(lease', status'),
         executing' \subseteq Commands, \A c \in executing' : status'[c] # "absent",
         \A c \in Commands : c >= next' => status'[c] = "absent" /\ answers'[c] = 0
  PROVE  Core'
<1>1. SettledOnce'
  BY DEF OnceIn, SettledOnce
<1>2. ReleaseBarrier'
  <2> SUFFICES ASSUME NEW c \in Commands, Child(c)', status'[c] \in Active
               PROVE  lease' # NoLease /\ lease'.req = script'[c].req
    BY DEF ReleaseBarrier, Child
  <2> QED
    BY SameKinds DEF Covers
<1>3. Arrived'
  BY DEF Arrived
<1> QED
  BY <1>1, <1>2, <1>3 DEF Core

LEMMA CommitBool ==
  ASSUME NEW le, NEW st, NEW an, NEW rd, Commit(le, st, rd, an)
  PROVE  overflow' \in BOOLEAN
BY DEF Commit

LEMMA CommitCore ==
  ASSUME IInv, script' = script,
         NEW le \in Leases, NEW st \in [Commands -> Statuses], NEW an \in [Commands -> Nat],
         NEW rd \in SUBSET {c \in Commands : IsRelease(c)},
         Commit(le, st, rd, an), OnceIn(st, an), Covers(le, st),
         executing' \subseteq executing,
         \A c \in Commands : status[c] # "absent" => st[c] # "absent",
         \A c \in Commands : c >= next' => st[c] = "absent" /\ an[c] = 0
  PROVE  Core' /\ After(le, st, an)
<1>1. After(le, st, an) /\ ready' = rd
  BY CommitKeeps, Durables
<1>2. DurableTypes'
  BY <1>1, SameSets DEF After, DurableTypes, Rels
<1>3. overflow' \in BOOLEAN
  BY CommitBool
<1>4. OnceIn(status', answers') /\ Covers(lease', status')
  BY <1>1 DEF After
<1>5. executing' \subseteq Commands /\ \A c \in executing' : status'[c] # "absent"
  BY <1>1, Durables DEF After, WorkerTypes
<1>6. \A c \in Commands : c >= next' => status'[c] = "absent" /\ answers'[c] = 0
  BY <1>1 DEF After
<1> QED
  BY <1>1, <1>2, <1>3, <1>4, <1>5, <1>6, NextCore

LEMMA SameCore ==
  ASSUME IInv, script' = script, UNCHANGED durable, overflow' \in BOOLEAN,
         next' \in Nat, next' >= next, executing' \subseteq Commands,
         \A c \in executing' : status[c] # "absent"
  PROVE  Core'
<1>1. lease' = lease /\ status' = status /\ ready' = ready /\ answers' = answers
  BY DEF durable
<1>2. DurableTypes'
  BY <1>1, Durables, SameSets DEF DurableTypes
<1>3. \A c \in Commands : c >= next' => c >= next
  BY Durables
<1> QED
  BY <1>1, <1>2, <1>3, Durables, NextCore

(* A handler that works on no command of its own takes nothing for granted. *)
Busy == {"status", "effect", "register", "dispatch", "post", "unstarted", "typed"}

LEMMA Quiet == ASSUME handler'.pc \notin Busy PROVE Worked' /\ Held'
BY DEF Worked, Held, Busy

LEMMA HandlerForms ==
  /\ Idle \in Handlers /\ Idle.pc = "idle" /\ Idle.todo = {} /\ Idle.pc \notin Busy
  /\ \A pc \in Places, c \in Commands :
        At(pc, c) \in Handlers /\ At(pc, c).pc = pc /\ At(pc, c).cmd = c
  /\ \A pc \in Places, t \in SUBSET Commands :
        Step(pc, t) \in Handlers /\ Step(pc, t).pc = pc /\ Step(pc, t).todo = t
BY DEF Idle, Handlers, Places, At, Step, Busy

LEMMA Words ==
  /\ Terminal \subseteq Statuses /\ Active \subseteq Statuses /\ "absent" \in Statuses
  /\ "absent" \notin Terminal /\ "absent" \notin Active
  /\ \A s \in Terminal : s \notin Active
  /\ {"registered", "dispatched"} = Active /\ {"succeeded", "rejected", "uncertain"} = Terminal
BY DEF Terminal, Active, Statuses

-----------------------------------------------------------------------------
(* The transitions actions are made of                                      *)

LEMMA LeaseCore ==
  ASSUME IInv, script' = script, NEW le \in Leases, Commit(le, status, ready, answers),
         Covers(le, status), next' \in Nat, next' >= next, executing' \subseteq executing
  PROVE  Core' /\ After(le, status, answers)
<1>1. \A c \in Commands : c >= next' => status[c] = "absent" /\ answers[c] = 0
  <2>1. \A c \in Commands : c >= next' => c >= next
    BY Durables
  <2> QED
    BY <2>1, Durables
<1>2. status \in [Commands -> Statuses] /\ answers \in [Commands -> Nat]
  BY Durables DEF DurableTypes
<1> QED
  BY <1>1, <1>2, Durables, CommitCore

(* A command becomes active and is not answered yet.                        *)
LEMMA ActiveCore ==
  ASSUME IInv, script' = script, NEW c \in Commands, NEW s \in Active, NEW le \in Leases,
         Commit(le, [status EXCEPT ![c] = s], ready, answers),
         Covers(le, status), Child(c) => le # NoLease /\ le.req = script[c].req,
         answers[c] = 0, c < next', next' \in Nat, next' >= next,
         executing' \subseteq executing
  PROVE  Core' /\ After(le, [status EXCEPT ![c] = s], answers)
<1> DEFINE st == [status EXCEPT ![c] = s]
<1>1. status \in [Commands -> Statuses] /\ answers \in [Commands -> Nat]
  BY Durables DEF DurableTypes
<1>2. st \in [Commands -> Statuses] /\ st[c] = s /\ \A x \in Commands \ {c} : st[x] = status[x]
  BY <1>1, Words
<1>3. s # "absent" /\ s \notin Terminal
  BY Words
<1> HIDE DEF st
<1>4. OnceIn(st, answers)
  BY <1>2, <1>3, Durables DEF OnceIn
<1>5. Covers(le, st)
  BY <1>2 DEF Covers
<1>6. \A x \in Commands : status[x] # "absent" => st[x] # "absent"
  BY <1>2, <1>3
<1>7. \A x \in Commands : x >= next' => x >= next /\ x # c
  BY Durables
<1>8. \A x \in Commands : x >= next' => st[x] = "absent" /\ answers[x] = 0
  BY <1>2, <1>7, Durables
<1>9. Commit(le, st, ready, answers)
  BY DEF st
<1>10. Core' /\ After(le, st, answers)
  BY <1>1, <1>2, <1>4, <1>5, <1>6, <1>8, <1>9, Durables, CommitCore
<1> QED
  BY <1>10 DEF st

(* An active command is settled and answered, its lease still for the same  *)
(* request.                                                                 *)
LEMMA AnswerCore ==
  ASSUME IInv, script' = script, NEW c \in Commands, NEW s \in Terminal, NEW le \in Leases,
         Answer(c, s, le), status[c] \in Active,
         lease # NoLease => le # NoLease, le.req = lease.req,
         next' = next, executing' \subseteq executing
  PROVE  /\ Core'
         /\ After(le, [status EXCEPT ![c] = s], [answers EXCEPT ![c] = @ + 1])
<1> DEFINE st == [status EXCEPT ![c] = s]
           an == [answers EXCEPT ![c] = @ + 1]
<1>1. status \in [Commands -> Statuses] /\ answers \in [Commands -> Nat]
  BY Durables DEF DurableTypes
<1>2. st \in [Commands -> Statuses] /\ st[c] = s /\ \A x \in Commands \ {c} : st[x] = status[x]
  BY <1>1, Words
<1>3. s # "absent" /\ s \notin Active /\ status[c] # "absent" /\ status[c] \notin Terminal
  BY Words
<1>4. answers[c] = 0
  BY <1>1, <1>3, Durables DEF OnceIn
<1>5. an \in [Commands -> Nat] /\ an[c] = 1 /\ \A x \in Commands \ {c} : an[x] = answers[x]
  BY <1>1, <1>4
<1>6. Commit(le, st, ready, an)
  BY DEF Answer
<1> HIDE DEF st, an
<1>7. OnceIn(st, an)
  BY <1>2, <1>5, Durables DEF OnceIn
<1>8. Covers(le, st)
  BY <1>2, <1>3, Durables DEF Covers
<1>9. \A x \in Commands : status[x] # "absent" => st[x] # "absent"
  BY <1>2, <1>3
<1>10. \A x \in Commands : x >= next' => x # c /\ status[x] = "absent" /\ answers[x] = 0
  BY <1>3, Durables
<1>11. \A x \in Commands : x >= next' => st[x] = "absent" /\ an[x] = 0
  BY <1>2, <1>5, <1>10
<1>12. Core' /\ After(le, st, an)
  BY <1>2, <1>5, <1>6, <1>7, <1>8, <1>9, <1>11, Durables, CommitCore
<1> QED
  BY <1>12 DEF st, an

LEMMA SettleCore ==
  ASSUME IInv, script' = script, NEW c \in Commands, NEW s \in Terminal, Settle(c, s),
         next' = next, executing' \subseteq executing
  PROVE  Core'
<1>1. CASE Settleable(c) /\ RoomForTerminal
  <2> DEFINE le == IF IsRelease(c) THEN Quarantined(lease) ELSE lease
  <2>1. Answer(c, s, le)
    BY <1>1 DEF Settle
  <2>2. status[c] \in Active /\ (IsRelease(c) => lease # NoLease)
    BY <1>1, Kinds, Durables DEF Settleable, Active
  <2>3. lease \in Leases
    BY Durables DEF DurableTypes
  <2>4. lease # NoLease => /\ Quarantined(lease) \in Leases /\ Quarantined(lease) # NoLease
                           /\ Quarantined(lease).req = lease.req
    BY <2>3, LeaseIs DEF Quarantined
  <2>5. le \in Leases /\ (lease # NoLease => le # NoLease) /\ le.req = lease.req
    BY <2>2, <2>3, <2>4
  <2> HIDE DEF le
  <2> QED
    BY <2>1, <2>2, <2>5, AnswerCore
<1>2. CASE ~(Settleable(c) /\ RoomForTerminal)
  <2>1. UNCHANGED durable /\ overflow' \in BOOLEAN
    BY <1>2 DEF Settle
  <2>2. executing' \subseteq Commands /\ \A x \in executing' : status[x] # "absent"
    BY Durables DEF WorkerTypes
  <2>3. next' \in Nat /\ next' >= next
    BY Durables
  <2> QED
    BY <2>1, <2>2, <2>3, SameCore
<1> QED
  BY <1>1, <1>2

(* A refused command is answered and stays absent.                          *)
LEMMA RefusedCore ==
  ASSUME IInv, script' = script, NEW c \in Commands,
         answers' = IF RoomForTerminal THEN [answers EXCEPT ![c] = @ + 1] ELSE answers,
         overflow' = (overflow \/ ~RoomForTerminal),
         UNCHANGED <<lease, status, ready>>,
         status[c] = "absent", answers[c] = 0, c < next', next' \in Nat, next' >= next,
         executing' = executing
  PROVE  Core'
<1>1. answers \in [Commands -> Nat]
  BY Durables DEF DurableTypes
<1>2. /\ answers' \in [Commands -> Nat] /\ answers'[c] <= 1
      /\ \A x \in Commands \ {c} : answers'[x] = answers[x]
  BY <1>1
<1>3. DurableTypes'
  BY <1>2, Durables, SameSets DEF DurableTypes
<1>4. overflow' \in BOOLEAN
  OBVIOUS
<1>5. OnceIn(status', answers')
  BY <1>2, Durables DEF OnceIn
<1>6. Covers(lease', status')
  BY Durables
<1>7. executing' \subseteq Commands /\ \A x \in executing' : status'[x] # "absent"
  BY Durables DEF WorkerTypes
<1>8. \A x \in Commands : x >= next' => x >= next /\ x # c
  BY Durables
<1>9. \A x \in Commands : x >= next' => status'[x] = "absent" /\ answers'[x] = 0
  BY <1>2, <1>8, Durables
<1> QED
  BY <1>3, <1>4, <1>5, <1>6, <1>7, <1>9, NextCore

-----------------------------------------------------------------------------
(* Receiving a command                                                      *)

LEMMA ArrivesIs ==
  ASSUME IInv, NEW c \in Commands, Arrives(c)
  PROVE  /\ handler = Idle /\ c = next /\ next' = next + 1
         /\ next' \in Nat /\ next' >= next /\ c < next' /\ next' \in 1 .. Length + 1
         /\ status[c] = "absent" /\ answers[c] = 0
         /\ UNCHANGED <<script, room, executing, timers, reconciling, link, faults>>
<1>1. /\ handler = Idle /\ c = next /\ next' = next + 1
      /\ UNCHANGED <<script, room, executing, timers, reconciling, link, faults>>
  BY DEF Arrives
<1>2. next \in Nat /\ next' \in Nat /\ next' >= next /\ c < next' /\ c >= next
  BY <1>1, Durables
<1>3. next' \in 1 .. Length + 1
  BY <1>1, Durables DEF Commands
<1> QED
  BY <1>1, <1>2, <1>3, Durables

LEMMA RefuseKeeps ==
  ASSUME IInv, NEW c \in Commands, Refuse(c)
  PROVE  IInv'
<1>1. Arrives(c) /\ handler' = handler
  BY DEF Refuse
<1>2. Core'
  BY <1>1, ArrivesIs, RefusedCore DEF Refuse
<1>3. WorkerTypes'
  BY <1>1, ArrivesIs, Durables, SameSets DEF WorkerTypes
<1>4. Worked' /\ Held'
  BY <1>1, ArrivesIs, HandlerForms, Quiet
<1> QED
  BY <1>1, <1>2, <1>3, <1>4, ArrivesIs, Durables, NextParts

LEMMA ReceiveStandaloneKeeps ==
  ASSUME IInv, NEW c \in Commands, ReceiveStandalone(c)
  PROVE  IInv'
<1>1. Arrives(c) /\ ~RequestScoped(c) /\ handler' = At("register", c) /\ UNCHANGED <<durable, overflow>>
  BY DEF ReceiveStandalone
<1>2. At("register", c) \in Handlers /\ handler'.pc = "register" /\ handler'.cmd = c
  BY <1>1, HandlerForms DEF Places
<1>3. Core'
  <2>1. executing' \subseteq Commands /\ \A x \in executing' : status[x] # "absent"
    BY <1>1, ArrivesIs, Durables DEF WorkerTypes
  <2> QED
    BY <1>1, <2>1, ArrivesIs, Durables, SameCore
<1>4. WorkerTypes'
  BY <1>1, <1>2, ArrivesIs, Durables, SameSets DEF WorkerTypes
<1>5. Worked'
  <2>1. status' = status /\ answers' = answers
    BY <1>1 DEF durable
  <2> QED
    BY <1>1, <1>2, <2>1, ArrivesIs DEF Worked
<1>6. Held'
  <2>1. ~Child(c)'
    BY <1>1, ArrivesIs, SameKinds DEF Child
  <2> QED
    BY <1>2, <2>1 DEF Held
<1> QED
  BY <1>1, <1>3, <1>4, <1>5, <1>6, ArrivesIs, Durables, NextParts

LEMMA ReceiveRequestKeeps ==
  ASSUME IInv, NEW c \in Commands, ReceiveRequest(c)
  PROVE  IInv'
<1> DEFINE claim == [req |-> script[c].req, epoch |-> script[c].epoch, status |-> "claimed"]
           le == IF lease = NoLease THEN claim ELSE [lease EXCEPT !.epoch = script[c].epoch]
<1>1. Arrives(c) /\ RequestScoped(c) /\ Admits(c) /\ handler' = At("status", c) /\ SetLease(le)
  BY DEF ReceiveRequest
<1>2. script' = script /\ handler' \in Handlers /\ handler'.pc = "status" /\ handler'.cmd = c
  BY <1>1, ArrivesIs, HandlerForms DEF Places
<1>3. script[c].req \in Requests /\ script[c].epoch \in Nat
  BY <1>1, Kinds, Durables
<1>4. claim \in Leases /\ claim.req = script[c].req /\ claim.status = "claimed"
  BY <1>3 DEF Leases
<1>5. lease \in Leases /\ (lease # NoLease => lease.req = script[c].req)
  BY <1>1, Durables DEF Admits, DurableTypes
<1>6. lease # NoLease => /\ [lease EXCEPT !.epoch = script[c].epoch] \in Leases
                         /\ [lease EXCEPT !.epoch = script[c].epoch] # NoLease
                         /\ [lease EXCEPT !.epoch = script[c].epoch].req = lease.req
  BY <1>3, <1>5, LeaseAt
<1>7. le \in Leases /\ le.req = script[c].req /\ (lease # NoLease => le # NoLease /\ le.req = lease.req)
  BY <1>4, <1>5, <1>6
<1> HIDE DEF le
<1>8. Covers(le, status)
  BY <1>7, Durables DEF Covers
<1>9. Core' /\ After(le, status, answers)
  BY <1>1, <1>7, <1>8, ArrivesIs, LeaseCore DEF SetLease
<1>10. WorkerTypes'
  BY <1>1, <1>2, ArrivesIs, Durables, SameSets DEF WorkerTypes
<1>11. Worked'
  <2>1. status'[c] = "absent" /\ answers'[c] = 0
    BY <1>1, <1>9, ArrivesIs DEF After
  <2> QED
    BY <1>1, <1>2, <2>1, ArrivesIs DEF Worked
<1>12. Held'
  <2>1. RequestScoped(c)'
    BY <1>1, <1>2, SameKinds
  <2>2. lease' = NoLease \/ lease'.req = script'[c].req
    BY <1>2, <1>7, <1>9 DEF After
  <2> QED
    BY <1>2, <2>1, <2>2 DEF Held
<1> QED
  BY <1>2, <1>9, <1>10, <1>11, <1>12, Durables, NextParts

LEMMA ReceiveRecoveryKeeps ==
  ASSUME IInv, NEW c \in Commands, ReceiveRecovery(c)
  PROVE  IInv'
<1> DEFINE le == [lease EXCEPT !.status = "releasing"]
<1>1. /\ Arrives(c) /\ Type(c) = "stale.release" /\ lease # NoLease /\ handler' = At("post", c)
      /\ Commit(le, [status EXCEPT ![c] = "dispatched"], ready, answers)
  BY DEF ReceiveRecovery, AdmitsRecovery
<1>2. script' = script /\ handler' \in Handlers /\ handler'.pc = "post" /\ handler'.cmd = c
  BY <1>1, ArrivesIs, HandlerForms DEF Places
<1>3. lease \in Leases
  BY Durables DEF DurableTypes
<1>4. le \in Leases /\ le # NoLease /\ le.req = lease.req
  BY <1>1, <1>3, LeaseIs
<1> HIDE DEF le
<1>5. Covers(le, status)
  BY <1>4, Durables DEF Covers
<1>6. ~Child(c)
  BY <1>1 DEF Child, IsRelease, ReleaseTypes
<1>7. Core' /\ After(le, [status EXCEPT ![c] = "dispatched"], answers)
  BY <1>1, <1>4, <1>5, <1>6, ArrivesIs, ActiveCore DEF Active
<1>8. WorkerTypes'
  BY <1>1, <1>2, ArrivesIs, Durables, SameSets DEF WorkerTypes
<1>9. Worked'
  <2>1. [status EXCEPT ![c] = "dispatched"][c] = "dispatched"
    BY Durables DEF DurableTypes
  <2>2. status'[c] # "absent"
    BY <1>7, <2>1 DEF After
  <2> QED
    BY <1>1, <1>2, <2>2, ArrivesIs DEF Worked
<1>10. Held'
  BY <1>2 DEF Held
<1> QED
  BY <1>2, <1>7, <1>8, <1>9, <1>10, Durables, NextParts

-----------------------------------------------------------------------------
(* The steps of a handler                                                   *)

LEMMA GotoIs ==
  ASSUME IInv, NEW h \in Handlers, Goto(h)
  PROVE  /\ WorkerTypes' /\ script' = script /\ handler' = h
         /\ next' = next /\ next' \in Nat /\ next' >= next /\ executing' = executing
         /\ executing' \subseteq Commands /\ \A x \in executing' : status[x] # "absent"
<1>1. /\ handler' = h
      /\ UNCHANGED <<script, next, room, executing, timers, reconciling, link, faults>>
  BY DEF Goto
<1>2. WorkerTypes'
  BY <1>1, Durables, SameSets DEF WorkerTypes
<1>3. executing' \subseteq Commands /\ \A x \in executing' : status[x] # "absent"
  BY <1>1, Durables DEF WorkerTypes
<1>4. next' \in Nat /\ next' >= next
  BY <1>1, Durables
<1> QED
  BY <1>1, <1>2, <1>3, <1>4

LEMMA WorkerIs ==
  ASSUME IInv, NEW pc, NEW c \in Commands, handler = At(pc, c),
         pc \in {"status", "effect", "register", "dispatch", "post"}
  PROVE  /\ c < next /\ handler.cmd = c
         /\ pc \in {"status", "effect", "register"} => status[c] = "absent" /\ answers[c] = 0
         /\ pc = "dispatch" => status[c] = "registered"
         /\ pc = "post" => status[c] # "absent"
         /\ pc = "status" => RequestScoped(c) /\ (lease = NoLease \/ lease.req = script[c].req)
         /\ pc \in {"effect", "register", "dispatch"} /\ Child(c) =>
               /\ lease # NoLease /\ lease.req = script[c].req
               /\ lease.status # "releasing"
<1>1. handler.pc = pc /\ handler.cmd = c
  BY DEF At
<1> QED
  BY <1>1, Parts DEF Worked, Held

LEMMA AcceptLeaseKeeps ==
  ASSUME IInv, NEW c \in Commands, AcceptLease(c)
  PROVE  IInv'
<1> DEFINE le == [lease EXCEPT !.status = DesiredStatus(c)]
           pc == IF IsEffect(c) THEN "effect" ELSE "register"
<1>1. /\ handler = At("status", c) /\ Goto(At(pc, c)) /\ SetLease(le)
      /\ lease.status \in {"claimed", "reconciling", "executing", DesiredStatus(c)}
  BY DEF AcceptLease
<1>2. /\ DesiredStatus(c) \in {"releasing", "executing"}
      /\ IsRelease(c) <=> DesiredStatus(c) = "releasing"
  BY DEF DesiredStatus
<1>3. lease \in Leases /\ lease # NoLease
  BY <1>1, <1>2, Durables, LeaseIs DEF DurableTypes
<1>4. le \in Leases /\ le # NoLease /\ le.req = lease.req /\ le.status = DesiredStatus(c)
  <2>1. DesiredStatus(c) \in {"claimed", "reconciling", "executing", "releasing", "quarantined"}
    BY <1>2
  <2> QED
    BY <1>3, <2>1, LeaseWith
<1>5. pc \in {"effect", "register"} /\ pc \in Places
  BY DEF Places
<1> HIDE DEF le, pc
<1>6. At(pc, c) \in Handlers /\ At(pc, c).pc = pc /\ At(pc, c).cmd = c
  BY <1>5, HandlerForms
<1>7. /\ WorkerTypes' /\ script' = script /\ handler' = At(pc, c) /\ next' = next
      /\ next' \in Nat /\ next' >= next /\ executing' = executing
  BY <1>1, <1>6, GotoIs
<1>8. Covers(le, status)
  BY <1>4, Durables DEF Covers
<1>9. Core' /\ After(le, status, answers)
  BY <1>1, <1>4, <1>7, <1>8, LeaseCore DEF SetLease
<1>10. status[c] = "absent" /\ answers[c] = 0 /\ c < next /\ lease.req = script[c].req
  BY <1>1, <1>3, WorkerIs
<1>11. Worked'
  <2>1. status'[c] = "absent" /\ answers'[c] = 0
    BY <1>9, <1>10 DEF After
  <2> QED
    BY <1>5, <1>6, <1>7, <1>10, <2>1 DEF Worked
<1>12. Held'
  <2>1. Child(c)' => le.status # "releasing"
    BY <1>2, <1>4, <1>7, SameKinds DEF Child
  <2>2. Child(c)' => lease' = le
    BY <1>9, <2>1 DEF After
  <2> QED
    BY <1>4, <1>5, <1>6, <1>7, <1>10, <2>1, <2>2 DEF Held
<1> QED
  BY <1>7, <1>9, <1>11, <1>12, Durables, NextParts

LEMMA RefuseLeaseKeeps ==
  ASSUME IInv, NEW c \in Commands, RefuseLease(c)
  PROVE  IInv'
<1>1. handler = At("status", c) /\ Goto(Idle)
  BY DEF RefuseLease
<1>2. /\ WorkerTypes' /\ script' = script /\ handler' = Idle /\ next' = next
      /\ next' \in Nat /\ next' >= next /\ executing' = executing
  BY <1>1, HandlerForms, GotoIs
<1>3. status[c] = "absent" /\ answers[c] = 0 /\ c < next'
  BY <1>1, <1>2, WorkerIs
<1>4. Core'
  BY <1>2, <1>3, RefusedCore DEF RefuseLease
<1>5. Worked' /\ Held'
  BY <1>2, HandlerForms, Quiet
<1> QED
  BY <1>2, <1>4, <1>5, Durables, NextParts

(* A full outbox ends the handler and changes nothing durable.              *)
LEMMA GiveUp ==
  ASSUME IInv, Goto(Idle), overflow' = TRUE, UNCHANGED durable
  PROVE  IInv'
<1>1. /\ WorkerTypes' /\ script' = script /\ handler' = Idle
      /\ next' \in Nat /\ next' >= next
      /\ executing' \subseteq Commands /\ \A x \in executing' : status[x] # "absent"
  BY HandlerForms, GotoIs
<1>2. Core'
  BY <1>1, SameCore
<1>3. Worked' /\ Held'
  BY <1>1, HandlerForms, Quiet
<1> QED
  BY <1>1, <1>2, <1>3, Durables, NextParts

(* A command of the handler becomes active under the lease it was given.    *)
LEMMA ActivateKeeps ==
  ASSUME IInv, NEW c \in Commands, NEW pc \in {"effect", "register", "dispatch"},
         NEW s \in Active, NEW to \in {"dispatch", "post"},
         handler = At(pc, c), Goto(At(to, c)), SetStatus(c, s),
         to = "dispatch" => s = "registered"
  PROVE  IInv'
<1>1. At(to, c) \in Handlers /\ At(to, c).pc = to /\ At(to, c).cmd = c
  BY HandlerForms DEF Places
<1>2. /\ WorkerTypes' /\ script' = script /\ handler' = At(to, c) /\ next' = next
      /\ next' \in Nat /\ next' >= next /\ executing' = executing
  BY <1>1, GotoIs
<1>3. /\ c < next'
      /\ Child(c) => lease # NoLease /\ lease.req = script[c].req /\ lease.status # "releasing"
  BY <1>2, WorkerIs
<1>4. answers[c] = 0
  <2>1. pc = "dispatch" => status[c] = "registered"
    BY WorkerIs
  <2>2. pc # "dispatch" => answers[c] = 0
    BY WorkerIs
  <2>3. status[c] = "registered" => answers[c] # 1 /\ answers[c] <= 1 /\ answers[c] \in Nat
    BY Durables DEF OnceIn, Terminal, DurableTypes
  <2> QED
    BY <2>1, <2>2, <2>3
<1>5. lease \in Leases /\ status \in [Commands -> Statuses]
  BY Durables DEF DurableTypes
<1>6. Core' /\ After(lease, [status EXCEPT ![c] = s], answers)
  BY <1>2, <1>3, <1>4, <1>5, Durables, ActiveCore DEF SetStatus
<1>7. Worked'
  <2> DEFINE st == [status EXCEPT ![c] = s]
  <2>1. st[c] = s /\ After(lease, st, answers)
    BY <1>5, <1>6
  <2> HIDE DEF st
  <2>2. status'[c] = s \/ (status'[c] = "succeeded" /\ s = "dispatched")
    BY <2>1 DEF After
  <2>3. s # "absent"
    BY Words
  <2> QED
    BY <1>1, <1>2, <1>3, <2>2, <2>3 DEF Worked
<1>8. Held'
  <2>1. Child(c)' => lease' = lease /\ lease # NoLease /\ lease.req = script[c].req /\ lease.status # "releasing"
    BY <1>2, <1>3, <1>6, SameKinds DEF After
  <2> QED
    BY <1>1, <1>2, <2>1 DEF Held
<1> QED
  BY <1>2, <1>6, <1>7, <1>8, Durables, NextParts

LEMMA DispatchEffectKeeps == ASSUME IInv, NEW c \in Commands, DispatchEffect(c) PROVE IInv'
<1>1. handler = At("effect", c) /\ "dispatched" \in Active
  BY Words DEF DispatchEffect
<1>2. CASE RoomForOrdinary
  <2>1. Goto(At("post", c)) /\ SetStatus(c, "dispatched")
    BY <1>2 DEF DispatchEffect
  <2> QED
    BY <1>1, <2>1, ActivateKeeps
<1>3. CASE ~RoomForOrdinary
  BY <1>3, GiveUp DEF DispatchEffect
<1> QED
  BY <1>2, <1>3

LEMMA RegisterKeeps == ASSUME IInv, NEW c \in Commands, Register(c) PROVE IInv'
<1>1. /\ handler = At("register", c) /\ "registered" \in Active
      /\ Goto(At("dispatch", c)) /\ SetStatus(c, "registered")
  BY Words DEF Register
<1> QED
  BY <1>1, ActivateKeeps

LEMMA DispatchKeeps == ASSUME IInv, NEW c \in Commands, Dispatch(c) PROVE IInv'
<1>1. handler = At("dispatch", c) /\ "dispatched" \in Active
  BY Words DEF Dispatch
<1>2. CASE RoomForOrdinary
  <2>1. Goto(At("post", c)) /\ SetStatus(c, "dispatched")
    BY <1>2 DEF Dispatch
  <2> QED
    BY <1>1, <2>1, ActivateKeeps
<1>3. CASE ~RoomForOrdinary
  BY <1>3, GiveUp DEF Dispatch
<1> QED
  BY <1>2, <1>3

LEMMA PostKeeps ==
  ASSUME IInv, NEW c \in Commands, Post(c)
  PROVE  IInv'
<1>1. /\ handler = At("post", c) /\ handler' = Idle
      /\ executing' = executing \cup {c}
      /\ timers' = IF IsRelease(c) THEN timers \cup {c} ELSE timers
      /\ UNCHANGED <<script, next, durable, room, overflow, reconciling, link, faults>>
  BY DEF Post
<1>2. status[c] # "absent"
  BY <1>1, WorkerIs
<1>3. executing' \subseteq Commands /\ \A x \in executing' : status[x] # "absent"
  BY <1>1, <1>2, Durables DEF WorkerTypes
<1>4. Core'
  <2>1. overflow' \in BOOLEAN
    BY <1>1, Durables
  <2> QED
    BY <1>1, <1>3, <2>1, Durables, SameCore
<1>5. timers' \subseteq Rels
  BY <1>1, Durables DEF WorkerTypes, Rels
<1>6. WorkerTypes'
  BY <1>1, <1>3, <1>5, Durables, HandlerForms, SameSets DEF WorkerTypes
<1>7. Worked' /\ Held'
  BY <1>1, HandlerForms, Quiet
<1> QED
  BY <1>1, <1>4, <1>6, <1>7, Durables, NextParts

-----------------------------------------------------------------------------
(* Reports and deadlines                                                    *)

LEMMA ReportedIs ==
  ASSUME IInv, NEW c \in Commands, Reported(c), UNCHANGED timers
  PROVE  /\ WorkerTypes' /\ script' = script /\ next' = next /\ handler' = handler
         /\ executing' \subseteq executing
<1>1. /\ executing' = executing \ {c} /\ UNCHANGED timers
      /\ UNCHANGED <<script, next, room, handler, reconciling, link, faults>>
  BY DEF Reported
<1> QED
  BY <1>1, Durables, SameSets DEF WorkerTypes

(* A settlement while no handler is busy.                                   *)
LEMMA SettleKeeps ==
  ASSUME IInv, NEW c \in Commands, NEW s \in Terminal, Settle(c, s), script' = script,
         next' = next, executing' \subseteq executing, WorkerTypes', handler'.pc \notin Busy
  PROVE  IInv'
BY SettleCore, Quiet, Durables, NextParts

LEMMA ReportKeeps ==
  ASSUME IInv, NEW c \in Commands,
         \/ \E outcome \in Terminal : ReportEffect(c, outcome)
         \/ \E outcome \in {"succeeded", "rejected"} : ReportResult(c, outcome)
         \/ ReportCleanupFailed(c)
  PROVE  IInv'
<1>1. /\ Reported(c) /\ UNCHANGED timers /\ (handler = Idle \/ handler.pc = "queued")
      /\ \E s \in Terminal : Settle(c, s)
  BY Words DEF ReportEffect, ReportResult, ReportCleanupFailed
<1>2. PICK s \in Terminal : Settle(c, s)
  BY <1>1
<1>3. handler.pc \notin Busy
  BY <1>1, HandlerForms DEF Busy
<1> QED
  BY <1>1, <1>2, <1>3, ReportedIs, SettleKeeps

LEMMA ReportCleanupKeeps ==
  ASSUME IInv, NEW c \in Commands, ReportCleanup(c)
  PROVE  IInv'
<1>1. Reported(c) /\ UNCHANGED timers /\ handler = Idle /\ IsRelease(c)
  BY DEF ReportCleanup
<1>2. /\ WorkerTypes' /\ script' = script /\ next' = next /\ handler' = handler
      /\ executing' \subseteq executing
  BY <1>1, ReportedIs
<1>3. Core'
  <2>1. CASE Commit(lease, status, ready \cup {c}, answers)
    <3>1. ready \cup {c} \in SUBSET {x \in Commands : IsRelease(x)}
      BY <1>1, Durables
    <3>2. /\ lease \in Leases /\ status \in [Commands -> Statuses]
          /\ answers \in [Commands -> Nat]
      BY Durables DEF DurableTypes
    <3>3. \A x \in Commands : x >= next' => status[x] = "absent" /\ answers[x] = 0
      BY <1>2, Durables
    <3> QED
      BY <1>2, <2>1, <3>1, <3>2, <3>3, Durables, CommitCore
  <2>2. CASE UNCHANGED <<durable, overflow>>
    <3>1. executing' \subseteq Commands /\ \A x \in executing' : status[x] # "absent"
      BY <1>2, Durables DEF WorkerTypes
    <3> QED
      BY <1>2, <2>2, <3>1, Durables, SameCore
  <2> QED
    BY <2>1, <2>2 DEF ReportCleanup
<1>4. Worked' /\ Held'
  BY <1>1, <1>2, HandlerForms, Quiet
<1> QED
  BY <1>2, <1>3, <1>4, Durables, NextParts

LEMMA DeadlineKeeps ==
  ASSUME IInv, NEW c \in Commands, Deadline(c)
  PROVE  IInv'
<1>1. /\ handler = Idle /\ timers' = timers \ {c} /\ Settle(c, "uncertain")
      /\ UNCHANGED <<script, next, room, handler, executing, reconciling, link, faults>>
  BY DEF Deadline
<1>2. WorkerTypes'
  BY <1>1, Durables, SameSets DEF WorkerTypes
<1> QED
  BY <1>1, <1>2, HandlerForms, SettleKeeps, Words

-----------------------------------------------------------------------------
(* The steps of a hello                                                     *)

(* A step that only moves the handler.                                      *)
LEMMA MoveKeeps ==
  ASSUME IInv, UNCHANGED <<script, next, durable, overflow, executing>>,
         WorkerTypes', Worked', Held'
  PROVE  IInv'
<1>1. executing' \subseteq Commands /\ \A x \in executing' : status[x] # "absent"
  BY Durables DEF WorkerTypes
<1>2. Core'
  BY <1>1, Durables, SameCore
<1> QED
  BY <1>2, Durables, NextParts

LEMMA HelloKeeps == ASSUME IInv, Hello PROVE IInv'
<1> DEFINE managed == {c \in Commands : ReloadManaged(c) /\ status[c] \in Active}
           todo    == {c \in managed : status[c] = "registered"}
<1>1. /\ reconciling' = managed /\ handler' = Step("unstarted", todo)
      /\ UNCHANGED <<script, next, durable, room, overflow, executing, timers, link, faults>>
  BY DEF Hello
<1>2. managed \subseteq Managed /\ todo \subseteq Commands /\ \A x \in todo : status[x] = "registered"
  BY DEF Managed
<1> HIDE DEF managed, todo
<1>3. handler' \in Handlers /\ handler'.pc = "unstarted" /\ handler'.todo = todo
  BY <1>1, <1>2, HandlerForms DEF Places
<1>4. WorkerTypes'
  BY <1>1, <1>2, <1>3, Durables, SameSets DEF WorkerTypes
<1>5. Worked' /\ Held'
  <2>1. status' = status
    BY <1>1 DEF durable
  <2> QED
    BY <1>2, <1>3, <2>1 DEF Worked, Held
<1> QED
  BY <1>1, <1>4, <1>5, MoveKeeps

(* A step of the hello that settles the next command of its list.           *)
LEMMA TodoKeeps ==
  ASSUME IInv, NEW c \in Commands, NEW pc \in {"unstarted", "typed"}, NEW s \in Terminal,
         handler.pc = pc, c \in handler.todo,
         IF RoomForTerminal
         THEN /\ handler' = Step(pc, handler.todo \ {c})
              /\ reconciling' = reconciling \ {c}
              /\ Answer(c, s, lease)
         ELSE /\ handler' = Idle /\ overflow' = TRUE
              /\ UNCHANGED <<durable, reconciling>>,
         UNCHANGED <<script, next, room, executing, timers, link, faults>>
  PROVE  IInv'
<1>1. handler.todo \in SUBSET Commands
  BY Durables DEF WorkerTypes, Handlers
<1>2. status[c] \in Active
  BY Parts DEF Worked, Active
<1>3. CASE RoomForTerminal
  <2>1. /\ handler' = Step(pc, handler.todo \ {c}) /\ reconciling' = reconciling \ {c}
        /\ Answer(c, s, lease)
    BY <1>3
  <2>2. handler' \in Handlers /\ handler'.pc = pc /\ handler'.todo = handler.todo \ {c}
    BY <1>1, <2>1, HandlerForms DEF Places
  <2>3. WorkerTypes'
    BY <2>1, <2>2, Durables, SameSets DEF WorkerTypes
  <2> DEFINE st == [status EXCEPT ![c] = s]
             an == [answers EXCEPT ![c] = @ + 1]
  <2>4. Core' /\ After(lease, st, an)
    BY <1>2, <2>1, Durables, AnswerCore DEF DurableTypes
  <2>5. \A x \in Commands \ {c} : st[x] = status[x]
    BY Durables DEF DurableTypes
  <2> HIDE DEF st, an
  <2>6. \A x \in handler'.todo :
          \/ status'[x] = status[x]
          \/ IsRelease(x) /\ status[x] = "dispatched"
    BY <1>1, <2>2, <2>4, <2>5 DEF After
  <2>7. \A x \in handler.todo : /\ pc = "unstarted" => status[x] = "registered"
                                /\ pc = "typed" => status[x] = "dispatched" /\ ~IsRelease(x)
    BY Parts DEF Worked
  <2>8. \A x \in handler.todo : IsRelease(x)' <=> IsRelease(x)
    BY <1>1, SameKinds
  <2>9. \A x \in handler'.todo : /\ pc = "unstarted" => status'[x] = "registered"
                                 /\ pc = "typed" => status'[x] = "dispatched" /\ ~IsRelease(x)'
    BY <2>2, <2>6, <2>7, <2>8
  <2>10. Worked' /\ Held'
    BY <2>2, <2>9 DEF Worked, Held
  <2> QED
    BY <2>3, <2>4, <2>10, Durables, NextParts
<1>4. CASE ~RoomForTerminal
  <2>1. handler' = Idle /\ overflow' = TRUE /\ UNCHANGED <<durable, reconciling>>
    BY <1>4
  <2>2. Goto(Idle)
    BY <2>1 DEF Goto
  <2> QED
    BY <2>1, <2>2, GiveUp
<1> QED
  BY <1>3, <1>4

LEMMA RejectUnstartedKeeps == ASSUME IInv, NEW c \in Commands, RejectUnstarted(c) PROVE IInv'
BY Words, TodoKeeps DEF RejectUnstarted

LEMMA SettleTypedKeeps == ASSUME IInv, NEW c \in Commands, SettleTyped(c) PROVE IInv'
BY Words, TodoKeeps DEF SettleTyped

LEMMA StartTypedKeeps == ASSUME IInv, StartTyped PROVE IInv'
<1> DEFINE todo == {c \in reconciling : Dispatched(c) /\ Type(c) = "sessions.new"}
<1>1. Goto(Step("typed", todo)) /\ UNCHANGED <<durable, overflow>>
  BY DEF StartTyped
<1>2. todo \subseteq Commands /\ \A x \in todo : status[x] = "dispatched" /\ ~IsRelease(x)
  BY Durables DEF WorkerTypes, Managed, Dispatched, IsRelease, ReleaseTypes
<1> HIDE DEF todo
<1>3. Step("typed", todo) \in Handlers
  BY <1>2, HandlerForms DEF Places
<1>4. /\ WorkerTypes' /\ script' = script /\ handler' = Step("typed", todo)
      /\ next' = next /\ executing' = executing
  BY <1>1, <1>3, GotoIs
<1>5. handler'.pc = "typed" /\ handler'.todo = todo
  BY <1>2, <1>4, HandlerForms DEF Places
<1>6. \A x \in todo : status'[x] = "dispatched" /\ ~IsRelease(x)'
  BY <1>1, <1>2, <1>4, SameKinds DEF durable
<1>7. Worked' /\ Held'
  BY <1>5, <1>6 DEF Worked, Held
<1> QED
  BY <1>1, <1>4, <1>7, MoveKeeps

(* The hello proceeds to a step that takes nothing for granted.             *)
LEMMA StepKeeps ==
  ASSUME IInv, NEW h \in Handlers, h.pc \notin Busy, Goto(h), UNCHANGED <<durable, overflow>>
  PROVE  IInv'
<1>1. /\ WorkerTypes' /\ script' = script /\ handler' = h
      /\ next' = next /\ executing' = executing
  BY GotoIs
<1> QED
  BY <1>1, Quiet, MoveKeeps

LEMMA BecomeReadyKeeps == ASSUME IInv, BecomeReady PROVE IInv'
<1>1. /\ handler' = Step("queued", {}) /\ link' = "ready"
      /\ UNCHANGED <<script, next, durable, room, overflow, executing, timers, reconciling, faults>>
  BY DEF BecomeReady
<1>2. handler' \in Handlers /\ handler'.pc = "queued"
  BY <1>1, HandlerForms DEF Places
<1>3. WorkerTypes'
  BY <1>1, <1>2, Durables, SameSets DEF WorkerTypes
<1>4. Worked' /\ Held'
  BY <1>2, Quiet DEF Busy
<1> QED
  BY <1>1, <1>3, <1>4, MoveKeeps

LEMMA RecoverEffectsKeeps == ASSUME IInv, RecoverEffects PROVE IInv'
<1> DEFINE h == Step("effects", {c \in Commands : IsEffect(c) /\ Dispatched(c)})
<1>1. h \in Handlers /\ h.pc = "effects"
  BY HandlerForms DEF Places
<1>2. Goto(h) /\ UNCHANGED <<durable, overflow>>
  BY DEF RecoverEffects
<1> HIDE DEF h
<1> QED
  BY <1>1, <1>2, StepKeeps DEF Busy

LEMMA RecoverCommandsKeeps == ASSUME IInv, RecoverCommands PROVE IInv'
<1>1. Unsettled \in SUBSET Commands
  BY DEF Unsettled
<1>2. Step("commands", Unsettled) \in Handlers /\ Step("commands", Unsettled).pc = "commands"
  BY <1>1, HandlerForms DEF Places
<1> QED
  BY <1>2, StepKeeps DEF RecoverCommands, Busy

LEMMA HelloDoneKeeps == ASSUME IInv, HelloDone PROVE IInv'
BY HandlerForms, StepKeeps DEF HelloDone

(* A recovered effect or command of the list.                               *)
LEMMA RecoverKeeps ==
  ASSUME IInv, NEW c \in Commands, NEW pc \in {"effects", "commands"},
         Goto(Step(pc, handler.todo \ {c})), Settle(c, "uncertain")
  PROVE  IInv'
<1>1. handler.todo \ {c} \in SUBSET Commands
  BY Durables DEF WorkerTypes, Handlers
<1>2. /\ Step(pc, handler.todo \ {c}) \in Handlers
      /\ Step(pc, handler.todo \ {c}).pc = pc
  BY <1>1, HandlerForms DEF Places
<1>3. /\ WorkerTypes' /\ script' = script /\ handler' = Step(pc, handler.todo \ {c})
      /\ next' = next /\ executing' = executing
  BY <1>2, GotoIs
<1>4. handler'.pc \notin Busy
  BY <1>2, <1>3 DEF Busy
<1> QED
  BY <1>3, <1>4, SettleKeeps, Words

LEMMA ObserveKeeps ==
  ASSUME IInv, NEW c \in Commands, NEW outcome \in {"succeeded", "uncertain"}, Observe(c, outcome)
  PROVE  IInv'
<1>1. /\ handler = Idle /\ status[c] \in Active /\ outcome \in Terminal
      /\ UNCHANGED <<script, next, room, handler, executing, timers, link, faults>>
  BY Words DEF Observe, Dispatched, Active
<1>2. reconciling' \subseteq Managed
  BY Durables DEF Observe, WorkerTypes
<1>3. WorkerTypes'
  BY <1>1, <1>2, Durables, SameSets DEF WorkerTypes
<1>4. Core'
  <2>1. CASE Answer(c, outcome, lease)
    BY <1>1, <2>1, Durables, AnswerCore DEF DurableTypes
  <2>2. CASE overflow' = TRUE /\ UNCHANGED durable
    <3>1. executing' \subseteq Commands /\ \A x \in executing' : status[x] # "absent"
      BY <1>1, Durables DEF WorkerTypes
    <3> QED
      BY <1>1, <2>2, <3>1, Durables, SameCore
  <2> QED
    BY <2>1, <2>2 DEF Observe
<1>5. Worked' /\ Held'
  BY <1>1, HandlerForms, Quiet
<1> QED
  BY <1>1, <1>3, <1>4, <1>5, Durables, NextParts

-----------------------------------------------------------------------------
(* Faults and traffic                                                       *)

LEMMA AttachedIs ==
  ASSUME IInv
  PROVE  /\ Attached(lease) \in Leases /\ Attached(lease).req = lease.req
         /\ lease # NoLease => Attached(lease) # NoLease
         /\ lease = NoLease => Attached(lease) = NoLease
         /\ lease.status # "releasing" => Attached(lease).status # "releasing"
         /\ Covers(Attached(lease), status)
<1>1. lease \in Leases
  BY Durables DEF DurableTypes
<1>2. lease # NoLease => /\ [lease EXCEPT !.status = "reconciling"] \in Leases
                         /\ [lease EXCEPT !.status = "reconciling"] # NoLease
                         /\ [lease EXCEPT !.status = "reconciling"].req = lease.req
                         /\ [lease EXCEPT !.status = "reconciling"].status = "reconciling"
  BY <1>1, LeaseIs
<1>3. /\ Attached(lease) \in Leases /\ Attached(lease).req = lease.req
      /\ lease # NoLease => Attached(lease) # NoLease
      /\ lease = NoLease => Attached(lease) = NoLease
      /\ lease.status # "releasing" => Attached(lease).status # "releasing"
  BY <1>1, <1>2 DEF Attached
<1>4. Covers(Attached(lease), status)
  BY <1>3, Durables DEF Covers
<1> QED
  BY <1>3, <1>4

LEMMA FaultIs ==
  ASSUME IInv, Fault
  PROVE  faults' \in 0 .. MaxFaults /\ script' = script /\ room' = room
<1>1. faults < MaxFaults /\ faults' = faults + 1 /\ script' = script /\ room' = room
  BY DEF Fault
<1> QED
  BY <1>1, Durables, TabAssumption DEF TabAssumption, WorkerTypes

LEMMA ReloadKeeps == ASSUME IInv, Reload PROVE IInv'
<1>1. /\ Fault /\ SetLease(Attached(lease)) /\ link' = "attached" /\ handler' = Idle
      /\ executing' = {} /\ timers' = {} /\ reconciling' = {} /\ next' = next
  BY DEF Reload
<1>2. Core'
  BY <1>1, FaultIs, AttachedIs, Durables, LeaseCore DEF SetLease
<1>3. WorkerTypes'
  BY <1>1, FaultIs, Durables, HandlerForms DEF WorkerTypes
<1>4. Worked' /\ Held'
  BY <1>1, HandlerForms, Quiet
<1> QED
  BY <1>1, <1>2, <1>3, <1>4, FaultIs, Durables, NextParts

LEMMA CrashKeeps == ASSUME IInv, Crash PROVE IInv'
<1>1. /\ Fault /\ link' = "down" /\ handler' = Idle /\ timers' = {} /\ reconciling' = {}
      /\ next' = next \/ (next \in Commands /\ next' = next + 1)
      /\ UNCHANGED <<durable, overflow, executing>>
  BY DEF Crash
<1>2. next' \in Nat /\ next' >= next /\ next' \in 1 .. Length + 1
  BY <1>1, Durables DEF Commands
<1>3. executing' \subseteq Commands /\ \A x \in executing' : status[x] # "absent"
  BY <1>1, Durables DEF WorkerTypes
<1>4. Core'
  BY <1>1, <1>2, <1>3, FaultIs, Durables, SameCore
<1>5. WorkerTypes'
  BY <1>1, <1>2, <1>3, FaultIs, Durables, HandlerForms DEF WorkerTypes
<1>6. Worked' /\ Held'
  BY <1>1, HandlerForms, Quiet
<1> QED
  BY <1>1, <1>4, <1>5, <1>6, FaultIs, Durables, NextParts

(* Whatever handler is running while the port comes back.                   *)
LEMMA ReattachKeeps == ASSUME IInv, Reattach PROVE IInv'
<1>1. /\ link' = "attached" /\ SetLease(Attached(lease))
      /\ UNCHANGED <<script, next, room, handler, executing, timers, reconciling, faults>>
  BY DEF Reattach
<1>2. Core' /\ After(Attached(lease), status, answers)
  BY <1>1, AttachedIs, Durables, LeaseCore DEF SetLease
<1>3. WorkerTypes'
  BY <1>1, Durables, SameSets DEF WorkerTypes
<1>4. \A x \in Commands :
        \/ status'[x] = status[x] /\ answers'[x] = answers[x]
        \/ IsRelease(x) /\ status[x] = "dispatched" /\ status'[x] = "succeeded"
  BY <1>2 DEF After
<1>5. handler.todo \subseteq Commands /\ Worked /\ Held
  BY Durables, Parts DEF WorkerTypes, Handlers
<1>6. \A x \in Commands : /\ IsRelease(x)' <=> IsRelease(x)
                          /\ RequestScoped(x)' <=> RequestScoped(x)
                          /\ Child(x)' <=> Child(x)
  BY <1>1, SameKinds
<1>7. Worked'
  <2>1. handler.pc \in {"unstarted", "typed"} => \A x \in handler.todo : status'[x] = status[x]
    BY <1>4, <1>5 DEF Worked
  <2>2. handler.pc \in {"status", "effect", "register", "dispatch", "post"} =>
          /\ handler.cmd \in Commands /\ handler.cmd < next
          /\ handler.pc # "post" => /\ status'[handler.cmd] = status[handler.cmd]
                                    /\ answers'[handler.cmd] = answers[handler.cmd]
          /\ handler.pc = "post" => status'[handler.cmd] # "absent"
    BY <1>4, <1>5 DEF Worked
  <2>3. handler.pc = "typed" => \A x \in handler.todo : ~IsRelease(x)'
    BY <1>5, <1>6 DEF Worked
  <2>4. handler' = handler /\ next' = next
    BY <1>1
  <2> QED
    BY <1>5, <2>1, <2>2, <2>3, <2>4 DEF Worked
<1>8. Held'
  <2>1. handler.pc \in {"status", "effect", "register", "dispatch"} => handler.cmd \in Commands
    BY <1>5 DEF Worked
  <2>2. lease' = NoLease \/ lease'.req = lease.req
    BY <1>2, AttachedIs DEF After
  <2>3. lease.status # "releasing" => lease' = Attached(lease)
    BY <1>2, AttachedIs DEF After
  <2>4. handler.pc = "status" =>
          /\ RequestScoped(handler.cmd)'
          /\ lease' = NoLease \/ lease'.req = script'[handler.cmd].req
    <3>1. lease = NoLease => lease' = NoLease
      BY <2>3, AttachedIs DEF NoLease
    <3> QED
      BY <1>1, <1>5, <1>6, <2>1, <2>2, <3>1 DEF Held
  <2>5. handler.pc \in {"effect", "register", "dispatch"} /\ Child(handler.cmd)' =>
          /\ lease' # NoLease /\ lease'.req = script'[handler.cmd].req
          /\ lease'.status # "releasing"
    BY <1>1, <1>5, <1>6, <2>1, <2>3, AttachedIs DEF Held
  <2>6. handler' = handler
    BY <1>1
  <2> QED
    BY <2>4, <2>5, <2>6 DEF Held
<1> QED
  BY <1>1, <1>2, <1>3, <1>7, <1>8, Durables, NextParts

(* What only moves the outbox or the connection.                            *)
LEMMA LinkKeeps ==
  ASSUME IInv, UNCHANGED <<script, next, durable, overflow, handler, executing>>, WorkerTypes'
  PROVE  IInv'
<1>1. Worked'
  <2>1. \A x \in Commands : IsRelease(x)' <=> IsRelease(x)
    BY SameKinds
  <2>2. handler.todo \subseteq Commands
    BY Durables DEF WorkerTypes, Handlers
  <2>3. handler.pc = "typed" => \A x \in handler.todo : ~IsRelease(x)'
    BY <2>1, <2>2, Parts DEF Worked
  <2> QED
    BY <2>3, Parts DEF Worked, durable
<1>2. Held'
  <2>1. handler.pc \in {"status", "effect", "register", "dispatch"} =>
          /\ RequestScoped(handler.cmd)' <=> RequestScoped(handler.cmd)
          /\ Child(handler.cmd)' <=> Child(handler.cmd)
    BY Parts, SameKinds DEF Worked
  <2> QED
    BY <2>1, Parts DEF Held, durable
<1> QED
  BY <1>1, <1>2, MoveKeeps

LEMMA DisconnectKeeps == ASSUME IInv, Disconnect PROVE IInv'
<1>1. /\ Fault /\ link' = "attached"
      /\ UNCHANGED <<next, durable, overflow, handler, executing, timers, reconciling>>
  BY DEF Disconnect
<1>2. WorkerTypes'
  BY <1>1, FaultIs, Durables, SameSets DEF WorkerTypes
<1> QED
  BY <1>1, <1>2, FaultIs, LinkKeeps

LEMMA TrafficKeeps == ASSUME IInv, Traffic PROVE IInv'
<1>1. room' \in Rooms /\ UNCHANGED <<script, next, durable, overflow, volatile, faults>>
  BY DEF Traffic
<1>2. UNCHANGED <<script, next, durable, overflow, handler, executing, timers, reconciling, link, faults>>
  BY <1>1 DEF volatile
<1>3. WorkerTypes'
  BY <1>1, <1>2, Durables, SameSets DEF WorkerTypes
<1> QED
  BY <1>2, <1>3, LinkKeeps

-----------------------------------------------------------------------------
(* The theorems                                                             *)

LEMMA InitIInv == Init => IInv
<1> SUFFICES ASSUME Init PROVE IInv
  OBVIOUS
<1>1. /\ script \in Scripts /\ next = 1 /\ lease = NoLease /\ ready = {} /\ room = "free"
      /\ status = [c \in Commands |-> "absent"] /\ answers = [c \in Commands |-> 0]
      /\ overflow = FALSE /\ handler = Idle /\ executing = {} /\ timers = {}
      /\ reconciling = {} /\ link = "attached" /\ faults = 0
  BY DEF Init
<1>2. /\ lease \in Leases /\ status \in [Commands -> Statuses] /\ answers \in [Commands -> Nat]
  BY <1>1, Words DEF Leases
<1>3. 1 \in 1 .. Length + 1 /\ 0 \in 0 .. MaxFaults
  BY TabAssumption DEF TabAssumption
<1>4. WorkerTypes
  BY <1>1, <1>3, HandlerForms DEF WorkerTypes
<1>5. Core
  <2>1. \A c \in Commands : status[c] = "absent" /\ answers[c] = 0
    BY <1>1
  <2>2. DurableTypes /\ overflow \in BOOLEAN
    BY <1>1, <1>2 DEF DurableTypes
  <2>3. SettledOnce
    BY <1>1, <2>1 DEF SettledOnce
  <2>4. ReleaseBarrier
    BY <2>1, Words DEF ReleaseBarrier
  <2>5. Arrived
    BY <2>1 DEF Arrived
  <2> QED
    BY <2>2, <2>3, <2>4, <2>5 DEF Core
<1>6. Worked /\ Held
  BY <1>1, HandlerForms DEF Worked, Held
<1> QED
  BY <1>1, <1>4, <1>5, <1>6, Parts

LEMMA NextIInv == IInv /\ [Next]_vars => IInv'
<1> SUFFICES ASSUME IInv, [Next]_vars PROVE IInv'
  OBVIOUS
<1>1. ASSUME NEW c \in Commands, Receive(c) PROVE IInv'
  BY <1>1, RefuseKeeps, ReceiveStandaloneKeeps, ReceiveRequestKeeps, ReceiveRecoveryKeeps DEF Receive
<1>2. ASSUME NEW c \in Commands, HandlerStep(c) PROVE IInv'
  <2>1. CASE RecoverEffect(c)
    BY <2>1, RecoverKeeps DEF RecoverEffect
  <2>2. CASE RecoverCommand(c)
    BY <2>2, RecoverKeeps DEF RecoverCommand
  <2> QED
    BY <1>2, <2>1, <2>2, AcceptLeaseKeeps, RefuseLeaseKeeps, DispatchEffectKeeps, RegisterKeeps,
       DispatchKeeps, PostKeeps, RejectUnstartedKeeps, SettleTypedKeeps DEF HandlerStep
<1>3. ASSUME NEW c \in Commands, Report(c) PROVE IInv'
  BY <1>3, ReportKeeps, ReportCleanupKeeps, ObserveKeeps DEF Report
<1>4. CASE HelloStep
  BY <1>4, StartTypedKeeps, BecomeReadyKeeps, RecoverEffectsKeeps, RecoverCommandsKeeps,
     HelloDoneKeeps DEF HelloStep
<1>5. CASE UNCHANGED vars
  <2>1. UNCHANGED <<script, next, durable, overflow, handler, executing>>
    BY <1>5 DEF vars, volatile
  <2>2. UNCHANGED <<room, timers, reconciling, link, faults>>
    BY <1>5 DEF vars, volatile
  <2>3. WorkerTypes'
    BY <2>1, <2>2, Durables, SameSets DEF WorkerTypes
  <2> QED
    BY <2>1, <2>3, LinkKeeps
<1>6. CASE \E c \in Commands : Receive(c) \/ HandlerStep(c) \/ Report(c) \/ Deadline(c)
  BY <1>1, <1>2, <1>3, <1>6, DeadlineKeeps
<1>7. CASE Hello \/ Reload \/ Crash \/ Reattach \/ Disconnect \/ Traffic
  BY <1>7, HelloKeeps, ReloadKeeps, CrashKeeps, ReattachKeeps, DisconnectKeeps, TrafficKeeps
<1> QED
  BY <1>4, <1>5, <1>6, <1>7 DEF Next

(* What the handler, the ledgers and the lease of a tab say of each other   *)
(* stays true between any two durable steps of serverEnvelopeRouter.js and  *)
(* portRouter.js.                                                           *)
THEOREM Inductive == Spec => []IInv
<1>1. Init => IInv
  BY InitIInv
<1>2. IInv /\ [Next]_vars => IInv'
  BY NextIInv
<1> QED
  BY <1>1, <1>2, PTL DEF Spec

(* Every variable of the worker keeps its type.                             *)
THEOREM TypeCorrect == Spec => []TypeOK
<1>1. IInv => TypeOK
  BY DEF IInv
<1> QED
  BY <1>1, Inductive, PTL

(* However results, deadlines and recoveries race (portRouter.js:121), a    *)
(* command has one terminal envelope exactly when its ledger entry is       *)
(* terminal, and a refused one never starts.                                *)
THEOREM AnsweredOnce == Spec => []SettledOnce
<1>1. IInv => SettledOnce
  BY DEF IInv
<1> QED
  BY <1>1, Inductive, PTL

(* settleReadyRelease (stateV6Core.js:171) never lets a lease go while a    *)
(* command or an effect of its request is registered or dispatched.         *)
THEOREM NothingLeftOpen == Spec => []ReleaseBarrier
<1>1. IInv => ReleaseBarrier
  BY DEF IInv
<1> QED
  BY <1>1, Inductive, PTL

-----------------------------------------------------------------------------
(* ContentExecution: the invariant *)

AtWork == InComposer \union {"perform", "anchor"}

\* Only an effect that is dispatched has a handler, unless the handler outlived
\* a port, and only effects are in the ledger.
LedgerOK ==
    \A c \in Given :
        /\ Kind(c) \in Backed =>
              /\ report[c] \in {"none", "duplicate"}
              /\ task[c].at # "idle" /\ c \notin outlived => effect[c] = "dispatched"
              /\ c \in outlived => effect[c] \notin {"none", "dispatched"} /\ task[c].at # "plan"
        /\ Kind(c) \notin Backed => effect[c] = "none"
        /\ report[c] = "rejected" => Kind(c) = "passive"
        /\ task[c].at # "idle" => report[c] = "none"

\* Where the handlers of which commands wait.
PlacesOK ==
    \A c \in Given :
        /\ task[c].at = "idle" => task[c] = NoTask
        /\ task[c].at \in {"plan", "settle"} => Kind(c) \in Backed
        /\ task[c].at = "settle" => task[c].outcome # "none"
        /\ task[c].at \in InComposer => Kind(c) \in Writing
        /\ task[c].at = "boundary" => Kind(c) = "resume"
        /\ task[c].at = "evidence" => task[c].crossed

\* A command that sends a text works for the request the store holds, unless it
\* is stray.
StoreOK ==
    \A c \in Given :
        /\ Kind(c) \in Writing /\ ~Stray(c)
        /\ task[c].at \in AtWork \/ (task[c].at = "plan" /\ task[c].outcome = "none")
        => Projects(plan[c].request)

\* Prompts and steers come after what they are sent after.
OrderOK ==
    \A c, d \in Given :
        /\ Kind(c) \in Prompts /\ Kind(d) \in Prompts
        /\ c \in plan[d].after /\ effect[d] # "none"
        => effect[c] = "succeeded"

\* A request that was released is never projected again.
ClosedOK == \A c \in Given : Closed(plan[c].request) => ~Projects(plan[c].request)

\* The other handlers that may put the text of a command back into the composer.
Keeps(d)   == task[d].at \in {"button", "evidence"}
Bearers(c) == {d \in Given \ {c} : Keeps(d) /\ task[d].before = Text(c)}
Clean(c)   == page.composer # Text(c) /\ Bearers(c) = {}

\* Before a prompt is written its text is nowhere; then it stands in the composer
\* or is kept by one other handler, when no other command has it.
Unfilled(c) == task[c].at \in {"plan", "fill"} \/ effect[c] = "none"
TokenOf(c) ==
    /\ Unfilled(c) => Clean(c)
    /\ page.composer = Text(c) => Bearers(c) = {}
    /\ \A d, e \in Bearers(c) : d = e
    /\ Keeps(c) => task[c].before # Text(c)
TokenOK == \A c \in Given : Kind(c) \in Prompts /\ ~Stray(c) /\ Alone(c) => TokenOf(c)

\* The text of a prompt that has sent it, and is not known to be on the page,
\* does not come back into the composer while the store holds the request.
Gone(c) ==
    effect[c] \in {"dispatched", "uncertain"} =>
        Closed(plan[c].request) \/ (Projects(plan[c].request) /\ Clean(c))

PromptSent(c) ==
    /\ effect[c] \notin {"none", "cancelled", "notStarted"}
    /\ task[c].at \in {"idle", "evidence", "anchor", "settle"}
    /\ task[c].at = "settle" => task[c].outcome # "cancelled"
    /\ Gone(c)

PassiveSent(c) ==
    /\ report[c] # "rejected"
    /\ task[c].at \in {"idle", "evidence", "anchor", "settle"}
    /\ task[c].at # "idle" => task[c].crossed
    /\ task[c].at = "idle" => report[c] # "none"

\* The prompts the claim of NotExecutedIsUnsent is about.
Counts(c) == Kind(c) \in Prompts /\ ~Stray(c) /\ (Strays => Alone(c))

SentOK ==
    \A c \in Given :
        /\ c \in Origins => Kind(c) \in Writing
        /\ c \in Origins /\ Kind(c) = "passive" => PassiveSent(c)
        /\ Own(c) \in Submitted /\ Counts(c) => PromptSent(c)

ContentInv == /\ ContentTypeOK /\ LedgerOK /\ PlacesOK /\ StoreOK
              /\ OrderOK /\ ClosedOK /\ TokenOK /\ SentOK

(* The forms of the state *)

(* What the commands of a plan are. *)
LEMMA GivenFacts ==
  ASSUME plan \in Plans
  PROVE  /\ Given \subseteq Ids /\ User \notin Given
         /\ \A c \in Given : /\ Text(c) \in Texts /\ Text(c) # Typed
                             /\ plan[c].request \in RequestIds
                             /\ Kind(c) \in CommandKinds
                             /\ plan[c].of \in Given /\ plan[c].after \subseteq Given
                             /\ Kind(c) \in Writing => Text(c) # NoText
                             /\ plan[c].retry => Kind(c) \in {"page", "release"}
         /\ NoText \in Texts /\ Typed \in Texts
<1>1. Given \subseteq Ids BY DEF Given, Ids
<1>2. ASSUME NEW c \in Given PROVE Text(c) \in Texts
  <2>1. plan[c].text \in {plan[d].text : d \in DOMAIN plan} BY DEF Given
  <2> QED BY <2>1 DEF Text, Texts
<1>3. \A c \in Given : plan[c].request \in RequestIds BY DEF Given, RequestIds
<1>4. \A c \in Given : /\ Kind(c) \in CommandKinds /\ Text(c) # Typed /\ User \notin Given
                       /\ plan[c].of \in Given /\ plan[c].after \subseteq Given
  BY ContentAssumption DEF Given, Kind, Text
<1>5. \A c \in Given : /\ Kind(c) \in Writing => Text(c) # NoText
                       /\ plan[c].retry => Kind(c) \in {"page", "release"}
  BY SendingAssumption DEF Given, Kind, Text
<1>6. NoText \in Texts /\ Typed \in Texts BY DEF Texts
<1> QED BY <1>1, <1>2, <1>3, <1>4, <1>5, <1>6

(* A passive prompt is the only command of its request. *)
LEMMA PassiveAlone ==
  ASSUME plan \in Plans, NEW c \in Given, NEW d \in Given,
         Kind(c) = "passive", plan[d].request = plan[c].request
  PROVE  c = d
BY SendingAssumption DEF Given, Kind

(* Of two prompts or steers of a request one is sent after the other. *)
LEMMA OneAfterTheOther ==
  ASSUME plan \in Plans, NEW c \in Given, NEW d \in Given, c # d,
         Kind(c) \in Prompts, Kind(d) \in Prompts, plan[c].request = plan[d].request
  PROVE  c \in plan[d].after \/ d \in plan[c].after
BY SendingAssumption DEF Given, Kind, Prompts

(* The numbers a state is made of. *)
LEMMA Numbers ==
  /\ MaxTurns \in Nat /\ Keys \subseteq Nat /\ 0 \in Keys /\ NoBase \in Baseline /\ Keys \subseteq Baseline
  /\ \A k \in Keys : k <= MaxTurns
  /\ MaxLosses \in Nat /\ MaxTyped \in Nat /\ MaxLedgerFaults \in Nat
BY ContentAssumption DEF Keys, NoBase, Baseline

(* The records a handler starts from have their form. *)
LEMMA Forms ==
  /\ NoTask \in Task
  /\ \A r \in RequestIds : Fresh(r) \in Projection
  /\ \A c : Kind(c) \in CommandKinds => Verdict(c, TRUE) \in Outcomes /\ Verdict(c, FALSE) \in Outcomes
<1>1. NoText \in Texts BY DEF Texts
<1> QED BY <1>1, Numbers DEF NoTask, Task, Waits, Outcomes, Fresh, Projection, Verdict

(* Of the numbers in a bounded set one is the greatest. *)
LEMMA Greatest ==
  ASSUME NEW n \in Nat, NEW S, S \subseteq 0..n, S # {}
  PROVE  (CHOOSE k \in S : \A m \in S : m <= k) \in S
<1>. DEFINE Below == {ss \in Nat \X Nat : ss[1] < ss[2]}
            Left == {n - k : k \in S}
<1>1. IsWellFoundedOn(Below, Nat) BY NatLessThanWellFounded DEF OpToRel
<1>2. Left \subseteq Nat /\ Left # {}
  <2>1. \A k \in S : n - k \in Nat OBVIOUS
  <2> QED BY <2>1
<1>3. \E x \in Left : \A y \in Left : <<y, x>> \notin Below
  <2>. HIDE DEF Below, Left
  <2> QED BY <1>1, <1>2, WFMin
<1>4. PICK x \in Left : \A y \in Left : <<y, x>> \notin Below BY <1>3
<1>5. PICK k \in S : x = n - k BY <1>4
<1>6. ASSUME NEW m \in S PROVE m <= k
  <2>1. n - m \in Left /\ n - m \in Nat /\ x \in Nat BY <1>2, <1>4
  <2>2. <<n - m, x>> \notin Below BY <1>4, <2>1
  <2>3. <<n - m, x>> \in Nat \X Nat /\ <<n - m, x>>[1] = n - m /\ <<n - m, x>>[2] = x BY <2>1
  <2>4. ~(n - m < x) BY <2>2, <2>3
  <2> QED BY <2>4, <1>5
<1>7. \E j \in S : \A m \in S : m <= j BY <1>6
<1> QED BY <1>7

(* A turn that is found is a turn of the page. *)
LEMMA NewestKey ==
  ASSUME ContentTypeOK, NEW base \in Baseline, NEW text
  PROVE  Newest(base, text) \in Keys /\ Newest(base, text) <= Count
<1>1. Count \in Nat /\ Count <= MaxTurns
  BY Numbers DEF ContentTypeOK, Count, Keys
<1>. DEFINE new == {k \in base + 1 .. Count : text \in {page.turns[k].text, NoText}}
<1>2. new \subseteq 0..Count BY <1>1, Numbers DEF Baseline, Keys
<1>3. CASE new = {} BY <1>1, <1>3, Numbers DEF Newest
<1>4. CASE new # {}
  <2>1. (CHOOSE k \in new : \A m \in new : m <= k) \in new BY <1>1, <1>2, <1>4, Greatest
  <2>2. Newest(base, text) \in new BY <1>4, <2>1 DEF Newest
  <2> QED BY <1>1, <1>2, <2>2, Numbers DEF Keys
<1> QED BY <1>3, <1>4

\* The types, apart.
Pages == [turns: Seq(Turn), composer: Texts, taken: Seq(Turn),
          generating: BOOLEAN, failed: Keys,
          moving: BOOLEAN, moved: BOOLEAN, model: BOOLEAN, files: BOOLEAN]
GoodPage(p) == p \in Pages /\ Len(p.turns) + Len(p.taken) \in Keys
Ledger == [Given -> Outcomes \union {"dispatched", "notStarted"}]
Names == [Given -> [key: Keys, base: Keys]]
Reports == [Given -> {"none", "submitted", "rejected", "uncertain", "completed", "failed", "error", "duplicate"}]

(* The types in the terms of the forms above. *)
LEMMA TypesUnfold ==
  ContentTypeOK <=> /\ plan \in Plans /\ GoodPage(page)
                    /\ req \in Projection \union {NoRequest}
                    /\ task \in [Given -> Task] /\ effect \in Ledger
                    /\ named \in Names /\ report \in Reports /\ budget \in Budget
                    /\ outlived \subseteq Given
BY DEF ContentTypeOK, GoodPage, Pages, Ledger, Names, Reports

(* The turns on the page and under way are within the bound. *)
LEMMA CountKey ==
  ASSUME GoodPage(page)
  PROVE  Count \in Keys /\ Len(page.taken) \in Nat /\ Count + Len(page.taken) <= MaxTurns
<1>1. page.turns \in Seq(Turn) /\ page.taken \in Seq(Turn) BY DEF GoodPage, Pages
<1>2. Len(page.turns) \in Nat /\ Len(page.taken) \in Nat BY <1>1
<1>3. MaxTurns \in Nat BY Numbers
<1>4. Len(page.turns) + Len(page.taken) \in 0..MaxTurns BY DEF GoodPage, Keys
<1>5. \A a, b, m \in Nat : a + b \in 0..m => a \in 0..m /\ a + b <= m OBVIOUS
<1>6. Len(page.turns) \in 0..MaxTurns /\ Len(page.turns) + Len(page.taken) <= MaxTurns BY <1>2, <1>3, <1>4, <1>5
<1> QED BY <1>2, <1>6 DEF Count, Keys

(* What is written into the composer, clicked on or shown keeps the form of the page. *)
LEMMA PageForms ==
  ASSUME GoodPage(page)
  PROVE  /\ \A t \in Texts : GoodPage([page EXCEPT !.composer = t])
         /\ \A b \in BOOLEAN : /\ GoodPage([page EXCEPT !.generating = b])
                               /\ GoodPage([page EXCEPT !.model = b])
                               /\ GoodPage([page EXCEPT !.generating = b, !.failed = Count])
         /\ GoodPage([page EXCEPT !.moving = TRUE])
         /\ GoodPage([page EXCEPT !.moving = FALSE, !.moved = TRUE])
         /\ GoodPage([page EXCEPT !.files = TRUE])
         /\ \A t \in Texts : GoodPage([page EXCEPT !.composer = t, !.moving = FALSE])
BY CountKey DEF GoodPage, Pages

(* What the page takes from the composer keeps its form. *)
LEMMA TakenForm ==
  ASSUME GoodPage(page), plan \in Plans, NEW by \in Given \union {User}, Takes(by)
  PROVE  GoodPage(page')
<1>1. Count \in Nat /\ Count + 1 <= MaxTurns BY CountKey, Numbers DEF Takes, Keys
<1>2. [text |-> page.composer, by |-> by] \in Turn BY GivenFacts DEF GoodPage, Pages, Turn
<1>3. <<[text |-> page.composer, by |-> by]>> \in Seq(Turn) /\ Len(<<[text |-> page.composer, by |-> by]>>) = 1
  BY <1>2
<1>4. page'.turns = page.turns /\ page'.taken = <<[text |-> page.composer, by |-> by]>> /\ page' \in Pages
  BY <1>3, GivenFacts DEF Takes, GoodPage, Pages
<1>5. Len(page'.turns) + Len(page'.taken) = Count + 1 BY <1>3, <1>4 DEF Count
<1> QED BY <1>1, <1>4, <1>5, Numbers DEF GoodPage, Keys

(* A message that appears keeps the form of the page. *)
LEMMA RenderedForm ==
  ASSUME GoodPage(page), page' = [page EXCEPT !.turns = @ \o page.taken, !.taken = <<>>, !.generating = TRUE]
  PROVE  GoodPage(page')
<1>1. page.turns \in Seq(Turn) /\ page.taken \in Seq(Turn) BY DEF GoodPage, Pages
<1>2. page.turns \o page.taken \in Seq(Turn) /\ Len(page.turns \o page.taken) = Len(page.turns) + Len(page.taken) BY <1>1
<1>3. <<>> \in Seq(Turn) /\ Len(<<>>) = 0 OBVIOUS
<1>4. page' \in Pages /\ page'.turns = page.turns \o page.taken /\ page'.taken = <<>>
  BY <1>2, <1>3 DEF GoodPage, Pages
<1>5. Len(page'.turns) + Len(page'.taken) = Len(page.turns) + Len(page.taken) BY <1>1, <1>2, <1>3, <1>4
<1> QED BY <1>4, <1>5 DEF GoodPage

(* A message that is lost keeps the form of the page. *)
LEMMA DroppedForm ==
  ASSUME GoodPage(page), page' = [page EXCEPT !.taken = <<>>]
  PROVE  GoodPage(page')
<1>1. <<>> \in Seq(Turn) /\ Len(<<>>) = 0 OBVIOUS
<1>2. page' \in Pages /\ page'.turns = page.turns /\ page'.taken = <<>> BY <1>1 DEF GoodPage, Pages
<1>3. Len(page'.turns) + Len(page'.taken) = Count BY <1>1, <1>2, CountKey, Numbers DEF Count, Keys
<1> QED BY <1>2, <1>3, CountKey DEF GoodPage

(* The page, the person and the monitor keep the types. *)
LEMMA PageTypes ==
  ASSUME ContentTypeOK, Page \/ Collect, UNCHANGED <<plan, outlived>>
  PROVE  ContentTypeOK'
<1>1. plan' \in Plans /\ Given' = Given /\ outlived' \subseteq Given' BY TypesUnfold DEF Given
<1>2. /\ plan \in Plans /\ GoodPage(page) /\ req \in Projection \union {NoRequest}
      /\ task \in [Given -> Task] /\ effect \in Ledger /\ named \in Names /\ report \in Reports /\ budget \in Budget
  BY TypesUnfold
<1>3. UNCHANGED <<task, effect, named, report>>
  BY DEF Page, Collect, Render, Drop, Finish, Move, TypeText, Press
<1>4. GoodPage(page')
  <2>1. CASE Render BY <1>2, <2>1, RenderedForm DEF Render
  <2>2. CASE Drop BY <1>2, <2>2, DroppedForm DEF Drop
  <2>3. CASE Finish BY <1>2, <2>3, PageForms DEF Finish
  <2>4. CASE Move BY <1>2, <2>4, PageForms DEF Move
  <2>5. CASE TypeText BY <1>2, <2>5, PageForms, GivenFacts DEF TypeText
  <2>6. CASE Press BY <1>2, <2>6, TakenForm DEF Press
  <2>7. CASE Collect BY <1>2, <2>7 DEF Collect
  <2> QED BY <2>1, <2>2, <2>3, <2>4, <2>5, <2>6, <2>7 DEF Page
<1>5. req' \in Projection \union {NoRequest}
  <2>1. CASE Page BY <1>2, <2>1 DEF Page, Render, Drop, Finish, Move, TypeText, Press
  <2>2. CASE Collect
    <3>1. req \in Projection BY <1>2, <2>2 DEF Collect, Holds
    <3>2. Newest(req.pending, req.text) \in Keys BY <3>1, NewestKey DEF Projection
    <3> QED BY <2>2, <3>1, <3>2, Numbers, GivenFacts, <1>2 DEF Collect, Adopted, Projection
  <2> QED BY <2>1, <2>2
<1>6. budget' \in Budget
  BY <1>2, Numbers DEF Page, Collect, Render, Drop, Finish, Move, TypeText, Press, Budget
<1> QED BY <1>1, <1>2, <1>3, <1>4, <1>5, <1>6, TypesUnfold DEF ContentTypeOK, GoodPage, Pages, Ledger, Names, Reports

(* How a handler ends, whatever it did. *)
LEMMA EndTypes ==
  ASSUME ContentTypeOK, NEW c \in Given
  PROVE  /\ End(c) => task' \in [Given -> Task]
         /\ \A w \in Waits : Await(c, w) => task' \in [Given -> Task]
         /\ \A proven \in BOOLEAN : Throw(c, proven) =>
               task' \in [Given -> Task] /\ report' \in Reports /\ req' \in Projection \union {NoRequest}
         /\ \A k \in Keys : Succeed(c, k) => task' \in [Given -> Task] /\ named' \in Names
         /\ \A v \in Outcomes : RefuseEffect(c, v) => task' \in [Given -> Task]
         /\ Begins(c) => task' \in [Given -> Task]
<1>1. /\ task \in [Given -> Task] /\ named \in Names /\ report \in Reports /\ req \in Projection \union {NoRequest}
      /\ plan \in Plans /\ GoodPage(page)
  BY TypesUnfold
<1>2. task[c] \in Task /\ Kind(c) \in CommandKinds BY <1>1, GivenFacts
<1>3. \A w \in Waits : [task[c] EXCEPT !.at = w] \in Task BY <1>2 DEF Task
<1>4. End(c) => task' \in [Given -> Task] BY <1>1, Forms DEF End
<1>5. \A w \in Waits : Await(c, w) => task' \in [Given -> Task] BY <1>1, <1>3 DEF Await
<1>6. ASSUME NEW proven \in BOOLEAN, Throw(c, proven)
      PROVE  task' \in [Given -> Task] /\ report' \in Reports /\ req' \in Projection \union {NoRequest}
  <2>1. CASE Kind(c) = "passive"
    BY <1>1, <1>4, <1>6, <2>1 DEF Throw, Release, Reports
  <2>2. CASE Kind(c) # "passive"
    <3>1. Verdict(c, proven) \in Outcomes BY <1>2, Forms
    <3>2. [task[c] EXCEPT !.at = "settle", !.outcome = Verdict(c, proven)] \in Task
      BY <1>2, <3>1 DEF Task, Waits
    <3> QED BY <1>1, <1>6, <2>2, <3>2 DEF Throw
  <2> QED BY <2>1, <2>2
<1>7. ASSUME NEW k \in Keys, Succeed(c, k) PROVE task' \in [Given -> Task] /\ named' \in Names
  <2>1. [task[c] EXCEPT !.at = "settle", !.outcome = "succeeded"] \in Task BY <1>2 DEF Task, Waits, Outcomes
  <2>2. [key |-> k, base |-> task[c].base] \in [key: Keys, base: Keys] BY <1>2 DEF Task
  <2> QED BY <1>1, <1>7, <2>1, <2>2 DEF Succeed, Names
<1>8. ASSUME NEW v \in Outcomes, RefuseEffect(c, v) PROVE task' \in [Given -> Task]
  <2>1. [NoTask EXCEPT !.at = "plan", !.outcome = v] \in Task BY Forms DEF Task, Waits
  <2> QED BY <1>1, <1>8, <2>1 DEF RefuseEffect
<1>9. ASSUME Begins(c) PROVE task' \in [Given -> Task]
  <2>1. [NoTask EXCEPT !.at = "plan", !.base = Count] \in Task BY Forms, CountKey, <1>1 DEF Task, Waits
  <2> QED BY <1>1, <1>9, <2>1 DEF Begins
<1> QED BY <1>4, <1>5, <1>6, <1>7, <1>8, <1>9

\* Only effects are in the ledger.
EffectsOK == \A c \in Given : Kind(c) \notin Backed => effect[c] = "none"

(* What the store may hold, in terms of what it held. *)
LEMMA StoreForms ==
  ASSUME ContentTypeOK, NEW c \in Given
  PROVE  /\ \A p \in Projection, base \in Baseline : Armed(p, c, base) \in Projection
         /\ \A p \in Projection, k \in Keys : Adopted(p, k) \in Projection
         /\ \A p \in Projection : /\ [p EXCEPT !.pending = NoBase, !.text = NoText] \in Projection
                                  /\ \A b \in BOOLEAN : [p EXCEPT !.sent = b] \in Projection
                                  /\ \A n \in {0, 1, 5, 6} : [p EXCEPT !.rank = n] \in Projection
                                  /\ [p EXCEPT !.armed = TRUE] \in Projection
                                  /\ \A k \in Keys : [p EXCEPT !.key = k, !.sent = TRUE] \in Projection
                                  /\ Fresh(p.request) \in Projection
         /\ Fresh(plan[c].request) \in Projection
<1>1. plan \in Plans /\ Text(c) \in Texts /\ NoText \in Texts /\ plan[c].request \in RequestIds
  BY TypesUnfold, GivenFacts
<1>2. \A p \in Projection : p.request \in RequestIds BY DEF Projection
<1> QED BY <1>1, <1>2, Numbers, Forms DEF Armed, Adopted, Projection

(* The turn a handler waits for is a turn of the page, or none. *)
LEMMA AnchoredKey ==
  ASSUME ContentTypeOK, NEW c \in Given
  PROVE  Anchored(c) \in Keys /\ (Anchored(c) # 0 => Holds)
<1>1. Holds => req \in Projection BY TypesUnfold DEF Holds
<1>2. task[c].base \in Baseline BY TypesUnfold, Numbers DEF Task
<1>3. \A text : Newest(task[c].base, text) \in Keys BY <1>2, NewestKey
<1> QED BY <1>1, <1>3, Numbers DEF Anchored, Projection

(* The steps of a handler that only moves on. *)
LEMMA HandlerTypes ==
  ASSUME ContentTypeOK, NEW c \in Given, UNCHANGED <<plan, outlived>>,
         Confirm(c) \/ Unconfirmed(c) \/ PageReady(c) \/ GoTo(c) \/ Routed(c) \/ Choose(c)
           \/ Attach(c) \/ Stop(c) \/ Prepare(c)
  PROVE  ContentTypeOK'
<1>1. /\ plan \in Plans /\ GoodPage(page) /\ req \in Projection \union {NoRequest}
      /\ task \in [Given -> Task] /\ effect \in Ledger /\ named \in Names /\ report \in Reports /\ budget \in Budget
  BY TypesUnfold
<1>2. task[c] \in Task /\ Count \in Keys /\ 0 \in Keys /\ (Holds => req \in Projection)
  BY <1>1, CountKey, Numbers DEF Holds
<1>3. Given' = Given /\ plan' \in Plans /\ outlived' \subseteq Given' BY <1>1, TypesUnfold DEF Given
<1>4. /\ GoodPage(page') /\ req' \in Projection \union {NoRequest} /\ task' \in [Given -> Task]
      /\ effect' \in Ledger /\ named' \in Names /\ report' \in Reports /\ budget' \in Budget
  <2>1. CASE Confirm(c)
    <3>1. Executor(c) \in Waits BY DEF Executor, Waits
    <3>2. [task[c] EXCEPT !.at = IF task[c].outcome = "none" THEN Executor(c) ELSE "settle", !.entered = Count] \in Task
      BY <1>2, <3>1 DEF Task, Waits
    <3> QED BY <1>1, <2>1, <3>2 DEF Confirm
  <2>2. CASE Unconfirmed(c)
    <3>1. task' \in [Given -> Task] BY <2>2, EndTypes DEF Unconfirmed, NothingReported
    <3>2. req' \in Projection \union {NoRequest} BY <1>1, <1>2, <2>2, StoreForms DEF Unconfirmed, NothingReported
    <3>3. budget' \in Budget BY <1>1, <2>2, Numbers DEF Unconfirmed, Budget
    <3> QED BY <1>1, <2>2, <3>1, <3>2, <3>3 DEF Unconfirmed, NothingReported
  <2>3. CASE PageReady(c) BY <1>1, <1>2, <2>3, EndTypes DEF PageReady
  <2>4. CASE GoTo(c)
    <3>1. task' \in [Given -> Task] BY <2>4, EndTypes DEF GoTo, Waits
    <3> QED BY <1>1, <2>4, <3>1, PageForms DEF GoTo
  <2>5. CASE Routed(c) BY <1>1, <1>2, <2>5, EndTypes DEF Routed
  <2>6. CASE Choose(c)
    <3>1. task' \in [Given -> Task] /\ named' \in Names /\ report' \in Reports /\ req' \in Projection \union {NoRequest}
      BY <1>1, <1>2, <2>6, EndTypes DEF Choose
    <3>2. GoodPage(page') BY <1>1, <2>6, PageForms DEF Choose
    <3> QED BY <1>1, <2>6, <3>1, <3>2 DEF Choose
  <2>7. CASE Attach(c) BY <1>1, <1>2, <2>7, EndTypes, PageForms DEF Attach
  <2>8. CASE Stop(c) BY <1>1, <1>2, <2>8, EndTypes, PageForms DEF Stop
  <2>9. CASE Prepare(c)
    <3>1. CASE Throw(c, FALSE) /\ Kind(c) = "passive" BY <1>1, <2>9, <3>1, EndTypes DEF Prepare
    <3>2. CASE /\ Holds /\ req' = [Armed(req, c, Count) EXCEPT !.armed = TRUE]
               /\ task' = [task EXCEPT ![c].at = "fill", ![c].base = Count, ![c].entered = Count]
               /\ UNCHANGED report
      <4>1. [task[c] EXCEPT !.at = "fill", !.base = Count, !.entered = Count] \in Task BY <1>2 DEF Task, Waits
      <4>2. req' \in Projection BY <1>2, <3>2, StoreForms, Numbers
      <4>3. task' \in [Given -> Task] BY <1>1, <3>2, <4>1
      <4> QED BY <1>1, <2>9, <3>2, <4>2, <4>3 DEF Prepare
    <3> QED BY <2>9, <3>1, <3>2 DEF Prepare
  <2> QED BY <2>1, <2>2, <2>3, <2>4, <2>5, <2>6, <2>7, <2>8, <2>9
<1> QED BY <1>1, <1>3, <1>4 DEF ContentTypeOK, GoodPage, Pages, Ledger, Names, Reports

(* The steps around the composer, and the verdict. *)
LEMMA WriterTypes ==
  ASSUME ContentTypeOK, NEW c \in Given, UNCHANGED <<plan, outlived>>,
         Fill(c) \/ Click(c) \/ SteerClosed(c) \/ Believe(c) \/ Doubt(c) \/ Anchor(c) \/ NoAnchor(c)
           \/ SettleEffect(c) \/ Resume(c)
  PROVE  ContentTypeOK'
<1>1. /\ plan \in Plans /\ GoodPage(page) /\ req \in Projection \union {NoRequest}
      /\ task \in [Given -> Task] /\ effect \in Ledger /\ named \in Names /\ report \in Reports /\ budget \in Budget
  BY TypesUnfold
<1>2. /\ task[c] \in Task /\ Count \in Keys /\ 0 \in Keys /\ (Holds => req \in Projection)
      /\ Text(c) \in Texts /\ NoText \in Texts /\ page.composer \in Texts
  BY <1>1, CountKey, Numbers, GivenFacts DEF Holds, GoodPage, Pages
<1>3. Given' = Given /\ plan' \in Plans /\ outlived' \subseteq Given' BY <1>1, TypesUnfold DEF Given
<1>4. \A p \in Restored(c) : GoodPage(p) BY <1>1, <1>2, PageForms DEF Restored, Task
<1>5. Anchored(c) \in Keys /\ (Anchored(c) # 0 => req \in Projection) BY <1>2, AnchoredKey
<1>6. /\ GoodPage(page') /\ req' \in Projection \union {NoRequest} /\ task' \in [Given -> Task]
      /\ effect' \in Ledger /\ named' \in Names /\ report' \in Reports /\ budget' \in Budget
  <2>1. CASE Fill(c)
    <3>1. [task[c] EXCEPT !.at = "button", !.before = page.composer] \in Task BY <1>2 DEF Task, Waits
    <3>2. GoodPage(page') BY <1>1, <1>2, <2>1, PageForms DEF Fill
    <3>3. task' \in [Given -> Task] /\ req' \in Projection \union {NoRequest} /\ report' \in Reports
      BY <1>1, <2>1, <3>1, EndTypes DEF Fill
    <3> QED BY <1>1, <2>1, <3>2, <3>3 DEF Fill
  <2>2. CASE Click(c)
    <3>1. PICK seen \in {FALSE, Kind(c) # "steer" /\ Evidence(c)} :
             task' = [task EXCEPT ![c].at = "evidence", ![c].crossed = TRUE, ![c].seen = seen]
      BY <2>2 DEF Click
    <3>2. seen \in BOOLEAN BY <3>1
    <3>3. [task[c] EXCEPT !.at = "evidence", !.crossed = TRUE, !.seen = seen] \in Task BY <1>2, <3>2 DEF Task, Waits
    <3>4. task' \in [Given -> Task] BY <1>1, <3>1, <3>3
    <3>5. GoodPage(page') BY <1>1, <2>2, TakenForm DEF Click
    <3> QED BY <1>1, <2>2, <3>4, <3>5 DEF Click
  <2>3. CASE SteerClosed(c) BY <1>1, <1>4, <2>3, EndTypes DEF SteerClosed
  <2>4. CASE Believe(c)
    <3>1. CASE ~Holds BY <1>1, <2>4, <3>1, EndTypes DEF Believe
    <3>2. CASE Holds
      <4>1. task' \in [Given -> Task] BY <2>4, <3>2, EndTypes DEF Believe, Waits
      <4>2. req.rank \in {0, 1, 5, 6} BY <1>2, <3>2 DEF Projection
      <4>3. req' \in Projection BY <1>2, <2>4, <3>2, <4>2 DEF Believe, Projection
      <4> QED BY <1>1, <2>4, <3>2, <4>1, <4>3 DEF Believe
    <3> QED BY <3>1, <3>2
  <2>5. CASE Doubt(c) BY <1>1, <1>4, <2>5, EndTypes DEF Doubt
  <2>6. CASE Anchor(c)
    <3>1. CASE Kind(c) = "passive"
      <4>1. task' \in [Given -> Task] BY <2>6, <3>1, EndTypes DEF Anchor
      <4>2. named' \in Names BY <1>1, <1>2, <1>5, <2>6, <3>1 DEF Anchor, Names, Task
      <4>3. report' \in Reports BY <1>1, <2>6, <3>1 DEF Anchor, Reports
      <4> QED BY <1>1, <2>6, <3>1, <4>1, <4>2, <4>3 DEF Anchor, Release
    <3>2. CASE Kind(c) # "passive" BY <1>1, <1>5, <2>6, <3>2, EndTypes, StoreForms DEF Anchor
    <3> QED BY <3>1, <3>2
  <2>7. CASE NoAnchor(c)
    <3>1. Holds => req.key \in Keys BY <1>2 DEF Projection
    <3> QED BY <1>1, <2>7, <3>1, EndTypes DEF NoAnchor
  <2>8. CASE SettleEffect(c)
    <3>1. effect' \in Ledger BY <1>1, <1>2, <2>8 DEF SettleEffect, Ledger, Task
    <3>2. req' \in Projection \union {NoRequest} BY <1>1, <1>2, <2>8, StoreForms DEF SettleEffect
    <3> QED BY <1>1, <2>8, <3>1, <3>2, EndTypes DEF SettleEffect
  <2>9. CASE Resume(c)
    <3>1. \A r : Projected(r) \subseteq Keys BY <1>1 DEF Projected, Names
    <3>2. req' \in Projection \union {NoRequest}
      <4>1. CASE UNCHANGED req BY <1>1, <4>1
      <4>2. CASE req' # req
        <5>1. Holds BY <2>9, <4>2 DEF Resume
        <5>2. PICK k \in Projected(req.request) \union {0} :
                 req' = IF k = 0 THEN req ELSE [req EXCEPT !.key = k, !.sent = TRUE]
          BY <2>9, <4>2 DEF Resume
        <5>3. k \in Keys BY <1>2, <3>1, <5>2
        <5>4. req \in Projection BY <1>2, <5>1
        <5>5. [req EXCEPT !.key = k, !.sent = TRUE] \in Projection BY <5>3, <5>4 DEF Projection
        <5> QED BY <4>2, <5>2, <5>5
      <4> QED BY <4>1, <4>2
    <3>3. report' \in Reports BY <1>1, <2>9 DEF Resume, Reports
    <3> QED BY <1>1, <2>9, <3>2, <3>3, EndTypes DEF Resume
  <2> QED BY <2>1, <2>2, <2>3, <2>4, <2>5, <2>6, <2>7, <2>8, <2>9
<1> QED BY <1>1, <1>3, <1>6 DEF ContentTypeOK, GoodPage, Pages, Ledger, Names, Reports
-----------------------------------------------------------------------------
(* Type correctness of the commands that come in, of a lost port and of a judgement. *)

(* A command that comes in keeps the types. *)
LEMMA ReceiveTypes ==
  ASSUME ContentTypeOK, NEW c \in Given, UNCHANGED <<plan, outlived>>, Handle(c)
  PROVE  ContentTypeOK'
<1>1. /\ plan \in Plans /\ GoodPage(page) /\ req \in Projection \union {NoRequest}
      /\ task \in [Given -> Task] /\ effect \in Ledger /\ named \in Names /\ report \in Reports /\ budget \in Budget
  BY TypesUnfold
<1>2. /\ Count \in Keys /\ Count \in Baseline /\ (Holds => req \in Projection)
      /\ {"uncertain", "cancelled"} \subseteq Outcomes
  BY <1>1, CountKey, Numbers DEF Holds, Outcomes
<1>3. Given' = Given /\ plan' \in Plans /\ outlived' \subseteq Given' BY <1>1, TypesUnfold DEF Given
<1>4. Comes(c) => effect' \in Ledger BY <1>1 DEF Comes, Ledger
<1>5. \A w \in Waits : [NoTask EXCEPT !.at = w] \in Task BY Forms DEF Task
<1>6. /\ GoodPage(page') /\ req' \in Projection \union {NoRequest} /\ task' \in [Given -> Task]
      /\ effect' \in Ledger /\ named' \in Names /\ report' \in Reports /\ budget' \in Budget
  <2>1. CASE ReceiveStep(c)
    <3>1. effect' \in Ledger BY <1>4, <2>1 DEF ReceiveStep
    <3>2. task' \in [Given -> Task] BY <1>1, <1>2, <2>1, EndTypes DEF ReceiveStep
    <3>3. req' \in Projection \union {NoRequest}
      <4>1. CASE UNCHANGED req BY <1>1, <4>1
      <4>2. CASE req' = Fresh(req.request) /\ Holds BY <1>2, <4>2, StoreForms
      <4>. DEFINE p == IF Holds THEN req ELSE [Fresh(plan[c].request) EXCEPT !.rank = 1]
      <4>3. CASE req' = CASE Kind(c) = "submit" -> [Armed(p, c, Count) EXCEPT !.armed = TRUE]
                          [] Kind(c) = "files"  -> [p EXCEPT !.rank = 5]
                          [] OTHER              -> p
        <5>1. p \in Projection BY <1>2, StoreForms
        <5>2. Armed(p, c, Count) \in Projection BY <1>2, <5>1, StoreForms
        <5>3. [Armed(p, c, Count) EXCEPT !.armed = TRUE] \in Projection /\ [p EXCEPT !.rank = 5] \in Projection
          BY <5>1, <5>2, StoreForms
        <5>. HIDE DEF p
        <5> QED BY <4>3, <5>1, <5>3
      <4> QED BY <2>1, <4>1, <4>2, <4>3 DEF ReceiveStep
    <3>4. report' \in Reports BY <1>1, <2>1 DEF ReceiveStep, Reports
    <3> QED BY <1>1, <2>1, <3>1, <3>2, <3>3, <3>4 DEF ReceiveStep
  <2>2. CASE ReceiveSteer(c)
    <3>1. task' \in [Given -> Task] BY <1>2, <2>2, EndTypes DEF ReceiveSteer
    <3>2. req' \in Projection \union {NoRequest}
      <4>1. CASE Projects(plan[c].request) BY <1>2, <2>2, <4>1, StoreForms DEF ReceiveSteer, Projects
      <4>2. CASE ~Projects(plan[c].request) BY <1>1, <1>2, <2>2, <4>2, StoreForms DEF ReceiveSteer
      <4> QED BY <4>1, <4>2
    <3> QED BY <1>1, <1>4, <2>2, <3>1, <3>2 DEF ReceiveSteer
  <2>3. CASE ReceiveCancel(c)
    <3>1. task' \in [Given -> Task] BY <1>2, <2>3, EndTypes DEF ReceiveCancel
    <3> QED BY <1>1, <1>4, <2>3, <3>1 DEF ReceiveCancel
  <2>4. CASE ReceivePassive(c)
    <3>1. task' \in [Given -> Task] BY <1>1, <1>5, <2>4 DEF ReceivePassive, Waits
    <3>2. req' \in Projection \union {NoRequest} BY <1>1, <2>4, StoreForms DEF ReceivePassive, Claim
    <3>3. report' \in Reports BY <1>1, <2>4 DEF ReceivePassive, Reports
    <3> QED BY <1>1, <1>4, <2>4, <3>1, <3>2, <3>3 DEF ReceivePassive
  <2>5. CASE ReceiveRelease(c)
    <3>1. report' \in Reports BY <1>1, <2>5 DEF ReceiveRelease, Reports
    <3> QED BY <1>1, <1>4, <2>5, <3>1 DEF ReceiveRelease, Release
  <2>6. CASE ReceiveResume(c)
    <3>1. task' \in [Given -> Task] BY <1>1, <1>5, <2>6 DEF ReceiveResume, Waits
    <3>2. report' \in Reports BY <1>1, <2>6 DEF ReceiveResume, Reports
    <3> QED BY <1>1, <1>4, <2>6, <3>1, <3>2 DEF ReceiveResume
  <2> QED BY <2>1, <2>2, <2>3, <2>4, <2>5, <2>6 DEF Handle
<1> QED BY <1>1, <1>3, <1>6 DEF ContentTypeOK, GoodPage, Pages, Ledger, Names, Reports

(* What reconciliation may find. *)
LEMMA FindingForms ==
  ASSUME plan \in Plans, NEW t \in Given, Kind(t) \in Backed
  PROVE  Finding(t) \subseteq {"succeeded", "notStarted", "uncertain"}
BY DEF Finding, Backed, Steps

(* A judgement keeps the types, and is of an effect. *)
LEMMA ReconcileTypes ==
  ASSUME ContentTypeOK, EffectsOK, NEW c \in Given, UNCHANGED <<plan, outlived>>, Reconcile(c)
  PROVE  ContentTypeOK' /\ Kind(plan[c].of) \in Backed /\ plan[c].of \in Given
<1>1. /\ plan \in Plans /\ GoodPage(page) /\ req \in Projection \union {NoRequest}
      /\ task \in [Given -> Task] /\ effect \in Ledger /\ named \in Names /\ report \in Reports /\ budget \in Budget
  BY TypesUnfold
<1>. DEFINE t == plan[c].of
<1>2. t \in Given BY <1>1, GivenFacts
<1>3. effect[t] = "uncertain" BY DEF Reconcile
<1>4. Kind(t) \in Backed BY <1>2, <1>3 DEF EffectsOK
<1>5. PICK found \in Finding(t) : /\ effect' = [effect EXCEPT ![t] = found]
                                  /\ named' = IF found = "succeeded"
                                              THEN [named EXCEPT ![t] = [key |-> req.key, base |-> 0]]
                                              ELSE named
  BY DEF Reconcile
<1>6. found \in {"succeeded", "notStarted", "uncertain"} BY <1>1, <1>2, <1>4, <1>5, FindingForms
<1>7. found = "succeeded" => req \in Projection
  BY <1>1, <1>5 DEF Finding, Projects, Holds
<1>8. effect' \in Ledger BY <1>1, <1>5, <1>6 DEF Ledger, Outcomes
<1>9. named' \in Names BY <1>1, <1>5, <1>7, Numbers DEF Names, Projection
<1>10. report' \in Reports BY <1>1 DEF Reconcile, Reports
<1>11. UNCHANGED <<page, req, task, budget>> /\ outlived \subseteq Given BY TypesUnfold DEF Reconcile
<1>. HIDE DEF t
<1>12. ContentTypeOK'
  BY <1>1, <1>8, <1>9, <1>10, <1>11 DEF ContentTypeOK, GoodPage, Pages, Ledger, Names, Reports, Given
<1> QED BY <1>2, <1>4, <1>12 DEF t

(* A lost port keeps the types. *)
LEMMA LoseTypes ==
  ASSUME ContentTypeOK, NEW alive \in BOOLEAN, UNCHANGED plan, Lose(alive)
  PROVE  ContentTypeOK'
<1>1. /\ plan \in Plans /\ GoodPage(page) /\ req \in Projection \union {NoRequest}
      /\ task \in [Given -> Task] /\ effect \in Ledger /\ named \in Names /\ report \in Reports /\ budget \in Budget
  BY TypesUnfold
<1>2. Given' = Given /\ plan' \in Plans /\ outlived' \subseteq Given' BY <1>1, TypesUnfold DEF Given, Lose
<1>3. task' \in [Given -> Task] BY <1>1, Forms DEF Lose
<1>4. effect' \in Ledger BY <1>1 DEF Lose, Ledger, Outcomes
<1>5. report' \in Reports BY <1>1 DEF Lose, Reports
<1>6. req' \in Projection \union {NoRequest}
  <2>1. \A kept \in BOOLEAN : Holds /\ Recover(TRUE, kept) => req' \in Projection
    BY <1>1, Forms DEF Recover, Holds, Projection
  <2> QED BY <1>1, <2>1 DEF Lose, Release
<1>7. GoodPage(page')
  <2>1. page.composer \in Texts /\ NoText \in Texts BY <1>1, GivenFacts DEF GoodPage, Pages
  <2>2. \A t \in Texts : GoodPage([page EXCEPT !.composer = t, !.moving = FALSE]) BY <1>1, PageForms
  <2> QED BY <1>1, <2>1, <2>2 DEF Lose
<1>8. budget' \in Budget BY <1>1, Numbers DEF Lose, Budget
<1>9. UNCHANGED named BY DEF Lose
<1> QED BY <1>1, <1>2, <1>3, <1>4, <1>5, <1>6, <1>7, <1>8, <1>9 DEF ContentTypeOK, GoodPage, Pages, Ledger, Names, Reports

(* The initial states are well-formed. *)
LEMMA InitTypes == ContentInit => ContentTypeOK /\ EffectsOK
<1> SUFFICES ASSUME ContentInit PROVE ContentTypeOK /\ EffectsOK OBVIOUS
<1>1. plan \in Plans /\ NoText \in Texts BY GivenFacts DEF ContentInit
<1>2. <<>> \in Seq(Turn) /\ Len(<<>>) = 0 OBVIOUS
<1>3. GoodPage(page) BY <1>1, <1>2, Numbers DEF ContentInit, GoodPage, Pages
<1>4. task \in [Given -> Task] BY Forms DEF ContentInit
<1>5. effect \in Ledger /\ report \in Reports BY DEF ContentInit, Ledger, Reports, Outcomes
<1>6. named \in Names BY Numbers DEF ContentInit, Names
<1>7. budget \in Budget BY Numbers DEF ContentInit, Budget
<1>8. req \in Projection \union {NoRequest} /\ outlived \subseteq Given BY DEF ContentInit
<1>9. EffectsOK BY DEF ContentInit, EffectsOK
<1> QED BY <1>1, <1>3, <1>4, <1>5, <1>6, <1>7, <1>8, <1>9, TypesUnfold

(* Only commands with an effect enter the ledger. *)
LEMMA EffectsStep ==
  ASSUME ContentTypeOK, EffectsOK, [ContentNext]_contentVars
  PROVE  EffectsOK'
<1>1. /\ plan \in Plans /\ effect \in Ledger /\ task \in [Given -> Task] BY TypesUnfold
<1>2. CASE UNCHANGED contentVars BY <1>2 DEF contentVars, EffectsOK, Given, Kind
<1>3. CASE (Page \/ Collect) /\ UNCHANGED <<plan, outlived>>
  <2>1. UNCHANGED effect
    BY <1>3 DEF Page, Collect, Render, Drop, Finish, Move, TypeText, Press
  <2> QED BY <1>3, <2>1 DEF EffectsOK, Given, Kind
<1>4. ASSUME NEW c \in Given, Handle(c), UNCHANGED <<plan, outlived>> PROVE EffectsOK'
  <2>1. Comes(c)
    BY <1>4 DEF Handle, ReceiveStep, ReceiveSteer, ReceiveCancel, ReceivePassive, ReceiveRelease, ReceiveResume
  <2>2. \A d \in Given : Kind(d) \notin Backed => effect'[d] = effect[d] BY <1>1, <2>1 DEF Comes, Ledger
  <2> QED BY <1>4, <2>2 DEF EffectsOK, Given, Kind
<1>5. ASSUME NEW c \in Given, Reconcile(c), UNCHANGED <<plan, outlived>> PROVE EffectsOK'
  <2>1. Kind(plan[c].of) \in Backed BY <1>5, ReconcileTypes
  <2>2. \A d \in Given : Kind(d) \notin Backed => effect'[d] = effect[d] BY <1>1, <1>5, <2>1 DEF Reconcile, Ledger
  <2> QED BY <1>5, <2>2 DEF EffectsOK, Given, Kind
<1>6. ASSUME NEW c \in Given, Perform(c), UNCHANGED <<plan, outlived>> PROVE EffectsOK'
  <2>1. CASE SettleEffect(c)
    <3>1. \A d \in Given : Kind(d) \notin Backed => effect'[d] = effect[d] BY <1>1, <2>1 DEF SettleEffect, EffectsOK, Ledger
    <3> QED BY <1>6, <3>1 DEF EffectsOK, Given, Kind
  <2>2. CASE ~SettleEffect(c)
    <3>1. UNCHANGED effect
      BY <1>6, <2>2 DEF Perform, Confirm, Unconfirmed, NothingReported, PageReady, GoTo, Routed, Choose, Attach, Stop,
           Prepare, Fill, Click, SteerClosed, Believe, Doubt, Anchor, NoAnchor, Resume
    <3> QED BY <1>6, <3>1 DEF EffectsOK, Given, Kind
  <2> QED BY <2>1, <2>2
<1>7. ASSUME NEW alive \in Survives, Lose(alive), UNCHANGED plan PROVE EffectsOK'
  <2>1. \A d \in Given : effect[d] = "none" => effect'[d] = "none" BY <1>1, <1>7 DEF Lose, Ledger
  <2> QED BY <1>7, <2>1 DEF EffectsOK, Given, Kind
<1> QED BY <1>2, <1>3, <1>4, <1>5, <1>6, <1>7 DEF ContentNext, ContentStep

(* Every step keeps the types. *)
LEMMA TypesStep ==
  ASSUME ContentTypeOK, EffectsOK, [ContentNext]_contentVars
  PROVE  ContentTypeOK'
<1>1. CASE UNCHANGED contentVars BY <1>1 DEF contentVars, ContentTypeOK, Given
<1>2. CASE (Page \/ Collect) /\ UNCHANGED <<plan, outlived>> BY <1>2, PageTypes
<1>3. ASSUME NEW c \in Given, Handle(c), UNCHANGED <<plan, outlived>> PROVE ContentTypeOK' BY <1>3, ReceiveTypes
<1>4. ASSUME NEW c \in Given, Reconcile(c), UNCHANGED <<plan, outlived>> PROVE ContentTypeOK' BY <1>4, ReconcileTypes
<1>5. ASSUME NEW c \in Given, Perform(c), UNCHANGED <<plan, outlived>> PROVE ContentTypeOK'
  BY <1>5, HandlerTypes, WriterTypes DEF Perform
<1>6. ASSUME NEW alive \in Survives, Lose(alive), UNCHANGED plan PROVE ContentTypeOK'
  <2>1. alive \in BOOLEAN BY ContentAssumption
  <2> QED BY <1>6, <2>1, LoseTypes
<1> QED BY <1>1, <1>2, <1>3, <1>4, <1>5, <1>6 DEF ContentNext, ContentStep

(* Every state of the content script has its form, also when a page outlives *)
(* its port.                                                                 *)
THEOREM ContentTypeCorrect == ContentSpec => []ContentTypeOK
<1>1. ContentTypeOK /\ EffectsOK /\ [ContentNext]_contentVars => (ContentTypeOK /\ EffectsOK)'
  BY TypesStep, EffectsStep
<1> QED BY InitTypes, <1>1, PTL DEF ContentSpec
-----------------------------------------------------------------------------
(* What a step of a handler may do. *)

\* Where a handler that has clicked waits.
Working == {"evidence", "anchor", "settle"}

\* The request in the store stays; a passive prompt that ends releases its own.
KeepsStore(c) ==
    \/ Holds' = Holds /\ (Holds => req'.request = req.request)
    \/ /\ Kind(c) = "passive" /\ task[c].at \in AtWork /\ task'[c].at = "idle"
       /\ req' = NoRequest

\* The handler moves forward, with its task alone.
MovesOn(c) ==
    /\ \A d \in Given \ {c} : task'[d] = task[d] /\ effect'[d] = effect[d] /\ report'[d] = report[d]
    /\ task[c].at # "idle" /\ task'[c].at # "plan" /\ task'[c].at # "boundary"
    /\ task'[c].at = "idle" => task'[c] = NoTask
    /\ task'[c].at = "fill" => Kind(c) = "passive" \/ task[c].at = "plan"
    /\ task'[c].at \in AtWork =>
          task[c].at \in AtWork \/ (task[c].at = "plan" /\ task[c].outcome = "none")
    /\ task'[c].at = "settle" => Kind(c) \in Backed /\ task'[c].outcome # "none"
    /\ task'[c].at \in InComposer => Kind(c) \in Writing
    /\ task'[c].at = "evidence" => task'[c].crossed
    /\ task[c].at \in Working => task'[c].at \in {"idle", "anchor", "settle"}
    /\ task[c].at \in Working /\ task[c].crossed /\ task'[c].at = "anchor" => task'[c].crossed

\* What it reports and settles when it ends.
Concludes(c) ==
    /\ \/ effect'[c] = effect[c]
       \/ /\ task[c].at = "settle" /\ task'[c].at = "idle"
          /\ effect[c] = "dispatched" /\ effect'[c] = task[c].outcome
    /\ \/ report'[c] = report[c] /\ (Kind(c) = "passive" => task'[c].at # "idle")
       \/ /\ task'[c].at = "idle" /\ Kind(c) \in {"passive", "resume"} /\ report'[c] # "none"
          /\ report'[c] = "rejected" => Kind(c) = "passive" /\ ~task[c].crossed

\* A cancelled outcome of a handler that has clicked needs the proof that the
\* text still stands in the composer.
Withdraws(c) ==
    task[c].at \in Working /\ task'[c].at = "settle" /\ task'[c].outcome = "cancelled"
        => task[c].at = "evidence" /\ StillThere(c)

\* Only a handler that works in the composer writes into it, and only its click
\* has the page take what stands there.
Restores(c) ==
    /\ task[c].at = "button" \/ (task[c].at = "evidence" /\ StillThere(c))
    /\ page'.composer = task[c].before /\ ~Keeps(c)'

Writes(c) ==
    /\ \/ /\ page'.composer \in {page.composer, NoText}
          /\ Keeps(c)' => task[c].at = "button" /\ task'[c].before = task[c].before
       \/ /\ task[c].at = "fill" /\ page'.composer = Text(c)
          /\ Keeps(c)' /\ task'[c].before = page.composer
       \/ Restores(c)
    /\ \/ Submitted' \subseteq Submitted
       \/ /\ Submitted' \subseteq Submitted \union {[text |-> page.composer, by |-> c]}
          /\ task[c].at = "button" /\ task'[c].at = "evidence" /\ page'.composer = NoText

HandlerMoves(c) == MovesOn(c) /\ Concludes(c) /\ KeepsStore(c) /\ Withdraws(c) /\ Writes(c)

(* An origin is the origin of a turn that was sent. *)
LEMMA OriginsSent == Origins = {t.by : t \in Submitted}
<1>1. {t.by : t \in {page.turns[k] : k \in 1..Count}} = {page.turns[k].by : k \in 1..Count} OBVIOUS
<1>2. {t.by : t \in {page.taken[i] : i \in 1..Len(page.taken)}} = {page.taken[i].by : i \in 1..Len(page.taken)}
  OBVIOUS
<1>3. {t.by : t \in Submitted} = {t.by : t \in {page.turns[k] : k \in 1..Count}}
                                  \union {t.by : t \in {page.taken[i] : i \in 1..Len(page.taken)}}
  BY DEF Submitted
<1> QED BY <1>1, <1>2, <1>3 DEF Origins

(* So it is after a step. *)
LEMMA OriginsNext == (Origins = {t.by : t \in Submitted})'
BY OriginsSent, PTL

(* Which turns are new after a step of the page. *)
LEMMA SubmittedKept ==
  ASSUME GoodPage(page)
  PROVE  /\ page'.turns = page.turns /\ page'.taken = page.taken => Submitted' = Submitted
         /\ \A by : Takes(by) => /\ Submitted' \subseteq Submitted \union {[text |-> page.composer, by |-> by]}
                                 /\ page'.composer = NoText
         /\ Render => Submitted' \subseteq Submitted
         /\ Drop => Submitted' \subseteq Submitted
<1>1. page'.turns = page.turns /\ page'.taken = page.taken => Submitted' = Submitted
  BY DEF Submitted, Count
<1>2. ASSUME NEW by, Takes(by)
      PROVE  Submitted' \subseteq Submitted \union {[text |-> page.composer, by |-> by]} /\ page'.composer = NoText
  <2>1. /\ page'.turns = page.turns /\ page'.taken = <<[text |-> page.composer, by |-> by]>>
        /\ page'.composer = NoText
    BY <1>2 DEF GoodPage, Pages, Takes
  <2>2. Len(page'.taken) = 1 /\ page'.taken[1] = [text |-> page.composer, by |-> by] BY <2>1
  <2>3. \A i \in 1..Len(page'.taken) : page'.taken[i] = [text |-> page.composer, by |-> by] BY <2>2
  <2> QED BY <2>1, <2>3 DEF Submitted, Count
<1>3. ASSUME Render PROVE Submitted' \subseteq Submitted
  <2>1. page'.turns = page.turns \o page.taken /\ page'.taken = <<>>
    BY <1>3 DEF Render, GoodPage, Pages
  <2>2. page.turns \in Seq(Turn) /\ page.taken \in Seq(Turn) BY DEF GoodPage, Pages
  <2>3. ASSUME NEW k \in 1..Len(page'.turns) PROVE page'.turns[k] \in Submitted
    <3>1. CASE k <= Len(page.turns)
      <4>1. page'.turns[k] = page.turns[k] BY <2>1, <2>2, <3>1
      <4> QED BY <2>2, <3>1, <4>1 DEF Submitted, Count
    <3>2. CASE ~(k <= Len(page.turns))
      <4>1. k - Len(page.turns) \in 1..Len(page.taken)
        <5>1. Len(page.turns) \in Nat /\ Len(page.taken) \in Nat BY <2>2
        <5>2. Len(page'.turns) = Len(page.turns) + Len(page.taken) BY <2>1, <2>2
        <5>3. \A m, n \in Nat : \A j \in 1..m + n : ~(j <= m) => j - m \in 1..n OBVIOUS
        <5> QED BY <3>2, <5>1, <5>2, <5>3
      <4>2. page'.turns[k] = page.taken[k - Len(page.turns)] BY <2>1, <2>2, <3>2
      <4> QED BY <4>1, <4>2 DEF Submitted
    <3> QED BY <3>1, <3>2
  <2>4. 1..Len(page'.taken) = {} BY <2>1
  <2> QED BY <2>3, <2>4 DEF Submitted, Count
<1>4. ASSUME Drop PROVE Submitted' \subseteq Submitted
  <2>1. page'.turns = page.turns /\ page'.taken = <<>> BY <1>4 DEF Drop, GoodPage, Pages
  <2>2. 1..Len(page'.taken) = {} BY <2>1
  <2> QED BY <2>1, <2>2 DEF Submitted, Count
<1> QED BY <1>1, <1>2, <1>3, <1>4

(* A handler that has ended waits nowhere. *)
LEMMA IdleTask == NoTask.at = "idle"
BY DEF NoTask

(* What the ends of a handler leave behind. *)
LEMMA Ends ==
  ASSUME ContentTypeOK, NEW c \in Given
  PROVE  /\ End(c) => task'[c] = NoTask /\ \A d \in Given \ {c} : task'[d] = task[d]
         /\ \A w : Await(c, w) => /\ task'[c] = [task[c] EXCEPT !.at = w]
                                  /\ \A d \in Given \ {c} : task'[d] = task[d]
         /\ \A k : Succeed(c, k) =>
               /\ task'[c].at = "settle" /\ task'[c].outcome = "succeeded"
               /\ \A d \in Given \ {c} : task'[d] = task[d]
         /\ \A proven : Throw(c, proven) =>
               /\ \A d \in Given \ {c} : task'[d] = task[d] /\ report'[d] = report[d]
               /\ \/ /\ Kind(c) = "passive" /\ task'[c].at = "idle" /\ task'[c] = NoTask /\ req' = NoRequest
                     /\ report'[c] = IF task[c].crossed THEN "uncertain" ELSE "rejected"
                  \/ /\ Kind(c) # "passive" /\ task'[c].at = "settle"
                     /\ task'[c].outcome = Verdict(c, proven) /\ UNCHANGED <<req, report>>
<1>1. task \in [Given -> Task] /\ report \in Reports /\ task[c] \in Task BY TypesUnfold
<1>2. End(c) => task'[c] = NoTask /\ \A d \in Given \ {c} : task'[d] = task[d] BY <1>1 DEF End
<1>3. \A w : Await(c, w) => /\ task'[c] = [task[c] EXCEPT !.at = w]
                            /\ \A d \in Given \ {c} : task'[d] = task[d]
  BY <1>1 DEF Await
<1>4. ASSUME NEW k, Succeed(c, k)
      PROVE  /\ task'[c].at = "settle" /\ task'[c].outcome = "succeeded"
             /\ \A d \in Given \ {c} : task'[d] = task[d]
  <2>1. task'[c] = [task[c] EXCEPT !.at = "settle", !.outcome = "succeeded"] BY <1>1, <1>4 DEF Succeed
  <2>2. \A d \in Given \ {c} : task'[d] = task[d] BY <1>1, <1>4 DEF Succeed
  <2> QED BY <1>1, <2>1, <2>2 DEF Task
<1>5. ASSUME NEW proven, Throw(c, proven)
      PROVE  /\ \A d \in Given \ {c} : task'[d] = task[d] /\ report'[d] = report[d]
             /\ \/ /\ Kind(c) = "passive" /\ task'[c].at = "idle" /\ task'[c] = NoTask /\ req' = NoRequest
                   /\ report'[c] = IF task[c].crossed THEN "uncertain" ELSE "rejected"
                \/ /\ Kind(c) # "passive" /\ task'[c].at = "settle"
                   /\ task'[c].outcome = Verdict(c, proven) /\ UNCHANGED <<req, report>>
  <2>1. CASE Kind(c) = "passive"
    <3>1. /\ task'[c] = NoTask /\ task'[c].at = "idle" /\ \A d \in Given \ {c} : task'[d] = task[d]
      BY <1>2, <1>5, <2>1, IdleTask DEF Throw
    <3>2. /\ report'[c] = IF task[c].crossed THEN "uncertain" ELSE "rejected"
          /\ \A d \in Given \ {c} : report'[d] = report[d]
      BY <1>1, <1>5, <2>1 DEF Throw, Reports
    <3> QED BY <1>5, <2>1, <3>1, <3>2 DEF Throw, Release
  <2>2. CASE Kind(c) # "passive"
    <3>1. task'[c] = [task[c] EXCEPT !.at = "settle", !.outcome = Verdict(c, proven)]
      BY <1>1, <1>5, <2>2 DEF Throw
    <3>2. UNCHANGED <<req, report>> /\ \A d \in Given \ {c} : task'[d] = task[d]
      BY <1>1, <1>5, <2>2 DEF Throw
    <3> QED BY <1>1, <2>2, <3>1, <3>2 DEF Task
  <2> QED BY <2>1, <2>2
<1> QED BY <1>2, <1>3, <1>4, <1>5

\* The composer and the turns stay as they are.
Calm == /\ page'.composer = page.composer /\ page'.turns = page.turns /\ page'.taken = page.taken

(* The store is not emptied by an update of what it holds. *)
LEMMA StoreStays ==
  ASSUME ContentTypeOK, NEW c \in Given
  PROVE  /\ UNCHANGED req => KeepsStore(c)
         /\ Holds /\ req' \in Projection /\ req'.request = req.request => KeepsStore(c)
BY NoRequestAssumption DEF KeepsStore, Holds

(* The steps before the composer are moves of a handler. *)
LEMMA HandlerSteps1 ==
  ASSUME ContentTypeOK, LedgerOK, PlacesOK, NEW c \in Given, UNCHANGED <<plan, outlived>>,
         Confirm(c) \/ Unconfirmed(c) \/ PageReady(c) \/ GoTo(c) \/ Routed(c) \/ Choose(c)
           \/ Attach(c) \/ Stop(c) \/ Prepare(c)
  PROVE  HandlerMoves(c)
<1>1. /\ plan \in Plans /\ GoodPage(page) /\ req \in Projection \union {NoRequest}
      /\ task \in [Given -> Task] /\ effect \in Ledger /\ named \in Names /\ report \in Reports
      /\ task[c] \in Task /\ page \in Pages
  BY TypesUnfold DEF GoodPage
<1>2. \A p \in BOOLEAN : Verdict(c, p) # "none" BY DEF Verdict
<1>3. Calm /\ ~Keeps(c)' => Writes(c)
  <2>1. Keeps(c)' <=> task'[c].at \in {"button", "evidence"} BY DEF Keeps
  <2> QED BY <1>1, <2>1, SubmittedKept DEF Calm, Writes
<1>4. CASE Confirm(c)
  <2>. DEFINE moved == [task[c] EXCEPT !.at = IF task[c].outcome = "none" THEN Executor(c) ELSE "settle", !.entered = Count]
  <2>1. task'[c] = moved /\ \A d \in Given \ {c} : task'[d] = task[d] BY <1>1, <1>4 DEF Confirm
  <2>2. /\ task'[c].at = IF task[c].outcome = "none" THEN Executor(c) ELSE "settle"
        /\ task'[c].outcome = task[c].outcome
    BY <1>1, <2>1 DEF Task
  <2>3. Executor(c) \in {"perform", "fill", "anchor"} /\ (Executor(c) = "fill" => Kind(c) \in Writing)
    BY DEF Executor, Writing
  <2>4. task[c].at = "plan" /\ Kind(c) \in Backed BY <1>4 DEF Confirm, Awaits, PlacesOK
  <2>. HIDE DEF moved
  <2>10. UNCHANGED <<effect, report, req, page>> BY <1>4 DEF Confirm
  <2>9. /\ task[c].outcome = "none" => task'[c].at \in {"perform", "fill", "anchor"}
        /\ task[c].outcome # "none" => task'[c].at = "settle"
    BY <2>2, <2>3
  <2>11. task'[c].at = "fill" => Kind(c) \in Writing BY <2>2, <2>3
  <2>5. MovesOn(c) BY <2>10, <2>1, <2>2, <2>9, <2>11, <2>4 DEF MovesOn, AtWork, InComposer, Working
  <2>6. Concludes(c) /\ Withdraws(c)
    BY <1>4, <2>2, <2>3, <2>4 DEF Confirm, Concludes, Withdraws, Working, Backed, Steps
  <2>7. KeepsStore(c) BY <1>4, StoreStays DEF Confirm
  <2>8. Calm /\ ~Keeps(c)' BY <1>4, <2>9 DEF Confirm, Calm, Keeps
  <2> QED BY <1>3, <2>5, <2>6, <2>7, <2>8 DEF HandlerMoves
<1>5. CASE Unconfirmed(c)
  <2>1. NothingReported(c) /\ task[c].at \in {"plan", "settle"} /\ Kind(c) \in Backed
    BY <1>5 DEF Unconfirmed, Awaits, PlacesOK
  <2>2. task'[c] = NoTask /\ task'[c].at = "idle" /\ \A d \in Given \ {c} : task'[d] = task[d]
    BY <2>1, Ends, IdleTask DEF NothingReported
  <2>3. MovesOn(c) BY <2>1, <2>2 DEF MovesOn, NothingReported, AtWork, InComposer, Working
  <2>4. Concludes(c) /\ Withdraws(c) BY <2>1, <2>2 DEF Concludes, Withdraws, NothingReported, Backed, Steps
  <2>5. KeepsStore(c)
    <3>1. CASE Kind(c) = "steer" /\ Holds
      <4>1. req \in Projection BY <1>1, <3>1 DEF Holds
      <4>2. req' = [req EXCEPT !.pending = NoBase, !.text = NoText] BY <2>1, <3>1 DEF NothingReported
      <4>3. req' \in Projection /\ req'.request = req.request BY <4>1, <4>2, StoreForms DEF Projection
      <4> QED BY <3>1, <4>3, StoreStays
    <3>2. CASE ~(Kind(c) = "steer" /\ Holds) BY <2>1, <3>2, StoreStays DEF NothingReported
    <3> QED BY <3>1, <3>2
  <2>6. Calm /\ ~Keeps(c)' BY <2>1, <2>2 DEF NothingReported, Calm, Keeps
  <2> QED BY <1>3, <2>3, <2>4, <2>5, <2>6 DEF HandlerMoves
<1>6. ASSUME Kind(c) \in Backed \ Prompts, task[c].at \in {"perform", "anchor"}, Calm, UNCHANGED effect,
             \/ Succeed(c, 0) /\ UNCHANGED <<req, report>>
             \/ Throw(c, FALSE)
             \/ Await(c, "anchor") /\ UNCHANGED <<req, report>>
      PROVE  HandlerMoves(c)
  <2>1. Kind(c) # "passive" BY <1>6 DEF Backed, Steps
  <2>2. /\ \A d \in Given \ {c} : task'[d] = task[d] /\ report'[d] = report[d]
        /\ UNCHANGED <<req, report>>
        /\ \/ task'[c].at = "settle" /\ task'[c].outcome \notin {"none", "cancelled"}
           \/ task'[c].at = "anchor" /\ task'[c].crossed = task[c].crossed
    <3>1. CASE Succeed(c, 0) /\ UNCHANGED <<req, report>>
      <4>1. /\ task'[c].at = "settle" /\ task'[c].outcome = "succeeded"
            /\ \A d \in Given \ {c} : task'[d] = task[d]
        BY <3>1, Ends
      <4> QED BY <3>1, <4>1
    <3>2. CASE Throw(c, FALSE)
      <4>1. Verdict(c, FALSE) \notin {"none", "cancelled"} BY DEF Verdict
      <4>2. /\ \A d \in Given \ {c} : task'[d] = task[d] /\ report'[d] = report[d]
            /\ task'[c].at = "settle" /\ task'[c].outcome = Verdict(c, FALSE) /\ UNCHANGED <<req, report>>
        BY <2>1, <3>2, Ends
      <4> QED BY <4>1, <4>2
    <3>3. CASE Await(c, "anchor") /\ UNCHANGED <<req, report>>
      <4>1. task'[c] = [task[c] EXCEPT !.at = "anchor"] BY <3>3, Ends
      <4>2. task'[c].at = "anchor" /\ task'[c].crossed = task[c].crossed BY <1>1, <4>1 DEF Task
      <4> QED BY <3>3, <4>2, Ends
    <3> QED BY <1>6, <3>1, <3>2, <3>3
  <2>3. MovesOn(c) BY <1>6, <2>2 DEF MovesOn, AtWork, InComposer, Working
  <2>4. Concludes(c) /\ Withdraws(c) BY <1>6, <2>1, <2>2 DEF Concludes, Withdraws
  <2>5. KeepsStore(c) BY <2>2, StoreStays
  <2>6. ~Keeps(c)' BY <2>2 DEF Keeps
  <2> QED BY <1>3, <1>6, <2>3, <2>4, <2>5, <2>6 DEF HandlerMoves
<1>7. CASE PageReady(c)
  BY <1>6, <1>7 DEF PageReady, Awaits, Calm, Backed, Steps, Prompts
<1>8. CASE GoTo(c)
  <2>1. Calm BY <1>1, <1>8 DEF GoTo, Calm, Pages
  <2> QED BY <1>6, <1>8, <2>1 DEF GoTo, Awaits, Backed, Steps, Prompts
<1>9. CASE Routed(c)
  BY <1>6, <1>9 DEF Routed, Awaits, Calm, Backed, Steps, Prompts
<1>10. CASE Choose(c)
  <2>1. Calm BY <1>1, <1>10 DEF Choose, Calm, Pages
  <2> QED BY <1>6, <1>10, <2>1 DEF Choose, Awaits, Backed, Steps, Prompts
<1>11. CASE Attach(c)
  <2>1. Calm BY <1>1, <1>11 DEF Attach, Calm, Pages
  <2> QED BY <1>6, <1>11, <2>1 DEF Attach, Awaits, Backed, Steps, Prompts
<1>12. CASE Stop(c)
  <2>1. Calm BY <1>1, <1>12 DEF Stop, Calm, Pages
  <2> QED BY <1>6, <1>12, <2>1 DEF Stop, Awaits, Backed, Steps, Prompts
<1>13. CASE Prepare(c)
  <2>1. Calm /\ Kind(c) = "passive" /\ task[c].at = "perform" /\ UNCHANGED effect BY <1>13 DEF Prepare, Calm, Awaits
  <2>2. CASE Throw(c, FALSE)
    <3>1. /\ \A d \in Given \ {c} : task'[d] = task[d] /\ report'[d] = report[d]
          /\ task'[c].at = "idle" /\ task'[c] = NoTask /\ req' = NoRequest
          /\ report'[c] = IF task[c].crossed THEN "uncertain" ELSE "rejected"
      BY <2>1, <2>2, Ends
    <3>2. MovesOn(c) BY <2>1, <3>1 DEF MovesOn, AtWork, InComposer, Working
    <3>3. Concludes(c) /\ Withdraws(c) BY <2>1, <3>1 DEF Concludes, Withdraws
    <3>4. KeepsStore(c) BY <2>1, <3>1 DEF KeepsStore, AtWork
    <3>5. ~Keeps(c)' BY <3>1 DEF Keeps
    <3> QED BY <1>3, <2>1, <3>2, <3>3, <3>4, <3>5 DEF HandlerMoves
  <2>3. CASE ~Throw(c, FALSE)
    <3>1. /\ Holds /\ req' = [Armed(req, c, Count) EXCEPT !.armed = TRUE] /\ UNCHANGED report
          /\ task' = [task EXCEPT ![c].at = "fill", ![c].base = Count, ![c].entered = Count]
      BY <1>13, <2>3 DEF Prepare
    <3>2. req \in Projection /\ Count \in Baseline BY <1>1, <3>1, CountKey, Numbers DEF Holds
    <3>3. Armed(req, c, Count) \in Projection /\ Armed(req, c, Count).request = req.request
      BY <3>2, StoreForms DEF Armed, Projection
    <3>4. req' \in Projection /\ req'.request = req.request BY <3>1, <3>3, StoreForms DEF Projection
    <3>5. task'[c] = [task[c] EXCEPT !.at = "fill", !.base = Count, !.entered = Count] BY <1>1, <3>1
    <3>6. task'[c].at = "fill" /\ \A d \in Given \ {c} : task'[d] = task[d] BY <1>1, <3>1, <3>5 DEF Task
    <3>7. MovesOn(c) BY <2>1, <3>1, <3>6 DEF MovesOn, AtWork, InComposer, Working, Writing
    <3>8. Concludes(c) /\ Withdraws(c) BY <2>1, <3>1, <3>6 DEF Concludes, Withdraws
    <3>9. KeepsStore(c) BY <3>1, <3>4, StoreStays
    <3>10. ~Keeps(c)' BY <3>6 DEF Keeps
    <3> QED BY <1>3, <2>1, <3>7, <3>8, <3>9, <3>10 DEF HandlerMoves
  <2> QED BY <2>2, <2>3
<1> QED BY <1>4, <1>5, <1>7, <1>8, <1>9, <1>10, <1>11, <1>12, <1>13

(* An error in the composer is a move of a handler. *)
LEMMA Throwing ==
  ASSUME ContentTypeOK, NEW c \in Given, NEW proven \in BOOLEAN, Kind(c) \in Writing, task[c].at \in AtWork,
         Throw(c, proven), UNCHANGED effect
  PROVE  /\ MovesOn(c) /\ Concludes(c) /\ KeepsStore(c) /\ ~Keeps(c)'
         /\ ~proven => Withdraws(c)
<1>1. CASE Kind(c) = "passive"
  <2>1. /\ \A d \in Given \ {c} : task'[d] = task[d] /\ report'[d] = report[d]
        /\ task'[c].at = "idle" /\ task'[c] = NoTask /\ req' = NoRequest
        /\ report'[c] = IF task[c].crossed THEN "uncertain" ELSE "rejected"
    BY <1>1, Ends
  <2>2. MovesOn(c) BY <2>1 DEF MovesOn, AtWork, InComposer, Working
  <2>3. Concludes(c) /\ Withdraws(c) BY <1>1, <2>1 DEF Concludes, Withdraws
  <2>4. KeepsStore(c) BY <1>1, <2>1 DEF KeepsStore
  <2>5. ~Keeps(c)' BY <2>1 DEF Keeps
  <2> QED BY <2>2, <2>3, <2>4, <2>5
<1>2. CASE Kind(c) # "passive"
  <2>1. Kind(c) \in Backed BY <1>2 DEF Writing, Backed, Steps
  <2>2. /\ \A d \in Given \ {c} : task'[d] = task[d] /\ report'[d] = report[d]
        /\ task'[c].at = "settle" /\ task'[c].outcome = Verdict(c, proven) /\ UNCHANGED <<req, report>>
    BY <1>2, Ends
  <2>3. Verdict(c, proven) # "none" /\ (~proven => Verdict(c, proven) # "cancelled") BY DEF Verdict
  <2>4. MovesOn(c) BY <2>1, <2>2, <2>3 DEF MovesOn, AtWork, InComposer, Working
  <2>5. Concludes(c) BY <1>2, <2>2 DEF Concludes
  <2>6. ~proven => Withdraws(c) BY <2>2, <2>3 DEF Withdraws
  <2>7. ~Keeps(c)' BY <2>2 DEF Keeps
  <2> QED BY <2>2, <2>4, <2>5, <2>6, <2>7, StoreStays
<1> QED BY <1>1, <1>2

(* So is a verdict that the prompt was sent. *)
LEMMA Succeeding ==
  ASSUME ContentTypeOK, NEW c \in Given, NEW k, Kind(c) \in Prompts, task[c].at \in AtWork,
         Succeed(c, k), UNCHANGED <<effect, report>>
  PROVE  MovesOn(c) /\ Concludes(c) /\ Withdraws(c) /\ ~Keeps(c)'
<1>1. Kind(c) \in Backed /\ Kind(c) # "passive" BY DEF Prompts, Backed, Steps
<1>2. /\ task'[c].at = "settle" /\ task'[c].outcome = "succeeded"
      /\ \A d \in Given \ {c} : task'[d] = task[d]
  BY Ends
<1>3. MovesOn(c) BY <1>1, <1>2 DEF MovesOn, AtWork, InComposer, Working
<1>4. Concludes(c) /\ Withdraws(c) BY <1>1, <1>2 DEF Concludes, Withdraws
<1>5. ~Keeps(c)' BY <1>2 DEF Keeps
<1> QED BY <1>3, <1>4, <1>5

(* The steps around the composer are moves of a handler. *)
LEMMA HandlerSteps2 ==
  ASSUME ContentTypeOK, LedgerOK, PlacesOK, NEW c \in Given, UNCHANGED <<plan, outlived>>,
         Fill(c) \/ Click(c) \/ SteerClosed(c) \/ Believe(c) \/ Doubt(c) \/ Anchor(c) \/ NoAnchor(c)
           \/ SettleEffect(c) \/ Resume(c)
  PROVE  HandlerMoves(c)
<1>1. /\ plan \in Plans /\ GoodPage(page) /\ req \in Projection \union {NoRequest}
      /\ task \in [Given -> Task] /\ effect \in Ledger /\ named \in Names /\ report \in Reports
      /\ task[c] \in Task /\ page \in Pages /\ (Holds => req \in Projection)
  BY TypesUnfold DEF GoodPage, Holds
<1>2. Calm /\ ~Keeps(c)' => Writes(c)
  <2>1. Keeps(c)' <=> task'[c].at \in {"button", "evidence"} BY DEF Keeps
  <2> QED BY <1>1, <2>1, SubmittedKept DEF Calm, Writes
<1>3. task[c].at \in InComposer => Kind(c) \in Writing BY DEF PlacesOK
<1>4. \A t : page' = [page EXCEPT !.composer = t] => page'.composer = t /\ Submitted' = Submitted
  <2> SUFFICES ASSUME NEW t, page' = [page EXCEPT !.composer = t] PROVE page'.composer = t /\ Submitted' = Submitted
    OBVIOUS
  <2>1. page'.composer = t /\ page'.turns = page.turns /\ page'.taken = page.taken BY <1>1 DEF Pages
  <2> QED BY <1>1, <2>1, SubmittedKept
<1>14. ASSUME page' \in Restored(c), ~Keeps(c)',
              task[c].at = "button" \/ (task[c].at = "evidence" /\ StillThere(c))
       PROVE  Writes(c)
  <2>1. PICK left \in {NoText, task[c].before, page.composer} : page' = [page EXCEPT !.composer = left]
    BY <1>14 DEF Restored
  <2>2. task[c].before = NoText => left = NoText \/ page'.composer = NoText
    BY <1>4, <1>14, <2>1 DEF Restored
  <2>3. page'.composer = left /\ Submitted' = Submitted BY <1>4, <2>1
  <2> QED BY <1>14, <2>1, <2>3 DEF Writes, Restores
<1>5. CASE Fill(c)
  <2>1. task[c].at = "fill" /\ Kind(c) \in Writing /\ UNCHANGED effect BY <1>3, <1>5 DEF Fill, Awaits, InComposer
  <2>2. PICK left \in {page.composer, NoText, Text(c)} : page' = [page EXCEPT !.composer = left] BY <1>5 DEF Fill
  <2>5. page'.composer = left /\ Submitted' = Submitted BY <1>4, <2>2
  <2>3. CASE Throw(c, FALSE)
    <3>1. task[c].at \in AtWork BY <2>1 DEF AtWork, InComposer
    <3>2. MovesOn(c) /\ Concludes(c) /\ KeepsStore(c) /\ ~Keeps(c)' /\ Withdraws(c) BY <2>1, <2>3, <3>1, Throwing
    <3>3. task'[c].at # "button" BY <3>2 DEF Keeps
    <3>4. PICK l \in {page.composer, NoText} : page' = [page EXCEPT !.composer = l]
      <4>1. CASE task' = [task EXCEPT ![c].at = "button", ![c].before = page.composer]
        <5>1. task'[c].at = "button" BY <1>1, <4>1 DEF Task
        <5> QED BY <3>3, <5>1
      <4> QED BY <1>5, <4>1 DEF Fill
    <3>5. page'.composer = l BY <1>4, <3>4
    <3>6. Writes(c) BY <2>5, <3>2, <3>5 DEF Writes
    <3> QED BY <3>2, <3>6 DEF HandlerMoves
  <2>4. CASE ~Throw(c, FALSE)
    <3>1. task' = [task EXCEPT ![c].at = "button", ![c].before = page.composer] /\ UNCHANGED <<req, report>>
      BY <1>5, <2>4 DEF Fill
    <3>6. Writes(c)
      <4>1. task'[c] = [task[c] EXCEPT !.at = "button", !.before = page.composer] BY <1>1, <3>1
      <4>2. task'[c].before = page.composer /\ task'[c].at = "button" BY <1>1, <4>1 DEF Task
      <4>3. Keeps(c)' BY <4>2 DEF Keeps
      <4>4. page' = [page EXCEPT !.composer = Text(c)] BY <1>5, <2>4 DEF Fill
      <4>5. page'.composer = Text(c) BY <1>4, <4>4
      <4> QED BY <2>1, <2>5, <4>2, <4>3, <4>5 DEF Writes
    <3>2. task'[c] = [task[c] EXCEPT !.at = "button", !.before = page.composer] BY <1>1, <3>1
    <3>3. task'[c].at = "button" /\ \A d \in Given \ {c} : task'[d] = task[d] BY <1>1, <3>1, <3>2 DEF Task
    <3>4. MovesOn(c) BY <2>1, <3>1, <3>3 DEF MovesOn, AtWork, InComposer, Working
    <3>5. Concludes(c) /\ Withdraws(c) BY <2>1, <3>1, <3>3 DEF Concludes, Withdraws
    <3> QED BY <3>1, <3>4, <3>5, <3>6, StoreStays DEF HandlerMoves
  <2> QED BY <2>3, <2>4
<1>6. CASE Click(c)
  <2>1. task[c].at = "button" /\ Kind(c) \in Writing /\ UNCHANGED <<effect, report, req>>
    BY <1>3, <1>6 DEF Click, Awaits, InComposer
  <2>2. PICK seen : task' = [task EXCEPT ![c].at = "evidence", ![c].crossed = TRUE, ![c].seen = seen]
    BY <1>6 DEF Click
  <2>3. task'[c] = [task[c] EXCEPT !.at = "evidence", !.crossed = TRUE, !.seen = seen] BY <1>1, <2>2
  <2>4. task'[c].at = "evidence" /\ task'[c].crossed /\ task'[c].before = task[c].before BY <1>1, <2>3 DEF Task
  <2>5. \A d \in Given \ {c} : task'[d] = task[d] BY <1>1, <2>2
  <2>6. MovesOn(c) BY <2>1, <2>4, <2>5 DEF MovesOn, AtWork, InComposer, Working
  <2>7. Concludes(c) /\ Withdraws(c) BY <2>1, <2>4 DEF Concludes, Withdraws
  <2>8. Writes(c)
    <3>1. CASE Takes(c) BY <1>1, <2>1, <2>4, <3>1, SubmittedKept DEF Writes
    <3>2. CASE UNCHANGED page
      <4>1. Submitted' = Submitted BY <1>1, <3>2, SubmittedKept
      <4> QED BY <2>1, <2>4, <3>2, <4>1 DEF Writes
    <3> QED BY <1>6, <3>1, <3>2 DEF Click
  <2> QED BY <2>1, <2>6, <2>7, <2>8, StoreStays DEF HandlerMoves
<1>7. CASE SteerClosed(c)
  <2>1. /\ task[c].at = "button" /\ Kind(c) = "steer" /\ UNCHANGED effect
        /\ page' \in Restored(c) /\ Throw(c, TRUE)
    BY <1>7 DEF SteerClosed, Awaits
  <2>3. MovesOn(c) /\ Concludes(c) /\ KeepsStore(c) /\ ~Keeps(c)'
    BY <2>1, Throwing DEF Writing, AtWork, InComposer
  <2>2. Writes(c) BY <1>14, <2>1, <2>3
  <2>4. Withdraws(c) BY <2>1 DEF Withdraws, Working
  <2> QED BY <2>2, <2>3, <2>4 DEF HandlerMoves
<1>8. CASE Believe(c)
  <2>1. task[c].at = "evidence" /\ Kind(c) \in Writing /\ UNCHANGED <<effect, page>>
    BY <1>3, <1>8 DEF Believe, Awaits, InComposer
  <2>2. ~Keeps(c)' => Writes(c) BY <1>2, <2>1 DEF Calm
  <2>3. CASE ~Holds
    <3>1. Throw(c, FALSE) BY <1>8, <2>3 DEF Believe
    <3> QED BY <2>1, <2>2, <3>1, Throwing DEF HandlerMoves, AtWork, InComposer
  <2>4. CASE Holds
    <3>1. /\ Await(c, "anchor") /\ UNCHANGED report
          /\ req' = IF Kind(c) = "steer" THEN req
                    ELSE [req EXCEPT !.sent = TRUE, !.rank = IF Kind(c) = "submit" THEN 6 ELSE @]
      BY <1>8, <2>4 DEF Believe
    <3>2. task'[c] = [task[c] EXCEPT !.at = "anchor"] /\ \A d \in Given \ {c} : task'[d] = task[d] BY <3>1, Ends
    <3>3. task'[c].at = "anchor" /\ task'[c].crossed = task[c].crossed BY <1>1, <3>2 DEF Task
    <3>4. MovesOn(c) BY <2>1, <3>1, <3>2, <3>3 DEF MovesOn, AtWork, InComposer, Working
    <3>5. Concludes(c) /\ Withdraws(c) BY <2>1, <3>1, <3>3 DEF Concludes, Withdraws
    <3>6. req \in Projection /\ req.rank \in {0, 1, 5, 6} BY <1>1, <2>4 DEF Projection
    <3>7. req' \in Projection /\ req'.request = req.request BY <3>1, <3>6 DEF Projection
    <3>8. ~Keeps(c)' BY <3>3 DEF Keeps
    <3> QED BY <2>2, <2>4, <3>4, <3>5, <3>7, <3>8, StoreStays DEF HandlerMoves
  <2> QED BY <2>3, <2>4
<1>9. CASE Doubt(c)
  <2>1. task[c].at = "evidence" /\ Kind(c) \in Writing /\ task[c].at \in AtWork /\ UNCHANGED effect
    BY <1>3, <1>9 DEF Doubt, Awaits, InComposer, AtWork
  <2>2. CASE StillThere(c)
    <3>1. Throw(c, TRUE) /\ page' \in Restored(c) BY <1>9, <2>2 DEF Doubt
    <3>2. MovesOn(c) /\ Concludes(c) /\ KeepsStore(c) /\ ~Keeps(c)' BY <2>1, <3>1, Throwing
    <3>3. Withdraws(c) BY <2>1, <2>2 DEF Withdraws
    <3>4. Writes(c) BY <1>14, <2>1, <2>2, <3>1, <3>2
    <3> QED BY <3>2, <3>3, <3>4 DEF HandlerMoves
  <2>3. CASE ~StillThere(c)
    <3>1. Throw(c, FALSE) /\ UNCHANGED page BY <1>9, <2>3 DEF Doubt
    <3>2. ~Keeps(c)' => Writes(c) BY <1>2, <3>1 DEF Calm
    <3> QED BY <2>1, <3>1, <3>2, Throwing DEF HandlerMoves
  <2> QED BY <2>2, <2>3
<1>10. CASE Anchor(c)
  <2>1. /\ task[c].at = "anchor" /\ Kind(c) \in Writing /\ task[c].at \in AtWork /\ UNCHANGED <<effect, page>>
        /\ Anchored(c) \in Keys \ {0} /\ Holds
    BY <1>10, AnchoredKey DEF Anchor, Awaits, AtWork
  <2>2. ~Keeps(c)' => Writes(c) BY <1>2, <2>1 DEF Calm
  <2>3. CASE Kind(c) = "passive"
    <3>1. End(c) /\ req' = NoRequest /\ report' = [report EXCEPT ![c] = "submitted"]
      BY <1>10, <2>3 DEF Anchor, Release
    <3>2. task'[c] = NoTask /\ task'[c].at = "idle" /\ \A d \in Given \ {c} : task'[d] = task[d]
      BY <3>1, Ends, IdleTask
    <3>3. report'[c] = "submitted" /\ \A d \in Given \ {c} : report'[d] = report[d] BY <1>1, <3>1 DEF Reports
    <3>4. MovesOn(c) BY <2>1, <3>2, <3>3 DEF MovesOn, AtWork, InComposer, Working
    <3>5. Concludes(c) /\ Withdraws(c) BY <2>1, <2>3, <3>2, <3>3 DEF Concludes, Withdraws
    <3>6. KeepsStore(c) BY <2>1, <2>3, <3>1, <3>2 DEF KeepsStore
    <3>7. ~Keeps(c)' BY <3>2 DEF Keeps
    <3> QED BY <2>2, <3>4, <3>5, <3>6, <3>7 DEF HandlerMoves
  <2>4. CASE Kind(c) # "passive"
    <3>1. /\ req' = IF req.key = Anchored(c) THEN req ELSE Adopted(req, Anchored(c))
          /\ Succeed(c, Anchored(c)) /\ UNCHANGED report
      BY <1>10, <2>4 DEF Anchor
    <3>2. Kind(c) \in Prompts BY <2>1, <2>4 DEF Writing, Prompts
    <3>3. req \in Projection BY <1>1, <2>1
    <3>4. Adopted(req, Anchored(c)) \in Projection /\ Adopted(req, Anchored(c)).request = req.request
      BY <2>1, <3>3, StoreForms DEF Adopted, Projection
    <3>5. KeepsStore(c) BY <2>1, <3>1, <3>3, <3>4, StoreStays
    <3>6. MovesOn(c) /\ Concludes(c) /\ Withdraws(c) /\ ~Keeps(c)' BY <2>1, <3>1, <3>2, Succeeding
    <3> QED BY <2>2, <3>5, <3>6 DEF HandlerMoves
  <2> QED BY <2>3, <2>4
<1>11. CASE NoAnchor(c)
  <2>1. /\ task[c].at = "anchor" /\ Kind(c) \in Writing /\ task[c].at \in AtWork /\ UNCHANGED <<effect, page>>
    BY <1>11 DEF NoAnchor, Awaits, AtWork
  <2>2. ~Keeps(c)' => Writes(c) BY <1>2, <2>1 DEF Calm
  <2>3. CASE Holds /\ (Kind(c) = "steer" \/ (Kind(c) = "submit" /\ Admitted(c)))
    <3>1. Succeed(c, req.key) /\ UNCHANGED <<req, report>> BY <1>11, <2>3 DEF NoAnchor
    <3>2. Kind(c) \in Prompts BY <2>3 DEF Prompts
    <3>3. MovesOn(c) /\ Concludes(c) /\ Withdraws(c) /\ ~Keeps(c)' BY <2>1, <3>1, <3>2, Succeeding
    <3> QED BY <2>2, <3>1, <3>3, StoreStays DEF HandlerMoves
  <2>4. CASE ~(Holds /\ (Kind(c) = "steer" \/ (Kind(c) = "submit" /\ Admitted(c))))
    <3>1. Throw(c, FALSE) BY <1>11, <2>4 DEF NoAnchor
    <3> QED BY <2>1, <2>2, <3>1, Throwing DEF HandlerMoves
  <2> QED BY <2>3, <2>4
<1>12. CASE SettleEffect(c)
  <2>1. task[c].at = "settle" /\ Kind(c) \in Backed /\ Kind(c) # "passive" /\ UNCHANGED <<report, page>>
    BY <1>12 DEF SettleEffect, Awaits, PlacesOK, Backed, Steps
  <2>2. task'[c] = NoTask /\ task'[c].at = "idle" /\ \A d \in Given \ {c} : task'[d] = task[d]
    BY <1>12, Ends, IdleTask DEF SettleEffect
  <2>3. /\ \A d \in Given \ {c} : effect'[d] = effect[d]
        /\ effect'[c] = IF effect[c] = "dispatched" THEN task[c].outcome ELSE effect[c]
    BY <1>1, <1>12 DEF SettleEffect, Ledger
  <2>4. ~Keeps(c)' BY <2>2 DEF Keeps
  <2>8. Writes(c) BY <1>2, <2>1, <2>4 DEF Calm
  <2>5. MovesOn(c) BY <2>1, <2>2, <2>3 DEF MovesOn, AtWork, InComposer, Working
  <2>6. Concludes(c) /\ Withdraws(c) BY <2>1, <2>2, <2>3 DEF Concludes, Withdraws
  <2>7. KeepsStore(c)
    <3>1. CASE Kind(c) # "steer" \/ ~Holds BY <1>12, <3>1, StoreStays DEF SettleEffect
    <3>2. CASE Kind(c) = "steer" /\ Holds
      <4>1. req \in Projection BY <1>1, <3>2
      <4>2. req' \in {[req EXCEPT !.rank = 6], [req EXCEPT !.pending = NoBase, !.text = NoText]}
        BY <1>12, <3>2 DEF SettleEffect
      <4>3. ASSUME NEW p \in {[req EXCEPT !.rank = 6], [req EXCEPT !.pending = NoBase, !.text = NoText]}
            PROVE  p \in Projection /\ p.request = req.request
        <5>1. p \in Projection BY <4>1, <4>3, StoreForms
        <5>2. p.request = req.request BY <4>1, <4>3 DEF Projection
        <5> QED BY <5>1, <5>2
      <4> QED BY <3>2, <4>2, <4>3, StoreStays
    <3> QED BY <3>1, <3>2
  <2> QED BY <2>8, <2>5, <2>6, <2>7 DEF HandlerMoves
<1>13. CASE Resume(c)
  <2>1. task[c].at = "boundary" /\ Kind(c) = "resume" /\ UNCHANGED <<effect, page>>
    BY <1>13 DEF Resume, Awaits, PlacesOK
  <2>2. task'[c] = NoTask /\ task'[c].at = "idle" /\ \A d \in Given \ {c} : task'[d] = task[d]
    <3>1. End(c) BY <1>13 DEF Resume
    <3> QED BY <3>1, Ends, IdleTask
  <2>3. report'[c] \in {"completed", "error"} /\ \A d \in Given \ {c} : report'[d] = report[d]
    BY <1>1, <1>13 DEF Resume, Reports
  <2>4. ~Keeps(c)' BY <2>2 DEF Keeps
  <2>8. Writes(c) BY <1>2, <2>1, <2>4 DEF Calm
  <2>5. MovesOn(c) BY <2>1, <2>2, <2>3 DEF MovesOn, AtWork, InComposer, Working
  <2>6. Concludes(c) /\ Withdraws(c) BY <2>1, <2>2, <2>3 DEF Concludes, Withdraws
  <2>7. KeepsStore(c)
    <3>1. CASE UNCHANGED req BY <3>1, StoreStays
    <3>2. CASE req' # req
      <4>1. Holds BY <1>13, <3>2 DEF Resume
      <4>2. PICK k \in Projected(req.request) \union {0} : req' = IF k = 0 THEN req ELSE [req EXCEPT !.key = k, !.sent = TRUE]
        BY <1>13, <3>2 DEF Resume
      <4>3. k \in Keys BY <1>1, <4>2, Numbers DEF Projected, Names
      <4>4. req \in Projection BY <1>1, <4>1
      <4>5. [req EXCEPT !.key = k, !.sent = TRUE] \in Projection /\ [req EXCEPT !.key = k, !.sent = TRUE].request = req.request
        BY <4>3, <4>4 DEF Projection
      <4> QED BY <3>2, <4>1, <4>2, <4>5, StoreStays
    <3> QED BY <3>1, <3>2
  <2> QED BY <2>8, <2>5, <2>6, <2>7 DEF HandlerMoves
<1> QED BY <1>5, <1>6, <1>7, <1>8, <1>9, <1>10, <1>11, <1>12, <1>13
-----------------------------------------------------------------------------
(* What a handler's step preserves. *)

(* Beside a handler in the composer no other prompt of the request is open, *)
LEMMA OneAtATime ==
  ASSUME plan \in Plans, LedgerOK, PlacesOK, StoreOK, OrderOK,
         NEW c \in Given, NEW d \in Given, c # d, task[c].at \in InComposer, ~Stray(c),
         Kind(d) \in Prompts, effect[d] \in {"dispatched", "uncertain"}, Projects(plan[d].request)
  PROVE  FALSE
<1>1. Kind(c) \in Writing /\ task[c].at \in AtWork BY DEF PlacesOK, AtWork
<1>2. plan[c].request = plan[d].request BY <1>1 DEF StoreOK, Projects
<1>3. Kind(c) \in Prompts BY <1>1, <1>2, PassiveAlone DEF Writing, Prompts
<1>4. effect[c] = "dispatched" BY <1>3 DEF LedgerOK, Stray, Prompts, Backed, Steps, InComposer
<1>5. CASE c \in plan[d].after BY <1>3, <1>4, <1>5 DEF OrderOK
<1>6. CASE d \in plan[c].after BY <1>3, <1>4, <1>6 DEF OrderOK
<1> QED BY <1>2, <1>3, <1>5, <1>6, OneAfterTheOther

(* and no other handler, unless it is stray. *)
LEMMA TwoWriters ==
  ASSUME plan \in Plans, LedgerOK, PlacesOK, StoreOK, OrderOK, NEW c \in Given, NEW d \in Given,
         task[c].at \in InComposer, ~Stray(c), task[d].at \in InComposer, ~Stray(d)
  PROVE  c = d
<1> SUFFICES ASSUME c # d PROVE FALSE OBVIOUS
<1>1. /\ Kind(c) \in Writing /\ Kind(d) \in Writing
      /\ Projects(plan[c].request) /\ Projects(plan[d].request)
  BY DEF PlacesOK, StoreOK, AtWork
<1>2. plan[c].request = plan[d].request BY <1>1 DEF Projects
<1>3. Kind(d) \in Prompts BY <1>1, <1>2, PassiveAlone DEF Writing, Prompts
<1>4. effect[d] = "dispatched" BY <1>3 DEF LedgerOK, Stray, Prompts, Backed, Steps, InComposer
<1> QED BY <1>1, <1>3, <1>4, OneAtATime

(* The commands are what they were, *)
LEMMA PlanKept ==
  ASSUME UNCHANGED plan
  PROVE  /\ Given' = Given
         /\ \A c \in Given : Kind(c)' = Kind(c) /\ Text(c)' = Text(c) /\ Own(c)' = Own(c) /\ (Alone(c)' <=> Alone(c))
BY DEF Given, Kind, Text, Own, Alone

(* and the same of them are stray. *)
LEMMA StraysKept ==
  ASSUME UNCHANGED <<plan, outlived>>
  PROVE  /\ \A c \in Given : (Stray(c)' <=> Stray(c)) /\ (Counts(c)' <=> Counts(c))
         /\ Strays' <=> Strays
<1>1. Given' = Given /\ \A c \in Given : Kind(c)' = Kind(c) /\ (Alone(c)' <=> Alone(c)) BY PlanKept
<1>2. \A c \in Given : Stray(c)' <=> Stray(c) BY <1>1 DEF Stray
<1>3. Strays' <=> Strays BY <1>1, <1>2 DEF Strays
<1> QED BY <1>1, <1>2, <1>3 DEF Counts

(* A request is released as long as the report of its release stands. *)
LEMMA ClosedKept ==
  ASSUME UNCHANGED plan, \A b \in Given : Kind(b) = "release" => report'[b] = report[b]
  PROVE  \A r : Closed(r)' <=> Closed(r)
BY DEF Closed, Given, Kind

(* A handler's move keeps the ledger, the places and the order. *)
LEMMA PerformKeepsPlaces ==
  ASSUME ContentInv, NEW c \in Given, HandlerMoves(c), UNCHANGED <<plan, outlived>>
  PROVE  LedgerOK' /\ PlacesOK' /\ OrderOK'
<1>1. MovesOn(c) /\ Concludes(c) /\ LedgerOK /\ PlacesOK /\ OrderOK BY DEF HandlerMoves, ContentInv
<1>2. task[c].at # "idle" BY <1>1 DEF MovesOn
<1>3. LedgerOK'
  <2> SUFFICES ASSUME NEW d \in Given
               PROVE  /\ Kind(d) \in Backed =>
                           /\ report'[d] \in {"none", "duplicate"}
                           /\ task'[d].at # "idle" /\ d \notin outlived => effect'[d] = "dispatched"
                           /\ d \in outlived => effect'[d] \notin {"none", "dispatched"} /\ task'[d].at # "plan"
                      /\ Kind(d) \notin Backed => effect'[d] = "none"
                      /\ report'[d] = "rejected" => Kind(d) = "passive"
                      /\ task'[d].at # "idle" => report'[d] = "none"
    BY PlanKept DEF LedgerOK
  <2>1. CASE d # c BY <1>1, <2>1 DEF MovesOn, LedgerOK
  <2>2. CASE d = c
    <3>1. Kind(c) \in {"passive", "resume"} => Kind(c) \notin Backed BY DEF Backed, Steps
    <3>2. task'[c].at # "idle" => effect'[c] = effect[c] /\ report'[c] = report[c] BY <1>1 DEF Concludes
    <3>3. Kind(c) \in Backed => report'[c] = report[c] BY <1>1, <3>1 DEF Concludes
    <3>4. Kind(c) \notin Backed => effect'[c] = effect[c] BY <1>1 DEF Concludes, LedgerOK
    <3>5. report'[c] = "rejected" => Kind(c) = "passive" BY <1>1 DEF Concludes, LedgerOK
    <3>6. Kind(c) \in Backed /\ c \in outlived => effect'[c] = effect[c] /\ task'[c].at # "plan"
      BY <1>1 DEF Concludes, LedgerOK, MovesOn
    <3> QED BY <1>1, <1>2, <2>2, <3>2, <3>3, <3>4, <3>5, <3>6 DEF LedgerOK
  <2> QED BY <2>1, <2>2
<1>4. PlacesOK'
  <2> SUFFICES ASSUME NEW d \in Given
               PROVE  /\ task'[d].at = "idle" => task'[d] = NoTask
                      /\ task'[d].at \in {"plan", "settle"} => Kind(d) \in Backed
                      /\ task'[d].at = "settle" => task'[d].outcome # "none"
                      /\ task'[d].at \in InComposer => Kind(d) \in Writing
                      /\ task'[d].at = "boundary" => Kind(d) = "resume"
                      /\ task'[d].at = "evidence" => task'[d].crossed
    BY PlanKept DEF PlacesOK, NoTask
  <2>1. CASE d # c BY <1>1, <2>1 DEF MovesOn, PlacesOK
  <2>2. CASE d = c BY <1>1, <2>2 DEF MovesOn
  <2> QED BY <2>1, <2>2
<1>5. OrderOK'
  <2> SUFFICES ASSUME NEW x \in Given, NEW y \in Given, Kind(x) \in Prompts, Kind(y) \in Prompts,
                      x \in plan[y].after, effect'[y] # "none"
               PROVE  effect'[x] = "succeeded"
    BY PlanKept DEF OrderOK
  <2>1. effect[y] # "none" BY <1>1 DEF MovesOn, Concludes
  <2>2. effect[x] = "succeeded" BY <1>1, <2>1 DEF OrderOK
  <2> QED BY <1>1, <2>2 DEF MovesOn, Concludes
<1> QED BY <1>3, <1>4, <1>5

(* It keeps what the store holds, or releases its own passive prompt. *)
LEMMA PerformKeepsStore ==
  ASSUME ContentInv, NEW c \in Given, HandlerMoves(c), UNCHANGED <<plan, outlived>>
  PROVE  /\ StoreOK' /\ ClosedOK'
         /\ \A d \in Given : d # c /\ Projects(plan[d].request) /\ Kind(d) # "passive"
                                => Projects(plan[d].request)'
         /\ Kind(c) # "passive" /\ Projects(plan[c].request) => Projects(plan[c].request)'
         /\ \A r : Closed(r)' <=> Closed(r)
<1>1. /\ MovesOn(c) /\ Concludes(c) /\ KeepsStore(c) /\ StoreOK /\ ClosedOK /\ plan \in Plans
  BY DEF HandlerMoves, ContentInv, ContentTypeOK
<1>2. \A r : Closed(r)' <=> Closed(r)
  <2>1. \A b \in Given : Kind(b) = "release" => report'[b] = report[b] BY <1>1 DEF MovesOn, Concludes
  <2> QED BY <2>1, ClosedKept
<1>3. ClosedOK'
  <2>1. \A d \in Given : Projects(plan[d].request)' => Projects(plan[d].request)
    BY <1>1 DEF KeepsStore, Projects, Holds
  <2> QED BY <1>1, <1>2, <2>1, PlanKept DEF ClosedOK
<1>4. CASE Holds' = Holds /\ (Holds => req'.request = req.request)
  <2>1. \A d \in Given : Projects(plan[d].request)' <=> Projects(plan[d].request) BY <1>4 DEF Projects
  <2>2. StoreOK'
    <3> SUFFICES ASSUME NEW d \in Given, Kind(d) \in Writing, ~Stray(d),
                        task'[d].at \in AtWork \/ (task'[d].at = "plan" /\ task'[d].outcome = "none")
                 PROVE  Projects(plan[d].request)'
      BY PlanKept, StraysKept DEF StoreOK
    <3>1. task[d].at \in AtWork \/ (task[d].at = "plan" /\ task[d].outcome = "none") BY <1>1 DEF MovesOn
    <3> QED BY <1>1, <2>1, <3>1 DEF StoreOK
  <2> QED BY <1>2, <1>3, <2>1, <2>2
<1>5. CASE /\ Kind(c) = "passive" /\ task[c].at \in AtWork /\ task'[c].at = "idle" /\ req' = NoRequest
  <2>1. Projects(plan[c].request) BY <1>1, <1>5 DEF StoreOK, Writing, Stray, Prompts
  <2>2. \A d \in Given : Projects(plan[d].request) => d = c
    BY <1>1, <1>5, <2>1, PassiveAlone DEF Projects
  <2>3. StoreOK'
    <3> SUFFICES ASSUME NEW d \in Given, Kind(d) \in Writing, ~Stray(d),
                        task'[d].at \in AtWork \/ (task'[d].at = "plan" /\ task'[d].outcome = "none")
                 PROVE  FALSE
      BY PlanKept, StraysKept DEF StoreOK
    <3>1. task[d].at \in AtWork \/ (task[d].at = "plan" /\ task[d].outcome = "none") BY <1>1 DEF MovesOn
    <3>2. d = c BY <1>1, <2>2, <3>1 DEF StoreOK
    <3> QED BY <1>5, <3>2 DEF AtWork, InComposer
  <2> QED BY <1>2, <1>3, <1>5, <2>2, <2>3
<1> QED BY <1>1, <1>4, <1>5 DEF KeepsStore

(* A text that is nowhere comes only from a handler that writes it. *)
LEMMA CleanKept ==
  ASSUME plan \in Plans, NEW c \in Given, NEW x \in Given, Kind(x) \in Writing,
         MovesOn(c), Writes(c), UNCHANGED <<plan, outlived>>, Clean(x),
         task[c].at \in InComposer => c # x /\ Text(c) # Text(x)
  PROVE  Clean(x)'
<1>1. Text(x) # NoText BY GivenFacts
<1>2. Text(x)' = Text(x) /\ Given' = Given BY PlanKept
<1>3. \A d \in Given \ {c} : Keeps(d)' = Keeps(d) /\ task'[d].before = task[d].before BY DEF MovesOn, Keeps
<1>4. page'.composer # Text(x) /\ (c # x /\ Keeps(c)' => task'[c].before # Text(x))
  <2>1. CASE /\ page'.composer \in {page.composer, NoText}
             /\ Keeps(c)' => task[c].at = "button" /\ task'[c].before = task[c].before
    <3>1. c # x /\ task[c].at = "button" => task[c].before # Text(x) BY DEF Clean, Bearers, Keeps
    <3> QED BY <1>1, <2>1, <3>1 DEF Clean
  <2>2. CASE /\ task[c].at = "fill" /\ page'.composer = Text(c)
             /\ Keeps(c)' /\ task'[c].before = page.composer
    BY <2>2 DEF Clean, InComposer
  <2>3. CASE Restores(c)
    <3>1. c # x BY <2>3 DEF Restores, InComposer
    <3>2. task[c].before # Text(x) BY <2>3, <3>1 DEF Restores, Clean, Bearers, Keeps
    <3> QED BY <2>3, <3>2 DEF Restores
  <2> QED BY <2>1, <2>2, <2>3 DEF Writes
<1>5. Bearers(x)' = {}
  <2> SUFFICES ASSUME NEW d \in Given \ {x}, Keeps(d)', task'[d].before = Text(x) PROVE FALSE
    BY <1>2 DEF Bearers
  <2>1. CASE d = c BY <1>4, <2>1
  <2>2. CASE d # c BY <1>3, <2>2 DEF Clean, Bearers
  <2> QED BY <2>1, <2>2
<1> QED BY <1>2, <1>4, <1>5 DEF Clean

(* A text that no other command has is in one place at most. *)
LEMMA PerformKeepsToken ==
  ASSUME ContentInv, NEW c \in Given, HandlerMoves(c), UNCHANGED <<plan, outlived>>
  PROVE  TokenOK'
<1>1. /\ MovesOn(c) /\ Concludes(c) /\ Writes(c) /\ LedgerOK /\ PlacesOK /\ TokenOK /\ plan \in Plans
  BY DEF HandlerMoves, ContentInv, ContentTypeOK
<1> SUFFICES ASSUME NEW x \in Given, Kind(x) \in Prompts, ~Stray(x), Alone(x)
             PROVE  TokenOf(x)'
  BY PlanKept, StraysKept DEF TokenOK
<1>2. TokenOf(x) /\ Kind(x) \in Writing /\ Kind(x) \in Backed BY <1>1 DEF TokenOK, Prompts, Writing, Backed, Steps
<1>3. Text(x) # NoText BY <1>1, <1>2, GivenFacts
<1>4. Text(x)' = Text(x) /\ Given' = Given BY PlanKept
<1>5. \A d \in Given \ {c} : Keeps(d)' = Keeps(d) /\ task'[d].before = task[d].before BY <1>1 DEF MovesOn, Keeps
<1>6. Bearers(x)' = {d \in Given \ {x} : Keeps(d)' /\ task'[d].before = Text(x)} BY <1>4 DEF Bearers
<1>7. CASE c = x
  <2>1. Bearers(x)' = Bearers(x) BY <1>5, <1>6, <1>7 DEF Bearers
  <2>2. task[x].at # "idle" => effect[x] = "dispatched" BY <1>1, <1>2 DEF LedgerOK, Stray
  <2>3. task[x].at # "idle" BY <1>1, <1>7 DEF MovesOn
  <2>4. effect'[x] # "none" BY <1>1, <1>7, <2>2, <2>3 DEF Concludes, PlacesOK
  <2>5. Unfilled(x)' => task'[x].at = "fill" /\ task[x].at = "plan"
    BY <1>1, <1>2, <1>7, <2>4 DEF Unfilled, MovesOn, Prompts
  <2>6. Unfilled(x)' => Clean(x)'
    <3> SUFFICES ASSUME task'[x].at = "fill", task[x].at = "plan" PROVE Clean(x)' BY <2>5
    <3>1. Clean(x) BY <1>2 DEF TokenOf, Unfilled
    <3>2. page'.composer \in {page.composer, NoText} BY <1>1, <1>7 DEF Writes, Restores
    <3> QED BY <1>3, <1>4, <2>1, <3>1, <3>2 DEF Clean
  <2>7. page'.composer = Text(x) => Bearers(x) = {}
    <3>1. CASE page'.composer \in {page.composer, NoText} BY <1>2, <1>3, <3>1 DEF TokenOf
    <3>2. CASE task[x].at = "fill" BY <1>2, <3>2 DEF TokenOf, Unfilled, Clean
    <3>3. CASE Restores(x) BY <1>2, <3>3 DEF TokenOf, Restores, Keeps
    <3> QED BY <1>1, <1>7, <3>1, <3>2, <3>3 DEF Writes
  <2>8. Keeps(x)' => task'[x].before # Text(x)
    <3>1. CASE task[x].at = "fill" /\ task'[x].before = page.composer BY <1>2, <3>1 DEF TokenOf, Unfilled, Clean
    <3>2. CASE task[x].at = "button" /\ task'[x].before = task[x].before BY <1>2, <3>2 DEF TokenOf, Keeps
    <3> QED BY <1>1, <1>7, <3>1, <3>2 DEF Writes, Restores
  <2> QED BY <1>2, <1>4, <2>1, <2>6, <2>7, <2>8 DEF TokenOf
<1>8. CASE c # x
  <2>1. Text(c) # Text(x) BY <1>8 DEF Alone
  <2>2. task'[x] = task[x] /\ effect'[x] = effect[x] BY <1>1, <1>8 DEF MovesOn
  <2>3. Unfilled(x)' = Unfilled(x) /\ Keeps(x)' = Keeps(x) BY <2>2 DEF Unfilled, Keeps
  <2>4. Unfilled(x)' => Clean(x)'
    <3> SUFFICES ASSUME Clean(x) PROVE Clean(x)' BY <1>2, <2>3 DEF TokenOf
    <3> QED BY <1>1, <1>2, <1>8, <2>1, CleanKept
  <2>5. /\ page'.composer = Text(x) => Bearers(x)' = {}
        /\ \A d, e \in Bearers(x)' : d = e
    <3>1. CASE /\ page'.composer \in {page.composer, NoText}
               /\ Keeps(c)' => task[c].at = "button" /\ task'[c].before = task[c].before
      <4>1. Bearers(x)' \subseteq Bearers(x) BY <1>5, <1>6, <3>1 DEF Bearers, Keeps
      <4> QED BY <1>2, <1>3, <3>1, <4>1 DEF TokenOf
    <3>2. CASE /\ task[c].at = "fill" /\ page'.composer = Text(c)
               /\ Keeps(c)' /\ task'[c].before = page.composer
      <4>1. CASE page.composer = Text(x)
        <5>1. Bearers(x) = {} BY <1>2, <4>1 DEF TokenOf
        <5>2. \A d \in Bearers(x)' : d = c BY <1>5, <1>6, <5>1 DEF Bearers
        <5> QED BY <2>1, <3>2, <5>2
      <4>2. CASE page.composer # Text(x)
        <5>1. Bearers(x)' \subseteq Bearers(x) BY <1>5, <1>6, <3>2, <4>2 DEF Bearers
        <5> QED BY <1>2, <2>1, <3>2, <5>1 DEF TokenOf
      <4> QED BY <4>1, <4>2
    <3>3. CASE Restores(c)
      <4>1. Bearers(x)' \subseteq Bearers(x) \ {c} BY <1>5, <1>6, <3>3 DEF Bearers, Restores
      <4>2. task[c].before = Text(x) => c \in Bearers(x) BY <1>8, <3>3 DEF Bearers, Restores, Keeps
      <4>3. task[c].before = Text(x) => Bearers(x)' = {} BY <1>2, <4>1, <4>2 DEF TokenOf
      <4> QED BY <1>2, <3>3, <4>1, <4>3 DEF TokenOf, Restores
    <3> QED BY <1>1, <3>1, <3>2, <3>3 DEF Writes
  <2> QED BY <1>2, <1>4, <2>2, <2>3, <2>4, <2>5 DEF TokenOf
<1> QED BY <1>7, <1>8

(* It keeps what is known of the commands that reached the page. *)
LEMMA PerformKeepsSent ==
  ASSUME ContentInv, NEW c \in Given, HandlerMoves(c), UNCHANGED <<plan, outlived>>
  PROVE  SentOK'
<1>1. /\ MovesOn(c) /\ Concludes(c) /\ Withdraws(c) /\ Writes(c)
      /\ LedgerOK /\ PlacesOK /\ StoreOK /\ OrderOK /\ ClosedOK /\ TokenOK /\ SentOK /\ plan \in Plans
  BY DEF HandlerMoves, ContentInv, ContentTypeOK
<1>2. \A r : Closed(r)' <=> Closed(r) BY PerformKeepsStore
<1>3. ASSUME NEW d \in Given, Kind(d) # "passive", Projects(plan[d].request) PROVE Projects(plan[d].request)'
  BY <1>3, PerformKeepsStore
<1>4. Origins' \subseteq Origins \/ (Origins' \subseteq Origins \union {c} /\ task[c].at = "button" /\ task'[c].at = "evidence")
  <2>1. CASE Submitted' \subseteq Submitted
    <3>1. Origins' \subseteq Origins BY <2>1, OriginsSent, OriginsNext
    <3> QED BY <3>1
  <2>2. CASE /\ Submitted' \subseteq Submitted \union {[text |-> page.composer, by |-> c]}
             /\ task[c].at = "button" /\ task'[c].at = "evidence"
    <3>1. [text |-> page.composer, by |-> c].by = c OBVIOUS
    <3>2. Origins' \subseteq Origins \union {c} BY <2>2, <3>1, OriginsSent, OriginsNext
    <3> QED BY <2>2, <3>2
  <2> QED BY <1>1, <2>1, <2>2 DEF Writes
<1>5. ASSUME NEW d \in Given, d \in Origins'
      PROVE  Kind(d) \in Writing /\ (Kind(d) = "passive" => PassiveSent(d)')
  <2>1. CASE d \notin Origins
    <3>1. d = c /\ task[c].at = "button" /\ task'[c].at = "evidence" BY <1>4, <1>5, <2>1
    <3>2. Kind(c) \in Writing BY <1>1, <3>1 DEF PlacesOK, InComposer
    <3>3. report'[c] = report[c] /\ report[c] = "none" /\ task'[c].crossed
      BY <1>1, <3>1 DEF Concludes, LedgerOK, MovesOn
    <3> QED BY <3>1, <3>2, <3>3 DEF PassiveSent
  <2>2. CASE d \in Origins
    <3>1. Kind(d) \in Writing /\ (Kind(d) = "passive" => PassiveSent(d)) BY <1>1, <2>2 DEF SentOK
    <3>2. CASE d # c BY <1>1, <3>1, <3>2 DEF MovesOn, PassiveSent
    <3>3. ASSUME d = c, Kind(c) = "passive" PROVE PassiveSent(c)'
      <4>1. task[c].crossed /\ report[c] # "rejected" /\ task[c].at \in Working
        BY <1>1, <3>1, <3>3 DEF PassiveSent, Working, MovesOn
      <4>2. task'[c].at # "settle" /\ task'[c].at # "evidence" /\ task'[c].at \in {"idle", "anchor", "settle"}
        BY <1>1, <3>3, <4>1 DEF MovesOn, Backed, Steps
      <4>3. task'[c].at = "anchor" => task'[c].crossed BY <1>1, <4>1 DEF MovesOn
      <4>4. report'[c] # "rejected" /\ (task'[c].at = "idle" => report'[c] # "none")
        BY <1>1, <3>3, <4>1 DEF Concludes
      <4> QED BY <4>2, <4>3, <4>4 DEF PassiveSent
    <3> QED BY <3>1, <3>2, <3>3
  <2> QED BY <2>1, <2>2
<1>6. ASSUME NEW d \in Given, Own(d) \in Submitted', Counts(d) PROVE PromptSent(d)'
  <2>1. Kind(d) \in Prompts /\ Kind(d) \in Writing /\ Kind(d) \in Backed /\ Kind(d) # "passive" /\ ~Stray(d)
    BY <1>6 DEF Counts, Prompts, Writing, Backed, Steps
  <2>2. Text(d) # NoText BY <1>1, <2>1, GivenFacts
  <2>3. d \notin outlived BY <2>1 DEF Stray
  <2>4. CASE Own(d) \notin Submitted
    <3>1. /\ [text |-> page.composer, by |-> c] = Own(d)
          /\ task[c].at = "button" /\ task'[c].at = "evidence" /\ page'.composer = NoText
      BY <1>1, <1>6, <2>4 DEF Writes
    <3>2. d = c /\ page.composer = Text(c) BY <3>1 DEF Own
    <3>3. task[c].at \in InComposer /\ task[c].at \in AtWork BY <3>1 DEF InComposer, AtWork
    <3>4. Projects(plan[c].request) BY <1>1, <2>1, <3>2, <3>3 DEF StoreOK
    <3>5. effect'[c] = "dispatched" BY <1>1, <2>1, <2>3, <3>1, <3>2 DEF LedgerOK, Concludes
    <3>6. Bearers(c) = {}
      <4>1. CASE Strays
        <5>1. TokenOf(c) BY <1>1, <1>6, <2>1, <3>2, <4>1 DEF TokenOK, Counts
        <5> QED BY <3>2, <5>1 DEF TokenOf
      <4>2. CASE ~Strays
        <5>1. ASSUME NEW e \in Bearers(c) PROVE FALSE
          <6>1. e \in Given /\ e # c /\ task[e].at \in InComposer /\ ~Stray(e) BY <4>2 DEF Bearers, Keeps, InComposer, Strays
          <6> QED BY <1>1, <2>1, <3>2, <3>3, <6>1, TwoWriters
        <5> QED BY <5>1
      <4> QED BY <4>1, <4>2
    <3>7. Bearers(c)' = {} BY <1>1, <3>6, PlanKept DEF Bearers, Keeps, MovesOn
    <3>8. Clean(c)' BY <2>2, <3>1, <3>2, <3>7, PlanKept DEF Clean
    <3>9. Projects(plan[c].request)' BY <1>3, <2>1, <3>2, <3>4
    <3> QED BY <3>1, <3>2, <3>5, <3>8, <3>9 DEF PromptSent, Gone
  <2>5. CASE Own(d) \in Submitted
    <3>1. PromptSent(d) BY <1>1, <1>6, <2>5 DEF SentOK
    <3>2. d = c => task[d].at \in Working /\ effect[d] = "dispatched"
      BY <1>1, <2>1, <2>3, <3>1 DEF MovesOn, PromptSent, Working, LedgerOK
    <3>3. effect[d] = "dispatched" /\ task[d].at = "evidence" => ~StillThere(d)
      <4> SUFFICES ASSUME effect[d] = "dispatched", task[d].at = "evidence" PROVE ~StillThere(d) OBVIOUS
      <4>1. Projects(plan[d].request) /\ ~Closed(plan[d].request)
        BY <1>1, <2>1 DEF StoreOK, ClosedOK, AtWork, InComposer
      <4> QED BY <3>1, <4>1 DEF PromptSent, Gone, StillThere, Clean
    <3>4. task'[d].at \in {"idle", "evidence", "anchor", "settle"} BY <1>1, <3>1, <3>2 DEF MovesOn, PromptSent
    <3>5. effect'[d] \notin {"none", "cancelled", "notStarted"}
      <4>1. task[d].at = "settle" /\ d = c => task[d].outcome \notin {"none", "cancelled", "notStarted"}
        BY <1>1, <3>1, TypesUnfold DEF PlacesOK, PromptSent, ContentInv, Task, Outcomes
      <4> QED BY <1>1, <3>1, <4>1 DEF MovesOn, Concludes, PromptSent
    <3>6. task'[d].at = "settle" => task'[d].outcome # "cancelled"
      <4>1. CASE d # c BY <1>1, <3>1, <4>1 DEF MovesOn, PromptSent
      <4>2. CASE d = c BY <1>1, <3>2, <3>3, <4>2 DEF Withdraws
      <4> QED BY <4>1, <4>2
    <3>7. Gone(d)'
      <4> SUFFICES ASSUME effect'[d] \in {"dispatched", "uncertain"}, ~Closed(plan[d].request)
                   PROVE  Projects(plan[d].request)' /\ Clean(d)'
        BY <1>2, PlanKept DEF Gone
      <4>1. effect[d] \in {"dispatched", "uncertain"} BY <1>1 DEF MovesOn, Concludes
      <4>2. Projects(plan[d].request) /\ Clean(d) BY <3>1, <4>1 DEF PromptSent, Gone
      <4>3. CASE d = c /\ task[c].at = "evidence"
        <5>1. ~Restores(c) BY <3>2, <3>3, <4>3 DEF Restores
        <5>2. page'.composer \in {page.composer, NoText} BY <1>1, <4>3, <5>1 DEF Writes
        <5>3. Bearers(d)' = Bearers(d) BY <1>1, <4>3, PlanKept DEF Bearers, Keeps, MovesOn
        <5> QED BY <1>3, <2>1, <2>2, <4>2, <5>2, <5>3, PlanKept DEF Clean
      <4>4. CASE ~(d = c /\ task[c].at = "evidence")
        <5>1. task[c].at \in InComposer => c # d /\ Text(c) # Text(d)
          <6> SUFFICES ASSUME task[c].at \in InComposer PROVE c # d /\ Text(c) # Text(d) OBVIOUS
          <6>1. c # d BY <3>2, <4>4 DEF Working, InComposer
          <6>2. Stray(c) BY <1>1, <2>1, <4>1, <4>2, <6>1, OneAtATime
          <6>3. Alone(d) BY <1>6, <6>2 DEF Counts, Strays
          <6> QED BY <6>1, <6>3 DEF Alone
        <5> QED BY <1>1, <1>3, <2>1, <4>2, <5>1, CleanKept
      <4> QED BY <4>3, <4>4
    <3> QED BY <3>4, <3>5, <3>6, <3>7 DEF PromptSent
  <2> QED BY <2>4, <2>5
<1> QED BY <1>5, <1>6, PlanKept, StraysKept DEF SentOK
-----------------------------------------------------------------------------
(* The page, a judgement, a command that comes in, and a lost port. *)

\* The invariant but for its types.
Kept == LedgerOK /\ PlacesOK /\ StoreOK /\ OrderOK /\ ClosedOK /\ TokenOK /\ SentOK

(* The page, the person and the monitor keep the invariant. *)
LEMMA PageKeeps ==
  ASSUME ContentInv, Page \/ Collect, UNCHANGED <<plan, outlived>>
  PROVE  Kept'
<1>1. /\ plan \in Plans /\ GoodPage(page) /\ page \in Pages /\ req \in Projection \union {NoRequest}
      /\ LedgerOK /\ PlacesOK /\ StoreOK /\ OrderOK /\ ClosedOK /\ TokenOK /\ SentOK /\ ContentTypeOK
  BY TypesUnfold DEF ContentInv, GoodPage
<1>2. UNCHANGED <<task, effect, report>>
  BY DEF Page, Collect, Render, Drop, Finish, Move, TypeText, Press
<1>3. \A r : Projects(r)' <=> Projects(r)
  <2>1. CASE Page
    <3>1. UNCHANGED req BY <2>1 DEF Page, Render, Drop, Finish, Move, TypeText, Press
    <3> QED BY <3>1 DEF Projects, Holds
  <2>2. CASE Collect
    <3>1. req \in Projection BY <1>1, <2>2 DEF Collect, Holds
    <3>2. Newest(req.pending, req.text) \in Keys BY <1>1, <3>1, NewestKey DEF Projection
    <3>3. req' = Adopted(req, Newest(req.pending, req.text)) BY <2>2 DEF Collect
    <3>4. req' \in Projection /\ req'.request = req.request
      BY <3>1, <3>2, <3>3, Numbers, GivenFacts, <1>1 DEF Adopted, Projection
    <3> QED BY <3>1, <3>4, NoRequestAssumption DEF Projects, Holds
  <2> QED BY <2>1, <2>2
<1>4. page'.composer \in {page.composer, NoText, Typed}
  BY <1>1 DEF Page, Collect, Render, Drop, Finish, Move, TypeText, Press, Takes, Pages
<1>5. Submitted' \subseteq Submitted \union {[text |-> page.composer, by |-> User]}
  <2>1. CASE Render \/ Drop \/ Press BY <1>1, <2>1, SubmittedKept DEF Press
  <2>2. CASE Finish \/ Move \/ TypeText \/ Collect
    <3>1. page'.turns = page.turns /\ page'.taken = page.taken
      BY <1>1, <2>2 DEF Finish, Move, TypeText, Collect, Pages
    <3> QED BY <1>1, <3>1, SubmittedKept
  <2> QED BY <2>1, <2>2 DEF Page
<1>6. Origins' \subseteq Origins \union {User} BY <1>5, OriginsSent, OriginsNext
<1>7. ASSUME NEW d \in Given, Own(d) \in Submitted' PROVE Own(d) \in Submitted
  <2>1. Own(d).by = d /\ [text |-> page.composer, by |-> User].by = User BY DEF Own
  <2> QED BY <1>1, <1>5, <1>7, <2>1, GivenFacts
<1>8. \A r : Closed(r)' <=> Closed(r) BY <1>2, ClosedKept
<1>9. \A x \in Given : Keeps(x)' = Keeps(x) /\ Unfilled(x)' = Unfilled(x) /\ Bearers(x)' = Bearers(x)
  BY <1>2, PlanKept DEF Keeps, Unfilled, Bearers
<1>10. ASSUME NEW x \in Given, Kind(x) \in Writing
       PROVE  /\ Clean(x) => Clean(x)'
              /\ page'.composer = Text(x) => page.composer = Text(x)
  <2>1. Text(x) # NoText /\ Text(x) # Typed BY <1>1, <1>10, GivenFacts
  <2> QED BY <1>4, <1>9, <2>1, PlanKept DEF Clean
<1>11. LedgerOK' /\ PlacesOK' /\ OrderOK'
  BY <1>1, <1>2, PlanKept DEF LedgerOK, PlacesOK, OrderOK
<1>12. StoreOK' BY <1>1, <1>2, <1>3, PlanKept, StraysKept DEF StoreOK
<1>13. ClosedOK' BY <1>1, <1>3, <1>8, PlanKept DEF ClosedOK
<1>14. TokenOK'
  <2> SUFFICES ASSUME NEW x \in Given, Kind(x) \in Prompts, ~Stray(x), Alone(x)
               PROVE  TokenOf(x)'
    BY PlanKept, StraysKept DEF TokenOK
  <2>1. TokenOf(x) /\ Kind(x) \in Writing BY <1>1 DEF TokenOK, Prompts, Writing
  <2> QED BY <1>2, <1>9, <1>10, <2>1, PlanKept DEF TokenOf
<1>15. SentOK'
  <2>1. ASSUME NEW d \in Given, d \in Origins' PROVE Kind(d) \in Writing /\ (Kind(d) = "passive" => PassiveSent(d)')
    <3>1. d \in Origins BY <1>1, <1>6, <2>1, GivenFacts
    <3>2. Kind(d) \in Writing /\ (Kind(d) = "passive" => PassiveSent(d)) BY <1>1, <3>1 DEF SentOK
    <3> QED BY <1>2, <3>2 DEF PassiveSent
  <2>2. ASSUME NEW d \in Given, Own(d) \in Submitted', Counts(d) PROVE PromptSent(d)'
    <3>1. PromptSent(d) /\ Kind(d) \in Writing BY <1>1, <1>7, <2>2 DEF SentOK, Counts, Prompts, Writing
    <3>2. Gone(d) => Gone(d)' BY <1>2, <1>3, <1>8, <1>10, <3>1, PlanKept DEF Gone
    <3> QED BY <1>2, <3>1, <3>2 DEF PromptSent
  <2> QED BY <2>1, <2>2, PlanKept, StraysKept DEF SentOK
<1> QED BY <1>11, <1>12, <1>13, <1>14, <1>15 DEF Kept

(* A judgement keeps it: a prompt that has gone is not found unsent. *)
LEMMA ReconcileKeeps ==
  ASSUME ContentInv, NEW c \in Given, Reconcile(c), UNCHANGED <<plan, outlived>>
  PROVE  Kept'
<1>1. /\ plan \in Plans /\ GoodPage(page) /\ effect \in Ledger /\ report \in Reports
      /\ LedgerOK /\ PlacesOK /\ StoreOK /\ OrderOK /\ ClosedOK /\ TokenOK /\ SentOK /\ ContentTypeOK /\ EffectsOK
  BY TypesUnfold DEF ContentInv, LedgerOK, EffectsOK
<1>. DEFINE t == plan[c].of
<1>2. t \in Given /\ Kind(t) \in Backed BY <1>1, ReconcileTypes
<1>3. /\ Kind(c) = "reconcile" /\ effect[t] = "uncertain" /\ report[c] = "none" /\ task[c] = NoTask
      /\ UNCHANGED <<page, req, task>> /\ report' = [report EXCEPT ![c] = "completed"]
  BY DEF Reconcile, Due
<1>4. PICK found \in Finding(t) : effect' = [effect EXCEPT ![t] = found] BY DEF Reconcile
<1>5. found \in {"succeeded", "notStarted", "uncertain"} BY <1>1, <1>2, <1>4, FindingForms
<1>6. Kind(t) \in Prompts /\ found = "notStarted" => Projects(plan[t].request) /\ page.composer = Text(t)
  BY <1>4 DEF Finding, Prompts, Unsent
<1>. HIDE DEF t
<1>7. effect'[t] = found /\ \A d \in Given \ {t} : effect'[d] = effect[d] BY <1>1, <1>2, <1>4 DEF Ledger
<1>8. report'[c] = "completed" /\ \A d \in Given \ {c} : report'[d] = report[d] BY <1>1, <1>3 DEF Reports
<1>9. \A r : Projects(r)' <=> Projects(r) BY <1>3 DEF Projects, Holds
<1>10. \A r : Closed(r)' <=> Closed(r) BY <1>3, <1>8, ClosedKept
<1>11. LedgerOK'
  <2> SUFFICES ASSUME NEW d \in Given
               PROVE  /\ Kind(d) \in Backed =>
                           /\ report'[d] \in {"none", "duplicate"}
                           /\ task'[d].at # "idle" /\ d \notin outlived => effect'[d] = "dispatched"
                           /\ d \in outlived => effect'[d] \notin {"none", "dispatched"} /\ task'[d].at # "plan"
                      /\ Kind(d) \notin Backed => effect'[d] = "none"
                      /\ report'[d] = "rejected" => Kind(d) = "passive"
                      /\ task'[d].at # "idle" => report'[d] = "none"
    BY PlanKept DEF LedgerOK
  <2>1. d = c => Kind(d) \notin Backed /\ task[d].at = "idle" BY <1>3, IdleTask DEF Backed, Steps
  <2>2. d = t => task[d].at = "idle" \/ d \in outlived BY <1>1, <1>2, <1>3 DEF LedgerOK
  <2>3. Kind(d) \in Backed => report'[d] \in {"none", "duplicate"} BY <1>1, <1>8, <2>1 DEF LedgerOK
  <2>4. Kind(d) \in Backed =>
           /\ task'[d].at # "idle" /\ d \notin outlived => effect'[d] = "dispatched"
           /\ d \in outlived => effect'[d] \notin {"none", "dispatched"} /\ task'[d].at # "plan"
    BY <1>1, <1>3, <1>5, <1>7, <2>2 DEF LedgerOK
  <2>5. Kind(d) \notin Backed => effect'[d] = "none" BY <1>1, <1>2, <1>7 DEF LedgerOK
  <2>6. report'[d] = "rejected" => Kind(d) = "passive" BY <1>1, <1>8 DEF LedgerOK
  <2>7. task'[d].at # "idle" => report'[d] = "none" BY <1>1, <1>3, <1>8, <2>1 DEF LedgerOK
  <2> QED BY <2>3, <2>4, <2>5, <2>6, <2>7
<1>12. PlacesOK' /\ StoreOK' /\ ClosedOK'
  <2>1. PlacesOK' BY <1>1, <1>3, PlanKept DEF PlacesOK
  <2>2. StoreOK' BY <1>1, <1>3, <1>9, PlanKept, StraysKept DEF StoreOK
  <2>3. ClosedOK' BY <1>1, <1>9, <1>10, PlanKept DEF ClosedOK
  <2> QED BY <2>1, <2>2, <2>3
<1>13. OrderOK'
  <2>1. \A d \in Given : effect'[d] # "none" => effect[d] # "none" BY <1>3, <1>7
  <2>2. \A d \in Given : effect[d] = "succeeded" => effect'[d] = "succeeded" BY <1>3, <1>7
  <2> QED BY <1>1, <2>1, <2>2, PlanKept DEF OrderOK
<1>14. \A x \in Given : Keeps(x)' = Keeps(x) /\ Bearers(x)' = Bearers(x) /\ Clean(x)' = Clean(x)
  BY <1>3, PlanKept DEF Keeps, Bearers, Clean
<1>15. TokenOK'
  <2> SUFFICES ASSUME NEW x \in Given, Kind(x) \in Prompts, ~Stray(x), Alone(x)
               PROVE  TokenOf(x)'
    BY PlanKept, StraysKept DEF TokenOK
  <2>1. TokenOf(x) BY <1>1 DEF TokenOK
  <2>2. Unfilled(x)' => Unfilled(x) BY <1>3, <1>5, <1>7 DEF Unfilled
  <2> QED BY <1>3, <1>14, <2>1, <2>2, PlanKept DEF TokenOf
<1>16. Submitted' = Submitted BY <1>1, <1>3, SubmittedKept
<1>17. SentOK'
  <2>1. ASSUME NEW d \in Given, d \in Origins' PROVE Kind(d) \in Writing /\ (Kind(d) = "passive" => PassiveSent(d)')
    <3>1. d \in Origins BY <1>16, <2>1, OriginsSent, OriginsNext
    <3>2. Kind(d) \in Writing /\ (Kind(d) = "passive" => PassiveSent(d)) BY <1>1, <3>1 DEF SentOK
    <3>3. d # c BY <1>3, <3>2 DEF Writing
    <3> QED BY <1>3, <1>8, <3>2, <3>3 DEF PassiveSent
  <2>2. ASSUME NEW d \in Given, Own(d) \in Submitted', Counts(d) PROVE PromptSent(d)'
    <3>1. PromptSent(d) /\ Kind(d) \in Prompts BY <1>1, <1>16, <2>2 DEF SentOK, Counts
    <3>2. d = t => found # "notStarted"
      BY <1>1, <1>3, <1>6, <3>1 DEF PromptSent, Gone, ClosedOK, Clean
    <3>3. effect'[d] \notin {"none", "cancelled", "notStarted"} BY <1>5, <1>7, <3>1, <3>2 DEF PromptSent
    <3>4. effect'[d] \in {"dispatched", "uncertain"} => effect[d] \in {"dispatched", "uncertain"}
      BY <1>3, <1>7
    <3>5. Gone(d)' BY <1>9, <1>10, <1>14, <3>1, <3>4, PlanKept DEF PromptSent, Gone
    <3> QED BY <1>3, <3>1, <3>3, <3>5 DEF PromptSent
  <2> QED BY <2>1, <2>2, PlanKept, StraysKept DEF SentOK
<1> QED BY <1>11, <1>12, <1>13, <1>15, <1>17 DEF Kept

\* What the arrival of a command may do.
CameIn(c) ==
    /\ \A d \in Given \ {c} : task'[d] = task[d] /\ effect'[d] = effect[d] /\ report'[d] = report[d]
    /\ task[c].at = "idle" /\ effect[c] = "none" /\ report[c] = "none"
    /\ effect'[c] = (IF Kind(c) \in Backed THEN "dispatched" ELSE "none")
    /\ task'[c].at \in {"idle", "plan", "perform", "boundary"}
    /\ task'[c].at = "idle" => task'[c] = NoTask
    /\ task'[c].at = "plan" => Kind(c) \in Backed
    /\ task'[c].at = "boundary" => Kind(c) = "resume"
    /\ task'[c].at # "idle" => report'[c] = "none"
    /\ Kind(c) \in Backed => report'[c] \in {"none", "duplicate"}
    /\ report'[c] = "rejected" => Kind(c) = "passive"
    /\ UNCHANGED page
    /\ \A b \in plan[c].after : Done(b)

\* What it may do to the store.
StoreTurns(c) ==
    \/ Holds' = Holds /\ (Holds => req'.request = req.request)
    \/ /\ ~Holds /\ Projects(plan[c].request)'
       /\ Kind(c) = "passive" \/ (Kind(c) \in Backed /\ ~Closed(plan[c].request))
    \/ /\ Kind(c) = "release" /\ Projects(plan[c].request) /\ req' = NoRequest /\ report'[c] = "completed"
       /\ \A b \in Given : plan[b].request = plan[c].request => effect[b] # "dispatched"

Arrival(c) ==
    /\ CameIn(c) /\ StoreTurns(c)
    /\ Kind(c) \in Writing
       /\ (task'[c].at = "perform" \/ (task'[c].at = "plan" /\ task'[c].outcome = "none"))
       => Projects(plan[c].request)'
    /\ Kind(c) = "release" /\ report'[c] = "completed" => ~Holds'

(* Each command that comes in is such an arrival. *)
LEMMA HandleSteps ==
  ASSUME ContentTypeOK, NEW c \in Given, Handle(c), UNCHANGED <<plan, outlived>>
  PROVE  Arrival(c)
<1>1. /\ plan \in Plans /\ GoodPage(page) /\ req \in Projection \union {NoRequest}
      /\ task \in [Given -> Task] /\ effect \in Ledger /\ named \in Names /\ report \in Reports
      /\ (Holds => req \in Projection) /\ Count \in Baseline
  BY TypesUnfold, CountKey, Numbers DEF Holds
<1>2. Comes(c) /\ UNCHANGED page
  BY DEF Handle, ReceiveStep, ReceiveSteer, ReceiveCancel, ReceivePassive, ReceiveRelease, ReceiveResume
<1>3. /\ task[c] = NoTask /\ task[c].at = "idle" /\ effect[c] = "none" /\ report[c] = "none"
      /\ \A b \in plan[c].after : Done(b)
      /\ Kind(c) \in Backed => Leasable(plan[c].request)
  BY <1>2, IdleTask DEF Comes, Due
<1>4. /\ \A d \in Given \ {c} : effect'[d] = effect[d]
      /\ effect'[c] = (IF Kind(c) \in Backed THEN "dispatched" ELSE "none")
  BY <1>1, <1>2, <1>3 DEF Comes, Ledger
<1>5. Begins(c) => /\ task'[c].at = "plan" /\ task'[c].outcome = "none"
                   /\ \A d \in Given \ {c} : task'[d] = task[d]
  BY <1>1 DEF Begins, NoTask
<1>6. ASSUME NEW v, v # "none", RefuseEffect(c, v)
      PROVE  /\ task'[c].at = "plan" /\ task'[c].outcome # "none"
             /\ \A d \in Given \ {c} : task'[d] = task[d]
  BY <1>1, <1>6 DEF RefuseEffect, NoTask
<1>7. Kind(c) \in Backed => ~Closed(plan[c].request) BY <1>3 DEF Leasable
<1>8. ASSUME req' \in Projection, req'.request = req.request, Holds
      PROVE  Holds' = Holds /\ (Holds => req'.request = req.request) /\ \A r : Projects(r)' <=> Projects(r)
  BY <1>8, NoRequestAssumption DEF Holds, Projects
<1>9. UNCHANGED req => StoreTurns(c) /\ \A r : Projects(r)' <=> Projects(r) BY DEF StoreTurns, Holds, Projects
<1>10. CASE ReceiveStep(c)
  <2>1. Kind(c) \in Backed /\ Kind(c) # "release" /\ Kind(c) \in Steps
    BY <1>10 DEF ReceiveStep, Backed, Steps
  <2>2. ASSUME RefuseEffect(c, "uncertain"), UNCHANGED <<req, report>> PROVE Arrival(c)
    <3>1. /\ task'[c].at = "plan" /\ task'[c].outcome # "none"
          /\ \A d \in Given \ {c} : task'[d] = task[d]
      BY <1>6, <2>2
    <3>2. CameIn(c) BY <1>2, <1>3, <1>4, <2>1, <2>2, <3>1 DEF CameIn
    <3> QED BY <1>9, <2>1, <2>2, <3>1, <3>2 DEF Arrival
  <2>3. ASSUME Begins(c), UNCHANGED report, StoreTurns(c), Kind(c) \in Writing => Projects(plan[c].request)'
        PROVE  Arrival(c)
    <3>1. CameIn(c) BY <1>2, <1>3, <1>4, <1>5, <2>1, <2>3 DEF CameIn
    <3> QED BY <1>5, <2>1, <2>3, <3>1 DEF Arrival
  <2>4. CASE /\ plan[c].retry /\ Holds /\ RetryProved(c) /\ req' = Fresh(req.request)
             /\ Begins(c) /\ UNCHANGED report
    <3>1. Fresh(req.request) \in Projection /\ Fresh(req.request).request = req.request
      BY <1>1, <2>4, StoreForms DEF Fresh
    <3>2. Kind(c) \notin Writing BY <1>1, <2>4, GivenFacts DEF Writing
    <3>3. StoreTurns(c) BY <1>8, <2>4, <3>1 DEF StoreTurns
    <3> QED BY <2>3, <2>4, <3>2, <3>3
  <2>5. CASE report' = [report EXCEPT ![c] = "duplicate"] /\ UNCHANGED <<task, req>>
    <3>1. report'[c] = "duplicate" /\ \A d \in Given \ {c} : report'[d] = report[d] BY <1>1, <2>5 DEF Reports
    <3>2. CameIn(c) BY <1>2, <1>3, <1>4, <2>1, <2>5, <3>1 DEF CameIn
    <3> QED BY <1>3, <1>9, <2>1, <2>5, <3>2 DEF Arrival
  <2>. DEFINE p == IF Holds THEN req ELSE [Fresh(plan[c].request) EXCEPT !.rank = 1]
              q == CASE Kind(c) = "submit" -> [Armed(p, c, Count) EXCEPT !.armed = TRUE]
                     [] Kind(c) = "files"  -> [p EXCEPT !.rank = 5]
                     [] OTHER              -> p
  <2>6. CASE (~Holds \/ Continues(c)) /\ Begins(c) /\ UNCHANGED report /\ req' = q
    <3>1. Holds => Projects(plan[c].request) BY <2>6 DEF Continues
    <3>2. p \in Projection /\ p.request = plan[c].request
      <4>1. Fresh(plan[c].request) \in Projection /\ Fresh(plan[c].request).request = plan[c].request
        BY StoreForms DEF Fresh
      <4>2. [Fresh(plan[c].request) EXCEPT !.rank = 1] \in Projection BY <4>1, StoreForms
      <4>3. [Fresh(plan[c].request) EXCEPT !.rank = 1].request = plan[c].request BY <4>1 DEF Projection
      <4> QED BY <1>1, <3>1, <4>2, <4>3 DEF Projects
    <3>. HIDE DEF p
    <3>3. Armed(p, c, Count) \in Projection /\ Armed(p, c, Count).request = p.request
      BY <1>1, <3>2, StoreForms DEF Armed, Projection
    <3>4. q \in Projection /\ q.request = plan[c].request
      <4>1. [Armed(p, c, Count) EXCEPT !.armed = TRUE] \in Projection /\ [p EXCEPT !.rank = 5] \in Projection
        BY <3>2, <3>3, StoreForms
      <4>2. [Armed(p, c, Count) EXCEPT !.armed = TRUE].request = p.request /\ [p EXCEPT !.rank = 5].request = p.request
        BY <3>2, <3>3 DEF Projection
      <4> QED BY <3>2, <3>3, <4>1, <4>2
    <3>. HIDE DEF q
    <3>5. Projects(plan[c].request)' /\ Holds'
      <4>1. Holds' /\ req'.request = plan[c].request BY <2>6, <3>4, NoRequestAssumption DEF Holds
      <4> QED BY <4>1, PlanKept DEF Projects
    <3>6. Holds => req.request = plan[c].request BY <3>1 DEF Projects
    <3>7. StoreTurns(c) BY <1>7, <2>1, <2>6, <3>4, <3>5, <3>6 DEF StoreTurns
    <3> QED BY <2>3, <2>6, <3>5, <3>7
  <2>7. \/ /\ plan[c].retry /\ Holds /\ RetryProved(c) /\ req' = Fresh(req.request)
           /\ Begins(c) /\ UNCHANGED report
        \/ report' = [report EXCEPT ![c] = "duplicate"] /\ UNCHANGED <<task, req>>
        \/ (~Holds \/ Continues(c)) /\ Begins(c) /\ UNCHANGED report /\ req' = q
        \/ RefuseEffect(c, "uncertain") /\ UNCHANGED <<req, report>>
    BY <1>10 DEF ReceiveStep
  <2>. HIDE DEF q
  <2> QED BY <2>2, <2>4, <2>5, <2>6, <2>7
<1>11. CASE ReceiveSteer(c)
  <2>1. Kind(c) \in Backed /\ Kind(c) # "release" /\ UNCHANGED report BY <1>11 DEF ReceiveSteer, Backed, Steps
  <2>2. CASE Projects(plan[c].request)
    <3>1. Begins(c) /\ req' = Armed(req, c, Count) BY <1>11, <2>2 DEF ReceiveSteer
    <3>2. req' \in Projection /\ req'.request = req.request
      BY <1>1, <2>2, <3>1, StoreForms DEF Projects, Armed, Projection
    <3>3. Holds' = Holds /\ req'.request = req.request /\ Projects(plan[c].request)' BY <1>8, <2>2, <3>2 DEF Projects
    <3>4. CameIn(c) BY <1>2, <1>3, <1>4, <1>5, <2>1, <3>1 DEF CameIn
    <3> QED BY <1>5, <2>1, <3>1, <3>3, <3>4 DEF Arrival, StoreTurns
  <2>3. CASE ~Projects(plan[c].request)
    <3>1. /\ RefuseEffect(c, "uncertain")
          /\ req' = IF Holds THEN [req EXCEPT !.pending = NoBase, !.text = NoText] ELSE req
      BY <1>11, <2>3 DEF ReceiveSteer
    <3>2. StoreTurns(c)
      <4>1. CASE Holds
        <5>1. req' \in Projection /\ req'.request = req.request BY <1>1, <3>1, <4>1, StoreForms DEF Projection
        <5> QED BY <1>8, <4>1, <5>1 DEF StoreTurns
      <4>2. CASE ~Holds BY <1>9, <3>1, <4>2
      <4> QED BY <4>1, <4>2
    <3>3. task'[c].at = "plan" /\ task'[c].outcome # "none" /\ \A d \in Given \ {c} : task'[d] = task[d]
      BY <1>6, <3>1
    <3>4. CameIn(c) BY <1>2, <1>3, <1>4, <2>1, <3>3 DEF CameIn
    <3> QED BY <2>1, <3>2, <3>3, <3>4 DEF Arrival
  <2> QED BY <2>2, <2>3
<1>12. CASE ReceiveCancel(c)
  <2>1. Kind(c) \in Backed /\ Kind(c) \notin Writing /\ Kind(c) # "release" /\ UNCHANGED <<req, report>>
    BY <1>12 DEF ReceiveCancel, Backed, Steps, Writing
  <2>2. task'[c].at = "plan" /\ \A d \in Given \ {c} : task'[d] = task[d] BY <1>5, <1>6, <1>12 DEF ReceiveCancel
  <2>3. CameIn(c) BY <1>2, <1>3, <1>4, <2>1, <2>2 DEF CameIn
  <2> QED BY <1>9, <2>1, <2>3 DEF Arrival
<1>13. CASE ReceivePassive(c)
  <2>1. Kind(c) = "passive" /\ Kind(c) \notin Backed BY <1>13 DEF ReceivePassive, Backed, Steps
  <2>2. CASE MayClaim
    <3>1. /\ Claim(plan[c].request) /\ UNCHANGED report
          /\ task' = [task EXCEPT ![c] = [NoTask EXCEPT !.at = "perform"]]
      BY <1>13, <2>2 DEF ReceivePassive
    <3>2. task'[c].at = "perform" /\ \A d \in Given \ {c} : task'[d] = task[d] BY <1>1, <3>1 DEF NoTask
    <3>3. req' = Fresh(plan[c].request) /\ ~Holds BY <2>2, <3>1 DEF Claim, MayClaim
    <3>4. req' \in Projection /\ req'.request = plan[c].request BY <3>3, StoreForms DEF Fresh
    <3>5. Projects(plan[c].request)'
      <4>1. Holds' BY <3>4, NoRequestAssumption DEF Holds
      <4> QED BY <3>4, <4>1, PlanKept DEF Projects
    <3>6. CameIn(c) BY <1>2, <1>3, <1>4, <2>1, <3>1, <3>2 DEF CameIn
    <3> QED BY <2>1, <3>3, <3>5, <3>6 DEF Arrival, StoreTurns
  <2>3. CASE ~MayClaim
    <3>1. report' = [report EXCEPT ![c] = "rejected"] /\ UNCHANGED <<req, task>> BY <1>13, <2>3 DEF ReceivePassive
    <3>2. report'[c] = "rejected" /\ \A d \in Given \ {c} : report'[d] = report[d] BY <1>1, <3>1 DEF Reports
    <3>3. CameIn(c) BY <1>2, <1>3, <1>4, <2>1, <3>1, <3>2 DEF CameIn
    <3> QED BY <1>3, <1>9, <2>1, <3>1, <3>3 DEF Arrival
  <2> QED BY <2>2, <2>3
<1>14. CASE ReceiveRelease(c)
  <2>. DEFINE stale == plan[c].retry /\ page.generating
              other == Holds /\ ~Projects(plan[c].request)
  <2>1. /\ Kind(c) = "release" /\ UNCHANGED task
        /\ \A b \in Given : plan[b].request = plan[c].request => effect[b] # "dispatched"
        /\ report' = [report EXCEPT ![c] = IF stale \/ other THEN "failed" ELSE "completed"]
        /\ IF ~stale /\ Projects(plan[c].request) THEN req' = NoRequest ELSE UNCHANGED req
    BY <1>14 DEF ReceiveRelease, Release
  <2>. HIDE DEF stale
  <2>2. Kind(c) \notin Backed /\ Kind(c) \notin Writing BY <2>1 DEF Backed, Steps, Writing
  <2>3. /\ report'[c] = (IF stale \/ other THEN "failed" ELSE "completed")
        /\ \A d \in Given \ {c} : report'[d] = report[d]
    BY <1>1, <2>1 DEF Reports
  <2>4. CameIn(c) BY <1>2, <1>3, <1>4, <2>1, <2>2, <2>3 DEF CameIn
  <2>5. StoreTurns(c)
    <3>1. CASE ~stale /\ Projects(plan[c].request) BY <2>1, <2>3, <3>1 DEF StoreTurns
    <3>2. CASE ~(~stale /\ Projects(plan[c].request)) BY <1>9, <2>1, <3>2
    <3> QED BY <3>1, <3>2
  <2>6. report'[c] = "completed" => ~Holds' BY <2>1, <2>3 DEF Holds, Projects
  <2> QED BY <2>2, <2>4, <2>5, <2>6 DEF Arrival
<1>15. CASE ReceiveResume(c)
  <2>1. Kind(c) = "resume" /\ Kind(c) \notin Backed /\ Kind(c) \notin Writing /\ UNCHANGED req
    BY <1>15 DEF ReceiveResume, Backed, Steps, Writing
  <2>2. CASE Projects(plan[c].request)
    <3>1. task' = [task EXCEPT ![c] = [NoTask EXCEPT !.at = "boundary"]] /\ UNCHANGED report
      BY <1>15, <2>2 DEF ReceiveResume
    <3>2. task'[c].at = "boundary" /\ \A d \in Given \ {c} : task'[d] = task[d] BY <1>1, <3>1 DEF NoTask
    <3>3. CameIn(c) BY <1>2, <1>3, <1>4, <2>1, <3>1, <3>2 DEF CameIn
    <3> QED BY <1>9, <2>1, <3>3 DEF Arrival
  <2>3. CASE ~Projects(plan[c].request)
    <3>1. report' = [report EXCEPT ![c] = "error"] /\ UNCHANGED task BY <1>15, <2>3 DEF ReceiveResume
    <3>2. report'[c] = "error" /\ \A d \in Given \ {c} : report'[d] = report[d] BY <1>1, <3>1 DEF Reports
    <3>3. CameIn(c) BY <1>2, <1>3, <1>4, <2>1, <3>1, <3>2 DEF CameIn
    <3> QED BY <1>9, <2>1, <3>3 DEF Arrival
  <2> QED BY <2>2, <2>3
<1> QED BY <1>10, <1>11, <1>12, <1>13, <1>14, <1>15 DEF Handle

(* An arrival keeps the invariant. *)
LEMMA HandleKeeps ==
  ASSUME ContentInv, NEW c \in Given, Arrival(c), UNCHANGED <<plan, outlived>>
  PROVE  Kept'
<1>1. /\ plan \in Plans /\ GoodPage(page) /\ effect \in Ledger /\ report \in Reports
      /\ LedgerOK /\ PlacesOK /\ StoreOK /\ OrderOK /\ ClosedOK /\ TokenOK /\ SentOK /\ CameIn(c) /\ StoreTurns(c)
  BY TypesUnfold DEF ContentInv, Arrival
<1>2. ASSUME NEW r, Closed(r) PROVE Closed(r)'
  <2>1. PICK b \in Given : Kind(b) = "release" /\ plan[b].request = r /\ report[b] = "completed" BY <1>2 DEF Closed
  <2>2. b # c BY <1>1, <2>1 DEF CameIn
  <2>3. report'[b] = "completed" BY <1>1, <2>1, <2>2 DEF CameIn
  <2> QED BY <2>1, <2>3, PlanKept DEF Closed
<1>3. ASSUME NEW r, Closed(r)', ~Closed(r)
      PROVE  Kind(c) = "release" /\ plan[c].request = r /\ report'[c] = "completed"
  <2>1. PICK b \in Given : Kind(b) = "release" /\ plan[b].request = r /\ report'[b] = "completed"
    BY <1>3, PlanKept DEF Closed
  <2>2. b = c BY <1>1, <1>3, <2>1 DEF CameIn, Closed
  <2> QED BY <2>1, <2>2
<1>4. ASSUME NEW d \in Given, Projects(plan[d].request)
      PROVE  \/ Projects(plan[d].request)'
             \/ /\ Kind(c) = "release" /\ Closed(plan[d].request)' /\ plan[d].request = plan[c].request
                /\ \A b \in Given : plan[b].request = plan[d].request => effect[b] # "dispatched"
  <2>1. CASE Holds' = Holds /\ (Holds => req'.request = req.request)
    <3>1. Holds' /\ req'.request = plan[d].request BY <1>4, <2>1 DEF Projects
    <3> QED BY <3>1, PlanKept DEF Projects
  <2>2. CASE ~Holds BY <1>4, <2>2 DEF Projects
  <2>3. CASE /\ Kind(c) = "release" /\ Projects(plan[c].request) /\ req' = NoRequest /\ report'[c] = "completed"
             /\ \A b \in Given : plan[b].request = plan[c].request => effect[b] # "dispatched"
    <3>1. plan[d].request = plan[c].request BY <1>4, <2>3 DEF Projects
    <3>2. Closed(plan[d].request)' BY <2>3, <3>1, PlanKept DEF Closed
    <3> QED BY <2>3, <3>1, <3>2
  <2> QED BY <1>1, <2>1, <2>2, <2>3 DEF StoreTurns
<1>5. LedgerOK'
  <2> SUFFICES ASSUME NEW d \in Given
               PROVE  /\ Kind(d) \in Backed =>
                           /\ report'[d] \in {"none", "duplicate"}
                           /\ task'[d].at # "idle" /\ d \notin outlived => effect'[d] = "dispatched"
                           /\ d \in outlived => effect'[d] \notin {"none", "dispatched"} /\ task'[d].at # "plan"
                      /\ Kind(d) \notin Backed => effect'[d] = "none"
                      /\ report'[d] = "rejected" => Kind(d) = "passive"
                      /\ task'[d].at # "idle" => report'[d] = "none"
    BY PlanKept DEF LedgerOK
  <2>1. CASE d # c BY <1>1, <2>1 DEF CameIn, LedgerOK
  <2>2. CASE d = c
    <3>1. Kind(c) \in Backed => c \notin outlived BY <1>1 DEF CameIn, LedgerOK
    <3> QED BY <1>1, <2>2, <3>1 DEF CameIn
  <2> QED BY <2>1, <2>2
<1>6. PlacesOK'
  <2> SUFFICES ASSUME NEW d \in Given
               PROVE  /\ task'[d].at = "idle" => task'[d] = NoTask
                      /\ task'[d].at \in {"plan", "settle"} => Kind(d) \in Backed
                      /\ task'[d].at = "settle" => task'[d].outcome # "none"
                      /\ task'[d].at \in InComposer => Kind(d) \in Writing
                      /\ task'[d].at = "boundary" => Kind(d) = "resume"
                      /\ task'[d].at = "evidence" => task'[d].crossed
    BY PlanKept DEF PlacesOK
  <2>1. CASE d # c BY <1>1, <2>1 DEF CameIn, PlacesOK
  <2>2. CASE d = c BY <1>1, <2>2 DEF CameIn, InComposer
  <2> QED BY <2>1, <2>2
<1>7. StoreOK'
  <2> SUFFICES ASSUME NEW d \in Given, Kind(d) \in Writing, ~Stray(d),
                      task'[d].at \in AtWork \/ (task'[d].at = "plan" /\ task'[d].outcome = "none")
               PROVE  Projects(plan[d].request)'
    BY PlanKept, StraysKept DEF StoreOK
  <2>1. CASE d = c
    <3>1. task'[c].at \in AtWork => task'[c].at = "perform" BY <1>1 DEF CameIn, AtWork, InComposer
    <3> QED BY <2>1, <3>1 DEF Arrival
  <2>2. CASE d # c
    <3>1. task[d].at \in AtWork \/ (task[d].at = "plan" /\ task[d].outcome = "none") BY <1>1, <2>2 DEF CameIn
    <3>2. Projects(plan[d].request) BY <1>1, <3>1 DEF StoreOK
    <3>3. CASE Kind(d) = "passive"
      <4>1. plan[c].request # plan[d].request BY <1>1, <2>2, <3>3, PassiveAlone
      <4> QED BY <1>4, <3>2, <4>1
    <3>4. CASE Kind(d) # "passive"
      <4>1. task[d].at # "idle" /\ Kind(d) \in Backed /\ d \notin outlived
        BY <3>1, <3>4 DEF AtWork, InComposer, Writing, Backed, Steps, Stray, Prompts
      <4>2. effect[d] = "dispatched" BY <1>1, <4>1 DEF LedgerOK
      <4> QED BY <1>4, <3>2, <4>2
    <3> QED BY <3>3, <3>4
  <2> QED BY <2>1, <2>2
<1>8. ClosedOK'
  <2> SUFFICES ASSUME NEW d \in Given, Closed(plan[d].request)', Projects(plan[d].request)'
               PROVE  FALSE
    BY PlanKept DEF ClosedOK
  <2>1. Holds' /\ req'.request = plan[d].request BY PlanKept DEF Projects
  <2>2. Closed(plan[d].request) BY <1>3, <2>1 DEF Arrival
  <2>3. ~Projects(plan[d].request) BY <1>1, <2>2 DEF ClosedOK
  <2>4. CASE Holds' = Holds /\ (Holds => req'.request = req.request) BY <2>1, <2>3, <2>4 DEF Projects
  <2>5. CASE /\ Projects(plan[c].request)'
             /\ Kind(c) = "passive" \/ (Kind(c) \in Backed /\ ~Closed(plan[c].request))
    <3>1. plan[c].request = plan[d].request BY <2>1, <2>5, PlanKept DEF Projects
    <3>2. Kind(c) = "passive" BY <2>2, <2>5, <3>1
    <3>3. PICK b \in Given : Kind(b) = "release" /\ plan[b].request = plan[c].request BY <2>2, <3>1 DEF Closed
    <3> QED BY <1>1, <3>2, <3>3, PassiveAlone
  <2>6. CASE req' = NoRequest BY <2>1, <2>6 DEF Holds
  <2> QED BY <1>1, <2>4, <2>5, <2>6 DEF StoreTurns
<1>9. OrderOK'
  <2> SUFFICES ASSUME NEW x \in Given, NEW y \in Given, Kind(x) \in Prompts, Kind(y) \in Prompts,
                      x \in plan[y].after, effect'[y] # "none"
               PROVE  effect'[x] = "succeeded"
    BY PlanKept DEF OrderOK
  <2>1. effect[x] = "succeeded"
    <3>1. CASE y = c
      <4>1. report[x] \in {"none", "duplicate"} BY <1>1 DEF LedgerOK, Prompts, Backed, Steps
      <4> QED BY <1>1, <3>1, <4>1 DEF CameIn, Done
    <3>2. CASE y # c BY <1>1, <3>2 DEF CameIn, OrderOK
    <3> QED BY <3>1, <3>2
  <2> QED BY <1>1, <2>1 DEF CameIn
<1>10. \A x \in Given : /\ Keeps(x)' = Keeps(x) /\ Bearers(x)' = Bearers(x) /\ Clean(x)' = Clean(x)
                        /\ Unfilled(x)' => Unfilled(x)
  <2>1. \A x \in Given \ {c} : task'[x] = task[x] /\ effect'[x] = effect[x] BY <1>1 DEF CameIn
  <2>2. ~Keeps(c) /\ ~Keeps(c)' /\ Unfilled(c) BY <1>1 DEF CameIn, Keeps, Unfilled
  <2>3. \A x \in Given : Keeps(x)' = Keeps(x) /\ (Unfilled(x)' => Unfilled(x))
    BY <2>1, <2>2 DEF Keeps, Unfilled
  <2>4. \A x \in Given : Bearers(x)' = Bearers(x) BY <2>1, <2>2, <2>3, PlanKept DEF Bearers
  <2>5. UNCHANGED page BY <1>1 DEF CameIn
  <2> QED BY <2>3, <2>4, <2>5, PlanKept DEF Clean
<1>11. TokenOK'
  <2> SUFFICES ASSUME NEW x \in Given, Kind(x) \in Prompts, ~Stray(x), Alone(x)
               PROVE  TokenOf(x)'
    BY PlanKept, StraysKept DEF TokenOK
  <2>1. TokenOf(x) BY <1>1 DEF TokenOK
  <2>2. Keeps(x) => task'[x] = task[x] BY <1>1 DEF CameIn, Keeps
  <2>3. UNCHANGED page BY <1>1 DEF CameIn
  <2> QED BY <1>10, <2>1, <2>2, <2>3, PlanKept DEF TokenOf
<1>12. SentOK'
  <2>1. Submitted' = Submitted BY <1>1, SubmittedKept DEF CameIn
  <2>2. ASSUME NEW d \in Given, d # c PROVE task'[d] = task[d] /\ effect'[d] = effect[d] /\ report'[d] = report[d]
    BY <1>1, <2>2 DEF CameIn
  <2>3. ASSUME NEW d \in Given, d \in Origins' PROVE Kind(d) \in Writing /\ (Kind(d) = "passive" => PassiveSent(d)')
    <3>1. d \in Origins BY <2>1, <2>3, OriginsSent, OriginsNext
    <3>2. Kind(d) \in Writing /\ (Kind(d) = "passive" => PassiveSent(d)) BY <1>1, <3>1 DEF SentOK
    <3>3. PassiveSent(d) => d # c BY <1>1 DEF CameIn, PassiveSent
    <3> QED BY <2>2, <3>2, <3>3 DEF PassiveSent
  <2>4. ASSUME NEW d \in Given, Own(d) \in Submitted', Counts(d) PROVE PromptSent(d)'
    <3>1. PromptSent(d) BY <1>1, <2>1, <2>4 DEF SentOK
    <3>2. d # c BY <1>1, <3>1 DEF CameIn, PromptSent
    <3>3. Gone(d)' BY <1>2, <1>4, <1>10, <2>2, <3>1, <3>2, PlanKept DEF PromptSent, Gone
    <3> QED BY <2>2, <3>1, <3>2, <3>3 DEF PromptSent
  <2> QED BY <2>3, <2>4, PlanKept, StraysKept DEF SentOK
<1> QED BY <1>5, <1>6, <1>7, <1>8, <1>9, <1>11, <1>12 DEF Kept

(* A lost port keeps the invariant, also when the page outlives it. *)
LEMMA LoseKeeps ==
  ASSUME ContentInv, NEW alive \in BOOLEAN, Lose(alive), UNCHANGED plan
  PROVE  Kept'
<1>1. /\ plan \in Plans /\ GoodPage(page) /\ page \in Pages /\ effect \in Ledger /\ report \in Reports
      /\ task \in [Given -> Task] /\ req \in Projection \union {NoRequest}
      /\ LedgerOK /\ PlacesOK /\ StoreOK /\ OrderOK /\ ClosedOK /\ TokenOK /\ SentOK
  BY TypesUnfold DEF ContentInv, GoodPage
<1>. DEFINE Dies(d) == task[d] # NoTask /\ (~alive \/ task[d].at = "plan" \/ task[d].at = "settle")
<1>2. \A d \in Given : /\ task'[d] = (IF Dies(d) THEN NoTask ELSE task[d])
                       /\ effect'[d] = (IF effect[d] = "dispatched" THEN "uncertain" ELSE effect[d])
                       /\ report'[d] = (IF ~Dies(d) THEN report[d]
                                        ELSE IF Kind(d) = "passive" THEN "uncertain"
                                        ELSE IF Kind(d) = "resume" THEN "error" ELSE report[d])
                       /\ d \in outlived' <=> d \in outlived \/ task'[d] # NoTask
  BY DEF Lose, Awaits
<1>3. ASSUME NEW d \in Given, task'[d].at # "idle"
      PROVE  /\ task'[d] = task[d] /\ alive /\ task[d].at \notin {"idle", "plan", "settle"}
             /\ d \in outlived' /\ report'[d] = report[d]
  <2>1. ~Dies(d) /\ task'[d] = task[d] BY <1>2, <1>3, IdleTask
  <2>2. task[d] # NoTask BY <1>3, <2>1, IdleTask
  <2> QED BY <1>2, <1>3, <2>1, <2>2
<1>4. \A d \in Given : task'[d].at = "idle" => task'[d] = NoTask BY <1>1, <1>2 DEF PlacesOK
<1>5. \A d \in Given : d \notin outlived' => d \notin outlived /\ task'[d].at = "idle" BY <1>2, <1>3
<1>. HIDE DEF Dies
<1>6. ASSUME NEW d \in Given, Projects(plan[d].request), Kind(d) # "passive" PROVE Projects(plan[d].request)'
  <2>1. Holds /\ req.request = plan[d].request /\ req \in Projection BY <1>1, <1>6 DEF Projects, Holds
  <2>2. req.request \notin Passives BY <1>1, <1>6, <2>1, PassiveAlone DEF Passives
  <2>3. req' = [(IF alive THEN req ELSE Fresh(req.request)) EXCEPT !.rank = 0] BY <2>1, <2>2 DEF Lose, Recover
  <2>4. Fresh(req.request) \in Projection /\ Fresh(req.request).request = req.request
    BY <2>1, Forms DEF Fresh, Projection
  <2>5. req' \in Projection /\ req'.request = req.request
    <3>1. \A p \in Projection : [p EXCEPT !.rank = 0] \in Projection /\ [p EXCEPT !.rank = 0].request = p.request
      BY DEF Projection
    <3> QED BY <2>1, <2>3, <2>4, <3>1
  <2>6. Holds' BY <2>5, NoRequestAssumption DEF Holds
  <2> QED BY <2>1, <2>5, <2>6, PlanKept DEF Projects
<1>7. ASSUME NEW d \in Given, ~Projects(plan[d].request) PROVE ~Projects(plan[d].request)'
  <2>1. CASE UNCHANGED req BY <1>7, <2>1, PlanKept DEF Projects, Holds
  <2>2. CASE req' = NoRequest BY <2>2 DEF Projects, Holds
  <2>3. CASE Holds /\ req' = [(IF alive THEN req ELSE Fresh(req.request)) EXCEPT !.rank = 0]
    <3>1. req.request # plan[d].request BY <1>7, <2>3 DEF Projects
    <3>2. req \in Projection BY <1>1, <2>3 DEF Holds
    <3>3. Fresh(req.request) \in Projection /\ Fresh(req.request).request = req.request
      BY <3>2, Forms DEF Fresh, Projection
    <3>4. \A p \in Projection : [p EXCEPT !.rank = 0].request = p.request BY DEF Projection
    <3>5. req'.request = req.request BY <2>3, <3>2, <3>3, <3>4
    <3> QED BY <3>1, <3>5, PlanKept DEF Projects
  <2> QED BY <2>1, <2>2, <2>3 DEF Lose, Recover, Release
<1>8. \A r : Closed(r)' <=> Closed(r)
  <2>1. \A b \in Given : Kind(b) = "release" => report'[b] = report[b] BY <1>2
  <2> QED BY <2>1, ClosedKept
<1>9. page'.composer \in {page.composer, NoText} /\ Submitted' = Submitted
  <2>1. CASE UNCHANGED page BY <1>1, <2>1, SubmittedKept
  <2>2. CASE \E t \in {page.composer, NoText} : page' = [page EXCEPT !.composer = t, !.moving = FALSE]
    <3>1. \A t : page' = [page EXCEPT !.composer = t, !.moving = FALSE] =>
                 page'.composer = t /\ page'.turns = page.turns /\ page'.taken = page.taken
      BY <1>1 DEF Pages
    <3> QED BY <1>1, <2>2, <3>1, SubmittedKept
  <2> QED BY <2>1, <2>2 DEF Lose
<1>10. \A d \in Given : Kind(d)' = Kind(d) /\ (~Stray(d)' => ~Stray(d)) /\ (Counts(d)' => Counts(d))
  <2>1. \A d \in Given : ~Stray(d)' => ~Stray(d) BY <1>2, PlanKept DEF Stray
  <2>2. Strays => Strays' BY <2>1, PlanKept DEF Strays
  <2> QED BY <2>1, <2>2, PlanKept DEF Counts
<1>11. \A x \in Given : Bearers(x)' \subseteq Bearers(x)
  <2>1. \A d \in Given : Keeps(d)' => Keeps(d) /\ task'[d] = task[d] BY <1>3 DEF Keeps
  <2> QED BY <2>1, PlanKept DEF Bearers
<1>12. LedgerOK'
  <2> SUFFICES ASSUME NEW d \in Given
               PROVE  /\ Kind(d) \in Backed =>
                           /\ report'[d] \in {"none", "duplicate"}
                           /\ task'[d].at # "idle" /\ d \notin outlived' => effect'[d] = "dispatched"
                           /\ d \in outlived' => effect'[d] \notin {"none", "dispatched"} /\ task'[d].at # "plan"
                      /\ Kind(d) \notin Backed => effect'[d] = "none"
                      /\ report'[d] = "rejected" => Kind(d) = "passive"
                      /\ task'[d].at # "idle" => report'[d] = "none"
    BY PlanKept DEF LedgerOK
  <2>1. Kind(d) \in Backed => Kind(d) \notin {"passive", "resume"} BY DEF Backed, Steps
  <2>2. ASSUME Kind(d) \in Backed, d \in outlived' PROVE effect'[d] \notin {"none", "dispatched"}
    <3>1. CASE d \in outlived BY <1>1, <1>2, <2>2, <3>1 DEF LedgerOK
    <3>2. CASE d \notin outlived
      <4>1. task'[d].at # "idle" BY <1>2, <1>4, <2>2, <3>2
      <4>2. task[d].at # "idle" BY <1>3, <4>1
      <4> QED BY <1>1, <1>2, <2>2, <3>2, <4>2 DEF LedgerOK
    <3> QED BY <3>1, <3>2
  <2>3. task'[d].at # "plan" BY <1>3
  <2>4. Kind(d) \in Backed => report'[d] = report[d] BY <1>2, <2>1
  <2>5. report'[d] = "rejected" => report[d] = "rejected" BY <1>2
  <2>6. Kind(d) \notin Backed => effect'[d] = "none" BY <1>1, <1>2 DEF LedgerOK
  <2> QED BY <1>1, <1>3, <2>2, <2>3, <2>4, <2>5, <2>6 DEF LedgerOK
<1>13. PlacesOK'
  <2> SUFFICES ASSUME NEW d \in Given
               PROVE  /\ task'[d].at = "idle" => task'[d] = NoTask
                      /\ task'[d].at \in {"plan", "settle"} => Kind(d) \in Backed
                      /\ task'[d].at = "settle" => task'[d].outcome # "none"
                      /\ task'[d].at \in InComposer => Kind(d) \in Writing
                      /\ task'[d].at = "boundary" => Kind(d) = "resume"
                      /\ task'[d].at = "evidence" => task'[d].crossed
    BY PlanKept DEF PlacesOK
  <2>1. CASE task'[d].at = "idle" BY <1>4, <2>1 DEF InComposer
  <2>2. CASE task'[d].at # "idle" BY <1>1, <1>3, <2>2 DEF PlacesOK
  <2> QED BY <2>1, <2>2
<1>14. StoreOK'
  <2> SUFFICES ASSUME NEW d \in Given, Kind(d) \in Writing, ~Stray(d)',
                      task'[d].at \in AtWork \/ (task'[d].at = "plan" /\ task'[d].outcome = "none")
               PROVE  Projects(plan[d].request)'
    BY PlanKept DEF StoreOK
  <2>1. task'[d].at # "idle" BY DEF AtWork, InComposer
  <2>2. task'[d] = task[d] /\ alive /\ d \in outlived' /\ task[d].at \in AtWork BY <1>3, <2>1
  <2>3. Kind(d) = "passive" BY <2>2, PlanKept DEF Stray, Writing, Prompts
  <2>4. Projects(plan[d].request) BY <1>1, <1>10, <2>2 DEF StoreOK
  <2>5. req.request \in Passives BY <2>3, <2>4 DEF Projects, Passives
  <2>6. UNCHANGED req BY <2>2, <2>4, <2>5 DEF Lose, Projects
  <2> QED BY <2>4, <2>6, PlanKept DEF Projects, Holds
<1>15. OrderOK' BY <1>1, <1>2, PlanKept DEF OrderOK
<1>16. ClosedOK' BY <1>1, <1>7, <1>8, PlanKept DEF ClosedOK
<1>17. TokenOK'
  <2> SUFFICES ASSUME NEW x \in Given, Kind(x) \in Prompts, ~Stray(x)', Alone(x)
               PROVE  TokenOf(x)'
    BY PlanKept DEF TokenOK
  <2>1. TokenOf(x) /\ Kind(x) \in Writing BY <1>1, <1>10 DEF TokenOK, Prompts, Writing
  <2>2. Text(x) # NoText BY <1>1, <2>1, GivenFacts
  <2>3. x \notin outlived' BY PlanKept DEF Stray
  <2>4. task'[x].at = "idle" /\ ~Keeps(x)' BY <1>5, <2>3 DEF Keeps
  <2>5. Unfilled(x)' => Unfilled(x) BY <1>2, <2>4 DEF Unfilled
  <2>6. page'.composer = Text(x) => page.composer = Text(x) BY <1>9, <2>2
  <2> QED BY <1>11, <2>1, <2>4, <2>5, <2>6, PlanKept DEF TokenOf, Clean
<1>18. SentOK'
  <2>1. ASSUME NEW d \in Given, d \in Origins' PROVE Kind(d) \in Writing /\ (Kind(d) = "passive" => PassiveSent(d)')
    <3>1. d \in Origins BY <1>9, <2>1, OriginsSent, OriginsNext
    <3>2. Kind(d) \in Writing /\ (Kind(d) = "passive" => PassiveSent(d)) BY <1>1, <3>1 DEF SentOK
    <3>3. ASSUME Kind(d) = "passive" PROVE PassiveSent(d)'
      <4>1. PassiveSent(d) BY <3>2, <3>3
      <4>2. CASE task'[d].at # "idle" BY <1>3, <4>1, <4>2 DEF PassiveSent
      <4>3. CASE task'[d].at = "idle"
        <5>1. report'[d] = "uncertain" \/ (report'[d] = report[d] /\ task'[d] = task[d]) BY <1>2, <3>3
        <5> QED BY <4>1, <4>3, <5>1 DEF PassiveSent
      <4> QED BY <4>2, <4>3
    <3> QED BY <3>2, <3>3
  <2>2. ASSUME NEW d \in Given, Own(d) \in Submitted', Counts(d)' PROVE PromptSent(d)'
    <3>1. PromptSent(d) /\ Kind(d) \in Prompts BY <1>1, <1>9, <1>10, <2>2 DEF SentOK, Counts
    <3>2. task'[d].at = "idle" BY <1>5, <2>2, <3>1, PlanKept DEF Counts, Stray
    <3>3. effect'[d] \in {"dispatched", "uncertain"} => effect[d] \in {"dispatched", "uncertain"} BY <1>2
    <3>4. Text(d) # NoText /\ Kind(d) # "passive" BY <1>1, <3>1, GivenFacts DEF Prompts, Writing
    <3>5. Clean(d) => Clean(d)' BY <1>9, <1>11, <3>4, PlanKept DEF Clean
    <3>6. Gone(d)' BY <1>6, <1>8, <3>1, <3>3, <3>4, <3>5, PlanKept DEF PromptSent, Gone
    <3>7. effect'[d] \notin {"none", "cancelled", "notStarted"} BY <1>2, <3>1 DEF PromptSent
    <3> QED BY <3>2, <3>6, <3>7 DEF PromptSent
  <2> QED BY <2>1, <2>2, PlanKept DEF SentOK
<1> QED BY <1>12, <1>13, <1>14, <1>15, <1>16, <1>17, <1>18 DEF Kept

-----------------------------------------------------------------------------
(* The theorems *)

(* The invariant holds at first, *)
LEMMA ContentStart == ContentInit => ContentInv
<1> SUFFICES ASSUME ContentInit PROVE ContentInv OBVIOUS
<1>1. /\ ContentTypeOK /\ req = NoRequest /\ outlived = {} /\ plan \in Plans /\ page.composer = NoText
      /\ \A c \in Given : task[c] = NoTask /\ task[c].at = "idle" /\ effect[c] = "none" /\ report[c] = "none"
  BY InitTypes, IdleTask DEF ContentInit
<1>2. Submitted = {}
  <2>1. page.turns = <<>> /\ page.taken = <<>> BY DEF ContentInit
  <2>2. 1..Len(page.turns) = {} /\ 1..Len(page.taken) = {} BY <2>1
  <2> QED BY <2>2 DEF Submitted, Count
<1>3. LedgerOK /\ PlacesOK /\ OrderOK BY <1>1 DEF LedgerOK, PlacesOK, OrderOK, InComposer
<1>4. StoreOK /\ ClosedOK BY <1>1 DEF StoreOK, ClosedOK, AtWork, InComposer, Projects, Holds
<1>5. TokenOK
  <2> SUFFICES ASSUME NEW c \in Given, Kind(c) \in Prompts PROVE TokenOf(c) BY DEF TokenOK
  <2>1. Text(c) # NoText BY <1>1, GivenFacts DEF Prompts, Writing
  <2>2. Bearers(c) = {} /\ ~Keeps(c) BY <1>1 DEF Bearers, Keeps
  <2> QED BY <1>1, <2>1, <2>2 DEF TokenOf, Clean
<1>6. SentOK BY <1>2, OriginsSent DEF SentOK
<1> QED BY <1>1, <1>3, <1>4, <1>5, <1>6 DEF ContentInv

(* and every step keeps it. *)
LEMMA ContentInductive ==
  ASSUME ContentInv, [ContentNext]_contentVars
  PROVE  ContentInv'
<1>1. ContentTypeOK /\ LedgerOK /\ PlacesOK /\ EffectsOK BY DEF ContentInv, LedgerOK, EffectsOK
<1>2. ContentTypeOK' BY <1>1, TypesStep
<1>3. Kept'
  <2>1. CASE UNCHANGED contentVars
    <3>1. Kept BY DEF Kept, ContentInv
    <3> QED BY <2>1, <3>1 DEF contentVars, Kept, LedgerOK, PlacesOK, StoreOK, OrderOK, ClosedOK, TokenOK, SentOK,
              PromptSent, PassiveSent, Gone, Closed, Projects, Holds, Origins, Submitted, Count, Given, Kind, Text,
              Own, Alone, Stray, Strays, Counts, TokenOf, Unfilled, Clean, Bearers, Keeps
  <2>2. CASE (Page \/ Collect) /\ UNCHANGED <<plan, outlived>> BY <2>2, PageKeeps
  <2>3. ASSUME NEW c \in Given, Handle(c), UNCHANGED <<plan, outlived>> PROVE Kept'
    BY <1>1, <2>3, HandleSteps, HandleKeeps
  <2>4. ASSUME NEW c \in Given, Reconcile(c), UNCHANGED <<plan, outlived>> PROVE Kept' BY <2>4, ReconcileKeeps
  <2>5. ASSUME NEW c \in Given, Perform(c), UNCHANGED <<plan, outlived>> PROVE Kept'
    <3>1. HandlerMoves(c) BY <1>1, <2>5, HandlerSteps1, HandlerSteps2 DEF Perform
    <3> QED BY <2>5, <3>1, PerformKeepsPlaces, PerformKeepsStore, PerformKeepsToken, PerformKeepsSent DEF Kept
  <2>6. ASSUME NEW alive \in Survives, Lose(alive), UNCHANGED plan PROVE Kept'
    <3>1. alive \in BOOLEAN BY ContentAssumption
    <3> QED BY <2>6, <3>1, LoseKeeps
  <2> QED BY <2>1, <2>2, <2>3, <2>4, <2>5, <2>6 DEF ContentNext, ContentStep
<1> QED BY <1>2, <1>3 DEF ContentInv, Kept

(* The tasks of the handlers, the ledger, the store, the composer and what reached *)
(* the page always agree, whether a page outlives its port or not.                *)
THEOREM ContentInvariant == ContentSpec => []ContentInv
BY ContentStart, ContentInductive, PTL DEF ContentSpec

(* It leaves room for one writer, *)
LEMMA InvOneWriter == ContentInv => OneWriterInComposer
<1> SUFFICES ASSUME ContentInv PROVE OneWriterInComposer OBVIOUS
<1>1. plan \in Plans /\ LedgerOK /\ PlacesOK /\ StoreOK /\ OrderOK BY DEF ContentInv, ContentTypeOK
<1>. DEFINE Writers == {c \in Given : task[c].at \in InComposer /\ ~Stray(c)}
<1>2. ASSUME NEW c \in Writers, NEW d \in Writers PROVE c = d BY <1>1, TwoWriters
<1>3. Cardinality(Writers) <= 1
  <2>1. CASE Writers = {}
    <3>1. Cardinality({}) = 0 BY FS_EmptySet
    <3>. HIDE DEF Writers
    <3> QED BY <2>1, <3>1
  <2>2. CASE Writers # {}
    <3>1. PICK c : c \in Writers BY <2>2
    <3>2. Writers = {c} BY <1>2, <3>1
    <3>3. Cardinality({c}) = 1 BY FS_Singleton
    <3>. HIDE DEF Writers
    <3> QED BY <3>2, <3>3
  <2> QED BY <2>1, <2>2
<1> QED BY <1>3 DEF OneWriterInComposer

(* and for no turn of what was not executed. *)
LEMMA InvUnsent == ContentInv => NotExecutedIsUnsent
<1> SUFFICES ASSUME ContentInv, NEW c \in Given
             PROVE  /\ report[c] = "rejected" => c \notin Origins
                    /\ /\ effect[c] \in {"cancelled", "notStarted"} /\ ~Stray(c)
                       /\ Strays => Alone(c)
                       => Own(c) \notin Submitted
  BY DEF NotExecutedIsUnsent
<1>1. LedgerOK /\ SentOK BY DEF ContentInv
<1>2. report[c] = "rejected" => c \notin Origins BY <1>1 DEF LedgerOK, SentOK, PassiveSent
<1>3. ASSUME effect[c] \in {"cancelled", "notStarted"}, ~Stray(c), Strays => Alone(c), Own(c) \in Submitted
      PROVE  FALSE
  <2>1. c \in Origins
    <3>1. Own(c).by = c BY DEF Own
    <3> QED BY <1>3, <3>1, OriginsSent
  <2>2. Kind(c) \in Writing /\ Kind(c) \in Backed BY <1>1, <1>3, <2>1 DEF SentOK, LedgerOK
  <2>3. Kind(c) \in Prompts BY <2>2 DEF Writing, Backed, Steps, Prompts
  <2>4. PromptSent(c) BY <1>1, <1>3, <2>3 DEF SentOK, Counts
  <2> QED BY <1>3, <2>4 DEF PromptSent
<1> QED BY <1>2, <1>3

(* Two handlers never work in the composer of a tab at the same time, unless one *)
(* of them is a prompt or a steer whose handler outlived a lost port.           *)
THEOREM OneWriter == ContentSpec => []OneWriterInComposer
BY ContentInvariant, InvOneWriter, PTL

(* What a watcher or the ledger calls not executed left no user turn with its text, *)
(* also when handlers outlive a lost port: but for those handlers themselves, and   *)
(* for a text that other commands have as well while there are such handlers.      *)
THEOREM NotExecutedUnsent == ContentSpec => []NotExecutedIsUnsent
BY ContentInvariant, InvUnsent, PTL

(* A handler of an effect ends when the ledger has its outcome or did not take it. *)
LEMMA HandlersEnd ==
  ASSUME ContentTypeOK, PlacesOK, NEW c \in Given, Kind(c) \in Backed, Perform(c), task'[c].at = "idle"
  PROVE  SettleEffect(c) \/ Unconfirmed(c)
<1>1. Kind(c) \notin {"passive", "resume"} BY DEF Backed, Steps
<1>2. task \in [Given -> Task] BY TypesUnfold
<1>3. \A proven : ~Throw(c, proven) BY <1>1, Ends
<1>4. \A k : ~Succeed(c, k) BY Ends
<1>5. \A w \in Waits : ~Await(c, w)
  <2> SUFFICES ASSUME NEW w \in Waits, Await(c, w) PROVE FALSE OBVIOUS
  <2>1. task'[c].at = w BY <1>2 DEF Await, Task
  <2> QED BY <2>1 DEF Waits
<1>6. ~Confirm(c)
  <2>1. Confirm(c) => task'[c].at \in Waits
    <3>1. Confirm(c) => task'[c].at \in {Executor(c), "settle"} BY <1>2 DEF Confirm, Task
    <3> QED BY <3>1 DEF Executor, Waits
  <2> QED BY <2>1 DEF Waits
<1>7. ~PageReady(c) /\ ~Routed(c) /\ ~Choose(c) /\ ~Attach(c) /\ ~Stop(c)
  BY <1>3, <1>4 DEF PageReady, Routed, Choose, Attach, Stop
<1>8. ~GoTo(c) BY <1>5 DEF GoTo, Waits
<1>9. ~Prepare(c) /\ ~Resume(c) BY <1>1 DEF Prepare, Resume, Awaits, PlacesOK
<1>10. ~Fill(c)
  <2>1. task' = [task EXCEPT ![c].at = "button", ![c].before = page.composer] => task'[c].at = "button"
    BY <1>2 DEF Task
  <2> QED BY <1>3, <2>1 DEF Fill
<1>11. ~Click(c)
  <2>1. \A seen : task' = [task EXCEPT ![c].at = "evidence", ![c].crossed = TRUE, ![c].seen = seen]
                     => task'[c].at = "evidence"
    BY <1>2 DEF Task
  <2> QED BY <2>1 DEF Click
<1>12. ~SteerClosed(c) /\ ~Doubt(c) BY <1>3 DEF SteerClosed, Doubt
<1>13. ~Believe(c) BY <1>3, <1>5 DEF Believe, Waits
<1>14. ~Anchor(c) /\ ~NoAnchor(c) BY <1>1, <1>3, <1>4 DEF Anchor, NoAnchor
<1> QED
  BY <1>6, <1>7, <1>8, <1>9, <1>10, <1>11, <1>12, <1>13, <1>14 DEF Perform

(* No step abandons an effect without a fault. *)
LEMMA AbandonedStep ==
  ASSUME ContentInv, NoEffectAbandoned, [ContentNext]_contentVars
  PROVE  NoEffectAbandoned'
<1>1. /\ ContentTypeOK /\ LedgerOK /\ PlacesOK /\ task \in [Given -> Task] /\ effect \in Ledger
      /\ report \in Reports /\ budget \in Budget
  BY TypesUnfold DEF ContentInv
<1>2. ASSUME UNCHANGED plan, budget' = budget,
             \A d \in Given : effect'[d] = "dispatched" /\ task'[d] = NoTask =>
                effect[d] = "dispatched" /\ task[d] = NoTask /\ report'[d] = report[d]
      PROVE  NoEffectAbandoned'
  BY <1>2, PlanKept DEF NoEffectAbandoned
<1>3. CASE UNCHANGED contentVars BY <1>2, <1>3 DEF contentVars
<1>4. CASE (Page \/ Collect) /\ UNCHANGED <<plan, outlived>>
  <2>1. UNCHANGED <<task, effect, report>> /\ budget'.faults = budget.faults
    BY <1>1, <1>4 DEF Page, Collect, Render, Drop, Finish, Move, TypeText, Press, Budget
  <2> QED BY <1>4, <2>1, PlanKept DEF NoEffectAbandoned
<1>5. ASSUME NEW c \in Given, Handle(c), UNCHANGED <<plan, outlived>> PROVE NoEffectAbandoned'
  <2>1. CameIn(c) BY <1>1, <1>5, HandleSteps DEF Arrival
  <2>2. UNCHANGED budget
    BY <1>5 DEF Handle, ReceiveStep, ReceiveSteer, ReceiveCancel, ReceivePassive, ReceiveRelease, ReceiveResume
  <2>3. effect'[c] = "dispatched" /\ task'[c] = NoTask => report'[c] = "duplicate"
    <3>1. \A w : Begins(c) \/ RefuseEffect(c, w) => task'[c].at = "plan"
      <4>1. \A w : [[NoTask EXCEPT !.at = "plan"] EXCEPT !.outcome = w].at = "plan" BY DEF NoTask
      <4>2. \A n : [[NoTask EXCEPT !.at = "plan"] EXCEPT !.base = n].at = "plan" BY DEF NoTask
      <4> QED BY <1>1, <4>1, <4>2 DEF Begins, RefuseEffect, NoTask
    <3>2. CASE ReceiveStep(c) BY <1>1, <3>1, <3>2, IdleTask DEF ReceiveStep, Reports
    <3>3. CASE ReceiveSteer(c) BY <3>1, <3>3, IdleTask DEF ReceiveSteer
    <3>4. CASE ReceiveCancel(c) BY <3>1, <3>4, IdleTask DEF ReceiveCancel
    <3>5. CASE ReceivePassive(c) \/ ReceiveRelease(c) \/ ReceiveResume(c)
      <4>1. Kind(c) \notin Backed BY <3>5 DEF ReceivePassive, ReceiveRelease, ReceiveResume, Backed, Steps
      <4> QED BY <2>1, <4>1 DEF CameIn
    <3> QED BY <1>5, <3>2, <3>3, <3>4, <3>5 DEF Handle
  <2> QED BY <1>5, <2>1, <2>2, <2>3, PlanKept DEF NoEffectAbandoned, CameIn
<1>6. ASSUME NEW c \in Given, Reconcile(c), UNCHANGED <<plan, outlived>> PROVE NoEffectAbandoned'
  <2>1. plan[c].of \in Given /\ Kind(plan[c].of) \in Backed BY <1>1, <1>6, ReconcileTypes DEF EffectsOK, LedgerOK
  <2>2. PICK found \in Finding(plan[c].of) : effect' = [effect EXCEPT ![plan[c].of] = found] BY <1>6 DEF Reconcile
  <2>3. found # "dispatched" BY <1>1, <2>1, <2>2, TypesUnfold, FindingForms
  <2>4. Kind(c) \notin Backed /\ Kind(c) = "reconcile" BY <1>6 DEF Reconcile, Backed, Steps
  <2>5. effect[c] = "none" BY <1>1, <2>4 DEF LedgerOK
  <2>6. \A d \in Given : effect'[d] = "dispatched" => effect[d] = "dispatched" /\ d # c
    BY <1>1, <2>2, <2>3, <2>5 DEF Ledger
  <2>7. UNCHANGED <<task, budget>> /\ \A d \in Given \ {c} : report'[d] = report[d]
    BY <1>1, <1>6 DEF Reconcile, Reports
  <2> QED BY <1>2, <1>6, <2>6, <2>7
<1>7. ASSUME NEW c \in Given, Perform(c), UNCHANGED <<plan, outlived>> PROVE NoEffectAbandoned'
  <2>1. MovesOn(c) /\ Concludes(c) BY <1>1, <1>7, HandlerSteps1, HandlerSteps2 DEF Perform, HandlerMoves
  <2>2. budget'.faults <= budget.faults
    <3>1. budget.faults \in Nat /\ [budget EXCEPT !.faults = @ - 1].faults = budget.faults - 1
      BY <1>1, Numbers DEF Budget
    <3>2. UNCHANGED budget \/ budget' = [budget EXCEPT !.faults = @ - 1]
      BY <1>7 DEF Perform, Confirm, Unconfirmed, NothingReported, PageReady, GoTo, Routed, Choose, Attach, Stop,
           Prepare, Fill, Click, SteerClosed, Believe, Doubt, Anchor, NoAnchor, SettleEffect, Resume
    <3>3. budget' = [budget EXCEPT !.faults = @ - 1] => budget'.faults = budget.faults - 1 BY <3>1
    <3>4. budget.faults - 1 <= budget.faults /\ budget.faults <= budget.faults BY <3>1
    <3>5. CASE UNCHANGED budget BY <3>4, <3>5
    <3>6. CASE budget' = [budget EXCEPT !.faults = @ - 1] BY <3>3, <3>4, <3>6
    <3> QED BY <3>2, <3>5, <3>6
  <2>3. effect'[c] = "dispatched" /\ task'[c] = NoTask => budget'.faults < MaxLedgerFaults
    <3> SUFFICES ASSUME effect'[c] = "dispatched", task'[c] = NoTask PROVE budget'.faults < MaxLedgerFaults
      OBVIOUS
    <3>1. task[c].outcome # "dispatched" BY <1>1 DEF Task, Outcomes
    <3>2. effect[c] = "dispatched" BY <2>1, <3>1 DEF Concludes
    <3>3. Kind(c) \in Backed BY <1>1, <3>2 DEF LedgerOK
    <3>4. SettleEffect(c) \/ Unconfirmed(c) BY <1>1, <1>7, <3>3, IdleTask, HandlersEnd
    <3>5. ~SettleEffect(c) BY <1>1, <3>1, <3>2 DEF SettleEffect, Ledger
    <3>6. budget.faults \in 0..MaxLedgerFaults /\ [budget EXCEPT !.faults = @ - 1].faults = budget.faults - 1
      BY <1>1 DEF Budget
    <3>7. budget.faults > 0 /\ budget' = [budget EXCEPT !.faults = @ - 1]
      BY <3>2, <3>4, <3>5 DEF Unconfirmed, Confirmed
    <3> QED BY <3>6, <3>7, Numbers
  <2>4. budget.faults \in Nat /\ budget'.faults \in Int /\ MaxLedgerFaults \in Nat
    <3>1. budget.faults \in Nat BY <1>1, Numbers DEF Budget
    <3>2. UNCHANGED budget \/ budget' = [budget EXCEPT !.faults = @ - 1]
      BY <1>7 DEF Perform, Confirm, Unconfirmed, NothingReported, PageReady, GoTo, Routed, Choose, Attach, Stop,
           Prepare, Fill, Click, SteerClosed, Believe, Doubt, Anchor, NoAnchor, SettleEffect, Resume
    <3>3. [budget EXCEPT !.faults = @ - 1].faults = budget.faults - 1 BY <1>1 DEF Budget
    <3>4. CASE UNCHANGED budget BY <3>1, <3>4, Numbers
    <3>5. CASE budget' = [budget EXCEPT !.faults = @ - 1] BY <3>1, <3>3, <3>5, Numbers
    <3> QED BY <3>2, <3>4, <3>5
  <2>5. ASSUME NEW d \in Given, d # c, effect'[d] = "dispatched", task'[d] = NoTask
        PROVE  budget'.faults < MaxLedgerFaults \/ report'[d] = "duplicate"
    <3>1. budget.faults < MaxLedgerFaults \/ report[d] = "duplicate" BY <2>1, <2>5 DEF NoEffectAbandoned, MovesOn
    <3> QED BY <2>1, <2>2, <2>4, <2>5, <3>1 DEF MovesOn
  <2> QED BY <1>7, <2>3, <2>5, PlanKept DEF NoEffectAbandoned
<1>8. ASSUME NEW alive \in Survives, Lose(alive), UNCHANGED plan PROVE NoEffectAbandoned'
  <2>1. \A d \in Given : effect'[d] # "dispatched" BY <1>1, <1>8 DEF Lose
  <2> QED BY <1>8, <2>1, PlanKept DEF NoEffectAbandoned
<1> QED BY <1>3, <1>4, <1>5, <1>6, <1>7, <1>8 DEF ContentNext, ContentStep

(* As long as the ledger takes every write, an effect that is dispatched has a     *)
(* handler at work, whatever commands are refused, retried or come in twice: but   *)
(* for the repetition of a prompt that is under way, which nobody answers.         *)
THEOREM NothingAbandoned == ContentSpec => []NoEffectAbandoned
<1>1. ContentInit => NoEffectAbandoned BY DEF ContentInit, NoEffectAbandoned
<1>2. ContentInv /\ NoEffectAbandoned /\ [ContentNext]_contentVars => NoEffectAbandoned' BY AbandonedStep
<1> QED BY ContentInvariant, <1>1, <1>2, PTL DEF ContentSpec

=============================================================================
