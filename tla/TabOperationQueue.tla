------------------------- MODULE TabOperationQueue -------------------------
(***************************************************************************)
(* The serialized operation queue of one browser tab in the extension's    *)
(* background worker: tabOperationQueue.js, with the options that          *)
(* operationPriorityPolicy.js and background.js give to the operations.    *)
(*                                                                         *)
(* A tab runs one operation at a time.  Server envelopes, content          *)
(* messages, transport events and release deadlines are submitted as they  *)
(* happen; submit, cancel, clear and the completion of the running         *)
(* operation are the atomic turns of the event loop.                       *)
(***************************************************************************)
EXTENDS Naturals, FiniteSets, SequencesExt

CONSTANTS
    Kinds,             \* the kinds of operation a configuration submits
    MaxPending,        \* ordinary capacity (250 in background.js)
    ReservedCritical,  \* extra capacity for critical operations (16)
    MaxOps             \* bound: operations accepted in a behaviour

ASSUME QueueAssumption ==
    /\ MaxPending \in Nat \ {0}
    /\ ReservedCritical \in Nat \ {0}
    /\ MaxOps \in Nat

VARIABLES
    queued,     \* waiting operations, in the order the last sort left
    running,    \* the operation in progress, or NoItem
    sequence,   \* submission counter of the queue
    inbound,    \* source sequence of the last server envelope accepted
    delivered,  \* largest source sequence whose handler was started
    outcome,    \* how the promise of each accepted operation settled
    signalled   \* the abort signal of the running operation was raised

vars == <<queued, running, sequence, inbound, delivered, outcome, signalled>>

-----------------------------------------------------------------------------
OwnerInvalidation == 0
Release           == 10
Request           == 20
Reconcile         == 30
Maintenance       == 50

\* What the router reads from a server envelope is envelope.payload.type, and
\* a protocol 5 envelope carries its command in body: every server message
\* that is not an ACK or a HELLO therefore gets the default options, the
\* release and cancel commands ("server.release") included.
ServerOptions(kind) ==
    [priority |-> IF kind = "server.ack" THEN OwnerInvalidation ELSE Request,
     critical |-> kind = "server.ack",
     group    |-> "server"]

ContentOptions(kind) ==
    [priority |-> CASE kind = "content.connect" -> OwnerInvalidation
                    [] kind = "content.cleanup" -> Release
                    [] kind = "content.effect"  -> Reconcile
                    [] kind = "content.reload"  -> Maintenance
                    [] OTHER                    -> Request,
     critical |-> kind \in {"content.connect", "content.cleanup",
                            "content.effect"},
     group    |-> "content"]

\* transport.open, transport.close and the release deadline have no group.
LocalOptions(kind) ==
    [priority |-> IF kind = "local.transport" THEN OwnerInvalidation
                                              ELSE Release,
     critical |-> TRUE,
     group    |-> ""]

ServerKinds  == {"server.ack", "server.command", "server.release"}
ContentKinds == {"content.connect", "content.cleanup", "content.effect",
                 "content.reload", "content.request"}
LocalKinds   == {"local.transport", "local.deadline"}

ASSUME KindsAssumption == Kinds \subseteq ServerKinds \cup ContentKinds \cup LocalKinds

Options(kind) ==
    IF kind \in ServerKinds THEN ServerOptions(kind)
    ELSE IF kind \in ContentKinds THEN ContentOptions(kind)
    ELSE LocalOptions(kind)

IsCritical(kind) == Options(kind).critical \/ Options(kind).priority <= Release

NoItem == [id |-> 0, kind |-> "none", order |-> 0]

Priority(item) == Options(item.kind).priority
Group(item)    == Options(item.kind).group

-----------------------------------------------------------------------------
\* itemOrder(left, right) < 0.  An order of 0 stands for the null of an
\* operation submitted without one: the submission sequence takes its place.
OrderOf(item) == IF item.order # 0 THEN item.order ELSE item.id

Before(left, right) ==
    LET sameGroup == Group(left) # "" /\ Group(left) = Group(right) IN
    IF sameGroup /\ OrderOf(left) # OrderOf(right)
    THEN OrderOf(left) < OrderOf(right)
    ELSE \/ Priority(left) < Priority(right)
         \/ Priority(left) = Priority(right) /\ left.id < right.id

\* Array.prototype.sort of the browser's engine for fewer than 64 elements:
\* a leading run (reversed when descending), then binary insertion of each
\* remaining element.  For a transitive order this is the sorted sequence;
\* Before is not transitive, so what it yields depends on these steps.
LeadingRun(s) ==
    LET descending == Before(s[2], s[1])
        run[i \in 1..Len(s)] ==
            IF i < Len(s) /\ (Before(s[i + 1], s[i]) <=> descending)
            THEN run[i + 1] ELSE i
        n == run[1]
        prefix == SubSeq(s, 1, n)
    IN  IF descending THEN Reverse(prefix) ELSE prefix

BinaryInsert(s, item) ==
    LET position[lo \in 0..Len(s), hi \in 0..Len(s)] ==
            LET mid == lo + ((hi - lo) \div 2) IN
            IF lo >= hi THEN lo
            ELSE IF Before(item, s[mid + 1]) THEN position[lo, mid]
            ELSE position[mid + 1, hi]
    IN  InsertAt(s, position[0, Len(s)] + 1, item)

EngineSort(s) ==
    IF Len(s) < 2 THEN s
    ELSE LET run == LeadingRun(s)
         IN  FoldLeft(BinaryInsert, run, SubSeq(s, Len(run) + 1, Len(s)))

-----------------------------------------------------------------------------
Items == ToSet(queued) \cup (IF running = NoItem THEN {} ELSE {running})

Pending == Len(queued) + (IF running = NoItem THEN 0 ELSE 1)

\* Only critical operations may use the reserve.
Capacity(kind) ==
    MaxPending + (IF IsCritical(kind) THEN ReservedCritical ELSE 0)

Init ==
    /\ queued = <<>>
    /\ running = NoItem
    /\ sequence = 0
    /\ inbound = 0
    /\ delivered = 0
    /\ outcome = [id \in 1..MaxOps |-> "none"]
    /\ signalled = FALSE

\* #drain: the first queued operation becomes the running one.
Drained(waiting, current) ==
    IF current = NoItem /\ waiting # <<>>
    THEN /\ queued' = Tail(waiting)
         /\ running' = Head(waiting)
         /\ signalled' = FALSE
         /\ delivered' = IF Group(Head(waiting)) = "server"
                         THEN Max({delivered, Head(waiting).order})
                         ELSE delivered
    ELSE /\ queued' = waiting
         /\ running' = current
         /\ signalled' = (signalled /\ current # NoItem)
         /\ UNCHANGED delivered

\* run(): an operation is accepted, sorted in, and started if none runs.
Accept(kind) ==
    LET item  == [id    |-> sequence + 1,
                  kind  |-> kind,
                  order |-> IF kind \in ServerKinds THEN inbound + 1 ELSE 0]
    IN  /\ sequence < MaxOps
        /\ Pending < Capacity(kind)
        /\ sequence' = sequence + 1
        /\ inbound' = IF kind \in ServerKinds THEN inbound + 1 ELSE inbound
        /\ Drained(EngineSort(Append(queued, item)), running)
        /\ UNCHANGED <<outcome>>

\* run(): TAB_OPERATION_QUEUE_FULL.  Nothing is kept of what is refused, and
\* the extension does not submit it again.
Refuse(kind) == Pending >= Capacity(kind) /\ UNCHANGED vars

\* #finishItem that does not drain.
FinishWithoutDrain ==
    /\ running # NoItem
    /\ outcome' = [outcome EXCEPT ![running.id] = "settled"]
    /\ running' = NoItem
    /\ signalled' = FALSE
    /\ UNCHANGED <<queued, sequence, inbound, delivered>>

\* #finishItem: the next operation is started, then the promise settles with
\* the result or the error of the operation.
Finish ==
    /\ running # NoItem
    /\ outcome' = [outcome EXCEPT ![running.id] = "settled"]
    /\ Drained(queued, NoItem)
    /\ UNCHANGED <<sequence, inbound>>

\* #cancelItem that rejects a waiting operation and leaves it in the queue.
CancelInPlace(i) ==
    /\ outcome' = [outcome EXCEPT ![queued[i].id] = "cancelled"]
    /\ UNCHANGED <<queued, running, sequence, inbound, delivered, signalled>>

\* #cancelItem of a waiting operation: it leaves the queue and rejects.
CancelQueued(i) ==
    /\ queued' = RemoveAt(queued, i)
    /\ outcome' = [outcome EXCEPT ![queued[i].id] = "cancelled"]
    /\ UNCHANGED <<running, sequence, inbound, delivered, signalled>>

\* #cancelItem of the running operation: only its signal is raised.
CancelRunning ==
    /\ running # NoItem
    /\ signalled' = TRUE
    /\ UNCHANGED <<queued, running, sequence, inbound, delivered, outcome>>

\* clear(): every waiting operation rejects, the running one is signalled.
Clear ==
    /\ queued' = <<>>
    /\ signalled' = (running # NoItem)
    /\ outcome' = [id \in 1..MaxOps |->
                     IF \E item \in ToSet(queued) : item.id = id
                     THEN "cancelled" ELSE outcome[id]]
    /\ UNCHANGED <<running, sequence, inbound, delivered>>

Next ==
    \/ \E kind \in Kinds : Accept(kind) \/ Refuse(kind)
    \/ Finish
    \/ \E i \in DOMAIN queued : CancelQueued(i)
    \/ CancelRunning
    \/ Clear

\* A started operation ends: the handlers await storage and the socket only.
Fairness == WF_vars(Finish)

Spec == Init /\ [][Next]_vars /\ Fairness

-----------------------------------------------------------------------------
ItemType ==
    [id : 1..MaxOps, kind : Kinds, order : Nat]

TypeOK ==
    /\ queued \in Seq(ItemType)
    /\ running \in ItemType \cup {NoItem}
    /\ sequence \in 0..MaxOps
    /\ inbound \in 0..sequence
    /\ delivered \in 0..inbound
    /\ outcome \in [1..MaxOps -> {"none", "settled", "cancelled"}]
    /\ signalled \in BOOLEAN

\* The abort of a waiting operation is its outcome for good: what was
\* cancelled in the queue never starts afterwards.
CancelledNeverStarts ==
    [][\A id \in 1..MaxOps :
          /\ outcome[id] # "none" => outcome'[id] = outcome[id]
          /\ outcome[id] = "cancelled" => running'.id # id]_vars

\* Every accepted operation settles: nothing waits behind an idle queue.
EverySubmissionSettles ==
    \A id \in 1..MaxOps : id = sequence ~> outcome[id] # "none"

=============================================================================
