------------------------- MODULE ObservedTurnsProofs -------------------------
(* Theorems about ObservedTurns, for any number of turns, texts and faults,      *)
(* journals and queues of any length, in a daemon and in a worker.               *)
EXTENDS ObservedTurns, SequenceTheorems, TLAPS

(* A conversation is finished up to its last prompt, whose answer is finished    *)
(* when the page says so.                                                        *)
PageGood(p) ==
  /\ \A t \in Turns : t > p.asked => p.final[t] = 0
  /\ p.mode = "done" => p.final[p.asked] = p.text
  /\ p.mode # "done" => p.final[p.asked] = 0

(* What the observer has read is what the page shows, until the page changes; and  *)
(* what has looked finished for 1 500 ms is finished.                            *)
ReadGood(ob, p, b) ==
  /\ ~ob.dirty => ob.seen = Observation(ReadAssistantSnapshot(p, ob.item), b.owed # NoTurn)
  /\ ob.clock >= MinimumStable /\ TerminalCandidate(ob.seen, MinimumStable) =>
       p.final[ob.seen.turn] = ob.seen.answer

(* An input is queued once, and never again after it was taken off the queue.     *)
InputsGood(w, l) ==
  /\ \A i, j \in 1..Len(w.inputs) : w.inputs[i] = w.inputs[j] => i = j
  /\ \A i \in 1..Len(w.inputs) : w.inputs[i] \notin w.hist
  /\ l.ran \subseteq w.hist
  /\ ~l.twice
  /\ w.life # "ready" => w.run # NoTurn

Only(jobs, kinds) ==
  \A i, j \in 1..Len(jobs) : jobs[i].kind \in kinds /\ jobs[j].kind \in kinds => i = j
Without(jobs, kinds) == \A i \in 1..Len(jobs) : jobs[i].kind \notin kinds

(* At most one job of the project queue is a run of the workflow, or about to     *)
(* begin one: with the oldest input, while the workflow is ready.                 *)
Executing == {"run", "work", "again"}
JobsGood(jobs, w) ==
  /\ Only(jobs, Executing)
  /\ \A i \in 1..Len(jobs) :
       /\ jobs[i].kind = "run" => /\ w.life = "ready" /\ w.inputs # <<>>
                                  /\ jobs[i].turn = w.inputs[1]
       /\ jobs[i].kind \in {"work", "again"} => w.life \in {"running", "waiting"}
       /\ jobs[i].kind = "work" => i = 1

(* Nothing is queued before the workflow is restored, and a startup input stays    *)
(* in the inbox until it is queued.                                               *)
HydrationGood(p, w) ==
  /\ p.hyd \in {"absent", "restoring"} => p.jobs = <<>> /\ ~p.timer
  /\ p.hyd = "removing" => w.inbox # <<>>
  /\ Only(p.jobs, {"drain"})
  /\ Without(p.jobs, {"drain"}) \/ (p.hyd = "draining" /\ w.inbox # <<>>)

(* The listener of the stream is awaited for one envelope, whose turn is a job of  *)
(* the queue or has been queued; or for the decision about a gap.                 *)
StreamGood(s, p, w, l) ==
  /\ Local => s = Closed /\ Without(p.jobs, {"gap"})
  /\ ~Local =>
       /\ p.hyd \in {"absent", "ready"} /\ w.inbox = <<>>
       /\ Only(p.jobs, {"defer", "gap"})
       /\ \A i \in 1..Len(p.jobs) :
            /\ p.jobs[i].kind = "defer" => s.pc = "wait" /\ p.jobs[i].turn = s.pipe[1].turn
            /\ p.jobs[i].kind = "gap" => s.pc = "gap"
       /\ s.pc \in {"wait", "commit"} => s.pipe # <<>>
       /\ s.pc = "commit" => /\ s.pipe[1].turn \in Kept(w) \cup l.missed
                             /\ p.hyd = "absent" => s.pipe[1].turn \in l.missed

IInv == /\ TypeOK /\ PageGood(page) /\ ReadGood(observer, page, boundary) /\ PublishedIsFinal
        /\ InputsGood(workflow, log) /\ JobsGood(process.jobs, workflow)
        /\ HydrationGood(process, workflow) /\ StreamGood(stream, process, workflow, log)

------------------------------------------------------------------------------
(* Sequences                                                                  *)

LEMMA Added ==
  ASSUME NEW S, NEW s \in Seq(S), NEW x \in S
  PROVE  /\ Append(s, x) \in Seq(S) /\ Append(s, x) # <<>>
         /\ Len(Append(s, x)) = Len(s) + 1 /\ Len(s) \in Nat
         /\ \A i \in 1..Len(s) : Append(s, x)[i] = s[i] /\ s[i] \in S
         /\ Append(s, x)[Len(s) + 1] = x
BY AppendProperties, LenProperties, ElementOfSeq

LEMMA Dropped1 ==
  ASSUME NEW S, NEW s \in Seq(S), s # <<>>
  PROVE  /\ Tail(s) \in Seq(S) /\ Len(Tail(s)) = Len(s) - 1 /\ Len(s) \in Nat \ {0}
         /\ \A i \in 1..Len(Tail(s)) : i + 1 \in 1..Len(s) /\ Tail(s)[i] = s[i + 1]
         /\ Head(s) = s[1] /\ s[1] \in S
<1>1. Len(s) \in Nat /\ Len(s) # 0
  BY LenProperties, EmptySeq
<1>2. 1 \in 1..Len(s)
  BY <1>1
<1>3. s[1] \in S
  BY <1>2, ElementOfSeq
<1> QED
  BY <1>1, <1>3, HeadTailProperties

LEMMA Members ==
  ASSUME NEW S, NEW s \in Seq(S)
  PROVE  /\ ToSet(s) \subseteq S
         /\ \A x : x \in ToSet(s) <=> \E i \in 1..Len(s) : s[i] = x
<1>1. DOMAIN s = 1..Len(s)
  BY LenProperties
<1>2. \A i \in 1..Len(s) : s[i] \in S
  BY ElementOfSeq
<1> QED
  BY <1>1, <1>2 DEF ToSet

LEMMA AddedMembers ==
  ASSUME NEW S, NEW s \in Seq(S), NEW x \in S
  PROVE  ToSet(Append(s, x)) = ToSet(s) \cup {x}
<1> DEFINE a == Append(s, x)
<1>1. /\ a \in Seq(S) /\ Len(a) = Len(s) + 1 /\ Len(s) \in Nat
      /\ \A i \in 1..Len(s) : a[i] = s[i]
      /\ a[Len(s) + 1] = x
  BY Added
<1>2. \A y : y \in ToSet(a) <=> \E i \in 1..Len(a) : a[i] = y
  BY <1>1, Members
<1>3. \A y : y \in ToSet(s) <=> \E i \in 1..Len(s) : s[i] = y
  BY Members
<1> HIDE DEF a
<1>4. \A i \in 1..Len(a) : i \in 1..Len(s) \/ i = Len(s) + 1
  BY <1>1
<1>5. Len(s) + 1 \in 1..Len(a) /\ \A i \in 1..Len(s) : i \in 1..Len(a)
  BY <1>1
<1>6. ToSet(a) = ToSet(s) \cup {x}
  BY <1>1, <1>2, <1>3, <1>4, <1>5
<1> QED
  BY <1>6 DEF a

LEMMA HeadAndRest ==
  ASSUME NEW S, NEW s \in Seq(S), s # <<>>
  PROVE  ToSet(s) = {s[1]} \cup ToSet(Tail(s))
<1> DEFINE r == Tail(s)
<1>1. /\ r \in Seq(S) /\ Len(r) = Len(s) - 1 /\ Len(s) \in Nat \ {0}
      /\ \A i \in 1..Len(r) : i + 1 \in 1..Len(s) /\ r[i] = s[i + 1]
  BY Dropped1
<1>2. \A y : y \in ToSet(r) <=> \E i \in 1..Len(r) : r[i] = y
  BY <1>1, Members
<1>3. \A y : y \in ToSet(s) <=> \E i \in 1..Len(s) : s[i] = y
  BY Members
<1> HIDE DEF r
<1>4. \A i \in 1..Len(s) : i = 1 \/ (i - 1 \in 1..Len(r) /\ r[i - 1] = s[i])
  BY <1>1
<1>5. 1 \in 1..Len(s)
  BY <1>1
<1>6. ToSet(s) = {s[1]} \cup ToSet(r)
  BY <1>1, <1>2, <1>3, <1>4, <1>5
<1> QED
  BY <1>6 DEF r

------------------------------------------------------------------------------
(* The queue of jobs                                                          *)

LEMMA JobAdded ==
  ASSUME NEW jobs \in Seq(Jobs), NEW job \in Jobs, NEW kinds
  PROVE  /\ Append(jobs, job) \in Seq(Jobs)
         /\ Only(jobs, kinds) /\ (job.kind \notin kinds \/ Without(jobs, kinds)) => Only(Append(jobs, job), kinds)
         /\ Without(jobs, kinds) /\ job.kind \notin kinds => Without(Append(jobs, job), kinds)
<1> DEFINE a == Append(jobs, job)
<1>1. /\ a \in Seq(Jobs) /\ Len(a) = Len(jobs) + 1 /\ Len(jobs) \in Nat
      /\ \A i \in 1..Len(jobs) : a[i] = jobs[i]
      /\ a[Len(jobs) + 1] = job
  BY Added
<1> HIDE DEF a
<1>2. \A i \in 1..Len(a) : (i \in 1..Len(jobs) /\ a[i] = jobs[i]) \/ (i = Len(jobs) + 1 /\ a[i] = job)
  BY <1>1
<1>3. Only(jobs, kinds) /\ (job.kind \notin kinds \/ Without(jobs, kinds)) => Only(a, kinds)
  BY <1>2 DEF Only, Without
<1>4. Without(jobs, kinds) /\ job.kind \notin kinds => Without(a, kinds)
  BY <1>2 DEF Without
<1> QED
  BY <1>1, <1>3, <1>4 DEF a

LEMMA JobDone ==
  ASSUME NEW jobs \in Seq(Jobs), jobs # <<>>, NEW kinds
  PROVE  /\ Tail(jobs) \in Seq(Jobs)
         /\ Only(jobs, kinds) => Only(Tail(jobs), kinds)
         /\ Only(jobs, kinds) /\ jobs[1].kind \in kinds => Without(Tail(jobs), kinds)
         /\ Without(jobs, kinds) => Without(Tail(jobs), kinds)
<1> DEFINE r == Tail(jobs)
<1>1. /\ r \in Seq(Jobs) /\ Len(r) = Len(jobs) - 1 /\ Len(jobs) \in Nat \ {0}
      /\ \A i \in 1..Len(r) : i + 1 \in 1..Len(jobs) /\ r[i] = jobs[i + 1]
  BY Dropped1
<1> HIDE DEF r
<1>2. 1 \in 1..Len(jobs) /\ \A i \in 1..Len(r) : i \in Int /\ i + 1 # 1
  BY <1>1
<1>3. Only(jobs, kinds) => Only(r, kinds)
  <2> SUFFICES ASSUME Only(jobs, kinds), NEW i \in 1..Len(r), NEW j \in 1..Len(r), r[i].kind \in kinds, r[j].kind \in kinds
               PROVE  i = j
    BY DEF Only
  <2>1. i + 1 = j + 1
    BY <1>1 DEF Only
  <2> QED
    BY <2>1, <1>2
<1>4. Only(jobs, kinds) /\ jobs[1].kind \in kinds => Without(r, kinds)
  BY <1>1, <1>2 DEF Only, Without
<1>5. Without(jobs, kinds) => Without(r, kinds)
  BY <1>1 DEF Without
<1> QED
  BY <1>1, <1>3, <1>4, <1>5 DEF r

(* The head of the queue begins to work: the kind of the first job changes.      *)
Working(jobs) == [jobs EXCEPT ![1].kind = "work"]
LEMMA JobBegun ==
  ASSUME NEW jobs \in Seq(Jobs), jobs # <<>>, jobs[1].turn \in Turns
  PROVE  /\ Working(jobs) \in Seq(Jobs) /\ Len(Working(jobs)) = Len(jobs)
         /\ Working(jobs)[1] = Job("work", jobs[1].turn)
         /\ \A i \in 1..Len(jobs) : i # 1 => Working(jobs)[i] = jobs[i]
<1> DEFINE head == [jobs[1] EXCEPT !.kind = "work"]
<1>1. Len(jobs) \in Nat \ {0} /\ jobs[1] \in Jobs /\ 1 \in 1..Len(jobs)
  BY Dropped1
<1>2. head = Job("work", jobs[1].turn)
  BY <1>1 DEF Jobs, Job
<1>3. head \in Jobs
  BY <1>2 DEF Jobs, Job
<1>4. Working(jobs) = [jobs EXCEPT ![1] = head]
  BY DEF Working
<1> HIDE DEF head
<1>5. /\ [jobs EXCEPT ![1] = head] \in Seq(Jobs)
      /\ Len([jobs EXCEPT ![1] = head]) = Len(jobs)
      /\ \A i \in 1..Len(jobs) : [jobs EXCEPT ![1] = head][i] = IF i = 1 THEN head ELSE jobs[i]
  BY <1>1, <1>3, ExceptSeq
<1> QED
  BY <1>1, <1>2, <1>4, <1>5

------------------------------------------------------------------------------
(* The workflow                                                               *)

WellFed(w) == w \in Workflows /\ Len(w.inputs) <= QueueLimit

LEMMA KnownIs ==
  ASSUME NEW w \in Workflows, NEW t \in Turns
  PROVE  /\ t \in Known(w) <=> (t \in w.hist \/ \E i \in 1..Len(w.inputs) : w.inputs[i] = t)
         /\ Known(w) \subseteq Turns /\ Kept(w) \subseteq Turns
<1>1. w.inputs \in Seq(Turns) /\ w.inbox \in Seq(Turns) /\ w.hist \subseteq Turns /\ w.dead \subseteq Turns
  BY DEF Workflows
<1>2. \A x : x \in ToSet(w.inputs) <=> \E i \in 1..Len(w.inputs) : w.inputs[i] = x
  BY <1>1, Members
<1>3. ToSet(w.inputs) \subseteq Turns /\ ToSet(w.inbox) \subseteq Turns
  BY <1>1, Members
<1> QED
  BY <1>1, <1>2, <1>3 DEF Known, Kept

(* An input that is queued changes nothing but the queue, and is known.           *)
LEMMA EnqueuedGood ==
  ASSUME NEW w, WellFed(w), NEW t \in Turns, ~Full(w)
  PROVE  /\ WellFed(Enqueued(w, t))
         /\ \A l : InputsGood(w, l) => InputsGood(Enqueued(w, t), l)
         /\ t \in Known(Enqueued(w, t)) /\ Known(w) \subseteq Known(Enqueued(w, t))
         /\ w.inputs # <<>> => Enqueued(w, t).inputs # <<>> /\ Enqueued(w, t).inputs[1] = w.inputs[1]
         /\ Enqueued(w, t).life = w.life /\ Enqueued(w, t).run = w.run /\ Enqueued(w, t).hist = w.hist
         /\ Enqueued(w, t).inbox = w.inbox /\ Enqueued(w, t).dead = w.dead
<1>1. CASE t \in Known(w)
  <2>1. Enqueued(w, t) = w
    BY <1>1 DEF Enqueued
  <2> QED
    BY <1>1, <2>1
<1>2. CASE t \notin Known(w)
  <2> DEFINE q == Append(w.inputs, t)
             v == [w EXCEPT !.inputs = q]
  <2>1. w \in Workflows /\ w.inputs \in Seq(Turns) /\ QueueLimit \in Nat /\ Len(w.inputs) < QueueLimit
    BY ObservedAssumption, LenProperties DEF WellFed, Full, Workflows, ObservedAssumption
  <2>2. /\ q \in Seq(Turns) /\ q # <<>> /\ Len(q) = Len(w.inputs) + 1 /\ Len(w.inputs) \in Nat
        /\ \A i \in 1..Len(w.inputs) : q[i] = w.inputs[i]
        /\ q[Len(w.inputs) + 1] = t
    BY <2>1, Added
  <2>3. ToSet(q) = ToSet(w.inputs) \cup {t}
    BY <2>1, AddedMembers
  <2>4. Enqueued(w, t) = v
    BY <1>2 DEF Enqueued
  <2>5. w.inputs # <<>> => 1 \in 1..Len(w.inputs)
    BY <2>1, Dropped1
  <2>6. t \notin w.hist /\ \A i \in 1..Len(w.inputs) : w.inputs[i] # t
    BY <1>2, <2>1, KnownIs
  <2> HIDE DEF q
  <2>7. /\ v \in Workflows /\ v.inputs = q
        /\ v.life = w.life /\ v.run = w.run /\ v.hist = w.hist /\ v.inbox = w.inbox /\ v.dead = w.dead
    BY <2>1, <2>2 DEF Workflows
  <2> HIDE DEF v
  <2>8. WellFed(v)
    BY <2>1, <2>2, <2>7 DEF WellFed
  <2>9. \A i \in 1..Len(q) : (i \in 1..Len(w.inputs) /\ q[i] = w.inputs[i]) \/ (i = Len(w.inputs) + 1 /\ q[i] = t)
    BY <2>2
  <2>10. ASSUME NEW l, InputsGood(w, l)
         PROVE  InputsGood(v, l)
    <3>1. \A i, j \in 1..Len(q) : q[i] = q[j] => i = j
      BY <2>6, <2>9, <2>10 DEF InputsGood
    <3>2. \A i \in 1..Len(q) : q[i] \notin w.hist
      BY <2>6, <2>9, <2>10 DEF InputsGood
    <3> QED
      BY <3>1, <3>2, <2>7, <2>10 DEF InputsGood
  <2>11. t \in Known(v) /\ Known(w) \subseteq Known(v)
    BY <2>3, <2>7 DEF Known
  <2> QED
    BY <2>2, <2>4, <2>5, <2>7, <2>8, <2>10, <2>11
<1> QED
  BY <1>1, <1>2

(* A dead letter, or an input in the inbox, leaves the queue alone.                *)
LEMMA OtherPlaces ==
  ASSUME NEW w, WellFed(w), NEW t \in Turns
  PROVE  /\ WellFed(DeadLettered(w, t)) /\ t \in Kept(DeadLettered(w, t)) /\ Kept(w) \subseteq Kept(DeadLettered(w, t))
         /\ DeadLettered(w, t).inputs = w.inputs /\ DeadLettered(w, t).hist = w.hist
         /\ DeadLettered(w, t).life = w.life /\ DeadLettered(w, t).run = w.run /\ DeadLettered(w, t).inbox = w.inbox
         /\ WellFed(Inboxed(w, t)) /\ Inboxed(w, t).inputs = w.inputs /\ Inboxed(w, t).hist = w.hist
         /\ Inboxed(w, t).life = w.life /\ Inboxed(w, t).run = w.run
         /\ w.inbox # <<>> => Inboxed(w, t).inbox # <<>>
<1>1. w \in Workflows /\ w.inputs \in Seq(Turns) /\ w.inbox \in Seq(Turns) /\ w.dead \subseteq Turns
  BY DEF WellFed, Workflows
<1> DEFINE v == DeadLettered(w, t)
<1>2. /\ v \in Workflows /\ v.inputs = w.inputs /\ v.hist = w.hist /\ v.life = w.life /\ v.run = w.run
      /\ v.inbox = w.inbox /\ v.dead = w.dead \cup {t}
  BY <1>1 DEF Workflows, DeadLettered
<1> HIDE DEF v
<1>3. WellFed(v) /\ t \in Kept(v) /\ Kept(w) \subseteq Kept(v)
  BY <1>2 DEF WellFed, Kept, Known
<1> DEFINE q == Append(w.inbox, t)
           u == [w EXCEPT !.inbox = q]
<1>4. q \in Seq(Turns) /\ q # <<>>
  BY <1>1, Added
<1>5. Inboxed(w, t) \in {w, v, u}
  BY DEF Inboxed, v
<1> HIDE DEF q
<1>6. /\ u \in Workflows /\ u.inputs = w.inputs /\ u.hist = w.hist /\ u.life = w.life /\ u.run = w.run /\ u.inbox = q
  BY <1>1, <1>4 DEF Workflows
<1> HIDE DEF u
<1>7. WellFed(u)
  BY <1>6 DEF WellFed
<1> QED
  BY <1>2, <1>3, <1>4, <1>5, <1>6, <1>7 DEF v

LEMMA DeferredGood ==
  ASSUME NEW w, WellFed(w), NEW t \in Turns
  PROVE  /\ WellFed(Deferred(w, t))
         /\ \A l : InputsGood(w, l) => InputsGood(Deferred(w, t), l)
         /\ t \in Kept(Deferred(w, t)) /\ Kept(w) \subseteq Kept(Deferred(w, t))
         /\ w.inputs # <<>> => Deferred(w, t).inputs # <<>> /\ Deferred(w, t).inputs[1] = w.inputs[1]
         /\ Deferred(w, t).life = w.life /\ Deferred(w, t).inbox = w.inbox
<1>1. CASE Full(w)
  <2>1. Deferred(w, t) = DeadLettered(w, t)
    BY <1>1 DEF Deferred
  <2> QED
    BY <2>1, OtherPlaces DEF InputsGood
<1>2. CASE ~Full(w)
  <2>1. Deferred(w, t) = Enqueued(w, t)
    BY <1>2 DEF Deferred
  <2> QED
    BY <1>2, <2>1, EnqueuedGood DEF Kept
<1> QED
  BY <1>1, <1>2

(* An input that is begun leaves the queue for the history; nobody has run it.     *)
LEMMA BegunGood ==
  ASSUME NEW w, WellFed(w), w.inputs # <<>>, NEW l \in Logs, InputsGood(w, l)
  PROVE  LET t == w.inputs[1]
             m == [l EXCEPT !.ran = @ \cup {t}, !.twice = @ \/ t \in l.ran]
         IN  /\ t \in Turns /\ WellFed(Begun(w, t)) /\ m \in Logs /\ InputsGood(Begun(w, t), m)
             /\ m.missed = l.missed /\ Kept(Begun(w, t)) = Kept(w)
             /\ Begun(w, t).life = "running" /\ Begun(w, t).inbox = w.inbox
<1> DEFINE t == w.inputs[1]
           r == Tail(w.inputs)
           v == Begun(w, t)
           m == [l EXCEPT !.ran = @ \cup {t}, !.twice = @ \/ t \in l.ran]
<1>1. /\ w \in Workflows /\ w.inputs \in Seq(Turns) /\ w.hist \subseteq Turns /\ QueueLimit \in Nat
      /\ Len(w.inputs) <= QueueLimit
  BY ObservedAssumption DEF WellFed, Workflows, ObservedAssumption
<1>2. /\ r \in Seq(Turns) /\ Len(r) = Len(w.inputs) - 1 /\ Len(w.inputs) \in Nat \ {0}
      /\ \A i \in 1..Len(r) : i + 1 \in 1..Len(w.inputs) /\ r[i] = w.inputs[i + 1]
      /\ t \in Turns
  BY <1>1, Dropped1
<1>3. ToSet(w.inputs) = {t} \cup ToSet(r)
  BY <1>1, HeadAndRest
<1>4. 1 \in 1..Len(w.inputs) /\ \A i \in 1..Len(r) : i \in Int /\ i + 1 # 1
  BY <1>2
<1>5. t \notin l.ran
  BY <1>4 DEF InputsGood
<1>6. t \in 0..MaxTurns /\ t # NoTurn
  BY <1>2, ObservedAssumption DEF ObservedAssumption, Turns, NoTurn
<1> HIDE DEF t, r
<1>7. /\ v \in Workflows /\ v.inputs = r /\ v.hist = w.hist \cup {t} /\ v.life = "running" /\ v.run = t
      /\ v.inbox = w.inbox /\ v.dead = w.dead
  BY <1>1, <1>2, <1>6 DEF Workflows, Begun, Lives, r
<1>8. m \in Logs /\ m.ran = l.ran \cup {t} /\ m.twice = FALSE /\ m.missed = l.missed
  BY <1>2, <1>5 DEF Logs, InputsGood
<1> HIDE DEF v, m
<1>9. WellFed(v)
  BY <1>1, <1>2, <1>7 DEF WellFed
<1>10. \A i, j \in 1..Len(r) : r[i] = r[j] => i = j
  <2> SUFFICES ASSUME NEW i \in 1..Len(r), NEW j \in 1..Len(r), r[i] = r[j]
               PROVE  i = j
    OBVIOUS
  <2>1. i + 1 = j + 1
    BY <1>2 DEF InputsGood
  <2> QED
    BY <2>1, <1>4
<1>11. \A i \in 1..Len(r) : r[i] \notin w.hist \cup {t}
  BY <1>2, <1>4 DEF InputsGood, t
<1>12. InputsGood(v, m)
  BY <1>6, <1>7, <1>8, <1>10, <1>11 DEF InputsGood
<1>13. Kept(v) = Kept(w)
  BY <1>3, <1>7 DEF Kept, Known
<1> QED
  BY <1>2, <1>7, <1>8, <1>9, <1>12, <1>13 DEF v, m, t

LEMMA EndedGood ==
  ASSUME NEW w, WellFed(w)
  PROVE  /\ WellFed(Ended(w)) /\ Ended(w).life = "ready" /\ Kept(Ended(w)) = Kept(w) /\ Ended(w).inbox = w.inbox
         /\ \A l : InputsGood(w, l) => InputsGood(Ended(w), l)
<1>1. w \in Workflows /\ Len(w.inputs) <= QueueLimit
  BY DEF WellFed
<1>2. NoTurn \in 0..MaxTurns
  BY ObservedAssumption DEF ObservedAssumption, NoTurn
<1>3. /\ Ended(w) \in Workflows /\ Ended(w).life = "ready" /\ Ended(w).inputs = w.inputs /\ Ended(w).hist = w.hist
      /\ Ended(w).inbox = w.inbox /\ Ended(w).dead = w.dead
  BY <1>1, <1>2 DEF Ended, Workflows, Lives
<1> QED
  BY <1>1, <1>3 DEF WellFed, InputsGood, Kept, Known

(* A run that goes on: only its place in the life of the workflow changes.         *)
LEMMA LifeGood ==
  ASSUME NEW w, WellFed(w), NEW life \in Lives, w.run # NoTurn
  PROVE  LET v == [w EXCEPT !.life = life]
         IN  /\ WellFed(v) /\ v.life = life /\ Kept(v) = Kept(w) /\ v.inbox = w.inbox /\ v.inputs = w.inputs
             /\ \A l : InputsGood(w, l) => InputsGood(v, l)
<1> DEFINE v == [w EXCEPT !.life = life]
<1>1. w \in Workflows /\ Len(w.inputs) <= QueueLimit
  BY DEF WellFed
<1>2. /\ v \in Workflows /\ v.life = life /\ v.inputs = w.inputs /\ v.hist = w.hist
      /\ v.inbox = w.inbox /\ v.dead = w.dead /\ v.run = w.run
  BY <1>1 DEF Workflows
<1> HIDE DEF v
<1>3. WellFed(v) /\ Kept(v) = Kept(w) /\ \A l : InputsGood(w, l) => InputsGood(v, l)
  BY <1>1, <1>2 DEF WellFed, InputsGood, Kept, Known
<1> QED
  BY <1>2, <1>3 DEF v

(* A workflow that may begin an input gets one job for it.                          *)
LEMMA Scheduled ==
  ASSUME NEW w, WellFed(w), NEW p \in Processes, JobsGood(p.jobs, w)
  PROVE  /\ Schedule(w, p) \in Processes
         /\ Schedule(w, p).hyd = p.hyd /\ Schedule(w, p).timer = p.timer
         /\ JobsGood(Schedule(w, p).jobs, w)
         /\ \/ Schedule(w, p).jobs = p.jobs
            \/ /\ w.inputs # <<>> /\ Job("run", w.inputs[1]) \in Jobs
               /\ Schedule(w, p).jobs = Append(p.jobs, Job("run", w.inputs[1]))
<1> DEFINE job == Job("run", w.inputs[1])
           q == Append(p.jobs, job)
<1>1. CASE ~(w.life = "ready" /\ w.inputs # <<>> /\ job \notin ToSet(p.jobs))
  <2>1. Schedule(w, p) = p
    BY <1>1 DEF Schedule
  <2> QED
    BY <2>1
<1>2. CASE w.life = "ready" /\ w.inputs # <<>> /\ job \notin ToSet(p.jobs)
  <2>1. w.inputs \in Seq(Turns) /\ p.jobs \in Seq(Jobs)
    BY DEF WellFed, Workflows, Processes
  <2>2. w.inputs[1] \in Turns
    BY <1>2, <2>1, Dropped1
  <2>3. job \in Jobs /\ job.kind = "run" /\ job.turn = w.inputs[1]
    BY <2>2 DEF Job, Jobs
  <2>4. Schedule(w, p) = [p EXCEPT !.jobs = q]
    BY <1>2 DEF Schedule
  <2>5. \A i \in 1..Len(p.jobs) : p.jobs[i] \in Jobs /\ p.jobs[i] # job
    BY <1>2, <2>1, Members, ElementOfSeq
  <2>6. \A i \in 1..Len(p.jobs) : p.jobs[i].kind = "run" => p.jobs[i] = job
    <3> SUFFICES ASSUME NEW i \in 1..Len(p.jobs), p.jobs[i].kind = "run"
                 PROVE  p.jobs[i] = job
      OBVIOUS
    <3>1. p.jobs[i].turn = w.inputs[1]
      BY DEF JobsGood
    <3> QED
      BY <2>5, <3>1 DEF Job, Jobs
  <2>7. Without(p.jobs, Executing)
    BY <1>2, <2>5, <2>6 DEF Without, Executing, JobsGood
  <2>8. /\ q \in Seq(Jobs) /\ Len(q) = Len(p.jobs) + 1 /\ Len(p.jobs) \in Nat
        /\ \A i \in 1..Len(p.jobs) : q[i] = p.jobs[i]
        /\ q[Len(p.jobs) + 1] = job
    BY <2>1, <2>3, Added
  <2>9. Only(q, Executing)
    BY <2>1, <2>3, <2>7, JobAdded DEF JobsGood
  <2> HIDE DEF q, job
  <2>10. \A i \in 1..Len(q) : (i \in 1..Len(p.jobs) /\ q[i] = p.jobs[i]) \/ q[i] = job
    BY <2>8
  <2>11. JobsGood(q, w)
    BY <1>2, <2>3, <2>9, <2>10 DEF JobsGood
  <2>12. [p EXCEPT !.jobs = q] \in Processes
    BY <2>8 DEF Processes
  <2> QED
    BY <1>2, <2>3, <2>4, <2>11, <2>12 DEF q, job, Processes
<1> QED
  BY <1>1, <1>2

------------------------------------------------------------------------------
(* From the stream to the workflow                                            *)

Good(s, p, w, l) ==
  /\ s \in Streams /\ p \in Processes /\ WellFed(w) /\ l \in Logs
  /\ InputsGood(w, l) /\ JobsGood(p.jobs, w) /\ HydrationGood(p, w) /\ StreamGood(s, p, w, l)

Restored(p) == p.hyd \notin {"absent", "restoring"}

(* A process with other jobs.                                                     *)
WithJobs(p, jobs) == [p EXCEPT !.jobs = jobs]
LEMMA WithJobsIs ==
  ASSUME NEW p \in Processes, NEW jobs \in Seq(Jobs)
  PROVE  /\ WithJobs(p, jobs) \in Processes /\ WithJobs(p, jobs).jobs = jobs
         /\ WithJobs(p, jobs).hyd = p.hyd /\ WithJobs(p, jobs).timer = p.timer
BY DEF WithJobs, Processes

(* The workflow takes a step that its jobs allow and that forgets no turn.         *)
LEMMA GoodWorkflow ==
  ASSUME NEW s, NEW p, NEW w, NEW l, Good(s, p, w, l), NEW v, NEW m \in Logs,
         WellFed(v), InputsGood(v, m), JobsGood(p.jobs, v),
         v.inbox = w.inbox, Kept(w) \subseteq Kept(v), l.missed \subseteq m.missed
  PROVE  Good(s, p, v, m)
<1>1. HydrationGood(p, v)
  BY DEF Good, HydrationGood
<1>2. StreamGood(s, p, v, m)
  BY DEF Good, StreamGood
<1> QED
  BY <1>1, <1>2 DEF Good

(* The first job is done.                                                          *)
LEMMA GoodDrop ==
  ASSUME NEW s, NEW p, NEW w, NEW l, Good(s, p, w, l), p.jobs # <<>>
  PROVE  /\ Good(s, WithJobs(p, Tail(p.jobs)), w, l)
         /\ p.jobs[1] \in Jobs /\ Restored(p) /\ p \in Processes
         /\ p.jobs[1].kind \in Executing => Without(Tail(p.jobs), Executing)
         /\ p.jobs[1].kind \in {"defer", "gap"} /\ ~Local => Without(Tail(p.jobs), {"defer", "gap"})
         /\ p.jobs[1].kind = "drain" => Without(Tail(p.jobs), {"drain"})
<1> DEFINE r == Tail(p.jobs)
           q == WithJobs(p, r)
<1>1. p.jobs \in Seq(Jobs) /\ p \in Processes
  BY DEF Good, Processes
<1>2. /\ r \in Seq(Jobs) /\ Len(r) = Len(p.jobs) - 1 /\ Len(p.jobs) \in Nat \ {0}
      /\ \A i \in 1..Len(r) : i + 1 \in 1..Len(p.jobs) /\ r[i] = p.jobs[i + 1]
      /\ p.jobs[1] \in Jobs
  BY <1>1, Dropped1
<1>3. /\ Only(r, Executing)
      /\ Only(p.jobs, {"drain"}) => Only(r, {"drain"})
      /\ Only(p.jobs, {"defer", "gap"}) => Only(r, {"defer", "gap"})
      /\ Without(p.jobs, {"drain"}) => Without(r, {"drain"})
      /\ Without(p.jobs, {"gap"}) => Without(r, {"gap"})
  BY <1>1, JobDone DEF Good, JobsGood
<1>4. /\ p.jobs[1].kind \in Executing => Without(r, Executing)
      /\ p.jobs[1].kind \in {"defer", "gap"} /\ ~Local => Without(r, {"defer", "gap"})
      /\ p.jobs[1].kind = "drain" => Without(r, {"drain"})
  <2>1. Only(p.jobs, Executing) /\ Only(p.jobs, {"drain"}) /\ (~Local => Only(p.jobs, {"defer", "gap"}))
    BY DEF Good, JobsGood, HydrationGood, StreamGood
  <2>2. /\ Only(p.jobs, Executing) /\ p.jobs[1].kind \in Executing => Without(r, Executing)
        /\ Only(p.jobs, {"defer", "gap"}) /\ p.jobs[1].kind \in {"defer", "gap"} => Without(r, {"defer", "gap"})
        /\ Only(p.jobs, {"drain"}) /\ p.jobs[1].kind \in {"drain"} => Without(r, {"drain"})
    BY <1>1, JobDone
  <2> QED
    BY <2>1, <2>2
<1>5. q \in Processes /\ q.jobs = r /\ q.hyd = p.hyd /\ q.timer = p.timer
  BY <1>1, <1>2, WithJobsIs
<1> HIDE DEF r
<1>6. \A i \in 1..Len(r) : i \in Int /\ i + 1 # 1
  BY <1>2
<1>7. JobsGood(r, w)
  BY <1>2, <1>3, <1>6 DEF Good, JobsGood
<1>8. Restored(p)
  BY DEF Good, HydrationGood, Restored
<1>9. HydrationGood(q, w)
  BY <1>3, <1>5, <1>8 DEF Good, HydrationGood, Restored
<1>10. StreamGood(s, q, w, l)
  BY <1>2, <1>3, <1>5 DEF Good, StreamGood
<1> QED
  BY <1>1, <1>2, <1>4, <1>5, <1>7, <1>8, <1>9, <1>10 DEF Good, r

(* A job is added that the workflow and the stream allow.                          *)
LEMMA GoodAdd ==
  ASSUME NEW s, NEW p, NEW w, NEW l, Good(s, p, w, l), NEW job \in Jobs, Restored(p),
         JobsGood(Append(p.jobs, job), w),
         job.kind # "drain",
         job.kind = "gap" => ~Local,
         ~Local => /\ job.kind \in {"defer", "gap"} => Without(p.jobs, {"defer", "gap"})
                   /\ job.kind = "defer" => s.pc = "wait" /\ job.turn = s.pipe[1].turn
                   /\ job.kind = "gap" => s.pc = "gap"
  PROVE  Good(s, WithJobs(p, Append(p.jobs, job)), w, l)
<1> DEFINE a == Append(p.jobs, job)
           q == WithJobs(p, a)
<1>1. p.jobs \in Seq(Jobs) /\ p \in Processes
  BY DEF Good, Processes
<1>2. /\ a \in Seq(Jobs) /\ Len(a) = Len(p.jobs) + 1 /\ Len(p.jobs) \in Nat
      /\ \A i \in 1..Len(p.jobs) : a[i] = p.jobs[i]
      /\ a[Len(p.jobs) + 1] = job
  BY <1>1, Added
<1>3. /\ Only(p.jobs, {"drain"}) => Only(a, {"drain"})
      /\ Without(p.jobs, {"drain"}) => Without(a, {"drain"})
      /\ Only(p.jobs, {"defer", "gap"}) /\ (job.kind \notin {"defer", "gap"} \/ Without(p.jobs, {"defer", "gap"}))
           => Only(a, {"defer", "gap"})
      /\ Without(p.jobs, {"gap"}) /\ job.kind # "gap" => Without(a, {"gap"})
  BY <1>1, JobAdded
<1>4. q \in Processes /\ q.jobs = a /\ q.hyd = p.hyd /\ q.timer = p.timer
  BY <1>1, <1>2, WithJobsIs
<1> HIDE DEF a
<1>5. \A i \in 1..Len(a) : (i \in 1..Len(p.jobs) /\ a[i] = p.jobs[i]) \/ a[i] = job
  BY <1>2
<1>6. HydrationGood(q, w)
  BY <1>3, <1>4 DEF Good, HydrationGood, Restored
<1>7. StreamGood(s, q, w, l)
  BY <1>3, <1>4, <1>5 DEF Good, StreamGood
<1>8. JobsGood(a, w)
  BY DEF a
<1> QED
  BY <1>4, <1>6, <1>7, <1>8 DEF Good, a

LEMMA PlainJob ==
  ASSUME NEW jobs \in Seq(Jobs), NEW job \in Jobs, NEW w, JobsGood(jobs, w), job.kind \notin Executing
  PROVE  JobsGood(Append(jobs, job), w)
<1> DEFINE a == Append(jobs, job)
<1>1. /\ Len(a) = Len(jobs) + 1 /\ Len(jobs) \in Nat
      /\ \A i \in 1..Len(jobs) : a[i] = jobs[i]
      /\ a[Len(jobs) + 1] = job
  BY Added
<1>2. Only(a, Executing)
  BY JobAdded DEF JobsGood
<1> HIDE DEF a
<1>3. \A i \in 1..Len(a) : (i \in 1..Len(jobs) /\ a[i] = jobs[i]) \/ a[i] = job
  BY <1>1
<1>4. JobsGood(a, w)
  BY <1>2, <1>3 DEF JobsGood, Executing
<1> QED
  BY <1>4 DEF a

LEMMA GoodSchedule ==
  ASSUME NEW s, NEW p, NEW w, NEW l, Good(s, p, w, l), Restored(p)
  PROVE  Good(s, Schedule(w, p), w, l)
<1>1. /\ Schedule(w, p) \in Processes /\ Schedule(w, p).hyd = p.hyd /\ Schedule(w, p).timer = p.timer
      /\ JobsGood(Schedule(w, p).jobs, w)
      /\ \/ Schedule(w, p).jobs = p.jobs
         \/ /\ w.inputs # <<>> /\ Job("run", w.inputs[1]) \in Jobs
            /\ Schedule(w, p).jobs = Append(p.jobs, Job("run", w.inputs[1]))
  BY Scheduled DEF Good
<1>2. CASE Schedule(w, p).jobs = p.jobs
  BY <1>1, <1>2 DEF Good, Processes, HydrationGood, StreamGood
<1>3. CASE /\ w.inputs # <<>> /\ Job("run", w.inputs[1]) \in Jobs
           /\ Schedule(w, p).jobs = Append(p.jobs, Job("run", w.inputs[1]))
  <2> DEFINE job == Job("run", w.inputs[1])
  <2>1. job \in Jobs /\ job.kind = "run" /\ JobsGood(Append(p.jobs, job), w)
    BY <1>1, <1>3 DEF Job
  <2> HIDE DEF job
  <2>2. Good(s, WithJobs(p, Append(p.jobs, job)), w, l)
    BY <2>1, GoodAdd
  <2>3. Append(p.jobs, job) \in Seq(Jobs) /\ p \in Processes
    BY <2>1, JobAdded DEF Good, Processes
  <2>4. WithJobs(p, Append(p.jobs, job)).jobs = Schedule(w, p).jobs /\ WithJobs(p, Append(p.jobs, job)).hyd = Schedule(w, p).hyd
        /\ WithJobs(p, Append(p.jobs, job)).timer = Schedule(w, p).timer
    BY <1>1, <1>3, <2>3, WithJobsIs DEF job
  <2> QED
    BY <1>1, <2>2, <2>4 DEF Good, HydrationGood, StreamGood
<1> QED
  BY <1>1, <1>2, <1>3

(* A turn that is routed is dropped, becomes a job, or waits in the inbox.          *)
LEMMA RouteShape ==
  ASSUME NEW t, Route(t)
  PROVE  \/ /\ process.hyd = "absent" /\ log' = [log EXCEPT !.missed = @ \cup {t}] /\ UNCHANGED <<workflow, process>>
         \/ /\ process.hyd = "ready" /\ process' = WithJobs(process, Append(process.jobs, Job("defer", t)))
            /\ UNCHANGED <<workflow, log>>
         \/ /\ Restored(process) \/ process.hyd = "restoring"
            /\ process.hyd # "ready" /\ process.hyd # "absent"
            /\ workflow' = Inboxed(workflow, t) /\ log' = [log EXCEPT !.kept = @ \cup {t}] /\ UNCHANGED process
BY DEF Route, WithJobs, Restored

LEMMA LogMissed ==
  ASSUME NEW l \in Logs, NEW t \in Turns
  PROVE  LET m == [l EXCEPT !.missed = @ \cup {t}] IN
         m \in Logs /\ m.missed = l.missed \cup {t} /\ m.ran = l.ran /\ m.twice = l.twice
BY DEF Logs
LEMMA LogKept ==
  ASSUME NEW l \in Logs, NEW t \in Turns
  PROVE  LET m == [l EXCEPT !.kept = @ \cup {t}] IN
         m \in Logs /\ m.missed = l.missed /\ m.ran = l.ran /\ m.twice = l.twice
BY DEF Logs

(* In the daemon a turn is routed when it is published.                             *)
LEMMA RouteLocal ==
  ASSUME Good(stream, process, workflow, log), Local, NEW t \in Turns, Route(t)
  PROVE  Good(stream, process', workflow', log')
<1>1. CASE process.hyd = "absent" /\ log' = [log EXCEPT !.missed = @ \cup {t}] /\ UNCHANGED <<workflow, process>>
  <2> DEFINE m == [log EXCEPT !.missed = @ \cup {t}]
  <2>1. m \in Logs /\ m.missed = log.missed \cup {t} /\ m.ran = log.ran /\ m.twice = log.twice
    BY LogMissed DEF Good
  <2> HIDE DEF m
  <2>2. Good(stream, process, workflow, m)
    BY <2>1 DEF Good, InputsGood, StreamGood
  <2> QED
    BY <1>1, <2>2 DEF m
<1>2. CASE /\ process.hyd = "ready" /\ process' = WithJobs(process, Append(process.jobs, Job("defer", t)))
           /\ UNCHANGED <<workflow, log>>
  <2>1. Job("defer", t) \in Jobs /\ Job("defer", t).kind = "defer"
    BY DEF Job, Jobs
  <2>2. JobsGood(Append(process.jobs, Job("defer", t)), workflow)
    BY <2>1, PlainJob DEF Good, Processes, Executing
  <2>3. Good(stream, WithJobs(process, Append(process.jobs, Job("defer", t))), workflow, log)
    BY <1>2, <2>1, <2>2, GoodAdd DEF Restored
  <2> QED
    BY <1>2, <2>3
<1>3. CASE workflow' = Inboxed(workflow, t) /\ log' = [log EXCEPT !.kept = @ \cup {t}] /\ UNCHANGED process
  <2> DEFINE m == [log EXCEPT !.kept = @ \cup {t}]
             v == Inboxed(workflow, t)
  <2>1. m \in Logs /\ m.missed = log.missed /\ m.ran = log.ran /\ m.twice = log.twice
    BY LogKept DEF Good
  <2>2. /\ WellFed(v) /\ v.inputs = workflow.inputs /\ v.hist = workflow.hist
        /\ v.life = workflow.life /\ v.run = workflow.run
        /\ workflow.inbox # <<>> => v.inbox # <<>>
    BY OtherPlaces DEF Good
  <2> HIDE DEF m, v
  <2>3. InputsGood(v, m) /\ JobsGood(process.jobs, v)
    BY <2>1, <2>2 DEF Good, InputsGood, JobsGood
  <2>4. HydrationGood(process, v) /\ StreamGood(stream, process, v, m)
    BY <2>2 DEF Good, HydrationGood, StreamGood
  <2> QED
    BY <1>3, <2>1, <2>2, <2>3, <2>4 DEF Good, m, v
<1> QED
  BY <1>1, <1>2, <1>3, RouteShape

------------------------------------------------------------------------------
(* The jobs of the queue                                                      *)

Now == Good(stream, process, workflow, log)

LEMMA NoJobs ==
  ASSUME NEW w, NEW kinds
  PROVE  <<>> \in Seq(Jobs) /\ JobsGood(<<>>, w) /\ Only(<<>>, kinds) /\ Without(<<>>, kinds)
<1>1. <<>> \in Seq(Jobs) /\ Len(<<>>) = 0
  BY EmptySeq
<1>2. 1..Len(<<>>) = {}
  BY <1>1
<1> QED
  BY <1>1, <1>2 DEF JobsGood, Only, Without

LEMMA NoneExecuting ==
  ASSUME NEW jobs, Without(jobs, Executing), NEW w
  PROVE  JobsGood(jobs, w)
BY DEF Without, Executing, JobsGood, Only

LEMMA SameHead ==
  ASSUME NEW jobs, NEW w, JobsGood(jobs, w), NEW v, v.life = w.life,
         w.inputs # <<>> => v.inputs # <<>> /\ v.inputs[1] = w.inputs[1]
  PROVE  JobsGood(jobs, v)
BY DEF JobsGood

LEMMA GoodTimer ==
  ASSUME NEW s, NEW p, NEW w, NEW l, Good(s, p, w, l), Restored(p), NEW b \in BOOLEAN
  PROVE  LET q == [p EXCEPT !.timer = b] IN
         Good(s, q, w, l) /\ q.jobs = p.jobs /\ q.hyd = p.hyd /\ Restored(q) /\ q \in Processes
<1> DEFINE q == [p EXCEPT !.timer = b]
<1>1. q \in Processes /\ q.jobs = p.jobs /\ q.hyd = p.hyd
  BY DEF Good, Processes
<1> HIDE DEF q
<1>2. HydrationGood(q, w) /\ StreamGood(s, q, w, l) /\ Restored(q)
  BY <1>1 DEF Good, HydrationGood, StreamGood, Restored
<1> QED
  BY <1>1, <1>2 DEF Good, q

LEMMA GoodPhase ==
  ASSUME NEW s, NEW p, NEW w, NEW l, Good(s, p, w, l), Local, Without(p.jobs, {"drain"}),
         NEW h \in Hydrations \ {"absent"}, h = "restoring" => p.jobs = <<>> /\ ~p.timer,
         h = "removing" => w.inbox # <<>>
  PROVE  LET q == [p EXCEPT !.hyd = h] IN
         Good(s, q, w, l) /\ q.jobs = p.jobs /\ q.hyd = h /\ q.timer = p.timer /\ q \in Processes
<1> DEFINE q == [p EXCEPT !.hyd = h]
<1>1. q \in Processes /\ q.jobs = p.jobs /\ q.hyd = h /\ q.timer = p.timer
  BY DEF Good, Processes
<1> HIDE DEF q
<1>2. HydrationGood(q, w) /\ StreamGood(s, q, w, l)
  BY <1>1 DEF Good, HydrationGood, StreamGood
<1> QED
  BY <1>1, <1>2 DEF Good, q

LEMMA GoodStream ==
  ASSUME NEW s, NEW p, NEW w, NEW l, Good(s, p, w, l), ~Local, Without(p.jobs, {"defer", "gap"}),
         NEW v \in Streams,
         v.pc \in {"wait", "commit"} => v.pipe # <<>>,
         v.pc = "commit" => /\ v.pipe[1].turn \in Kept(w) \cup l.missed
                            /\ p.hyd = "absent" => v.pipe[1].turn \in l.missed
  PROVE  Good(v, p, w, l)
BY DEF Good, StreamGood, Without, Only

LEMMA HeadOfJobs ==
  ASSUME Now, NEW kind, AtHead(kind)
  PROVE  /\ process.jobs # <<>> /\ process.jobs[1].kind = kind /\ process.jobs[1] \in Jobs
         /\ process.jobs \in Seq(Jobs) /\ 1 \in 1..Len(process.jobs)
         /\ kind # "gap" => process.jobs[1].turn \in Turns
         /\ process \in Processes /\ Rest = WithJobs(process, Tail(process.jobs)) /\ Restored(process)
         /\ Good(stream, Rest, workflow, log)
         /\ Rest \in Processes /\ Rest.jobs = Tail(process.jobs) /\ Rest.hyd = process.hyd
         /\ Restored(Rest) /\ Rest.jobs \in Seq(Jobs)
<1>1. process.jobs # <<>> /\ process.jobs[1].kind = kind
  BY DEF AtHead
<1>2. process \in Processes /\ process.jobs \in Seq(Jobs)
  BY DEF Now, Good, Processes
<1>3. process.jobs[1] \in Jobs /\ 1 \in 1..Len(process.jobs) /\ Tail(process.jobs) \in Seq(Jobs)
  BY <1>1, <1>2, Dropped1
<1>4. kind # "gap" => process.jobs[1].turn \in Turns
  BY <1>1, <1>3 DEF Jobs
<1>5. Rest = WithJobs(process, Tail(process.jobs))
  BY DEF Rest, WithJobs
<1>6. Good(stream, Rest, workflow, log) /\ Restored(process)
  BY <1>1, <1>5, GoodDrop DEF Now
<1>7. Rest \in Processes /\ Rest.jobs = Tail(process.jobs) /\ Rest.hyd = process.hyd
  BY <1>2, <1>3, <1>5, WithJobsIs
<1> QED
  BY <1>1, <1>2, <1>3, <1>4, <1>5, <1>6, <1>7 DEF Restored

LEMMA DeferJobGood ==
  ASSUME Now, DeferJob
  PROVE  Good(stream', process', workflow', log')
<1> DEFINE t == process.jobs[1].turn
           v == Deferred(workflow, t)
           m == [log EXCEPT !.kept = @ \cup {t}]
           u == IF stream.pc = "wait" THEN [stream EXCEPT !.pc = "commit"] ELSE stream
<1>1. AtHead("defer")
  BY DEF DeferJob
<1>2. /\ process.jobs # <<>> /\ process.jobs[1].kind = "defer" /\ t \in Turns /\ 1 \in 1..Len(process.jobs)
      /\ Good(stream, Rest, workflow, log) /\ Rest.jobs = Tail(process.jobs) /\ Rest.hyd = process.hyd
      /\ Restored(Rest) /\ Restored(process)
  BY <1>1, HeadOfJobs
<1>3. /\ WellFed(v) /\ InputsGood(v, log) /\ t \in Kept(v) /\ Kept(workflow) \subseteq Kept(v)
      /\ workflow.inputs # <<>> => v.inputs # <<>> /\ v.inputs[1] = workflow.inputs[1]
      /\ v.life = workflow.life /\ v.inbox = workflow.inbox
  BY <1>2, DeferredGood DEF Now, Good
<1>4. m \in Logs /\ m.missed = log.missed /\ m.ran = log.ran /\ m.twice = log.twice
  BY <1>2, LogKept DEF Now, Good
<1>5. workflow' = v /\ process' = Schedule(v, Rest) /\ log' = m /\ stream' = u
  BY DEF DeferJob
<1> HIDE DEF v, m
<1>6. InputsGood(v, m)
  BY <1>3, <1>4 DEF InputsGood
<1>7. JobsGood(Rest.jobs, v)
  BY <1>2, <1>3, SameHead DEF Good
<1>8. Good(stream, Rest, v, m)
  BY <1>2, <1>3, <1>4, <1>6, <1>7, GoodWorkflow
<1>9. Good(u, Rest, v, m)
  <2>1. CASE stream.pc = "wait"
    <3>1. ~Local
      BY <2>1 DEF Now, Good, StreamGood, Closed
    <3>2. stream.pipe # <<>> /\ stream.pipe[1].turn = t
      BY <1>2, <2>1, <3>1 DEF Now, Good, StreamGood
    <3>3. Without(Rest.jobs, {"defer", "gap"})
      BY <1>2, <3>1, GoodDrop DEF Now
    <3>4. u \in Streams /\ u.pc = "commit" /\ u.pipe = stream.pipe
      BY <2>1 DEF Now, Good, Streams
    <3> HIDE DEF u, t
    <3> QED
      BY <1>2, <1>3, <1>8, <3>1, <3>2, <3>3, <3>4, GoodStream DEF Restored
  <2>2. CASE stream.pc # "wait"
    BY <1>8, <2>2
  <2> QED
    BY <2>1, <2>2
<1>10. Good(u, Schedule(v, Rest), v, m)
  BY <1>2, <1>9, GoodSchedule
<1> QED
  BY <1>5, <1>10

LEMMA DrainJobGood ==
  ASSUME Now, DrainJob
  PROVE  Good(stream', process', workflow', log')
<1> DEFINE t == process.jobs[1].turn
<1>1. AtHead("drain") /\ UNCHANGED <<stream, log>>
  BY DEF DrainJob
<1>2. /\ process.jobs # <<>> /\ process.jobs[1].kind = "drain" /\ t \in Turns /\ 1 \in 1..Len(process.jobs)
      /\ Good(stream, Rest, workflow, log) /\ Rest.jobs = Tail(process.jobs) /\ Rest.hyd = process.hyd
  BY <1>1, HeadOfJobs
<1>3. process.hyd = "draining" /\ workflow.inbox # <<>>
  BY <1>2 DEF Now, Good, HydrationGood, Without
<1>4. Local
  BY <1>3 DEF Now, Good, StreamGood
<1>5. Without(Rest.jobs, {"drain"})
  BY <1>2, GoodDrop DEF Now
<1>6. CASE Full(workflow)
  <2>1. process' = [Rest EXCEPT !.hyd = "failed"] /\ workflow' = workflow
    BY <1>6 DEF DrainJob
  <2>2. Good(stream, [Rest EXCEPT !.hyd = "failed"], workflow, log)
    BY <1>2, <1>4, <1>5, GoodPhase DEF Hydrations
  <2> QED
    BY <1>1, <2>1, <2>2
<1>7. CASE ~Full(workflow)
  <2> DEFINE v == Enqueued(workflow, t)
             q == [Rest EXCEPT !.hyd = "removing"]
  <2>1. workflow' = v /\ process' = Schedule(v, q)
    BY <1>7 DEF DrainJob
  <2>2. /\ WellFed(v) /\ InputsGood(v, log) /\ Known(workflow) \subseteq Known(v)
        /\ workflow.inputs # <<>> => v.inputs # <<>> /\ v.inputs[1] = workflow.inputs[1]
        /\ v.life = workflow.life /\ v.inbox = workflow.inbox /\ v.dead = workflow.dead
    BY <1>2, <1>7, EnqueuedGood DEF Now, Good
  <2>3. /\ Good(stream, q, workflow, log) /\ q.jobs = Rest.jobs /\ q.hyd = "removing"
    BY <1>2, <1>3, <1>4, <1>5, GoodPhase DEF Hydrations
  <2> HIDE DEF v, q
  <2>4. JobsGood(q.jobs, v)
    BY <1>2, <2>2, <2>3, SameHead DEF Good
  <2>5. Kept(workflow) \subseteq Kept(v) /\ log \in Logs
    BY <2>2 DEF Kept, Now, Good
  <2>6. Good(stream, q, v, log)
    BY <2>2, <2>3, <2>4, <2>5, GoodWorkflow
  <2>7. Good(stream, Schedule(v, q), v, log)
    BY <2>3, <2>6, GoodSchedule DEF Restored
  <2> QED
    BY <1>1, <2>1, <2>7
<1> QED
  BY <1>6, <1>7

LEMMA RunJobGood ==
  ASSUME Now, RunJob
  PROVE  Good(stream', process', workflow', log')
<1> DEFINE t == process.jobs[1].turn
<1>1. AtHead("run") /\ stream' = stream
  BY DEF RunJob
<1>2. /\ process.jobs # <<>> /\ process.jobs[1].kind = "run" /\ t \in Turns /\ 1 \in 1..Len(process.jobs)
      /\ process.jobs \in Seq(Jobs) /\ process \in Processes /\ Restored(process)
      /\ Good(stream, Rest, workflow, log)
  BY <1>1, HeadOfJobs
<1>3. CASE workflow.life # "ready"
  BY <1>1, <1>2, <1>3 DEF RunJob
<1>4. CASE workflow.life = "ready"
  <2> DEFINE first == workflow.inputs[1]
             v == Begun(workflow, first)
             m == [log EXCEPT !.ran = @ \cup {first}, !.twice = @ \/ first \in log.ran]
             jobs == Working(process.jobs)
             q == WithJobs(process, jobs)
  <2>1. workflow.inputs # <<>> /\ t = first
    BY <1>2 DEF Now, Good, JobsGood
  <2>2. workflow' = v /\ log' = m /\ process' = [process EXCEPT !.jobs[1].kind = "work"]
    BY <1>4, <2>1 DEF RunJob
  <2>3. process' = q
    BY <2>2 DEF WithJobs, Working
  <2>4. /\ WellFed(v) /\ m \in Logs /\ InputsGood(v, m) /\ m.missed = log.missed /\ Kept(v) = Kept(workflow)
        /\ v.life = "running" /\ v.inbox = workflow.inbox
    BY <2>1, BegunGood DEF Now, Good
  <2>5. /\ jobs \in Seq(Jobs) /\ Len(jobs) = Len(process.jobs) /\ jobs[1] = Job("work", t)
        /\ \A i \in 1..Len(process.jobs) : i # 1 => jobs[i] = process.jobs[i]
    BY <1>2, JobBegun
  <2>6. q \in Processes /\ q.jobs = jobs /\ q.hyd = process.hyd /\ q.timer = process.timer
    BY <1>2, <2>5, WithJobsIs
  <2> HIDE DEF v, m, jobs, q
  <2>7. jobs[1].kind = "work"
    BY <2>5 DEF Job
  <2>8. \A i \in 1..Len(jobs) : i # 1 => jobs[i].kind \notin Executing
    BY <1>2, <2>5 DEF Now, Good, JobsGood, Only, Executing
  <2>9. JobsGood(jobs, v)
    BY <2>4, <2>7, <2>8 DEF JobsGood, Only, Executing
  <2>10. \A i \in 1..Len(jobs) : jobs[i].kind \in {"defer", "gap", "drain"} => jobs[i] = process.jobs[i]
    BY <2>5, <2>7
  <2>11. HydrationGood(q, v)
    BY <1>2, <2>4, <2>5, <2>6, <2>10 DEF Now, Good, HydrationGood, Only, Without, Restored
  <2>12. StreamGood(stream, q, v, m)
    BY <2>4, <2>5, <2>6, <2>10 DEF Now, Good, StreamGood, Only, Without
  <2> QED
    BY <1>1, <2>2, <2>3, <2>4, <2>6, <2>9, <2>11, <2>12 DEF Now, Good, v, m
<1> QED
  BY <1>3, <1>4

LEMMA WorkJobGood ==
  ASSUME Now, WorkJob
  PROVE  Good(stream', process', workflow', log')
<1>1. PICK kind \in {"work", "again"} : AtHead(kind)
  BY DEF WorkJob
<1>2. UNCHANGED <<stream, log>>
  BY DEF WorkJob
<1>3. /\ process.jobs # <<>> /\ process.jobs[1].kind = kind /\ 1 \in 1..Len(process.jobs)
      /\ Good(stream, Rest, workflow, log) /\ Rest.jobs = Tail(process.jobs) /\ Restored(Rest)
  BY <1>1, HeadOfJobs
<1>4. workflow.life \in {"running", "waiting"} /\ workflow.run # NoTurn
  BY <1>1, <1>3 DEF Now, Good, JobsGood, InputsGood
<1>5. Without(Rest.jobs, Executing)
  BY <1>1, <1>3, GoodDrop DEF Now, Executing
<1>6. WellFed(workflow) /\ InputsGood(workflow, log) /\ log \in Logs
  BY DEF Now, Good
<1>7. CASE workflow' = Ended(workflow) /\ process' = Schedule(workflow', Rest)
  <2> DEFINE v == Ended(workflow)
  <2>1. WellFed(v) /\ Kept(v) = Kept(workflow) /\ v.inbox = workflow.inbox /\ InputsGood(v, log)
    BY <1>6, EndedGood
  <2> HIDE DEF v
  <2>2. JobsGood(Rest.jobs, v)
    BY <1>5, NoneExecuting
  <2>3. Good(stream, Rest, v, log)
    BY <1>3, <1>6, <2>1, <2>2, GoodWorkflow
  <2>4. Good(stream, Schedule(v, Rest), v, log)
    BY <1>3, <2>3, GoodSchedule
  <2> QED
    BY <1>2, <1>7, <2>4 DEF v
<1>8. ASSUME NEW life \in Lives
      PROVE  LET v == [workflow EXCEPT !.life = life] IN Good(stream, Rest, v, log)
  <2> DEFINE v == [workflow EXCEPT !.life = life]
  <2>1. WellFed(v) /\ Kept(v) = Kept(workflow) /\ v.inbox = workflow.inbox /\ InputsGood(v, log)
    BY <1>4, <1>6, LifeGood
  <2> HIDE DEF v
  <2>2. JobsGood(Rest.jobs, v)
    BY <1>5, NoneExecuting
  <2>3. Good(stream, Rest, v, log)
    BY <1>3, <1>6, <2>1, <2>2, GoodWorkflow
  <2> QED
    BY <2>3 DEF v
<1>9. CASE workflow' = [workflow EXCEPT !.life = "waiting"] /\ process' = Rest
  BY <1>2, <1>8, <1>9 DEF Lives
<1>10. CASE workflow' = [workflow EXCEPT !.life = "recovering"] /\ process' = [Rest EXCEPT !.timer = TRUE]
  <2>1. Good(stream, Rest, [workflow EXCEPT !.life = "recovering"], log)
    BY <1>8 DEF Lives
  <2>2. Good(stream, [Rest EXCEPT !.timer = TRUE], [workflow EXCEPT !.life = "recovering"], log)
    BY <1>3, <2>1, GoodTimer
  <2> QED
    BY <1>2, <1>10, <2>2
<1> QED
  BY <1>7, <1>9, <1>10 DEF WorkJob

LEMMA RetryTimerGood ==
  ASSUME Now, RetryTimer
  PROVE  Good(stream', process', workflow', log')
<1> DEFINE off == [process EXCEPT !.timer = FALSE]
<1>1. process.timer /\ UNCHANGED <<stream, log>>
  BY DEF RetryTimer
<1>2. Restored(process)
  BY <1>1 DEF Now, Good, HydrationGood, Restored
<1>3. Now /\ process \in Processes /\ process.jobs \in Seq(Jobs) /\ log \in Logs
  BY DEF Now, Good, Processes
<1>4. Good(stream, off, workflow, log) /\ off.jobs = process.jobs /\ Restored(off) /\ off \in Processes
  BY <1>2, GoodTimer DEF Now
<1>5. CASE workflow.life # "recovering"
  <2>1. process' = off /\ workflow' = workflow
    BY <1>5 DEF RetryTimer
  <2> QED
    BY <1>1, <1>4, <2>1
<1>6. CASE workflow.life = "recovering"
  <2> DEFINE v == [workflow EXCEPT !.life = "running"]
             job == Job("again", workflow.run)
  <2>1. /\ workflow' = v
        /\ process' = [process EXCEPT !.timer = FALSE, !.jobs = Append(process.jobs, job)]
    BY <1>6 DEF RetryTimer
  <2>2. process' = WithJobs(off, Append(off.jobs, job))
    BY <1>4, <2>1 DEF WithJobs
  <2>3. workflow.run # NoTurn /\ workflow.run \in 0..MaxTurns
    BY <1>6 DEF Now, Good, InputsGood, WellFed, Workflows
  <2>4. workflow.run \in Turns
    BY <2>3, ObservedAssumption DEF ObservedAssumption, Turns, NoTurn
  <2>5. job \in Jobs /\ job.kind = "again"
    BY <2>4 DEF Job, Jobs
  <2>6. Without(process.jobs, Executing)
    BY <1>6 DEF Now, Good, JobsGood, Without, Executing
  <2>7. /\ WellFed(v) /\ v.life = "running" /\ Kept(v) = Kept(workflow) /\ v.inbox = workflow.inbox
        /\ InputsGood(v, log)
    BY <2>3, LifeGood DEF Now, Good, Lives
  <2> HIDE DEF v, job, off
  <2>8. JobsGood(off.jobs, v)
    BY <1>4, <2>6, NoneExecuting
  <2>9. Good(stream, off, v, log)
    BY <1>3, <1>4, <2>7, <2>8, GoodWorkflow
  <2>10. JobsGood(Append(process.jobs, job), v)
    <3> DEFINE a == Append(process.jobs, job)
    <3>1. /\ Len(a) = Len(process.jobs) + 1 /\ Len(process.jobs) \in Nat
          /\ \A i \in 1..Len(process.jobs) : a[i] = process.jobs[i]
          /\ a[Len(process.jobs) + 1] = job
      BY <1>3, <2>5, Added
    <3>2. Only(process.jobs, Executing)
      BY <2>6 DEF Only, Without
    <3>3. Only(a, Executing)
      BY <1>3, <2>5, <2>6, <3>2, JobAdded
    <3> HIDE DEF a
    <3>4. \A i \in 1..Len(a) : (i \in 1..Len(process.jobs) /\ a[i] = process.jobs[i]) \/ a[i] = job
      BY <3>1
    <3>5. JobsGood(a, v)
      BY <2>5, <2>6, <2>7, <3>3, <3>4 DEF JobsGood, Without, Executing
    <3> QED
      BY <3>5 DEF a
  <2>11. Good(stream, WithJobs(off, Append(off.jobs, job)), v, log)
    BY <1>4, <2>5, <2>9, <2>10, GoodAdd
  <2> QED
    BY <1>1, <2>1, <2>2, <2>11
<1> QED
  BY <1>5, <1>6

LEMMA GapJobGood ==
  ASSUME Now, GapJob
  PROVE  Good(stream', process', workflow', log')
<1> DEFINE u == [stream EXCEPT !.pc = "idle"]
           v == IF workflow.life = "ready" THEN workflow ELSE [workflow EXCEPT !.life = "waiting"]
<1>1. AtHead("gap") /\ log' = log /\ workflow' = v /\ process' = Rest /\ stream' = u
  BY DEF GapJob
<1>2. /\ process.jobs # <<>> /\ process.jobs[1].kind = "gap" /\ 1 \in 1..Len(process.jobs)
      /\ Good(stream, Rest, workflow, log) /\ Rest.jobs = Tail(process.jobs)
  BY <1>1, HeadOfJobs
<1>3. ~Local
  BY <1>2 DEF Now, Good, StreamGood, Without
<1>4. Without(Rest.jobs, {"defer", "gap"})
  BY <1>2, <1>3, GoodDrop DEF Now
<1>5. u \in Streams /\ u.pc = "idle"
  BY DEF Now, Good, Streams
<1>6. Good(u, Rest, workflow, log)
  BY <1>2, <1>3, <1>4, <1>5, GoodStream
<1>7. CASE workflow.life = "ready"
  BY <1>1, <1>6, <1>7
<1>8. CASE workflow.life # "ready"
  <2> DEFINE x == [workflow EXCEPT !.life = "waiting"]
  <2>1. workflow.run # NoTurn /\ WellFed(workflow) /\ log \in Logs /\ InputsGood(workflow, log)
    BY <1>8 DEF Now, Good, InputsGood
  <2>2. /\ WellFed(x) /\ x.life = "waiting" /\ Kept(x) = Kept(workflow) /\ x.inbox = workflow.inbox
        /\ InputsGood(x, log)
    BY <2>1, LifeGood DEF Lives
  <2> HIDE DEF x
  <2>3. JobsGood(Rest.jobs, x)
    BY <1>2, <1>8, <2>2 DEF Good, JobsGood
  <2>4. Good(u, Rest, x, log)
    BY <1>6, <2>1, <2>2, <2>3, GoodWorkflow
  <2> QED
    BY <1>1, <1>8, <2>4 DEF x
<1> QED
  BY <1>7, <1>8

LEMMA UserDecidesGood ==
  ASSUME Now, UserDecides
  PROVE  Good(stream', process', workflow', log')
<1> DEFINE v == Ended(workflow)
<1>1. /\ workflow' = v /\ process' = Schedule(v, process) /\ UNCHANGED <<stream, log>>
      /\ process.jobs = <<>> /\ process.hyd = "ready"
  BY DEF UserDecides
<1>2. WellFed(workflow) /\ InputsGood(workflow, log) /\ log \in Logs
  BY DEF Now, Good
<1>3. WellFed(v) /\ Kept(v) = Kept(workflow) /\ v.inbox = workflow.inbox /\ InputsGood(v, log)
  BY <1>2, EndedGood
<1> HIDE DEF v
<1>4. JobsGood(process.jobs, v)
  BY <1>1, NoJobs
<1>5. Good(stream, process, v, log)
  BY <1>2, <1>3, <1>4, GoodWorkflow DEF Now
<1>6. Good(stream, Schedule(v, process), v, log)
  BY <1>1, <1>5, GoodSchedule DEF Restored
<1> QED
  BY <1>1, <1>6

LEMMA ResyncGood ==
  ASSUME Now, ResyncFromRetained
  PROVE  Good(stream', process', workflow', log')
<1> DEFINE v == [workflow EXCEPT !.life = "running"]
<1>1. /\ workflow' = v /\ UNCHANGED <<process, stream, log>>
      /\ workflow.life = "waiting" /\ process.jobs = <<>>
  BY DEF ResyncFromRetained
<1>2. workflow.run # NoTurn /\ WellFed(workflow) /\ log \in Logs /\ InputsGood(workflow, log)
  BY <1>1 DEF Now, Good, InputsGood
<1>3. WellFed(v) /\ Kept(v) = Kept(workflow) /\ v.inbox = workflow.inbox /\ InputsGood(v, log)
  BY <1>2, LifeGood DEF Lives
<1> HIDE DEF v
<1>4. JobsGood(process.jobs, v)
  BY <1>1, NoJobs
<1>5. Good(stream, process, v, log)
  BY <1>2, <1>3, <1>4, GoodWorkflow DEF Now
<1> QED
  BY <1>1, <1>5

------------------------------------------------------------------------------
(* Hydration                                                                  *)

LEMMA LoadGood ==
  ASSUME Now, Load
  PROVE  Good(stream', process', workflow', log')
<1>1. /\ Local /\ process.hyd = "absent" /\ UNCHANGED <<workflow, stream, log>>
      /\ process' = [process EXCEPT !.hyd = "restoring"]
  BY DEF Load, HydrationFrame
<1>2. process.jobs = <<>> /\ ~process.timer
  BY <1>1 DEF Now, Good, HydrationGood
<1>3. Good(stream, [process EXCEPT !.hyd = "restoring"], workflow, log)
  BY <1>1, <1>2, NoJobs, GoodPhase DEF Now, Hydrations
<1> QED
  BY <1>1, <1>3

LEMMA RestoreGood ==
  ASSUME Now, Restore
  PROVE  Good(stream', process', workflow', log')
<1> DEFINE on == [process EXCEPT !.hyd = "draining"]
           bad == [process EXCEPT !.hyd = "failed"]
<1>1. process.hyd = "restoring" /\ UNCHANGED <<stream, log>>
  BY DEF Restore, HydrationFrame
<1>2. Local /\ process.jobs = <<>>
  BY <1>1 DEF Now, Good, HydrationGood, StreamGood
<1>3. WellFed(workflow) /\ InputsGood(workflow, log) /\ log \in Logs
  BY DEF Now, Good
<1>4. /\ Good(stream, on, workflow, log) /\ on.jobs = <<>> /\ Restored(on)
      /\ Good(stream, bad, workflow, log) /\ bad.jobs = <<>>
  <2>1. Without(process.jobs, {"drain"})
    BY <1>2, NoJobs
  <2>2. ASSUME NEW h \in {"draining", "failed"}
        PROVE  LET q == [process EXCEPT !.hyd = h] IN Good(stream, q, workflow, log) /\ q.jobs = <<>> /\ q.hyd = h
    <3>1. h \in Hydrations \ {"absent"} /\ h \notin {"restoring", "removing"}
      BY DEF Hydrations
    <3> QED
      BY <1>2, <2>1, <3>1, GoodPhase DEF Now
  <2> QED
    BY <2>2 DEF Restored
<1>5. CASE workflow' = Ended(workflow) /\ process' = Schedule(workflow', on)
  <2> DEFINE v == Ended(workflow)
  <2>1. WellFed(v) /\ Kept(v) = Kept(workflow) /\ v.inbox = workflow.inbox /\ InputsGood(v, log)
    BY <1>3, EndedGood
  <2> HIDE DEF v, on
  <2>2. JobsGood(on.jobs, v)
    BY <1>4, NoJobs
  <2>3. Good(stream, on, v, log)
    BY <1>3, <1>4, <2>1, <2>2, GoodWorkflow
  <2>4. Good(stream, Schedule(v, on), v, log)
    BY <1>4, <2>3, GoodSchedule
  <2> QED
    BY <1>1, <1>5, <2>4 DEF v
<1>6. ASSUME NEW life \in Lives, workflow.life \in {"running", "recovering"}, NEW p, Good(stream, p, workflow, log), p.jobs = <<>>
      PROVE  Good(stream, p, [workflow EXCEPT !.life = life], log)
  <2> DEFINE v == [workflow EXCEPT !.life = life]
  <2>1. workflow.run # NoTurn
    BY <1>3, <1>6 DEF InputsGood
  <2>2. WellFed(v) /\ Kept(v) = Kept(workflow) /\ v.inbox = workflow.inbox /\ InputsGood(v, log)
    BY <1>3, <2>1, LifeGood
  <2> HIDE DEF v
  <2>3. JobsGood(p.jobs, v)
    BY <1>6, NoJobs
  <2>4. Good(stream, p, v, log)
    BY <1>3, <1>6, <2>2, <2>3, GoodWorkflow
  <2> QED
    BY <2>4 DEF v
<1> HIDE DEF on, bad
<1>7. CASE /\ workflow.life \in {"running", "recovering"}
           /\ workflow' = [workflow EXCEPT !.life = "waiting"] /\ process' = on
  BY <1>1, <1>4, <1>6, <1>7 DEF Lives
<1>8. CASE /\ workflow.life \in {"running", "recovering"}
           /\ workflow' = [workflow EXCEPT !.life = "running"] /\ process' = bad
  BY <1>1, <1>4, <1>6, <1>8 DEF Lives
<1>9. CASE process' = on /\ workflow' = workflow
  BY <1>1, <1>4, <1>9
<1> QED
  BY <1>5, <1>7, <1>8, <1>9 DEF Restore, on, bad

LEMMA NotDraining ==
  ASSUME Now, Draining
  PROVE  Local /\ Without(process.jobs, {"drain"}) /\ process.hyd = "draining" /\ process \in Processes
<1>1. process.jobs \in Seq(Jobs) /\ process \in Processes
  BY DEF Now, Good, Processes
<1>2. DOMAIN process.jobs = 1..Len(process.jobs)
  BY <1>1, LenProperties
<1>3. Local
  BY DEF Now, Good, StreamGood, Draining
<1> QED
  BY <1>1, <1>2, <1>3 DEF Draining, Without

LEMMA DrainGood ==
  ASSUME Now, Drain
  PROVE  Good(stream', process', workflow', log')
<1> DEFINE t == workflow.inbox[1]
           job == Job("drain", t)
           a == Append(process.jobs, job)
           q == WithJobs(process, a)
<1>1. /\ UNCHANGED <<workflow, stream, log>> /\ process' = q /\ workflow.inbox # <<>>
      /\ Local /\ Without(process.jobs, {"drain"}) /\ process.hyd = "draining" /\ process \in Processes
  BY NotDraining DEF Drain, HydrationFrame, WithJobs
<1>2. t \in Turns /\ process.jobs \in Seq(Jobs)
  BY <1>1, Dropped1 DEF Now, Good, WellFed, Workflows, Processes
<1>3. job \in Jobs /\ job.kind = "drain"
  BY <1>2 DEF Job, Jobs
<1> HIDE DEF job
<1>4. a \in Seq(Jobs) /\ JobsGood(a, workflow)
  BY <1>2, <1>3, PlainJob, JobAdded DEF Now, Good, Executing
<1>5. Only(process.jobs, {"drain"}) /\ Without(process.jobs, {"gap"})
  BY <1>1 DEF Now, Good, HydrationGood, StreamGood
<1>6. Only(a, {"drain"})
  BY <1>1, <1>2, <1>3, <1>5, JobAdded
<1>7. Without(a, {"gap"})
  BY <1>2, <1>3, <1>5, JobAdded
<1>8. q \in Processes /\ q.jobs = a /\ q.hyd = "draining" /\ q.timer = process.timer
  BY <1>1, <1>4, WithJobsIs
<1> HIDE DEF a, q
<1>9. HydrationGood(q, workflow) /\ StreamGood(stream, q, workflow, log)
  BY <1>1, <1>6, <1>7, <1>8 DEF Now, Good, HydrationGood, StreamGood
<1> QED
  BY <1>1, <1>4, <1>8, <1>9 DEF Now, Good

LEMMA RemoveStartupInputGood ==
  ASSUME Now, RemoveStartupInput
  PROVE  Good(stream', process', workflow', log')
<1> DEFINE r == Tail(workflow.inbox)
           v == [workflow EXCEPT !.inbox = r]
           q == [process EXCEPT !.hyd = "draining"]
<1>1. process.hyd = "removing" /\ workflow' = v /\ process' = q /\ UNCHANGED <<stream, log>>
  BY DEF RemoveStartupInput, HydrationFrame
<1>2. workflow.inbox # <<>> /\ Without(process.jobs, {"drain"}) /\ Local
  BY <1>1 DEF Now, Good, HydrationGood, StreamGood
<1>3. r \in Seq(Turns)
  BY <1>2, Dropped1 DEF Now, Good, WellFed, Workflows
<1>4. Good(stream, q, workflow, log) /\ q.jobs = process.jobs /\ q.hyd = "draining"
  <2>1. /\ "draining" \in Hydrations \ {"absent"} /\ "draining" # "restoring" /\ "draining" # "removing"
        /\ Good(stream, process, workflow, log)
    BY DEF Now, Hydrations
  <2> QED
    BY <1>2, <2>1, GoodPhase
<1> HIDE DEF r, q
<1>5. /\ v \in Workflows /\ v.inputs = workflow.inputs /\ v.hist = workflow.hist
      /\ v.life = workflow.life /\ v.run = workflow.run
  BY <1>3 DEF Now, Good, WellFed, Workflows
<1> HIDE DEF v
<1>6. WellFed(v) /\ InputsGood(v, log) /\ JobsGood(q.jobs, v)
  BY <1>4, <1>5 DEF Good, WellFed, InputsGood, JobsGood
<1>7. HydrationGood(q, v) /\ StreamGood(stream, q, v, log)
  BY <1>2, <1>4 DEF Good, HydrationGood, StreamGood
<1> QED
  BY <1>1, <1>4, <1>6, <1>7 DEF Good

LEMMA HydratedGood ==
  ASSUME Now, Hydrated
  PROVE  Good(stream', process', workflow', log')
<1>1. /\ UNCHANGED <<workflow, stream, log>> /\ process' = [process EXCEPT !.hyd = "ready"]
      /\ Local /\ Without(process.jobs, {"drain"})
  BY NotDraining DEF Hydrated, HydrationFrame
<1>2. Good(stream, [process EXCEPT !.hyd = "ready"], workflow, log)
  BY <1>1, GoodPhase DEF Now, Hydrations
<1> QED
  BY <1>1, <1>2

------------------------------------------------------------------------------
(* The worker reads the stream                                                *)

(* A listener that is not awaited has no job.                                      *)
LEMMA Unawaited ==
  ASSUME Now, ~Local, stream.pc \notin {"wait", "gap"}
  PROVE  Without(process.jobs, {"defer", "gap"})
BY DEF Now, Good, StreamGood, Without

LEMMA RetainedIs ==
  ASSUME primary \in Primaries, NEW after \in Nat
  PROVE  Retained(after) \in Seq(Envelopes) /\ RetainedFrom \in Nat \ {0}
<1> DEFINE s == primary.entries
<1>1. s \in Seq(Envelopes) /\ primary.seq \in Nat
  BY DEF Primaries
<1>2. Len(s) \in Nat /\ \A i \in 1..Len(s) : s[i] \in Envelopes
  BY <1>1, LenProperties, ElementOfSeq
<1>3. s # <<>> => s[1].seq \in Nat \ {0}
  <2>1. s # <<>> => s[1] \in Envelopes
    BY <1>1, Dropped1
  <2> QED
    BY <2>1 DEF Envelopes
<1>4. RetainedFrom \in Nat \ {0}
  BY <1>1, <1>3 DEF RetainedFrom
<1> DEFINE n == IF after < RetainedFrom THEN 0 ELSE after - RetainedFrom + 1
<1>5. n \in Nat
  BY <1>4
<1>6. Retained(after) = SubSeq(s, n + 1, Len(s))
  BY DEF Retained
<1> HIDE DEF n
<1>7. \A i \in n + 1 .. Len(s) : s[i] \in Envelopes
  BY <1>2, <1>5
<1>8. SubSeq(s, n + 1, Len(s)) \in Seq(Envelopes)
  <2>1. n + 1 \in Int /\ Len(s) \in Int
    BY <1>2, <1>5
  <2> QED
    BY <1>7, <2>1, SubSeqProperties
<1> QED
  BY <1>4, <1>6, <1>8

LEMMA ConnectGood ==
  ASSUME Now, primary \in Primaries, cursor \in Cursors, Connect
  PROVE  Good(stream', process', workflow', log') /\ cursor' \in Cursors
<1> DEFINE after == IF ClassifyCursor = "reset" THEN 0 ELSE cursor.seq
           u == [conn |-> TRUE, pc |-> "idle", pipe |-> Retained(after)]
<1>1. /\ cursor' = [epoch |-> primary.epoch, seq |-> after, gap |-> 0] /\ stream' = u
      /\ UNCHANGED <<workflow, process, log>> /\ ~Local /\ stream.pc = "idle"
  BY DEF Connect, MayConnect
<1>2. after \in Nat /\ primary.epoch \in Nat
  BY DEF Cursors, Primaries
<1> HIDE DEF after
<1>3. Retained(after) \in Seq(Envelopes)
  BY <1>2, RetainedIs
<1>4. u \in Streams /\ u.pc = "idle"
  BY <1>3 DEF Streams
<1>5. Good(u, process, workflow, log)
  BY <1>1, <1>4, Unawaited, GoodStream DEF Now
<1>6. cursor' \in Cursors
  BY <1>1, <1>2 DEF Cursors
<1> QED
  BY <1>1, <1>5, <1>6

LEMMA StreamGapGood ==
  ASSUME Now, primary \in Primaries, cursor \in Cursors, StreamGap
  PROVE  Good(stream', process', workflow', log') /\ cursor' \in Cursors
<1> DEFINE job == Job("gap", NoTurn)
           u == [stream EXCEPT !.pc = "gap"]
<1>1. /\ cursor' = [cursor EXCEPT !.gap = RetainedFrom - 1]
      /\ UNCHANGED <<workflow, log>> /\ ~Local /\ stream.pc = "idle"
  BY DEF StreamGap, MayConnect
<1>2. cursor' \in Cursors
  <2>1. RetainedFrom \in Nat \ {0}
    BY RetainedIs
  <2>2. RetainedFrom - 1 \in Nat
    BY <2>1
  <2> QED
    BY <1>1, <2>2 DEF Cursors
<1>3. CASE UNCHANGED <<process, stream>>
  BY <1>1, <1>2, <1>3 DEF Now
<1>4. CASE /\ process.hyd = "ready" /\ stream' = u
           /\ process' = [process EXCEPT !.jobs = Append(@, Job("gap", NoTurn))]
  <2>1. process' = WithJobs(process, Append(process.jobs, job))
    BY <1>4 DEF WithJobs
  <2>2. job \in Jobs /\ job.kind = "gap"
    BY DEF Job, Jobs
  <2> HIDE DEF job
  <2>3. Without(process.jobs, {"defer", "gap"})
    BY <1>1, Unawaited
  <2>4. u \in Streams /\ u.pc = "gap"
    BY DEF Now, Good, Streams
  <2>5. Good(u, process, workflow, log)
    BY <1>1, <2>3, <2>4, GoodStream DEF Now
  <2>6. JobsGood(Append(process.jobs, job), workflow)
    BY <2>2, PlainJob DEF Now, Good, Processes, Executing
  <2>7. Restored(process)
    BY <1>4 DEF Restored
  <2>8. Good(u, WithJobs(process, Append(process.jobs, job)), workflow, log)
    BY <1>1, <2>2, <2>3, <2>4, <2>5, <2>6, <2>7, GoodAdd
  <2> QED
    BY <1>1, <1>2, <1>4, <2>1, <2>8
<1> QED
  BY <1>3, <1>4 DEF StreamGap

LEMMA LoadFreshGood ==
  ASSUME Now, LoadFresh
  PROVE  Good(stream', process', workflow', log')
<1> DEFINE q == [process EXCEPT !.hyd = "ready"]
           m == [log EXCEPT !.ran = {}]
<1>1. /\ ~Local /\ process.hyd = "absent" /\ workflow' = FreshWorkflow /\ process' = q /\ log' = m
      /\ stream' = stream
  BY DEF LoadFresh
<1>2. process.jobs = <<>> /\ ~process.timer
  BY <1>1 DEF Now, Good, HydrationGood
<1>3. q \in Processes /\ q.jobs = <<>> /\ q.hyd = "ready"
  BY <1>2 DEF Now, Good, Processes, Hydrations
<1>4. m \in Logs /\ m.ran = {} /\ m.twice = log.twice /\ m.missed = log.missed
  BY DEF Now, Good, Logs
<1>5. <<>> \in Seq(Turns) /\ Len(<<>>) = 0 /\ QueueLimit \in Nat /\ NoTurn \in 0..MaxTurns
  BY EmptySeq, ObservedAssumption DEF ObservedAssumption, NoTurn
<1>6. /\ FreshWorkflow \in Workflows /\ FreshWorkflow.inputs = <<>> /\ FreshWorkflow.life = "ready"
      /\ FreshWorkflow.inbox = <<>> /\ FreshWorkflow.hist = {}
  BY <1>5 DEF FreshWorkflow, Workflows, Lives
<1> HIDE DEF q, m
<1>7. 1..Len(<<>>) = {} /\ Len(FreshWorkflow.inputs) <= QueueLimit
  BY <1>5, <1>6
<1>8. WellFed(FreshWorkflow) /\ InputsGood(FreshWorkflow, m)
  BY <1>4, <1>6, <1>7 DEF WellFed, InputsGood, Now, Good
<1>9. JobsGood(q.jobs, FreshWorkflow) /\ Only(q.jobs, {"drain"}) /\ Without(q.jobs, {"drain"})
      /\ Only(q.jobs, {"defer", "gap"}) /\ 1..Len(q.jobs) = {}
  BY <1>3, <1>7, NoJobs
<1>10. HydrationGood(q, FreshWorkflow)
  BY <1>3, <1>9 DEF HydrationGood
<1>11. StreamGood(stream, q, FreshWorkflow, m)
  BY <1>1, <1>3, <1>4, <1>6, <1>9 DEF Now, Good, StreamGood
<1> QED
  BY <1>1, <1>3, <1>4, <1>8, <1>9, <1>10, <1>11 DEF Now, Good

LEMMA DeliverGood ==
  ASSUME Now, Deliver
  PROVE  Good(stream', process', workflow', log')
<1> DEFINE t == stream.pipe[1].turn
           u == [stream EXCEPT !.pc = IF process.hyd = "absent" THEN "commit" ELSE "wait"]
<1>1. stream.pc = "idle" /\ stream.pipe # <<>> /\ Route(t) /\ stream' = u
  BY DEF Deliver
<1>2. ~Local
  BY <1>1 DEF Now, Good, StreamGood, Closed
<1>3. /\ Without(process.jobs, {"defer", "gap"}) /\ process.hyd \in {"absent", "ready"}
      /\ log \in Logs /\ stream \in Streams /\ process.jobs \in Seq(Jobs)
  BY <1>1, <1>2, Unawaited DEF Now, Good, StreamGood, Processes
<1>4. t \in Turns
  <2>1. stream.pipe \in Seq(Envelopes)
    BY <1>3 DEF Streams
  <2>2. stream.pipe[1] \in Envelopes
    BY <1>1, <2>1, Dropped1
  <2> QED
    BY <2>2 DEF Envelopes
<1>5. /\ u \in Streams /\ u.pipe = stream.pipe
      /\ u.pc = IF process.hyd = "absent" THEN "commit" ELSE "wait"
  BY <1>3 DEF Streams
<1> HIDE DEF u
<1>6. CASE process.hyd = "absent" /\ log' = [log EXCEPT !.missed = @ \cup {t}] /\ UNCHANGED <<workflow, process>>
  <2> DEFINE m == [log EXCEPT !.missed = @ \cup {t}]
  <2>1. m \in Logs /\ m.missed = log.missed \cup {t} /\ m.ran = log.ran /\ m.twice = log.twice
    BY <1>3, <1>4, LogMissed
  <2> HIDE DEF m
  <2>2. Good(stream, process, workflow, m)
    BY <2>1 DEF Now, Good, InputsGood, StreamGood
  <2>3. Good(u, process, workflow, m)
    BY <1>1, <1>2, <1>3, <1>5, <1>6, <2>1, <2>2, GoodStream
  <2> QED
    BY <1>1, <1>6, <2>3 DEF m
<1>7. CASE /\ process.hyd = "ready" /\ process' = WithJobs(process, Append(process.jobs, Job("defer", t)))
           /\ UNCHANGED <<workflow, log>>
  <2> DEFINE job == Job("defer", t)
  <2>1. job \in Jobs /\ job.kind = "defer" /\ job.turn = t
    BY <1>4 DEF Job, Jobs
  <2>2. Good(u, process, workflow, log)
    BY <1>1, <1>2, <1>3, <1>5, <1>7, GoodStream DEF Now
  <2> HIDE DEF job
  <2>3. JobsGood(Append(process.jobs, job), workflow)
    BY <1>3, <2>1, PlainJob DEF Now, Good, Executing
  <2>4. Restored(process)
    BY <1>7 DEF Restored
  <2>5. u.pc = "wait" /\ job.turn = u.pipe[1].turn
    BY <1>5, <1>7, <2>1
  <2>6. Good(u, WithJobs(process, Append(process.jobs, job)), workflow, log)
    BY <1>3, <2>1, <2>2, <2>3, <2>4, <2>5, GoodAdd
  <2> QED
    BY <1>1, <1>7, <2>6 DEF job
<1> QED
  BY <1>1, <1>3, <1>6, <1>7, RouteShape

LEMMA CommitCursorGood ==
  ASSUME Now, cursor \in Cursors, CommitCursor
  PROVE  Good(stream', process', workflow', log') /\ cursor' \in Cursors
<1> DEFINE u == [stream EXCEPT !.pc = "idle", !.pipe = Tail(@)]
<1>1. /\ stream.pc = "commit" /\ cursor' = [cursor EXCEPT !.seq = stream.pipe[1].seq] /\ stream' = u
      /\ UNCHANGED <<workflow, process, log>>
  BY DEF CommitCursor
<1>2. ~Local
  BY <1>1 DEF Now, Good, StreamGood, Closed
<1>3. stream.pipe # <<>> /\ stream.pipe \in Seq(Envelopes) /\ stream \in Streams
  BY <1>1, <1>2 DEF Now, Good, StreamGood, Streams
<1>4. stream.pipe[1] \in Envelopes /\ Tail(stream.pipe) \in Seq(Envelopes)
  BY <1>3, Dropped1
<1>5. u \in Streams /\ u.pc = "idle"
  BY <1>3, <1>4 DEF Streams
<1>6. Good(u, process, workflow, log)
  BY <1>1, <1>2, <1>5, Unawaited, GoodStream DEF Now
<1>7. stream.pipe[1].seq \in Nat
  BY <1>4 DEF Envelopes
<1>8. cursor' \in Cursors
  BY <1>1, <1>7 DEF Cursors
<1> QED
  BY <1>1, <1>6, <1>8

------------------------------------------------------------------------------
(* Faults                                                                     *)

LEMMA DroppedGood ==
  ASSUME Now, ~Local
  PROVE  Good(Dropped, process, workflow, log)
<1> DEFINE rest == IF stream.pc \in {"wait", "commit"} THEN <<Head(stream.pipe)>> ELSE <<>>
           u == [stream EXCEPT !.conn = FALSE, !.pipe = rest]
<1>1. Dropped = u
  BY DEF Dropped
<1>2. stream \in Streams /\ stream.pipe \in Seq(Envelopes) /\ (stream.pc \in {"wait", "commit"} => stream.pipe # <<>>)
  BY DEF Now, Good, StreamGood, Streams
<1>3. rest \in Seq(Envelopes) /\ (stream.pc \in {"wait", "commit"} => rest # <<>> /\ rest[1] = stream.pipe[1])
  <2>1. CASE stream.pc \in {"wait", "commit"}
    <3>1. Head(stream.pipe) = stream.pipe[1] /\ stream.pipe[1] \in Envelopes
      BY <1>2, <2>1, Dropped1
    <3>2. rest = <<stream.pipe[1]>>
      BY <2>1, <3>1
    <3> QED
      BY <3>1, <3>2
  <2>2. CASE stream.pc \notin {"wait", "commit"}
    BY <2>2, EmptySeq
  <2> QED
    BY <2>1, <2>2
<1> HIDE DEF rest
<1>4. u \in Streams /\ u.pc = stream.pc /\ u.pipe = rest
  BY <1>2, <1>3 DEF Streams
<1> HIDE DEF u
<1>5. StreamGood(u, process, workflow, log)
  BY <1>3, <1>4 DEF Now, Good, StreamGood
<1> QED
  BY <1>1, <1>4, <1>5 DEF Now, Good

LEMMA NoProcessGood ==
  ASSUME Now
  PROVE  Good(Closed, NoProcess, workflow, log)
<1>1. <<>> \in Seq(Jobs) /\ <<>> \in Seq(Envelopes)
  BY EmptySeq
<1>2. /\ NoProcess \in Processes /\ NoProcess.hyd = "absent" /\ NoProcess.jobs = <<>> /\ ~NoProcess.timer
      /\ Closed \in Streams /\ Closed.pc = "idle"
  BY <1>1 DEF NoProcess, Processes, Hydrations, Closed, Streams
<1>3. JobsGood(<<>>, workflow) /\ Only(<<>>, {"drain"}) /\ Without(<<>>, {"drain"}) /\ Without(<<>>, {"gap"})
      /\ Only(<<>>, {"defer", "gap"})
  BY NoJobs
<1>4. 1..Len(<<>>) = {}
  BY EmptySeq
<1>5. HydrationGood(NoProcess, workflow)
  BY <1>2, <1>3 DEF HydrationGood
<1>6. StreamGood(Closed, NoProcess, workflow, log)
  BY <1>2, <1>3, <1>4 DEF StreamGood, Now, Good
<1> QED
  BY <1>2, <1>3, <1>5, <1>6 DEF Now, Good

LEMMA FaultsGood ==
  ASSUME Now, Faults
  PROVE  Good(stream', process', workflow', log')
<1>1. CASE CrashPrimary
  <2>1. /\ process' = (IF Local THEN NoProcess ELSE process) /\ stream' = (IF Local THEN stream ELSE Dropped)
        /\ UNCHANGED <<workflow, log>>
    BY <1>1 DEF CrashPrimary
  <2>2. CASE Local
    <3>1. stream = Closed
      BY <2>2 DEF Now, Good, StreamGood
    <3> QED
      BY <2>1, <2>2, <3>1, NoProcessGood
  <2>3. CASE ~Local
    BY <2>1, <2>3, DroppedGood
  <2> QED
    BY <2>2, <2>3
<1>2. CASE CrashWorker
  BY <1>2, NoProcessGood DEF CrashWorker
<1>3. CASE DropStream
  <2>1. ~Local
    BY <1>3 DEF DropStream, Now, Good, StreamGood, Closed
  <2> QED
    BY <1>3, <2>1, DroppedGood DEF DropStream
<1>4. CASE Disconnect \/ ReloadContent
  BY <1>4 DEF Disconnect, ReloadContent, delivery, Now
<1> QED
  BY <1>1, <1>2, <1>3, <1>4 DEF Faults

------------------------------------------------------------------------------
(* The conversation                                                           *)

(* What is finished stays as it is.                                               *)
Lasts(p, q) == \A t \in Turns : p.final[t] # 0 => q.final[t] = p.final[t]

LEMMA TurnsAre ==
  /\ MaxTurns \in Nat \ {0} /\ MaxText \in Nat \ {0} /\ Turns = 1..MaxTurns /\ Texts = 0..MaxText /\ NoTurn = 0
  /\ Turns \subseteq Nat \ {0} /\ 0 \in Texts /\ 1 \in Turns
BY ObservedAssumption DEF ObservedAssumption, Turns, Texts, NoTurn

LEMMA PageMode ==
  ASSUME NEW p \in Pages, PageGood(p), p.mode # "done", NEW mode \in Modes \ {"done"}, NEW text \in Texts
  PROVE  LET q == [p EXCEPT !.mode = mode, !.text = text] IN q \in Pages /\ PageGood(q) /\ Lasts(p, q)
<1> DEFINE q == [p EXCEPT !.mode = mode, !.text = text]
<1>1. /\ q \in Pages /\ q.mode = mode /\ q.final = p.final /\ q.asked = p.asked
  BY DEF Pages
<1> HIDE DEF q
<1>2. PageGood(q) /\ Lasts(p, q)
  BY <1>1 DEF PageGood, Lasts
<1> QED
  BY <1>1, <1>2 DEF q

LEMMA PageAsk ==
  ASSUME NEW p \in Pages, PageGood(p), p.mode = "done", p.asked < MaxTurns
  PROVE  LET q == [p EXCEPT !.asked = @ + 1, !.mode = "sent", !.text = 0] IN
         q \in Pages /\ PageGood(q) /\ Lasts(p, q)
<1> DEFINE q == [p EXCEPT !.asked = @ + 1, !.mode = "sent", !.text = 0]
<1>1. p.asked \in Turns /\ p.asked + 1 \in Turns /\ 0 \in Texts
  BY TurnsAre DEF Pages
<1>2. /\ q \in Pages /\ q.mode = "sent" /\ q.final = p.final /\ q.asked = p.asked + 1
  BY <1>1 DEF Pages, Modes
<1> HIDE DEF q
<1>3. \A t \in Turns : t > p.asked + 1 => t > p.asked
  BY <1>1, TurnsAre
<1>4. p.asked + 1 > p.asked
  BY <1>1, TurnsAre
<1>5. PageGood(q) /\ Lasts(p, q)
  BY <1>1, <1>2, <1>3, <1>4 DEF PageGood, Lasts
<1> QED
  BY <1>2, <1>5 DEF q

LEMMA PageFinish ==
  ASSUME NEW p \in Pages, PageGood(p), p.mode # "done"
  PROVE  LET q == [p EXCEPT !.mode = "done", !.final[p.asked] = p.text] IN
         q \in Pages /\ PageGood(q) /\ Lasts(p, q)
<1> DEFINE f == [p.final EXCEPT ![p.asked] = p.text]
           q == [p EXCEPT !.mode = "done", !.final = f]
<1>1. p.asked \in Turns /\ p.text \in Texts /\ p.final \in [Turns -> Texts]
  BY DEF Pages
<1>2. f \in [Turns -> Texts] /\ f[p.asked] = p.text /\ \A t \in Turns : t # p.asked => f[t] = p.final[t]
  BY <1>1
<1> HIDE DEF f
<1>3. /\ q \in Pages /\ q.mode = "done" /\ q.final = f /\ q.asked = p.asked /\ q.text = p.text
  BY <1>2 DEF Pages, Modes
<1>4. [p EXCEPT !.mode = "done", !.final[p.asked] = p.text] = q
  BY DEF f
<1> HIDE DEF q
<1>5. \A t \in Turns : t > p.asked => t # p.asked
  BY <1>1, TurnsAre
<1>6. PageGood(q) /\ Lasts(p, q)
  BY <1>1, <1>2, <1>3, <1>5 DEF PageGood, Lasts
<1> QED
  BY <1>3, <1>4, <1>6

LEMMA ConversationPage ==
  ASSUME page \in Pages, boundary \in Boundaries, PageGood(page), Conversation
  PROVE  /\ page' \in Pages /\ boundary' \in Boundaries /\ PageGood(page') /\ Lasts(page, page')
         /\ observer' = [observer EXCEPT !.dirty = TRUE]
         /\ UNCHANGED <<primary, deployment, faults, log, delivery>>
<1> DEFINE Moved == page' \in Pages /\ boundary' \in Boundaries /\ PageGood(page') /\ Lasts(page, page')
<1>1. ASSUME NEW own \in BOOLEAN, Ask(own)
      PROVE  Moved /\ \E p : Show(p)
  <2>1. /\ page.mode = "done" /\ page.asked < MaxTurns
        /\ page' = [page EXCEPT !.asked = @ + 1, !.mode = "sent", !.text = 0]
        /\ boundary' = (IF own THEN [boundary EXCEPT !.owed = page.asked + 1] ELSE boundary)
        /\ \E p : Show(p)
    BY <1>1 DEF Ask, Show
  <2>2. page' \in Pages /\ PageGood(page') /\ Lasts(page, page')
    BY <2>1, PageAsk
  <2>3. page.asked + 1 \in 0..MaxTurns
    BY <2>1, TurnsAre DEF Pages
  <2>4. boundary' \in Boundaries
    BY <2>1, <2>3 DEF Boundaries
  <2> QED
    BY <2>1, <2>2, <2>4
<1>2. ASSUME RegisterPassivePromptBoundary
      PROVE  Moved /\ \E p : Show(p)
  <2>1. /\ page' = page /\ boundary' = [key |-> boundary.owed, owed |-> NoTurn] /\ \E p : Show(p)
    BY <1>2 DEF RegisterPassivePromptBoundary, Show
  <2>2. boundary' \in Boundaries
    BY <2>1, TurnsAre DEF Boundaries
  <2> QED
    BY <2>1, <2>2 DEF Lasts
<1>3. ASSUME NEW mode \in Modes \ {"done"}, NEW text \in Texts, page.mode # "done",
             page' = [page EXCEPT !.mode = mode, !.text = text], UNCHANGED boundary
      PROVE  Moved
  BY <1>3, PageMode
<1>4. page.text \in Texts /\ \A mode \in Modes : [page EXCEPT !.mode = mode] = [page EXCEPT !.mode = mode, !.text = page.text]
  BY DEF Pages
<1>5. ASSUME \/ \E m \in Reasonings : Reason(m)
             \/ Write \/ Pause \/ Block
      PROVE  Moved /\ \E p : Show(p)
  <2>1. \/ \E m \in Reasonings : page' = [page EXCEPT !.mode = m]
        \/ page' = [page EXCEPT !.mode = "writing", !.text = page.text + 1] /\ page.text < MaxText
        \/ page' = [page EXCEPT !.mode = "pause"]
        \/ page' = [page EXCEPT !.mode = "blocked"]
    BY <1>5 DEF Reason, Write, Pause, Block, Show
  <2>2. page.mode # "done" /\ UNCHANGED boundary /\ \E p : Show(p)
    BY <1>5 DEF Reason, Write, Pause, Block
  <2>3. Reasonings \subseteq Modes \ {"done"} /\ {"writing", "pause", "blocked"} \subseteq Modes \ {"done"}
    BY ObservedAssumption DEF ObservedAssumption, Modes
  <2>4. page.text < MaxText => page.text + 1 \in Texts
    <3>1. page.text \in 0..MaxText /\ MaxText \in Nat /\ Texts = 0..MaxText
      BY <1>4, TurnsAre
    <3> QED
      BY <3>1
  <2>5. \E mode \in Modes \ {"done"}, text \in Texts : page' = [page EXCEPT !.mode = mode, !.text = text]
    BY <1>4, <2>1, <2>3, <2>4
  <2>6. PICK mode \in Modes \ {"done"}, text \in Texts : page' = [page EXCEPT !.mode = mode, !.text = text]
    BY <2>5
  <2>7. Moved
    BY <1>3, <2>2, <2>6
  <2> QED
    BY <2>2, <2>7
<1>6. ASSUME Finish
      PROVE  Moved /\ \E p : Show(p)
  <2>1. /\ page.mode # "done" /\ UNCHANGED boundary /\ \E p : Show(p)
        /\ page' = [page EXCEPT !.mode = "done", !.final[page.asked] = page.text]
    BY <1>6 DEF Finish, Show
  <2> QED
    BY <2>1, PageFinish
<1>7. Moved /\ \E p : Show(p)
  BY <1>1, <1>2, <1>5, <1>6 DEF Conversation
<1>8. observer' = [observer EXCEPT !.dirty = TRUE] /\ UNCHANGED <<primary, deployment, faults, log, delivery>>
  BY <1>7 DEF Show
<1> QED
  BY <1>7, <1>8

------------------------------------------------------------------------------
(* What the observer reads                                                    *)

LEMMA ReadIs ==
  ASSUME NEW p \in Pages, NEW item \in Items, NEW request \in BOOLEAN
  PROVE  Observation(ReadAssistantSnapshot(p, item), request) \in Observations
<1> DEFINE s == ReadAssistantSnapshot(p, item)
<1>1. p.asked \in Turns /\ p.text \in Texts /\ p.final \in [Turns -> Texts]
  BY DEF Pages
<1>2. LatestAssistantTurn(p) \in 0..MaxTurns /\ (LatestAssistantTurn(p) # NoTurn => LatestAssistantTurn(p) \in Turns)
  BY <1>1, TurnsAre DEF LatestAssistantTurn
<1>3. Answer(p) \in Texts
  BY <1>1, <1>2, TurnsAre DEF Answer
<1>4. /\ s.turn \in 0..MaxTurns /\ s.answer \in Texts /\ s.item \in Items
      /\ s.phase \in {"NEEDS_ACTION", "TOOL_RUNNING", "ASSISTANT_FINAL_STREAMING", "ASSISTANT_FINAL",
                      "ASSISTANT_REASONING", "ASSISTANT_PLACEHOLDER"}
  BY <1>2, <1>3 DEF ReadAssistantSnapshot, ClassifyTurnPhase
<1> HIDE DEF s
<1> DEFINE o == Observation(s, request)
<1>5. PhaseOutput(s.phase) \in {"none", "reasoning", "streaming", "final"}
  BY <1>4 DEF PhaseOutput
<1>6. Observation(s, request) \in Observations
  BY <1>4, <1>5 DEF Observation, ObservedUserTurn, Observations
<1> QED
  BY <1>6 DEF s

LEMMA ReconcileIs ==
  ASSUME NEW p \in Pages, NEW item \in Items
  PROVE  ReconcileThinking(item, p) \in Items
BY DEF ReconcileThinking, ReasoningBlock, Items, Pages, Modes

LEMMA ObservationIs ==
  ASSUME NEW s, NEW request
  PROVE  LET o == Observation(s, request) IN
         /\ o.turn = s.turn /\ o.answer = s.answer
         /\ s.live => o.generation = "active"
         /\ s.action => o.blocker = "blocked"
<1>1. Observation(s, request).turn = s.turn /\ Observation(s, request).answer = s.answer
  BY DEF Observation
<1>2. ASSUME s.live
      PROVE  Observation(s, request).generation = "active"
  BY <1>2 DEF Observation
<1>3. ASSUME s.action
      PROVE  Observation(s, request).blocker = "blocked"
  BY <1>3 DEF Observation
<1> QED
  BY <1>1, <1>2, <1>3

(* An answer that looks finished is, unless ChatGPT pauses.                        *)
LEMMA LooksFinished ==
  ASSUME NEW p \in Pages, NEW item \in Items, NEW request \in BOOLEAN, NEW level,
         TerminalCandidate(Observation(ReadAssistantSnapshot(p, item), request), level), p.mode # "pause"
  PROVE  LET o == Observation(ReadAssistantSnapshot(p, item), request) IN
         p.mode = "done" /\ o.turn = p.asked /\ o.answer = p.text
<1> DEFINE s == ReadAssistantSnapshot(p, item)
           o == Observation(s, request)
<1>1. o.generation = "stopped" /\ o.blocker = "none" /\ o.turn # NoTurn
  BY DEF TerminalCandidate
<1>2. ~s.live /\ ~s.action /\ o.turn = s.turn /\ o.answer = s.answer
  BY <1>1, ObservationIs
<1>3. ~StopVisible(p) /\ ~NeedsAction(p) /\ s.turn = LatestAssistantTurn(p) /\ s.answer = Answer(p)
  BY <1>2 DEF ReadAssistantSnapshot
<1>4. p.mode = "done"
  BY <1>3 DEF StopVisible, NeedsAction, Pages, Modes
<1>5. s.turn = p.asked
  BY <1>3, <1>4 DEF LatestAssistantTurn
<1>6. p.asked # NoTurn
  BY <1>1, <1>2, <1>5
<1>7. s.answer = p.text
  BY <1>3, <1>4, <1>5, <1>6 DEF Answer, LatestAssistantTurn
<1> QED
  BY <1>2, <1>4, <1>5, <1>7

LEMMA CandidateIs ==
  ASSUME NEW o \in Observations, NEW level, TerminalCandidate(o, level)
  PROVE  o.turn \in Turns /\ o.answer \in 1..MaxText
BY TurnsAre DEF TerminalCandidate, Observations

LEMMA NotSeenIs ==
  ASSUME NEW item \in Items
  PROVE  [NotSeen EXCEPT !.item = item] \in Observers /\ [NotSeen EXCEPT !.item = item].dirty = TRUE
         /\ [NotSeen EXCEPT !.item = item].clock = 0
         /\ NotSeen \in Observers /\ NotSeen.dirty = TRUE /\ NotSeen.clock = 0
<1>1. NoObservation \in Observations
  BY TurnsAre DEF NoObservation, Observations, Items
<1>2. 0 \in 0..MinimumStable
  BY DEF MinimumStable
<1> QED
  BY <1>1, <1>2 DEF NotSeen, Observers, Items

LEMMA NothingSeen ==
  ASSUME NEW ob, ob.dirty = TRUE, ob.clock = 0, NEW p, NEW b
  PROVE  ReadGood(ob, p, b)
BY DEF ReadGood, MinimumStable

LEMMA ReadLasts ==
  ASSUME NEW ob \in Observers, NEW p, NEW b, ReadGood(ob, p, b), NEW q, NEW c, Lasts(p, q)
  PROVE  LET d == [ob EXCEPT !.dirty = TRUE] IN d \in Observers /\ ReadGood(d, q, c)
<1> DEFINE d == [ob EXCEPT !.dirty = TRUE]
<1>1. d \in Observers /\ d.dirty = TRUE /\ d.clock = ob.clock /\ d.seen = ob.seen /\ ob.seen \in Observations
  BY DEF Observers
<1> HIDE DEF d
<1>2. ASSUME ob.clock >= MinimumStable, TerminalCandidate(ob.seen, MinimumStable)
      PROVE  q.final[ob.seen.turn] = ob.seen.answer
  <2>1. ob.seen.turn \in Turns /\ ob.seen.answer \in 1..MaxText
    BY <1>1, <1>2, CandidateIs
  <2>2. ob.seen.answer # 0
    BY <2>1, TurnsAre
  <2> QED
    BY <1>2, <2>1, <2>2 DEF ReadGood, Lasts
<1> QED
  BY <1>1, <1>2 DEF ReadGood, d

LEMMA TickRead ==
  ASSUME observer \in Observers, page \in Pages, boundary \in Boundaries, PageGood(page),
         ReadGood(observer, page, boundary), Tick
  PROVE  observer' \in Observers /\ ReadGood(observer', page, boundary)
<1>1. /\ ~observer.dirty /\ observer' = [observer EXCEPT !.clock = @ + 1]
      /\ observer.clock < IF page.mode = "pause" THEN 1 ELSE MinimumStable
  BY DEF Tick
<1>2. observer.clock \in 0..2 /\ observer.seen \in Observations /\ observer.item \in Items /\ observer.dirty \in BOOLEAN
  BY DEF Observers, MinimumStable
<1>3. observer.clock + 1 \in 0..2
  BY <1>1, <1>2 DEF MinimumStable
<1>4. /\ observer' \in Observers /\ observer'.clock = observer.clock + 1 /\ observer'.seen = observer.seen
      /\ observer'.item = observer.item /\ observer'.dirty = observer.dirty
  BY <1>1, <1>3 DEF Observers, MinimumStable
<1>5. observer.seen = Observation(ReadAssistantSnapshot(page, observer.item), boundary.owed # NoTurn)
  BY <1>1 DEF ReadGood
<1>6. ASSUME observer'.clock >= MinimumStable, TerminalCandidate(observer.seen, MinimumStable)
      PROVE  page.final[observer.seen.turn] = observer.seen.answer
  <2>1. page.mode # "pause"
    BY <1>1, <1>2, <1>4, <1>6 DEF MinimumStable
  <2>2. (boundary.owed # NoTurn) \in BOOLEAN
    OBVIOUS
  <2>3. page.mode = "done" /\ observer.seen.turn = page.asked /\ observer.seen.answer = page.text
    BY <1>2, <1>5, <1>6, <2>1, <2>2, LooksFinished
  <2> QED
    BY <2>3 DEF PageGood
<1> QED
  BY <1>1, <1>4, <1>5, <1>6 DEF ReadGood

------------------------------------------------------------------------------
(* The primary bridge                                                         *)

Published(p, pg) ==
  /\ \A i \in 1..Len(p.entries) : pg.final[p.entries[i].turn] = p.entries[i].text
  /\ \A s \in p.settling : pg.final[s[1]] = s[2]

WellKept(p) == p \in Primaries /\ Len(p.entries) <= Limit

LEMMA PublishedLasts ==
  ASSUME NEW p, WellKept(p), NEW pg, NEW q, Published(p, pg), Lasts(pg, q)
  PROVE  Published(p, q)
<1>1. p.entries \in Seq(Envelopes) /\ p.settling \subseteq Turns \X (1..MaxText)
  BY DEF WellKept, Primaries
<1>2. ASSUME NEW i \in 1..Len(p.entries)
      PROVE  q.final[p.entries[i].turn] = p.entries[i].text
  <2>1. p.entries[i] \in Envelopes
    BY <1>1, ElementOfSeq
  <2>2. p.entries[i].turn \in Turns /\ p.entries[i].text # 0
    BY <2>1, TurnsAre DEF Envelopes
  <2> QED
    BY <2>2 DEF Published, Lasts
<1>3. ASSUME NEW s \in p.settling
      PROVE  q.final[s[1]] = s[2]
  <2>1. s[1] \in Turns /\ s[2] # 0
    BY <1>1, TurnsAre
  <2> QED
    BY <2>1 DEF Published, Lasts
<1> QED
  BY <1>2, <1>3 DEF Published

LEMMA TrimmedIs ==
  ASSUME NEW all \in Seq(Envelopes), Len(all) <= Limit + 1
  PROVE  /\ Trimmed(all) \in Seq(Envelopes) /\ Len(Trimmed(all)) <= Limit
         /\ \A i \in 1..Len(Trimmed(all)) : \E j \in 1..Len(all) : Trimmed(all)[i] = all[j]
<1>1. Limit \in Nat \ {0} /\ Len(all) \in Nat
  BY ObservedAssumption, LenProperties DEF ObservedAssumption
<1>2. CASE Len(all) <= Limit
  <2>1. Trimmed(all) = all
    BY <1>1, <1>2 DEF Trimmed
  <2> QED
    BY <1>2, <2>1
<1>3. CASE Len(all) > Limit
  <2>1. all # <<>>
    BY <1>1, <1>3, EmptySeq
  <2>2. Trimmed(all) = Tail(all)
    BY <1>3 DEF Trimmed
  <2>3. /\ Tail(all) \in Seq(Envelopes) /\ Len(Tail(all)) = Len(all) - 1
        /\ \A i \in 1..Len(Tail(all)) : i + 1 \in 1..Len(all) /\ Tail(all)[i] = all[i + 1]
    BY <2>1, Dropped1
  <2>4. Len(all) - 1 <= Limit
    BY <1>1
  <2> QED
    BY <2>2, <2>3, <2>4
<1> QED
  BY <1>1, <1>2, <1>3

LEMMA JournaledGood ==
  ASSUME Now, NEW p, WellKept(p), Published(p, page), NEW t \in Turns, NEW text \in 1..MaxText,
         page.final[t] = text, Journaled(p, t, text)
  PROVE  WellKept(primary') /\ Published(primary', page) /\ Good(stream', process', workflow', log')
<1> DEFINE e == [seq |-> p.seq + 1, turn |-> t, text |-> text]
           all == Append(p.entries, e)
           kept == Trimmed(all)
<1>1. primary' = [p EXCEPT !.seq = p.seq + 1, !.entries = kept]
  BY DEF Journaled
<1>2. /\ p \in Primaries /\ p.entries \in Seq(Envelopes) /\ p.seq \in Nat /\ Len(p.entries) <= Limit
      /\ Limit \in Nat
  BY ObservedAssumption DEF WellKept, Primaries, ObservedAssumption
<1>3. e \in Envelopes /\ e.turn = t /\ e.text = text
  BY <1>2 DEF Envelopes
<1>4. WellKept(primary') /\ Published(primary', page)
  <2> HIDE DEF e
  <2>1. /\ all \in Seq(Envelopes) /\ Len(all) = Len(p.entries) + 1 /\ Len(p.entries) \in Nat
        /\ \A i \in 1..Len(p.entries) : all[i] = p.entries[i]
        /\ all[Len(p.entries) + 1] = e
    BY <1>2, <1>3, Added
  <2> HIDE DEF all
  <2>2. Len(all) <= Limit + 1
    BY <1>2, <2>1
  <2>3. /\ kept \in Seq(Envelopes) /\ Len(kept) <= Limit
        /\ \A i \in 1..Len(kept) : \E j \in 1..Len(all) : kept[i] = all[j]
    BY <2>1, <2>2, TrimmedIs
  <2>4. \A j \in 1..Len(all) : page.final[all[j].turn] = all[j].text
    <3>1. \A j \in 1..Len(all) : (j \in 1..Len(p.entries) /\ all[j] = p.entries[j]) \/ all[j] = e
      BY <2>1
    <3> QED
      BY <1>3, <3>1 DEF Published
  <2> HIDE DEF kept
  <2>5. \A i \in 1..Len(kept) : page.final[kept[i].turn] = kept[i].text
    BY <2>3, <2>4
  <2>6. p.seq + 1 \in Nat
    BY <1>2
  <2>7. primary' \in Primaries /\ primary'.entries = kept /\ primary'.settling = p.settling
    BY <1>1, <1>2, <2>3, <2>6 DEF Primaries
  <2> QED
    BY <2>3, <2>5, <2>7 DEF WellKept, Published
<1>5. CASE Local
  <2>1. Route(t) /\ stream' = stream
    BY <1>5 DEF Journaled
  <2>2. Good(stream, process', workflow', log')
    BY <1>5, <2>1, RouteLocal DEF Now
  <2> QED
    BY <1>4, <2>1, <2>2
<1>6. CASE ~Local
  <2> DEFINE u == IF stream.conn THEN [stream EXCEPT !.pipe = Append(@, e)] ELSE stream
             m == [log EXCEPT !.missed = @ \cup Unread(all)]
  <2>1. stream' = u /\ log' = m /\ UNCHANGED <<workflow, process>>
    BY <1>6 DEF Journaled
  <2>2. all \in Seq(Envelopes) /\ all # <<>>
    BY <1>2, <1>3, Added
  <2>3. Unread(all) \subseteq Turns
    <3>1. Head(all) = all[1] /\ all[1] \in Envelopes
      BY <2>2, Dropped1
    <3> HIDE DEF all
    <3>2. Head(all).turn \in Turns
      BY <3>1 DEF Envelopes
    <3> QED
      BY <3>2 DEF Unread
  <2> HIDE DEF all
  <2>4. m \in Logs /\ log.missed \subseteq m.missed /\ m.ran = log.ran /\ m.twice = log.twice
    BY <2>3 DEF Now, Good, Logs
  <2>5. stream \in Streams /\ stream.pipe \in Seq(Envelopes)
    BY DEF Now, Good, Streams
  <2> HIDE DEF e
  <2>6. u \in Streams /\ u.pc = stream.pc /\ (stream.pipe # <<>> => u.pipe # <<>> /\ u.pipe[1] = stream.pipe[1])
    <3>1. Append(stream.pipe, e) \in Seq(Envelopes) /\ Append(stream.pipe, e) # <<>>
          /\ \A i \in 1..Len(stream.pipe) : Append(stream.pipe, e)[i] = stream.pipe[i]
      BY <1>3, <2>5, Added
    <3>2. stream.pipe # <<>> => 1 \in 1..Len(stream.pipe)
      BY <2>5, Dropped1
    <3> DEFINE more == Append(stream.pipe, e)
    <3>3. stream.pipe # <<>> => more[1] = stream.pipe[1]
      BY <3>1, <3>2
    <3>4. more \in Seq(Envelopes) /\ more # <<>>
      BY <3>1
    <3>5. u = IF stream.conn THEN [stream EXCEPT !.pipe = more] ELSE stream
      OBVIOUS
    <3> HIDE DEF more
    <3> QED
      BY <2>5, <3>3, <3>4, <3>5 DEF Streams
  <2> HIDE DEF u, m
  <2>7. InputsGood(workflow, m)
    BY <2>4 DEF Now, Good, InputsGood
  <2>8. StreamGood(u, process, workflow, m)
    BY <1>6, <2>4, <2>6 DEF Now, Good, StreamGood
  <2>9. Good(u, process, workflow, m)
    BY <2>4, <2>6, <2>7, <2>8 DEF Now, Good
  <2> QED
    BY <1>4, <2>1, <2>9
<1> QED
  BY <1>5, <1>6

LEMMA BaseIs ==
  ASSUME NEW p, WellKept(p), Published(p, page), NEW base \in 0..MaxTurns
  PROVE  LET q == [p EXCEPT !.base = base] IN WellKept(q) /\ Published(q, page)
BY DEF WellKept, Primaries, Published

LEMMA TermIs ==
  ASSUME NEW p, WellKept(p), Published(p, page), NEW base \in 0..MaxTurns, NEW t \in Turns, NEW v \in Texts \X Items
  PROVE  LET q == [p EXCEPT !.base = base, !.term[t] = v] IN WellKept(q) /\ Published(q, page)
<1> DEFINE f == [p.term EXCEPT ![t] = v]
           q == [p EXCEPT !.base = base, !.term = f]
<1>1. p \in Primaries /\ Len(p.entries) <= Limit /\ p.term \in [Turns -> Texts \X Items]
  BY DEF WellKept, Primaries
<1>2. f \in [Turns -> Texts \X Items]
  BY <1>1
<1>3. [p EXCEPT !.base = base, !.term[t] = v] = q
  OBVIOUS
<1> HIDE DEF f
<1>4. q \in Primaries /\ q.entries = p.entries /\ q.settling = p.settling
  BY <1>1, <1>2 DEF Primaries
<1> HIDE DEF q
<1>5. WellKept(q) /\ Published(q, page)
  BY <1>1, <1>4 DEF WellKept, Published
<1> QED
  BY <1>3, <1>5

LEMMA SettlingIs ==
  ASSUME NEW p, WellKept(p), Published(p, page), NEW more \in SUBSET (Turns \X (1..MaxText)),
         \A s \in more : page.final[s[1]] = s[2]
  PROVE  LET q == [p EXCEPT !.settling = more] IN WellKept(q) /\ Published(q, page)
BY DEF WellKept, Primaries, Published

LEMMA HandleGood ==
  ASSUME Now, WellKept(primary), Published(primary, page), NEW o \in Observations, NEW level,
         TerminalCandidate(o, level) => page.final[o.turn] = o.answer, Handle(o, level)
  PROVE  WellKept(primary') /\ Published(primary', page) /\ Good(stream', process', workflow', log')
<1> DEFINE base == IF primary.base = NoTurn THEN o.turn ELSE primary.base
           p == [primary EXCEPT !.base = base]
           q == [p EXCEPT !.base = o.turn, !.term[o.turn] = VerdictSignature(o)]
<1>1. base \in 0..MaxTurns /\ o.turn \in 0..MaxTurns /\ VerdictSignature(o) \in Texts \X Items
  BY DEF Observations, WellKept, Primaries, VerdictSignature
<1> HIDE DEF base
<1>2. WellKept(p) /\ Published(p, page)
  BY <1>1, BaseIs
<1>3. CASE UNCHANGED <<primary, stream, workflow, process, log>>
  BY <1>3 DEF Now
<1>4. CASE primary' = p /\ UNCHANGED <<stream, workflow, process, log>>
  BY <1>2, <1>4 DEF Now
<1>5. CASE TerminalCandidate(o, level) /\ PublishObservedTurn(q, o.turn, o.answer)
  <2>1. o.turn \in Turns /\ o.answer \in 1..MaxText /\ page.final[o.turn] = o.answer
    BY <1>5, CandidateIs
  <2> HIDE DEF p
  <2>2. WellKept(q) /\ Published(q, page)
    BY <1>1, <1>2, <2>1, TermIs
  <2> HIDE DEF q
  <2>3. CASE o.turn \in Generated
    <3> DEFINE more == q.settling \cup {<<o.turn, o.answer>>}
    <3>1. primary' = [q EXCEPT !.settling = more] /\ UNCHANGED <<stream, workflow, process, log>>
      BY <1>5, <2>3 DEF PublishObservedTurn
    <3>2. more \in SUBSET (Turns \X (1..MaxText)) /\ \A s \in more : page.final[s[1]] = s[2]
      BY <2>1, <2>2 DEF WellKept, Primaries, Published
    <3> HIDE DEF more
    <3>3. WellKept(primary') /\ Published(primary', page)
      BY <2>2, <3>1, <3>2, SettlingIs
    <3> QED
      BY <3>1, <3>3 DEF Now
  <2>4. CASE o.turn \notin Generated
    <3>1. Journaled(q, o.turn, o.answer)
      BY <1>5, <2>4 DEF PublishObservedTurn
    <3> QED
      BY <2>1, <2>2, <3>1, JournaledGood
  <2> QED
    BY <2>3, <2>4
<1>6. p = [primary EXCEPT !.base = IF @ = NoTurn THEN o.turn ELSE @]
  BY DEF base
<1> QED
  BY <1>3, <1>4, <1>5, <1>6 DEF Handle, Publishable

LEMMA CollectGood ==
  ASSUME Now, WellKept(primary), Published(primary, page), page \in Pages, boundary \in Boundaries,
         observer \in Observers, ReadGood(observer, page, boundary), Collect
  PROVE  /\ WellKept(primary') /\ Published(primary', page) /\ Good(stream', process', workflow', log')
         /\ observer' \in Observers /\ ReadGood(observer', page, boundary)
<1> DEFINE item == ReconcileThinking(observer.item, page)
           o == Observation(ReadAssistantSnapshot(page, item), boundary.owed # NoTurn)
           clock == IF o # observer.seen THEN 0 ELSE observer.clock
<1>1. /\ observer' = [dirty |-> FALSE, seen |-> o, item |-> item, clock |-> clock, bucket |-> clock]
      /\ Handle(o, clock) \/ UNCHANGED <<primary, stream, workflow, process, log>>
  BY DEF Collect, StabilitySignature, SemanticSignature
<1>2. item \in Items
  BY ReconcileIs DEF Observers
<1> HIDE DEF item
<1>3. o \in Observations
  <2>1. (boundary.owed # NoTurn) \in BOOLEAN
    OBVIOUS
  <2> QED
    BY <1>2, <2>1, ReadIs
<1>4. clock \in 0..MinimumStable
  BY DEF Observers, MinimumStable
<1>5. ASSUME clock >= MinimumStable, TerminalCandidate(o, MinimumStable)
      PROVE  page.final[o.turn] = o.answer
  <2>1. o = observer.seen /\ observer.clock >= MinimumStable
    BY <1>5 DEF MinimumStable
  <2> QED
    BY <1>5, <2>1 DEF ReadGood
<1>6. TerminalCandidate(o, clock) => page.final[o.turn] = o.answer
  <2> HIDE DEF o, clock
  <2>1. TerminalCandidate(o, clock) => clock >= MinimumStable /\ TerminalCandidate(o, MinimumStable)
    BY DEF TerminalCandidate, MinimumStable
  <2> QED
    BY <1>5, <2>1
<1>7. observer' \in Observers /\ ReadGood(observer', page, boundary)
  <2>1. /\ observer'.dirty = FALSE /\ observer'.seen = o /\ observer'.item = item /\ observer'.clock = clock
    BY <1>1
  <2>2. ReadGood(observer', page, boundary)
    BY <1>5, <2>1 DEF ReadGood
  <2> HIDE DEF o, clock
  <2>3. observer' \in Observers
    BY <1>1, <1>2, <1>3, <1>4 DEF Observers
  <2> QED
    BY <2>2, <2>3
<1> HIDE DEF o, clock
<1> QED
  BY <1>1, <1>3, <1>6, <1>7, HandleGood DEF Now

LEMMA SettleGood ==
  ASSUME Now, WellKept(primary), Published(primary, page), Settle
  PROVE  WellKept(primary') /\ Published(primary', page) /\ Good(stream', process', workflow', log')
<1>1. PICK s \in primary.settling : Journaled([primary EXCEPT !.settling = @ \ {s}], s[1], s[2])
  BY DEF Settle
<1> DEFINE less == primary.settling \ {s}
           p == [primary EXCEPT !.settling = less]
<1>2. /\ less \in SUBSET (Turns \X (1..MaxText)) /\ \A x \in less : page.final[x[1]] = x[2]
      /\ s[1] \in Turns /\ s[2] \in 1..MaxText /\ page.final[s[1]] = s[2]
  BY DEF WellKept, Primaries, Published
<1> HIDE DEF less
<1>3. WellKept(p) /\ Published(p, page)
  BY <1>2, SettlingIs
<1>4. Journaled(p, s[1], s[2])
  BY <1>1 DEF less
<1> HIDE DEF p
<1> QED
  BY <1>2, <1>3, <1>4, JournaledGood

------------------------------------------------------------------------------
(* The invariant                                                              *)

Holds ==
  /\ page \in Pages /\ boundary \in Boundaries /\ observer \in Observers
  /\ deployment \in Deployments /\ cursor \in Cursors /\ faults \in 0..MaxFaults
  /\ PageGood(page) /\ ReadGood(observer, page, boundary)
  /\ WellKept(primary) /\ Published(primary, page)
  /\ Now

LEMMA PublishedIs ==
  ASSUME NEW p \in Primaries
  PROVE  DOMAIN p.entries = 1..Len(p.entries)
BY LenProperties DEF Primaries

LEMMA IInvIs == IInv <=> Holds
<1>1. primary \in Primaries => (PublishedIsFinal <=> Published(primary, page))
  BY PublishedIs DEF PublishedIsFinal, Published
<1> QED
  BY <1>1 DEF IInv, Holds, TypeOK, WellKept, Now, Good, WellFed

LEMMA IInvIsNext ==
  ASSUME deployment' = deployment, Good(stream', process', workflow', log'),
         page' \in Pages, boundary' \in Boundaries, observer' \in Observers,
         deployment \in Deployments, cursor' \in Cursors, faults' \in 0..MaxFaults,
         PageGood(page'), ReadGood(observer', page', boundary'), WellKept(primary'), Published(primary', page')
  PROVE  IInv'
<1>1. StreamGood(stream, process, workflow, log)'
  BY DEF Good, StreamGood, Local
<1>2. PublishedIsFinal'
  BY PublishedIs DEF PublishedIsFinal, Published, WellKept
<1>3. TypeOK'
  BY DEF TypeOK, WellKept, Good, WellFed
<1> QED
  BY <1>1, <1>2, <1>3 DEF IInv, Good

LEMMA StartedGood ==
  ASSUME ObservedAssumption, NEW s \in Streams, NEW h \in {"absent", "ready"}, NEW w \in Workflows, NEW l \in Logs,
         Local => s = Closed /\ h # "restoring", s.pc = "idle",
         w.inputs = <<>>, w.inbox = <<>>, w.life # "ready" => w.run # NoTurn, l.ran \subseteq w.hist, ~l.twice
  PROVE  Good(s, [NoProcess EXCEPT !.hyd = h], w, l)
<1> DEFINE p == [NoProcess EXCEPT !.hyd = h]
<1>1. <<>> \in Seq(Jobs) /\ JobsGood(<<>>, w) /\ Len(<<>>) = 0
      /\ \A kinds : Only(<<>>, kinds) /\ Without(<<>>, kinds)
  BY NoJobs
<1>2. /\ p \in Processes /\ p.hyd = h /\ p.jobs = <<>> /\ p.timer = FALSE
  BY <1>1 DEF NoProcess, Processes, Hydrations
<1> HIDE DEF p
<1>3. InputsGood(w, l)
  BY <1>1 DEF InputsGood
<1>4. Len(w.inputs) <= QueueLimit
  BY <1>1 DEF ObservedAssumption
<1>5. HydrationGood(p, w)
  BY <1>1, <1>2 DEF HydrationGood
<1>6. StreamGood(s, p, w, l)
  BY <1>1, <1>2 DEF StreamGood
<1>7. Good(s, p, w, l)
  BY <1>1, <1>2, <1>3, <1>4, <1>5, <1>6 DEF Good, WellFed
<1> QED
  BY <1>7 DEF p

LEMMA FreshIs ==
  ASSUME NEW e \in Nat \ {0}, NEW pg
  PROVE  WellKept(FreshPrimary(e)) /\ Published(FreshPrimary(e), pg)
<1>1. <<>> \in Seq(Envelopes) /\ Len(<<>>) = 0 /\ Limit \in Nat /\ 1..0 = {}
  BY ObservedAssumption DEF ObservedAssumption
<1>2. NoSignature \in Texts \X Items /\ NoTurn \in 0..MaxTurns
  BY TurnsAre DEF NoSignature, Items
<1>3. FreshPrimary(e) \in Primaries
  BY <1>1, <1>2 DEF FreshPrimary, Primaries
<1>4. FreshPrimary(e).entries = <<>> /\ FreshPrimary(e).settling = {}
  BY DEF FreshPrimary
<1> QED
  BY <1>1, <1>3, <1>4 DEF WellKept, Published

LEMMA ServingIs ==
  ASSUME NEW seq \in Nat \ {0}, NEW pg, pg.final[1] = 1, Serving(seq)
  PROVE  WellKept(primary) /\ Published(primary, pg) /\ cursor \in Cursors
<1> DEFINE e == [seq |-> seq, turn |-> 1, text |-> 1]
           one == <<e>>
           fresh == FreshPrimary(1)
           term == [fresh.term EXCEPT ![1] = <<1, "none">>]
<1>1. e \in Envelopes /\ e.turn = 1 /\ e.text = 1
  BY TurnsAre DEF Envelopes
<1>2. fresh \in Primaries
  BY FreshIs DEF WellKept
<1>3. fresh.settling = {}
  BY DEF FreshPrimary
<1> HIDE DEF e
<1>4. one \in Seq(Envelopes) /\ Len(one) = 1 /\ one[1] = e
  BY <1>1
<1>5. 1 \in Texts /\ 1 \in 0..MaxTurns /\ 1 \in Turns /\ Limit \in Nat /\ 1 <= Limit
  BY TurnsAre, ObservedAssumption DEF ObservedAssumption
<1>6. primary = [fresh EXCEPT !.seq = seq, !.base = 1, !.term = term, !.entries = one]
  BY DEF Serving, e
<1> HIDE DEF one, fresh
<1>7. term \in [Turns -> Texts \X Items]
  <2>1. fresh.term \in [Turns -> Texts \X Items] /\ <<1, "none">> \in Texts \X Items
    BY <1>2, <1>5 DEF Primaries, Items
  <2> QED
    BY <2>1
<1> HIDE DEF term
<1>8. primary \in Primaries /\ primary.entries = one /\ primary.settling = {}
  BY <1>2, <1>3, <1>4, <1>5, <1>6, <1>7 DEF Primaries
<1>9. \A i \in 1..Len(one) : i = 1
  BY <1>4
<1>10. WellKept(primary) /\ Published(primary, pg)
  BY <1>1, <1>4, <1>5, <1>8, <1>9 DEF WellKept, Published
<1>11. cursor \in Cursors
  BY DEF Serving, Cursors
<1> QED
  BY <1>10, <1>11

LEMMA InitOK ==
  ASSUME Init
  PROVE  IInv
<1>1. /\ ObservedAssumption /\ Limit + 2 \in Nat \ {0} /\ MaxFaults \in Nat
      /\ 1 \in Texts /\ NoTurn \in 0..MaxTurns
  BY ObservedAssumption, TurnsAre DEF ObservedAssumption
<1>2. page \in Pages /\ PageGood(page) /\ page.final[1] = 1
  <2> DEFINE f == [t \in Turns |-> IF t = 1 THEN 1 ELSE 0]
  <2>1. page = [asked |-> 1, mode |-> "done", text |-> 1, final |-> f]
    BY DEF Init
  <2>2. f \in [Turns -> Texts] /\ f[1] = 1 /\ \A t \in Turns : t > 1 => f[t] = 0
    BY TurnsAre
  <2> HIDE DEF f
  <2>3. page.asked = 1 /\ page.mode = "done" /\ page.text = 1 /\ page.final = f
    BY <2>1
  <2>4. page \in Pages
    BY <1>1, <2>1, <2>2, TurnsAre DEF Pages, Modes
  <2> QED
    BY <2>2, <2>3, <2>4 DEF PageGood
<1>3. boundary \in Boundaries
  BY <1>1 DEF Init, Boundaries
<1>4. observer \in Observers /\ ReadGood(observer, page, boundary)
  <2>1. "none" \in Items /\ observer = NotSeen
    BY DEF Init, Items
  <2> QED
    BY <2>1, NotSeenIs, NothingSeen
<1>5. deployment \in Deployments /\ faults \in 0..MaxFaults
  BY <1>1 DEF Init
<1>6. /\ FreshWorkflow \in Workflows /\ FreshWorkflow.life = "ready" /\ FreshWorkflow.hist = {}
      /\ FreshWorkflow.inputs = <<>> /\ FreshWorkflow.inbox = <<>> /\ FreshWorkflow.run = NoTurn
  BY <1>1 DEF FreshWorkflow, Workflows, Lives
<1>7. Closed \in Streams /\ Closed.pc = "idle" /\ Closed.conn = FALSE
  BY DEF Closed, Streams
<1> DEFINE Rested == /\ workflow \in Workflows /\ workflow.inputs = <<>> /\ workflow.inbox = <<>>
                     /\ workflow.life # "ready" => workflow.run # NoTurn
<1>8. ASSUME Rested, stream \in Streams, stream.pc = "idle", Local => stream = Closed,
             process = [NoProcess EXCEPT !.hyd = "absent"] \/ process = [NoProcess EXCEPT !.hyd = "ready"]
      PROVE  Now
  <2>1. log = [kept |-> workflow.hist, missed |-> {}, ran |-> workflow.hist, twice |-> FALSE]
    BY DEF Init
  <2>2. workflow.hist \subseteq Turns
    BY <1>8 DEF Workflows
  <2>3. log \in Logs /\ log.ran = workflow.hist /\ log.twice = FALSE
    BY <2>1, <2>2 DEF Logs
  <2>4. ASSUME NEW h \in {"absent", "ready"}
        PROVE  Good(stream, [NoProcess EXCEPT !.hyd = h], workflow, log)
    BY <1>1, <1>8, <2>3, <2>4, StartedGood
  <2> QED
    BY <1>8, <2>4 DEF Now
<1>9. CASE Started
  <2>1. WellKept(primary) /\ Published(primary, page)
    BY <1>9, FreshIs DEF Started
  <2>2. cursor \in Cursors
    BY <1>9 DEF Started, Cursors
  <2>3. Rested /\ stream = Closed
    BY <1>6, <1>9 DEF Started
  <2>4. process = [NoProcess EXCEPT !.hyd = "absent"] \/ process = [NoProcess EXCEPT !.hyd = "ready"]
    BY <1>9 DEF Started
  <2>5. Now
    BY <1>7, <1>8, <2>3, <2>4
  <2> QED
    BY <1>2, <1>3, <1>4, <1>5, <2>1, <2>2, <2>5, IInvIs DEF Holds
<1>10. CASE /\ Serving(1)
            /\ workflow = [FreshWorkflow EXCEPT !.hist = {1}] /\ stream = [Closed EXCEPT !.conn = ~Local]
  <2>1. WellKept(primary) /\ Published(primary, page) /\ cursor \in Cursors
    BY <1>2, <1>10, ServingIs
  <2>2. Rested
    BY <1>6, <1>10, TurnsAre DEF Workflows
  <2>3. stream \in Streams /\ stream.pc = "idle"
    BY <1>7, <1>10 DEF Streams
  <2>4. Local => stream = Closed
    BY <1>10 DEF Closed
  <2>5. process = [NoProcess EXCEPT !.hyd = "ready"]
    BY <1>10 DEF Serving
  <2>6. Now
    BY <1>8, <2>2, <2>3, <2>4, <2>5
  <2> QED
    BY <1>2, <1>3, <1>4, <1>5, <2>1, <2>6, IInvIs DEF Holds
<1>11. CASE /\ ~Local /\ Serving(Limit + 2)
            /\ workflow = [FreshWorkflow EXCEPT !.hist = {1}, !.run = 1, !.life = "waiting"] /\ stream = Closed
  <2>1. WellKept(primary) /\ Published(primary, page) /\ cursor \in Cursors
    BY <1>1, <1>2, <1>11, ServingIs
  <2>2. Rested
    <3>1. 1 \in 0..MaxTurns /\ {1} \subseteq Turns /\ "waiting" \in Lives /\ 1 # NoTurn
      BY TurnsAre DEF Lives
    <3>2. /\ workflow \in Workflows /\ workflow.run = 1
          /\ workflow.inputs = FreshWorkflow.inputs /\ workflow.inbox = FreshWorkflow.inbox
      BY <1>6, <1>11, <3>1 DEF Workflows
    <3> QED
      BY <1>6, <3>1, <3>2
  <2>3. process = [NoProcess EXCEPT !.hyd = "ready"]
    BY <1>11 DEF Serving
  <2>4. Now
    BY <1>7, <1>8, <1>11, <2>2, <2>3
  <2> QED
    BY <1>2, <1>3, <1>4, <1>5, <2>1, <2>4, IInvIs DEF Holds
<1> QED
  BY <1>9, <1>10, <1>11 DEF Init

LEMMA ConversationOK ==
  ASSUME IInv, Conversation
  PROVE  IInv'
<1>1. Holds
  BY IInvIs
<1>2. /\ page' \in Pages /\ boundary' \in Boundaries /\ PageGood(page') /\ Lasts(page, page')
      /\ observer' = [observer EXCEPT !.dirty = TRUE]
      /\ UNCHANGED <<primary, deployment, faults, log, workflow, process, stream, cursor>>
  BY <1>1, ConversationPage DEF Holds, delivery
<1>3. observer' \in Observers /\ ReadGood(observer', page', boundary')
  BY <1>1, <1>2, ReadLasts DEF Holds
<1>4. Published(primary, page')
  BY <1>1, <1>2, PublishedLasts DEF Holds
<1> QED
  BY <1>1, <1>2, <1>3, <1>4, IInvIsNext DEF Holds, Now

LEMMA ObservingOK ==
  ASSUME IInv, Observing
  PROVE  IInv'
<1>1. Holds
  BY IInvIs
<1>2. CASE Tick
  <2>1. UNCHANGED <<page, boundary, primary, deployment, faults, log, workflow, process, stream, cursor>>
    BY <1>2 DEF Tick, source, delivery
  <2>2. observer' \in Observers /\ ReadGood(observer', page, boundary)
    BY <1>1, <1>2, TickRead DEF Holds
  <2> QED
    BY <1>1, <2>1, <2>2, IInvIsNext DEF Holds, Now
<1>3. CASE Collect
  <2>1. UNCHANGED <<page, boundary, deployment, faults, cursor>>
    BY <1>3 DEF Collect, source
  <2>2. /\ WellKept(primary') /\ Published(primary', page) /\ Good(stream', process', workflow', log')
        /\ observer' \in Observers /\ ReadGood(observer', page, boundary)
    BY <1>1, <1>3, CollectGood DEF Holds
  <2> QED
    BY <1>1, <2>1, <2>2, IInvIsNext DEF Holds
<1>4. CASE Settle
  <2>1. UNCHANGED <<page, boundary, observer, deployment, faults, cursor>>
    BY <1>4 DEF Settle, source
  <2>2. WellKept(primary') /\ Published(primary', page) /\ Good(stream', process', workflow', log')
    BY <1>1, <1>4, SettleGood DEF Holds
  <2> QED
    BY <1>1, <2>1, <2>2, IInvIsNext DEF Holds
<1> QED
  BY <1>2, <1>3, <1>4 DEF Observing

(* What leaves the conversation, the observer and the bridge alone.               *)
LEMMA DeliveryOK ==
  ASSUME IInv, UNCHANGED <<page, boundary, observer, primary, deployment, faults>>,
         Good(stream', process', workflow', log'), cursor' \in Cursors
  PROVE  IInv'
<1>1. Holds
  BY IInvIs
<1> QED
  BY <1>1, IInvIsNext DEF Holds

LEMMA QueueOK ==
  ASSUME IInv, Queue
  PROVE  IInv'
<1>1. Now /\ cursor \in Cursors
  BY IInvIs DEF Holds
<1>2. UNCHANGED <<page, boundary, observer, primary, deployment, cursor, faults>>
  BY DEF Queue, DeferJob, DrainJob, RunJob, WorkJob, RetryTimer, GapJob, JobFrame, source
<1>3. Good(stream', process', workflow', log')
  BY <1>1, DeferJobGood, DrainJobGood, RunJobGood, WorkJobGood, RetryTimerGood, GapJobGood DEF Queue
<1> QED
  BY <1>1, <1>2, <1>3, DeliveryOK

LEMMA HydrationOK ==
  ASSUME IInv, Hydration
  PROVE  IInv'
<1>1. Now /\ cursor \in Cursors
  BY IInvIs DEF Holds
<1>2. UNCHANGED <<page, boundary, observer, primary, deployment, cursor, faults>>
  BY DEF Hydration, Load, Restore, Drain, RemoveStartupInput, Hydrated, HydrationFrame, JobFrame, source
<1>3. Good(stream', process', workflow', log')
  BY <1>1, LoadGood, RestoreGood, DrainGood, RemoveStartupInputGood, HydratedGood DEF Hydration
<1> QED
  BY <1>1, <1>2, <1>3, DeliveryOK

LEMMA WorkerOK ==
  ASSUME IInv, Worker
  PROVE  IInv'
<1>1. Now /\ cursor \in Cursors /\ primary \in Primaries
  BY IInvIs DEF Holds, WellKept
<1>2. UNCHANGED <<page, boundary, observer, primary, deployment, faults>>
  BY DEF Worker, Connect, StreamGap, LoadFresh, Deliver, CommitCursor, WorkerFrame, source
<1>3. LoadFresh \/ Deliver => cursor' = cursor
  BY DEF LoadFresh, Deliver
<1>4. Good(stream', process', workflow', log') /\ cursor' \in Cursors
  BY <1>1, <1>3, ConnectGood, StreamGapGood, LoadFreshGood, DeliverGood, CommitCursorGood DEF Worker
<1> QED
  BY <1>2, <1>4, DeliveryOK

LEMMA UserOK ==
  ASSUME IInv, User
  PROVE  IInv'
<1>1. Now /\ cursor \in Cursors
  BY IInvIs DEF Holds
<1>2. UNCHANGED <<page, boundary, observer, primary, deployment, faults>>
  BY DEF User, UserDecides, ResyncFromRetained, JobFrame, WorkerFrame, source
<1>3. cursor' \in Cursors
  <2>1. CASE UserDecides
    BY <1>1, <2>1 DEF UserDecides, JobFrame
  <2>2. CASE ResyncFromRetained
    BY <1>1, <2>2 DEF ResyncFromRetained, Cursors
  <2> QED
    BY <2>1, <2>2 DEF User
<1>4. Good(stream', process', workflow', log')
  BY <1>1, UserDecidesGood, ResyncGood DEF User
<1> QED
  BY <1>2, <1>3, <1>4, DeliveryOK

LEMMA FaultsOK ==
  ASSUME IInv, Faults
  PROVE  IInv'
<1>1. Holds
  BY IInvIs
<1>2. /\ UNCHANGED <<page, deployment, cursor>> /\ faults' = faults + 1 /\ faults < MaxFaults
      /\ boundary' = boundary \/ boundary' = [key |-> NoTurn, owed |-> NoTurn]
      /\ primary' = primary \/ primary' = FreshPrimary(primary.epoch + 1)
      /\ \/ observer' = observer /\ boundary' = boundary
         \/ observer' = NotSeen
         \/ observer' = [NotSeen EXCEPT !.item = observer.item]
  BY DEF Faults, CrashPrimary, CrashWorker, DropStream, Disconnect, ReloadContent, Fault, source, delivery
<1>3. Good(stream', process', workflow', log')
  BY <1>1, FaultsGood DEF Holds
<1>4. boundary' \in Boundaries
  BY <1>1, <1>2, TurnsAre DEF Holds, Boundaries
<1>5. faults' \in 0..MaxFaults
  <2>1. MaxFaults \in Nat /\ faults \in 0..MaxFaults
    BY <1>1, ObservedAssumption DEF Holds, ObservedAssumption
  <2> QED
    BY <1>2, <2>1
<1>6. WellKept(primary') /\ Published(primary', page)
  <2>1. primary.epoch + 1 \in Nat \ {0}
    BY <1>1 DEF Holds, WellKept, Primaries
  <2> QED
    BY <1>1, <1>2, <2>1, FreshIs DEF Holds
<1>7. observer' \in Observers /\ ReadGood(observer', page, boundary')
  <2>1. observer.item \in Items
    BY <1>1 DEF Holds, Observers
  <2>2. CASE observer' = observer /\ boundary' = boundary
    BY <1>1, <2>2 DEF Holds
  <2>3. CASE observer' = NotSeen
    BY <2>1, <2>3, NotSeenIs, NothingSeen
  <2>4. CASE observer' = [NotSeen EXCEPT !.item = observer.item]
    <3>1. observer' \in Observers /\ observer'.dirty = TRUE /\ observer'.clock = 0
      BY <2>1, <2>4, NotSeenIs
    <3> QED
      BY <3>1, NothingSeen
  <2> QED
    BY <1>2, <2>2, <2>3, <2>4
<1> QED
  BY <1>1, <1>2, <1>3, <1>4, <1>5, <1>6, <1>7, IInvIsNext DEF Holds

LEMMA StutterOK ==
  ASSUME IInv, UNCHANGED vars
  PROVE  IInv'
<1>1. UNCHANGED <<page, boundary, observer, primary, deployment, workflow, process, stream, cursor, faults, log>>
  BY DEF vars
<1>2. Holds
  BY IInvIs
<1> QED
  BY <1>1, <1>2, DeliveryOK DEF Holds, Now

LEMMA NextOK ==
  ASSUME IInv, [Next]_vars
  PROVE  IInv'
BY ConversationOK, ObservingOK, QueueOK, HydrationOK, WorkerOK, UserOK, FaultsOK, StutterOK DEF Next

------------------------------------------------------------------------------
(* Theorems                                                                   *)

(* The invariant is inductive.                                                    *)
THEOREM Inductive == Spec => []IInv
<1>1. Init => IInv
  BY InitOK
<1>2. IInv /\ [Next]_vars => IInv'
  BY NextOK
<1> QED
  BY <1>1, <1>2, PTL DEF Spec

(* Every variable stays in its type: the journal never holds more than Limit       *)
(* turns, nor the queue of the workflow more than QueueLimit inputs.               *)
THEOREM TypeCorrect == Spec => []TypeOK
<1>1. IInv => TypeOK
  BY DEF IInv
<1> QED
  BY <1>1, Inductive, PTL

(* The bridge publishes an answer only when ChatGPT has finished it, and with the   *)
(* text it has finished with, whatever the page does between two readings and      *)
(* whatever is reloaded: turnEvidence.js, passiveObservationRouter.js.             *)
THEOREM FinalOnly == Spec => []PublishedIsFinal
<1>1. IInv => PublishedIsFinal
  BY DEF IInv
<1> QED
  BY <1>1, Inductive, PTL

(* One state of the workflow starts at most one run for a turn, however often the   *)
(* turn is published, delivered, hydrated and retried: deferredObservedTurns.js.    *)
THEOREM OneRunPerTurn == Spec => []RunOncePerTurn
<1>1. IInv => RunOncePerTurn
  BY DEF IInv, InputsGood, RunOncePerTurn
<1> QED
  BY <1>1, Inductive, PTL

(* At most one job of the project queue is a run of the workflow or about to begin   *)
(* one, whatever is queued, retried, resumed and hydrated: workflowQueue.js.         *)
THEOREM OneRunAtATime == Spec => []Only(process.jobs, Executing)
<1>1. IInv => Only(process.jobs, Executing)
  BY DEF IInv, JobsGood
<1> QED
  BY <1>1, Inductive, PTL

(* The cursor of a worker passes a turn only when the workflow has it in its state,  *)
(* or nobody had loaded one: remoteBrowserBridge.js awaits the listener first.       *)
THEOREM CursorWaits == Spec => CursorAfterEnqueue
<1> DEFINE Waits == cursor'.epoch = cursor.epoch /\ cursor.gap = 0 /\ cursor'.seq > cursor.seq
                      => stream.pipe[1].turn \in Kept(workflow) \cup log.missed
<1>1. ASSUME IInv, [Next]_vars
      PROVE  [Waits]_vars
  <2>1. cursor \in Cursors /\ primary \in Primaries /\ StreamGood(stream, process, workflow, log)
    BY <1>1 DEF IInv, TypeOK
  <2>2. cursor.seq \in Nat /\ cursor.epoch \in Nat /\ cursor.gap \in Nat /\ primary.epoch \in Nat \ {0}
    BY <2>1 DEF Cursors, Primaries
  <2>3. ASSUME cursor' = cursor
        PROVE  Waits
    BY <2>2, <2>3
  <2>4. CASE Connect
    <3>1. cursor' = [epoch |-> primary.epoch, seq |-> IF ClassifyCursor = "reset" THEN 0 ELSE cursor.seq, gap |-> 0]
      BY <2>4 DEF Connect
    <3>2. cursor'.seq = 0 \/ cursor'.seq = cursor.seq
      BY <3>1
    <3> QED
      BY <2>2, <3>2
  <2>5. CASE StreamGap
    <3>1. cursor'.seq = cursor.seq
      BY <2>1, <2>5 DEF StreamGap, Cursors
    <3> QED
      BY <2>2, <3>1
  <2>6. CASE CommitCursor
    <3>1. ~Local /\ stream.pc = "commit"
      BY <2>1, <2>6 DEF CommitCursor, StreamGood, Closed
    <3> QED
      BY <2>1, <3>1 DEF StreamGood
  <2>7. CASE ResyncFromRetained
    BY <2>2, <2>7 DEF ResyncFromRetained
  <2>8. CASE Conversation \/ Observing \/ Queue \/ Hydration \/ LoadFresh \/ Deliver \/ UserDecides \/ Faults
    <3>1. Conversation \/ Tick => cursor' = cursor
      BY DEF Conversation, Ask, RegisterPassivePromptBoundary, Reason, Write, Pause, Block, Finish, Show, Tick, delivery
    <3>2. Collect \/ Settle => cursor' = cursor
      BY DEF Collect, Settle
    <3>3. Queue \/ Hydration \/ UserDecides => cursor' = cursor
      BY DEF Queue, DeferJob, DrainJob, RunJob, WorkJob, RetryTimer, GapJob, JobFrame,
             Hydration, Load, Restore, Drain, RemoveStartupInput, Hydrated, HydrationFrame, UserDecides
    <3>4. LoadFresh \/ Deliver \/ Faults => cursor' = cursor
      BY DEF LoadFresh, Deliver, Faults, CrashPrimary, CrashWorker, DropStream, Disconnect, ReloadContent, delivery
    <3> QED
      BY <2>3, <2>8, <3>1, <3>2, <3>3, <3>4 DEF Observing
  <2>9. CASE UNCHANGED vars
    BY <2>9
  <2> QED
    BY <1>1, <2>4, <2>5, <2>6, <2>7, <2>8, <2>9 DEF Next, Worker, User
<1>2. Spec => [][Waits]_vars
  BY <1>1, Inductive, PTL DEF Spec
<1> QED
  BY <1>2 DEF CursorAfterEnqueue

==============================================================================
