---------------------------- MODULE ServerProofs ----------------------------
(***************************************************************************)
(* Theorems about the server, for any number of turns, clients, calls,     *)
(* keys, effects and retries: the turns it runs (TurnQueue) and the        *)
(* canonical request of a prompt (RequestMachine).                         *)
(***************************************************************************)
EXTENDS TurnQueue, RequestMachine, SequenceTheorems, TLAPS

-----------------------------------------------------------------------------
(* TurnQueue *)

(* Every turn that waits does so once, in its own lane, and nobody works on *)
(* it: the first of a queue can be given the lane without asking for more.  *)
Queued(waiting, at) ==
    \A l \in Lanes : \A i \in 1 .. Len(waiting[l]) :
        /\ lane[waiting[l][i]] = l
        /\ at[waiting[l][i]] = "idle"
        /\ \A j \in 1 .. Len(waiting[l]) :
              i # j => waiting[l][i] # waiting[l][j]

(* The two conjuncts of LaneExclusion, for any lanes and stages.            *)
Held(held, at) ==
    /\ \A t \in Turns : at[t] \in Working <=> \E l \in Lanes : held[l] = t
    /\ \A k, l \in Lanes : k # l /\ held[k] # NoTurn =>
          held[l] # held[k] /\ (k = Global => held[l] = NoTurn)

(* Nothing happens to a turn before its record is created.                  *)
CreatedFirst ==
    \A t \in Turns : status[t] = "none" =>
        stage[t] = "idle" /\ t \notin prompted /\ ~Waiting(t)

(* A run that leaves before it starts was aborted.                          *)
AbortedFirst ==
    \A t \in Turns : stage[t] = "aborting" => Aborted(t)

TurnIInv ==
    /\ TurnTypeOK
    /\ Queued(queues, stage)
    /\ Held(running, stage)
    /\ CreatedFirst
    /\ AbortedFirst

-----------------------------------------------------------------------------
Stages == {"idle"} \union Starting \union Working

(* A turn waits in some lane.                                               *)
In(t, waiting) == \E l \in Lanes : \E i \in 1 .. Len(waiting[l]) : waiting[l][i] = t

(* Taking one element out of a sequence closes the gap.                     *)
LEMMA Removal ==
  ASSUME NEW S, NEW s \in Seq(S), NEW i \in 1 .. Len(s)
  PROVE  /\ RemoveAt(s, i) \in Seq(S)
         /\ Len(RemoveAt(s, i)) = Len(s) - 1
         /\ \A j \in 1 .. Len(s) - 1 :
               RemoveAt(s, i)[j] = IF j < i THEN s[j] ELSE s[j + 1]
<1> DEFINE a == SubSeq(s, 1, i - 1)
           b == SubSeq(s, i + 1, Len(s))
<1>1. Len(s) \in Nat /\ i \in Int /\ \A j \in 1 .. Len(s) : s[j] \in S
  BY LenProperties, ElementOfSeq
<1>2. /\ a \in Seq(S) /\ Len(a) = i - 1
      /\ \A j \in 1 .. i - 1 : a[j] = s[j]
  <2>1. \A j \in 1 .. i - 1 : s[j] \in S
    BY <1>1
  <2> QED
    BY <1>1, <2>1, SubSeqProperties
<1>3. /\ b \in Seq(S) /\ Len(b) = Len(s) - i
      /\ \A j \in 1 .. Len(s) - i : b[j] = s[i + j]
  <2>1. \A j \in i + 1 .. Len(s) : s[j] \in S
    BY <1>1
  <2> QED
    BY <1>1, <2>1, SubSeqProperties
<1> HIDE DEF a, b
<1>4. /\ a \o b \in Seq(S)
      /\ Len(a \o b) = Len(s) - 1
      /\ \A j \in 1 .. Len(a) + Len(b) :
            (a \o b)[j] = IF j <= Len(a) THEN a[j] ELSE b[j - Len(a)]
  BY <1>1, <1>2, <1>3, ConcatProperties
<1>5. ASSUME NEW j \in 1 .. Len(s) - 1
      PROVE  (a \o b)[j] = IF j < i THEN s[j] ELSE s[j + 1]
  <2>1. CASE j < i
    BY <2>1, <1>1, <1>2, <1>3, <1>4
  <2>2. CASE ~(j < i)
    <3>1. j - Len(a) \in 1 .. Len(s) - i /\ ~(j <= Len(a))
      BY <2>2, <1>1, <1>2
    <3>2. j \in 1 .. Len(a) + Len(b)
      BY <1>1, <1>2, <1>3
    <3>3. (a \o b)[j] = b[j - Len(a)] /\ b[j - Len(a)] = s[i + (j - Len(a))]
      BY <3>1, <3>2, <1>3, <1>4
    <3>4. i + (j - Len(a)) = j + 1
      BY <1>1, <1>2
    <3> QED
      BY <2>2, <3>3, <3>4
  <2> QED
    BY <2>1, <2>2
<1>6. RemoveAt(s, i) = a \o b
  BY DEF RemoveAt, a, b
<1> QED
  BY <1>4, <1>5, <1>6

(* A turn that is taken out of the queues waits nowhere; the others do.     *)
LEMMA WithoutLeaves ==
  ASSUME NEW t \in Turns, TurnTypeOK, Queued(queues, stage),
         NEW at, \A u \in Turns \ {t} : at[u] = stage[u]
  PROVE  /\ Without(t) \in [Lanes -> Seq(Turns)]
         /\ Queued(Without(t), at)
         /\ ~In(t, Without(t))
         /\ \A u \in Turns : In(u, Without(t)) => In(u, queues)
<1> DEFINE W(l) == Without(t)[l]
<1>1. queues \in [Lanes -> Seq(Turns)]
  BY DEF TurnTypeOK
<1>2. ASSUME NEW l \in Lanes
      PROVE  /\ W(l) \in Seq(Turns)
             /\ \A i \in 1 .. Len(W(l)) : \E j \in 1 .. Len(queues[l]) :
                   W(l)[i] = queues[l][j]
             /\ \A i \in 1 .. Len(W(l)) : W(l)[i] # t
             /\ \A i, j \in 1 .. Len(W(l)) : i # j => W(l)[i] # W(l)[j]
  <2>0. /\ queues[l] \in Seq(Turns) /\ Len(queues[l]) \in Nat
        /\ \A i, j \in 1 .. Len(queues[l]) : i # j => queues[l][i] # queues[l][j]
    BY <1>1, LenProperties DEF Queued
  <2>1. CASE ~Contains(queues[l], t)
    BY <2>0, <2>1 DEF Without, Contains
  <2>2. CASE Contains(queues[l], t)
    <3> DEFINE p == Place(l, t)
               r == RemoveAt(queues[l], p)
    <3>1. p \in 1 .. Len(queues[l]) /\ queues[l][p] = t
      BY <2>2 DEF Contains, Place
    <3>2. W(l) = r
      BY <2>2 DEF Without
    <3> HIDE DEF p
    <3>3. /\ r \in Seq(Turns) /\ Len(r) = Len(queues[l]) - 1
          /\ \A j \in 1 .. Len(queues[l]) - 1 :
                r[j] = IF j < p THEN queues[l][j] ELSE queues[l][j + 1]
      BY <2>0, <3>1, Removal
    <3> HIDE DEF r, W
    <3> DEFINE q == queues[l]
    <3>4. Len(q) \in Nat /\ p \in Nat /\ r \in Seq(Turns) /\ Len(r) = Len(q) - 1
      BY <2>0, <3>1, <3>3
    <3>5. ASSUME NEW i \in 1 .. Len(r)
          PROVE  \E j \in 1 .. Len(q) : r[i] = q[j] /\ j # p /\ j = IF i < p THEN i ELSE i + 1
      BY <3>3, <3>4
    <3>6. \A i \in 1 .. Len(r) : r[i] # t
      BY <2>0, <3>1, <3>5
    <3>7. ASSUME NEW i \in 1 .. Len(r), NEW j \in 1 .. Len(r), i # j
          PROVE  r[i] # r[j]
      <4>1. PICK a \in 1 .. Len(q) : r[i] = q[a] /\ a = IF i < p THEN i ELSE i + 1
        BY <3>5
      <4>2. PICK b \in 1 .. Len(q) : r[j] = q[b] /\ b = IF j < p THEN j ELSE j + 1
        BY <3>5
      <4>3. a # b
        BY <3>4, <3>7, <4>1, <4>2
      <4> QED
        BY <2>0, <4>1, <4>2, <4>3
    <3> QED
      BY <3>2, <3>4, <3>5, <3>6, <3>7
  <2> QED
    BY <2>1, <2>2
<1>3. Without(t) \in [Lanes -> Seq(Turns)]
  BY <1>2 DEF Without
<1>4. ASSUME NEW l \in Lanes, NEW i \in 1 .. Len(W(l))
      PROVE  lane[W(l)[i]] = l /\ at[W(l)[i]] = "idle"
  <2>1. PICK j \in 1 .. Len(queues[l]) : W(l)[i] = queues[l][j]
    BY <1>2, <1>4
  <2>2. W(l)[i] # t /\ W(l)[i] \in Turns
    BY <1>2, <1>4, ElementOfSeq
  <2> QED
    BY <2>1, <2>2 DEF Queued
<1>5. Queued(Without(t), at)
  BY <1>2, <1>4 DEF Queued
<1> QED
  BY <1>2, <1>3, <1>5 DEF In

(* pump keeps the lanes exclusive, whichever queues and lanes it is called  *)
(* with: it works on waiting turns only, and takes them out of the queues.  *)
LEMMA PumpKeeps ==
  ASSUME TurnAssumption,
         NEW waiting \in [Lanes -> Seq(Turns)],
         NEW held \in [Lanes -> Turns \union {NoTurn}],
         NEW at \in [Turns -> Stages],
         lane' = lane,
         Queued(waiting, at), Held(held, at), Pump(waiting, held, at)
  PROVE  /\ queues' \in [Lanes -> Seq(Turns)]
         /\ running' \in [Lanes -> Turns \union {NoTurn}]
         /\ stage' \in [Turns -> Stages]
         /\ Queued(queues, stage)'
         /\ Held(running, stage)'
         /\ \A t \in Turns : stage'[t] = at[t] \/ (In(t, waiting) /\ stage'[t] = "scheduled")
         /\ \A t \in Turns : In(t, queues') => In(t, waiting)
<1> DEFINE S == Startable(waiting, held)
           First(l) == Head(waiting[l])
<1>0. NoTurn \notin Turns /\ Global \notin Browsers /\ Global \in Lanes
  BY DEF TurnAssumption, Lanes
<1>1. ASSUME NEW l \in S
      PROVE  /\ l \in Lanes
             /\ waiting[l] \in Seq(Turns) /\ waiting[l] # <<>>
             /\ Len(waiting[l]) \in Nat \ {0}
             /\ First(l) = waiting[l][1] /\ First(l) \in Turns
             /\ lane[First(l)] = l /\ at[First(l)] = "idle"
             /\ Tail(waiting[l]) \in Seq(Turns)
             /\ Len(Tail(waiting[l])) = Len(waiting[l]) - 1
             /\ \A i \in 1 .. Len(Tail(waiting[l])) : Tail(waiting[l])[i] = waiting[l][i + 1]
  <2>1. l \in Lanes /\ waiting[l] \in Seq(Turns) /\ waiting[l] # <<>>
    BY DEF Startable
  <2>2. Len(waiting[l]) \in Nat \ {0}
    BY <2>1, EmptySeq
  <2>3. First(l) = waiting[l][1]
    BY <2>1, <2>2
  <2> QED
    BY <2>1, <2>2, <2>3, HeadTailProperties DEF Queued
<1>2. ASSUME NEW l \in S
      PROVE  /\ held[l] = NoTurn /\ held[Global] = NoTurn
             /\ l = Global => \A k \in Lanes : held[k] = NoTurn
             /\ l # Global => Global \notin S
  BY <1>1 DEF Startable, CanRun
<1>3. /\ \A l \in S : queues'[l] = Tail(waiting[l]) /\ running'[l] = First(l)
      /\ \A l \in Lanes \ S : queues'[l] = waiting[l] /\ running'[l] = held[l]
      /\ \A t \in Turns : stage'[t] = IF \E l \in S : First(l) = t THEN "scheduled" ELSE at[t]
      /\ queues' = [l \in Lanes |-> queues'[l]]
      /\ running' = [l \in Lanes |-> running'[l]]
      /\ stage' = [t \in Turns |-> stage'[t]]
  BY <1>1 DEF Pump
<1>4. \A k, l \in S : First(k) = First(l) => k = l
  BY <1>1
<1> HIDE DEF S
<1>5. queues' \in [Lanes -> Seq(Turns)]
  <2>1. ASSUME NEW l \in Lanes PROVE queues'[l] \in Seq(Turns)
    <3>1. CASE l \in S
      <4>1. queues'[l] = Tail(waiting[l])
        BY <3>1, <1>3
      <4>2. Tail(waiting[l]) \in Seq(Turns)
        BY <3>1, <1>1
      <4> QED
        BY <4>1, <4>2
    <3>2. CASE l \notin S
      BY <3>2, <1>3
    <3> QED
      BY <3>1, <3>2
  <2> QED
    BY <2>1, <1>3
<1>6. running' \in [Lanes -> Turns \union {NoTurn}]
  <2>1. \A l \in Lanes : running'[l] \in Turns \union {NoTurn}
    BY <1>1, <1>3
  <2> QED
    BY <2>1, <1>3
<1>7. stage' \in [Turns -> Stages]
  <2>1. \A t \in Turns : stage'[t] \in Stages
    BY <1>3 DEF Stages, Working
  <2> QED
    BY <2>1, <1>3
<1>8. ASSUME NEW l \in Lanes
      PROVE  /\ \A i \in 1 .. Len(queues'[l]) :
                   \E j \in 1 .. Len(waiting[l]) : /\ queues'[l][i] = waiting[l][j]
                                                   /\ l \in S => j # 1
             /\ \A i, j \in 1 .. Len(queues'[l]) : i # j => queues'[l][i] # queues'[l][j]
  <2>0. /\ Len(waiting[l]) \in Nat /\ waiting[l] \in Seq(Turns)
        /\ \A i, j \in 1 .. Len(waiting[l]) : i # j => waiting[l][i] # waiting[l][j]
    BY LenProperties DEF Queued
  <2>1. CASE l \in S
    <3>1. queues'[l] = Tail(waiting[l])
      BY <2>1, <1>3
    <3>2. \A i \in 1 .. Len(queues'[l]) : i + 1 \in 1 .. Len(waiting[l]) /\ i + 1 # 1
      BY <3>1, <2>0, <2>1, <1>1
    <3> QED
      BY <3>1, <3>2, <2>0, <2>1, <1>1
  <2>2. CASE l \notin S
    BY <2>0, <2>2, <1>3
  <2> QED
    BY <2>1, <2>2
<1>9. ASSUME NEW l \in Lanes, NEW i \in 1 .. Len(queues'[l])
      PROVE  lane[queues'[l][i]] = l /\ stage'[queues'[l][i]] = "idle"
  <2>1. PICK j \in 1 .. Len(waiting[l]) : queues'[l][i] = waiting[l][j] /\ (l \in S => j # 1)
    BY <1>8, <1>9
  <2>2. /\ lane[waiting[l][j]] = l /\ at[waiting[l][j]] = "idle"
        /\ l \in S => waiting[l][j] # waiting[l][1]
    <3>1. l \in S => 1 \in 1 .. Len(waiting[l])
      BY <1>1
    <3> QED
      BY <3>1, <2>1 DEF Queued
  <2>3. waiting[l][j] \in Turns
    BY ElementOfSeq
  <2>4. \A k \in S : First(k) # waiting[l][j]
    BY <2>2, <1>1
  <2>5. stage'[waiting[l][j]] = at[waiting[l][j]]
    BY <2>3, <2>4, <1>3
  <2> QED
    BY <2>1, <2>2, <2>5
<1>10. Queued(queues, stage)'
  <2>1. ASSUME NEW l \in Lanes, NEW i \in 1 .. Len(queues'[l])
        PROVE  /\ lane'[queues'[l][i]] = l /\ stage'[queues'[l][i]] = "idle"
               /\ \A j \in 1 .. Len(queues'[l]) : i # j => queues'[l][i] # queues'[l][j]
    <3>1. lane'[queues'[l][i]] = l /\ stage'[queues'[l][i]] = "idle"
      BY <1>9
    <3>2. \A j \in 1 .. Len(queues'[l]) : i # j => queues'[l][i] # queues'[l][j]
      BY <1>8
    <3> QED
      BY <3>1, <3>2
  <2> QED
    BY <2>1 DEF Queued
<1>11. \A t \in Turns : stage'[t] \in Working <=> \E l \in Lanes : running'[l] = t
  <2> SUFFICES ASSUME NEW t \in Turns
               PROVE  stage'[t] \in Working <=> \E l \in Lanes : running'[l] = t
    OBVIOUS
  <2>1. CASE \E l \in S : First(l) = t
    BY <2>1, <1>1, <1>3 DEF Working
  <2>2. CASE ~ \E l \in S : First(l) = t
    <3>1. stage'[t] = at[t]
      BY <2>2, <1>3
    <3>2. ASSUME NEW l \in Lanes PROVE running'[l] = t <=> held[l] = t
      BY <2>2, <1>0, <1>2, <1>3
    <3> QED
      BY <3>1, <3>2 DEF Held
  <2> QED
    BY <2>1, <2>2
<1>12. ASSUME NEW k \in Lanes, NEW l \in Lanes, k # l, running'[k] # NoTurn
       PROVE  running'[l] # running'[k] /\ (k = Global => running'[l] = NoTurn)
  <2>1. CASE k \in S /\ l \in S
    BY <2>1, <1>12, <1>0, <1>1, <1>2, <1>3, <1>4
  <2>2. CASE k \in S /\ l \notin S
    <3>1. running'[k] = First(k) /\ running'[l] = held[l] /\ at[First(k)] = "idle"
      BY <2>2, <1>1, <1>3
    <3>2. held[l] # First(k)
      BY <3>1, <2>2, <1>1 DEF Held, Working, Terminal
    <3> QED
      BY <3>1, <3>2, <2>2, <1>2
  <2>3. CASE k \notin S /\ l \in S
    <3>1. running'[l] = First(l) /\ running'[k] = held[k] /\ at[First(l)] = "idle"
      BY <2>3, <1>1, <1>3
    <3>2. held[k] # First(l)
      BY <3>1, <2>3, <1>1 DEF Held, Working, Terminal
    <3> QED
      BY <3>1, <3>2, <2>3, <1>12, <1>2
  <2>4. CASE k \notin S /\ l \notin S
    BY <2>4, <1>12, <1>3 DEF Held
  <2> QED
    BY <2>1, <2>2, <2>3, <2>4
<1>13. Held(running, stage)'
  BY <1>11, <1>12 DEF Held
<1>14. ASSUME NEW t \in Turns
       PROVE  stage'[t] = at[t] \/ (In(t, waiting) /\ stage'[t] = "scheduled")
  <2>1. ASSUME NEW l \in S, First(l) = t PROVE In(t, waiting)
    <3>1. 1 \in 1 .. Len(waiting[l]) /\ waiting[l][1] = t /\ l \in Lanes
      BY <2>1, <1>1
    <3> QED
      BY <3>1 DEF In
  <2> QED
    BY <2>1, <1>3
<1>15. ASSUME NEW t \in Turns, In(t, queues')
       PROVE  In(t, waiting)
  <2>0. PICK l \in Lanes : \E i \in 1 .. Len(queues'[l]) : queues'[l][i] = t
    BY <1>15 DEF In
  <2>1. PICK i \in 1 .. Len(queues'[l]) : queues'[l][i] = t
    BY <2>0
  <2>2. PICK j \in 1 .. Len(waiting[l]) : queues'[l][i] = waiting[l][j]
    BY <1>8
  <2> QED
    BY <2>1, <2>2 DEF In
<1> QED
  BY <1>5, <1>6, <1>7, <1>10, <1>13, <1>14, <1>15

-----------------------------------------------------------------------------
Statuses    == {"none", "queued", "running"} \union Terminal
Controllers == {"absent", "live"} \union Reasons

(* The variables that the coordinator does not touch keep their types.      *)
RestOK ==
    /\ lane       \in [Turns -> Lanes]
    /\ status     \in [Turns -> Statuses]
    /\ controller \in [Turns -> Controllers]
    /\ cancelling \in [Turns -> {"no"} \union Reasons]
    /\ prompted   \subseteq Turns
    /\ orphans    \subseteq Turns
    /\ calls      \in 0 .. MaxCalls

(* A step that ends with pump keeps the invariant when what it calls pump   *)
(* with and what it writes besides do.                                      *)
LEMMA PumpStep ==
  ASSUME TurnAssumption, TurnIInv,
         NEW waiting \in [Lanes -> Seq(Turns)],
         NEW held \in [Lanes -> Turns \union {NoTurn}],
         NEW at \in [Turns -> Stages],
         lane' = lane, RestOK',
         Queued(waiting, at), Held(held, at), Pump(waiting, held, at),
         \A t \in Turns : status'[t] = "none" =>
             at[t] = "idle" /\ t \notin prompted' /\ ~In(t, waiting),
         \A t \in Turns : at[t] = "aborting" => controller'[t] \in Reasons
  PROVE  TurnIInv'
<1>1. CreatedFirst'
  <2> SUFFICES ASSUME NEW t \in Turns, status'[t] = "none"
               PROVE  stage'[t] = "idle" /\ t \notin prompted' /\ ~In(t, queues')
    BY DEF CreatedFirst, Waiting, Contains, In
  <2> QED
    BY PumpKeeps
<1>2. AbortedFirst'
  <2> SUFFICES ASSUME NEW t \in Turns, stage'[t] = "aborting"
               PROVE  controller'[t] \in Reasons
    BY DEF AbortedFirst, Aborted
  <2>1. stage'[t] = at[t] \/ stage'[t] = "scheduled"
    BY PumpKeeps
  <2> QED
    BY <2>1
<1>3. TurnTypeOK'
  BY PumpKeeps DEF TurnTypeOK, RestOK, Statuses, Controllers, Stages
<1> QED
  BY <1>1, <1>2, <1>3, PumpKeeps DEF TurnIInv

(* A step that moves one turn on, without the coordinator, keeps it too.    *)
LEMMA StageStep ==
  ASSUME TurnAssumption, TurnIInv,
         NEW t \in Turns, NEW to \in Stages,
         ~In(t, queues), Goto(t, stage[t], to), lane' = lane, RestOK',
         stage[t] \in Working <=> to \in Working,
         \A u \in Turns : status'[u] = "none" =>
             status[u] = "none" /\ (u = t => to = "idle") /\ u \notin prompted',
         \A u \in Turns : stage'[u] = "aborting" => controller'[u] \in Reasons
  PROVE  TurnIInv'
<1>0. /\ stage \in [Turns -> Stages]
      /\ stage' = [stage EXCEPT ![t] = to]
      /\ queues' = queues /\ running' = running
  BY DEF TurnIInv, TurnTypeOK, Stages, Goto, At
<1>1. Queued(queues, stage)'
  BY <1>0 DEF TurnIInv, Queued, In
<1>2. Held(running, stage)'
  BY <1>0 DEF TurnIInv, Held
<1>3. CreatedFirst'
  BY <1>0 DEF TurnIInv, CreatedFirst, Waiting
<1>4. AbortedFirst'
  BY <1>0 DEF AbortedFirst, Aborted
<1>5. TurnTypeOK'
  BY <1>0 DEF TurnIInv, TurnTypeOK, RestOK, Statuses, Controllers, Stages
<1> QED
  BY <1>1, <1>2, <1>3, <1>4, <1>5 DEF TurnIInv

-----------------------------------------------------------------------------
(* A turn that is being started or worked on exists and waits nowhere.      *)
LEMMA Busy ==
  ASSUME TurnIInv, NEW t \in Turns, stage[t] # "idle"
  PROVE  status[t] # "none" /\ ~In(t, queues)
BY DEF TurnIInv, CreatedFirst, Queued, In

LEMMA RestOfInv ==
  ASSUME TurnIInv
  PROVE  /\ RestOK
         /\ queues \in [Lanes -> Seq(Turns)]
         /\ running \in [Lanes -> Turns \union {NoTurn}]
         /\ stage \in [Turns -> Stages]
         /\ \A t \in Turns : Waiting(t) <=> In(t, queues)
BY DEF TurnIInv, TurnTypeOK, RestOK, Statuses, Controllers, Stages, Waiting, Contains, In

LEMMA TurnInitInv ==
  ASSUME TurnAssumption, TurnInit
  PROVE  TurnIInv
<1>1. TurnTypeOK
  BY EmptySeq DEF TurnAssumption, TurnInit, TurnTypeOK, Lanes, Terminal, Starting, Working
<1>2. \A l \in Lanes : queues[l] = <<>> /\ Len(queues[l]) = 0
  BY EmptySeq DEF TurnInit
<1>3. Queued(queues, stage) /\ CreatedFirst
  BY <1>2 DEF Queued, CreatedFirst, Waiting, Contains, TurnInit
<1>4. Held(running, stage) /\ AbortedFirst
  BY DEF TurnAssumption, TurnInit, Held, AbortedFirst, Working, Terminal
<1> QED
  BY <1>1, <1>3, <1>4 DEF TurnIInv

LEMMA StartKeeps ==
  ASSUME TurnAssumption, TurnIInv, NEW t \in Turns, Create(t) \/ Start(t)
  PROVE  TurnIInv'
<1>0. RestOK
  BY RestOfInv
<1>1. CASE Create(t)
  <2>1. RestOK' /\ lane' = lane
    BY <1>0, <1>1 DEF Create, RestOK, Statuses
  <2>2. ~In(t, queues) /\ Goto(t, stage[t], "creating") /\ stage[t] = "idle"
    BY <1>1, RestOfInv DEF Create, Goto, TurnIInv, CreatedFirst
  <2>3. \A u \in Turns : status'[u] = "none" =>
           status[u] = "none" /\ u # t /\ u \notin prompted'
    BY <1>0, <1>1 DEF Create, TurnIInv, CreatedFirst, RestOK
  <2>4. \A u \in Turns : stage'[u] = "aborting" => controller'[u] \in Reasons
    BY <1>1, RestOfInv DEF Create, Goto, At, TurnIInv, AbortedFirst, Aborted
  <2> QED
    BY <2>1, <2>2, <2>3, <2>4, StageStep DEF Stages, Starting, Working, Terminal
<1>2. CASE Track(t)
  <2>1. RestOK' /\ lane' = lane
    BY <1>0, <1>2 DEF Track, RestOK, Controllers
  <2>2. Goto(t, stage[t], "tracked") /\ stage[t] = "creating"
    BY <1>2 DEF Track, Goto
  <2>3. ~In(t, queues) /\ status[t] # "none"
    BY <2>2, Busy
  <2>4. \A u \in Turns : status'[u] = "none" =>
           status[u] = "none" /\ u # t /\ u \notin prompted'
    BY <2>3, <1>2 DEF Track, TurnIInv, CreatedFirst
  <2>5. \A u \in Turns : stage'[u] = "aborting" => controller'[u] \in Reasons
    BY <1>2, <1>0, RestOfInv DEF Track, Goto, At, TurnIInv, AbortedFirst, Aborted, RestOK
  <2> QED
    BY <2>1, <2>2, <2>3, <2>4, <2>5, StageStep DEF Stages, Starting, Working, Terminal
<1>3. CASE Enqueue(t)
  <2> DEFINE waiting == [queues EXCEPT ![lane[t]] = Append(@, t)]
             at == [stage EXCEPT ![t] = "idle"]
             own == queues[lane[t]]
  <2>1. /\ stage[t] = "tracked" /\ lane' = lane /\ RestOK'
        /\ Pump(waiting, running, at)
    BY <1>0, <1>3 DEF Enqueue, RestOK
  <2>2. ~In(t, queues) /\ status[t] # "none"
    BY <2>1, Busy
  <2>3. lane[t] \in Lanes /\ own \in Seq(Turns) /\ Len(own) \in Nat
    BY <1>0, RestOfInv, LenProperties DEF RestOK
  <2>4. /\ Append(own, t) \in Seq(Turns)
        /\ Len(Append(own, t)) = Len(own) + 1
        /\ \A i \in 1 .. Len(own) : Append(own, t)[i] = own[i]
        /\ Append(own, t)[Len(own) + 1] = t
    BY <2>3, AppendProperties
  <2>5. waiting \in [Lanes -> Seq(Turns)]
    BY <2>4, RestOfInv
  <2>6. /\ waiting[lane[t]] = Append(own, t)
        /\ \A l \in Lanes : l # lane[t] => waiting[l] = queues[l]
    BY <2>3, RestOfInv
  <2>7. /\ at \in [Turns -> Stages] /\ at[t] = "idle"
        /\ \A u \in Turns : u # t => at[u] = stage[u]
    BY RestOfInv DEF Stages
  <2> HIDE DEF waiting, at, own
  <2>8. ASSUME NEW l \in Lanes, NEW i \in 1 .. Len(waiting[l])
        PROVE  /\ lane[waiting[l][i]] = l /\ at[waiting[l][i]] = "idle"
               /\ \A j \in 1 .. Len(waiting[l]) : i # j => waiting[l][i] # waiting[l][j]
    <3>0. /\ \A k \in Lanes : queues[k] \in Seq(Turns)
          /\ \A j \in 1 .. Len(queues[l]) : /\ queues[l][j] # t /\ queues[l][j] \in Turns
                /\ lane[queues[l][j]] = l /\ stage[queues[l][j]] = "idle"
                /\ \A k \in 1 .. Len(queues[l]) : j # k => queues[l][j] # queues[l][k]
      BY <2>2, RestOfInv, ElementOfSeq DEF TurnIInv, Queued, In
    <3>1. CASE l # lane[t]
      BY <3>0, <3>1, <2>6, <2>7, <2>8
    <3>2. CASE l = lane[t]
      <4>1. \A j \in 1 .. Len(waiting[l]) : j \in 1 .. Len(own) \/ j = Len(own) + 1
        BY <3>2, <2>3, <2>4, <2>6
      <4>2. \A j \in 1 .. Len(own) : waiting[l][j] = queues[l][j]
        BY <3>2, <2>4, <2>6 DEF own
      <4>3. waiting[l][Len(own) + 1] = t
        BY <3>2, <2>4, <2>6
      <4>4. /\ \A j \in 1 .. Len(own) : /\ waiting[l][j] # t /\ waiting[l][j] \in Turns
                  /\ lane[waiting[l][j]] = l /\ at[waiting[l][j]] = "idle"
                  /\ \A k \in 1 .. Len(own) : j # k => waiting[l][j] # waiting[l][k]
        <5>1. own = queues[l]
          BY <3>2 DEF own
        <5>2. ASSUME NEW j \in 1 .. Len(own)
              PROVE  /\ waiting[l][j] = queues[l][j]
                     /\ queues[l][j] # t /\ queues[l][j] \in Turns
                     /\ at[queues[l][j]] = "idle"
          BY <5>1, <3>0, <4>2, <2>7
        <5> QED
          BY <5>1, <5>2, <3>0
      <4>5. CASE i \in 1 .. Len(own)
        BY <3>2, <4>1, <4>3, <4>4, <4>5
      <4>6. CASE i = Len(own) + 1
        BY <3>2, <2>3, <4>1, <4>3, <4>4, <4>6, <2>7
      <4> QED
        BY <4>1, <4>5, <4>6, <2>8
    <3> QED
      BY <3>1, <3>2
  <2>9. Queued(waiting, at)
    BY <2>8 DEF Queued
  <2>10. Held(running, at)
    BY <2>1, <2>7 DEF TurnIInv, Held, Working, Terminal
  <2>11. \A u \in Turns : status'[u] = "none" =>
            at[u] = "idle" /\ u \notin prompted' /\ ~In(u, waiting)
    <3> SUFFICES ASSUME NEW u \in Turns, status[u] = "none"
                 PROVE  at[u] = "idle" /\ u \notin prompted /\ ~In(u, waiting)
      BY <1>3 DEF Enqueue
    <3>1. u # t /\ stage[u] = "idle" /\ u \notin prompted /\ ~In(u, queues)
      BY <2>2, RestOfInv DEF TurnIInv, CreatedFirst
    <3>2. ASSUME NEW l \in Lanes, NEW i \in 1 .. Len(waiting[l]), waiting[l][i] = u
          PROVE  FALSE
      <4>1. CASE l # lane[t]
        BY <4>1, <3>1, <3>2, <2>6 DEF In
      <4>2. CASE l = lane[t]
        <5>1. i \in 1 .. Len(own) \/ i = Len(own) + 1
          BY <4>2, <3>2, <2>3, <2>4, <2>6
        <5> QED
          BY <5>1, <4>2, <3>1, <3>2, <2>3, <2>4, <2>6 DEF In, own
      <4> QED
        BY <4>1, <4>2
    <3>3. ~In(u, waiting)
      BY <3>2 DEF In
    <3> QED
      BY <3>1, <3>3, <2>7
  <2>12. \A u \in Turns : at[u] = "aborting" => controller'[u] \in Reasons
    BY <2>7, <1>3 DEF Enqueue, TurnIInv, AbortedFirst, Aborted
  <2> QED
    BY <2>1, <2>5, <2>7, <2>9, <2>10, <2>11, <2>12, RestOfInv, PumpStep
<1> QED
  BY <1>1, <1>2, <1>3 DEF Start

LEMMA CancelKeeps ==
  ASSUME TurnAssumption, TurnIInv, NEW t \in Turns,
         CancelWrite(t) \/ \E reason \in Reasons : Cancel(t, reason)
  PROVE  TurnIInv'
<1>0. RestOK /\ Reasons \subseteq Terminal
  BY RestOfInv DEF TurnAssumption, Terminal
<1>1. ASSUME NEW reason \in Reasons, Cancel(t, reason)
      PROVE  TurnIInv'
  <2>1. /\ status[t] # "none" /\ lane' = lane /\ RestOK'
        /\ status' = status /\ prompted' = prompted
        /\ Pump(Without(t), running, stage)
    BY <1>0, <1>1 DEF Cancel, Call, RestOK, Controllers, TurnAssumption
  <2>2. /\ Without(t) \in [Lanes -> Seq(Turns)] /\ Queued(Without(t), stage)
        /\ \A u \in Turns : In(u, Without(t)) => In(u, queues)
    BY WithoutLeaves DEF TurnIInv
  <2>3. \A u \in Turns : status'[u] = "none" =>
            stage[u] = "idle" /\ u \notin prompted' /\ ~In(u, Without(t))
    BY <2>1, <2>2, RestOfInv DEF TurnIInv, CreatedFirst
  <2>4. \A u \in Turns : stage[u] = "aborting" => controller'[u] \in Reasons
    BY <1>0, <1>1, RestOfInv, Busy DEF Cancel, TurnIInv, AbortedFirst, Aborted, RestOK
  <2> QED
    BY <2>1, <2>2, <2>3, <2>4, RestOfInv, PumpStep DEF TurnIInv
<1>2. CASE CancelWrite(t)
  <2>1. lane' = lane /\ RestOK' /\ Pump(queues, running, stage)
    BY <1>0, <1>2 DEF CancelWrite, RestOK, Statuses
  <2>2. \A u \in Turns : status'[u] = "none" =>
            stage[u] = "idle" /\ u \notin prompted' /\ ~In(u, queues)
    BY <1>0, <1>2, RestOfInv DEF CancelWrite, TurnIInv, CreatedFirst, RestOK, Terminal
  <2>3. \A u \in Turns : stage[u] = "aborting" => controller'[u] \in Reasons
    BY <1>2 DEF CancelWrite, TurnIInv, AbortedFirst, Aborted
  <2> QED
    BY <2>1, <2>2, <2>3, RestOfInv, PumpStep DEF TurnIInv
<1> QED
  BY <1>1, <1>2

(* The end of a run frees the lane that the turn held, and no other.        *)
LEMMA ReleaseKeeps ==
  ASSUME TurnAssumption, TurnIInv, NEW t \in Turns, stage[t] \in Working, Release(t),
         UNCHANGED <<lane, status, cancelling, prompted, orphans, calls>>
  PROVE  TurnIInv'
<1> DEFINE at == [stage EXCEPT ![t] = "idle"]
           held == Freed(t)
<1>0. RestOK
  BY RestOfInv
<1>1. RestOK' /\ Pump(queues, held, at)
  BY <1>0 DEF Release, RestOK, Controllers
<1>2. at \in [Turns -> Stages] /\ at[t] = "idle" /\ \A u \in Turns : u # t => at[u] = stage[u]
  BY RestOfInv DEF Stages
<1>3. /\ held \in [Lanes -> Turns \union {NoTurn}]
      /\ \A l \in Lanes : held[l] = IF running[l] = t THEN NoTurn ELSE running[l]
  BY RestOfInv DEF Freed
<1> HIDE DEF at, held
<1>4. Queued(queues, at)
  <2>1. stage[t] # "idle"
    BY DEF Working, Terminal
  <2> QED
    BY <1>2, <2>1, RestOfInv, ElementOfSeq DEF TurnIInv, Queued
<1>5. Held(held, at)
  <2>1. ASSUME NEW u \in Turns
        PROVE  at[u] \in Working <=> \E l \in Lanes : held[l] = u
    <3>1. CASE u = t
      BY <3>1, <1>2, <1>3 DEF TurnAssumption, Working, Terminal
    <3>2. CASE u # t
      BY <3>2, <1>2, <1>3 DEF TurnAssumption, TurnIInv, Held
    <3> QED
      BY <3>1, <3>2
  <2>2. \A k, l \in Lanes : k # l /\ held[k] # NoTurn =>
            held[l] # held[k] /\ (k = Global => held[l] = NoTurn)
    BY <1>3 DEF TurnIInv, Held
  <2> QED
    BY <2>1, <2>2 DEF Held
<1>6. \A u \in Turns : status'[u] = "none" =>
          at[u] = "idle" /\ u \notin prompted' /\ ~In(u, queues)
  BY <1>2, RestOfInv DEF TurnIInv, CreatedFirst
<1>7. \A u \in Turns : at[u] = "aborting" => controller'[u] \in Reasons
  BY <1>0, <1>2 DEF Release, TurnIInv, AbortedFirst, Aborted, RestOK
<1> QED
  BY <1>1, <1>2, <1>3, <1>4, <1>5, <1>6, <1>7, RestOfInv, PumpStep

(* A step of a run between two awaits.                                      *)
LEMMA RunningStep ==
  ASSUME TurnAssumption, TurnIInv, NEW t \in Turns, NEW to \in Working,
         stage[t] \in Working, Goto(t, stage[t], to),
         status' = status \/ \E s \in Statuses \ {"none"} : status' = [status EXCEPT ![t] = s],
         prompted' = prompted \/ prompted' = prompted \union {t},
         to = "aborting" => Aborted(t),
         UNCHANGED <<lane, controller, cancelling, orphans, calls>>
  PROVE  TurnIInv'
<1>0. RestOK /\ stage[t] # "idle"
  BY RestOfInv DEF Working, Terminal
<1>1. status[t] # "none" /\ ~In(t, queues)
  BY <1>0, Busy
<1>2. RestOK'
  BY <1>0 DEF RestOK
<1>3. \A u \in Turns : status'[u] = "none" => status[u] = "none" /\ u # t /\ u \notin prompted'
  BY <1>0, <1>1 DEF RestOK, TurnIInv, CreatedFirst
<1>4. \A u \in Turns : stage'[u] = "aborting" => controller'[u] \in Reasons
  BY RestOfInv DEF Goto, At, TurnIInv, AbortedFirst, Aborted
<1> QED
  BY <1>0, <1>1, <1>2, <1>3, <1>4, StageStep DEF Stages

LEMMA RunKeeps ==
  ASSUME TurnAssumption, TurnIInv, NEW t \in Turns, Run(t)
  PROVE  TurnIInv'
<1>0. /\ RestOK /\ Terminal \subseteq Working /\ Terminal \subseteq Statuses \ {"none"}
      /\ {"scheduled", "marking", "marked", "starting", "aborting", "sent",
          "resuming", "following", "closing"} \subseteq Working
      /\ {"completed", "failed", "interrupted"} \subseteq Terminal
      /\ Reasons \subseteq Terminal /\ "running" \in Statuses \ {"none"}
      /\ "aborting" \notin Terminal
  BY RestOfInv DEF Working, Statuses, Terminal, TurnAssumption
<1>1. CASE Begin(t)
  <2>1. CASE status[t] = "queued" /\ ~Aborted(t)
    BY <1>0, <1>1, <2>1, RunningStep DEF Begin, Goto
  <2>2. CASE ~(status[t] = "queued" /\ ~Aborted(t))
    BY <1>0, <1>1, <2>2, ReleaseKeeps DEF Begin
  <2> QED
    BY <2>1, <2>2
<1>2. CASE Mark(t, "marking", "marked") \/ Mark(t, "resuming", "following")
  BY <1>0, <1>2, RunningStep DEF Mark, Goto
<1>3. CASE Check(t)
  <2>1. CASE Aborted(t)
    BY <1>0, <1>3, <2>1, RunningStep DEF Check, Goto
  <2>2. CASE ~Aborted(t)
    BY <1>0, <1>3, <2>2, RunningStep DEF Check, Goto
  <2> QED
    BY <2>1, <2>2
<1>4. CASE Abandon(t)
  <2>1. CASE Ended(t)
    BY <1>0, <1>4, <2>1, ReleaseKeeps DEF Abandon
  <2>2. CASE ~Ended(t)
    <3>1. controller[t] \in Terminal
      BY <1>0, <1>4 DEF Abandon, TurnIInv, AbortedFirst, Aborted
    <3> QED
      BY <1>0, <1>4, <2>2, <3>1, RunningStep DEF Abandon, Goto
  <2> QED
    BY <2>1, <2>2
<1>5. CASE Send(t)
  <2>1. CASE Aborted(t)
    BY <1>0, <1>5, <2>1, RunningStep DEF Send, Goto
  <2>2. CASE ~Aborted(t)
    BY <1>0, <1>5, <2>2, RunningStep DEF Send, Goto
  <2> QED
    BY <2>1, <2>2
<1>6. CASE Respond(t)
  <2>1. PICK outcome \in {"completed", "failed", "interrupted"} : Goto(t, "sent", outcome)
    BY <1>6 DEF Respond
  <2> QED
    BY <1>0, <1>6, <2>1, RunningStep DEF Respond, Goto
<1>7. CASE Follow(t)
  <2>1. PICK to \in {"completed", "closing", "failed"} \union Reasons : Goto(t, "following", to)
    BY <1>7 DEF Follow, Aborted
  <2>2. to \in Working /\ to # "aborting"
    BY <1>0
  <2> QED
    BY <1>0, <1>7, <2>1, <2>2, RunningStep DEF Follow, Goto
<1>8. CASE Write(t)
  BY <1>0, <1>8, RunningStep DEF Write, Goto
<1>9. CASE Close(t)
  BY <1>0, <1>9, ReleaseKeeps DEF Close
<1> QED
  BY <1>1, <1>2, <1>3, <1>4, <1>5, <1>6, <1>7, <1>8, <1>9 DEF Run

(* A resumed turn claims its lane in one step with the test that it is free *)
(* and with leaving the queue.                                              *)
LEMMA ResumeKeeps ==
  ASSUME TurnAssumption, TurnIInv, NEW t \in Turns, NEW l \in Lanes, Resume(t, l)
  PROVE  TurnIInv'
<1> DEFINE at == [stage EXCEPT ![t] = "resuming"]
           held == [running EXCEPT ![l] = t]
<1>0. RestOK /\ NoTurn \notin Turns /\ Global \in Lanes
  BY RestOfInv DEF TurnAssumption, Lanes
<1>1. /\ t \in prompted /\ ~Holds(t) /\ CanRun(l, queues, running)
      /\ RestOK' /\ lane' = lane /\ status' = status /\ prompted' = prompted
      /\ Pump(Without(t), held, at)
  BY <1>0 DEF Resume, RestOK, Controllers
<1>2. /\ at \in [Turns -> Stages] /\ at[t] = "resuming"
      /\ \A u \in Turns : u # t => at[u] = stage[u]
  BY RestOfInv DEF Stages, Working
<1>3. /\ held \in [Lanes -> Turns \union {NoTurn}] /\ held[l] = t
      /\ \A k \in Lanes : k # l => held[k] = running[k]
  BY RestOfInv
<1> HIDE DEF at, held
<1>4. /\ Without(t) \in [Lanes -> Seq(Turns)] /\ Queued(Without(t), at)
      /\ \A u \in Turns : In(u, Without(t)) => In(u, queues)
  BY <1>2, WithoutLeaves DEF TurnIInv
<1>5. /\ running[Global] = NoTurn /\ running[l] = NoTurn
      /\ l = Global => \A k \in Lanes : running[k] = NoTurn
      /\ \A k \in Lanes : running[k] # t
  BY <1>1 DEF CanRun, Holds
<1>6. Held(held, at)
  <2>1. ASSUME NEW u \in Turns
        PROVE  at[u] \in Working <=> \E k \in Lanes : held[k] = u
    <3>1. CASE u = t
      BY <3>1, <1>2, <1>3 DEF Working
    <3>2. CASE u # t
      BY <3>2, <1>0, <1>2, <1>3, <1>5 DEF TurnIInv, Held
    <3> QED
      BY <3>1, <3>2
  <2>2. ASSUME NEW k \in Lanes, NEW m \in Lanes, k # m, held[k] # NoTurn
        PROVE  held[m] # held[k] /\ (k = Global => held[m] = NoTurn)
    BY <2>2, <1>0, <1>3, <1>5 DEF TurnIInv, Held
  <2> QED
    BY <2>1, <2>2 DEF Held
<1>7. \A u \in Turns : status'[u] = "none" =>
          at[u] = "idle" /\ u \notin prompted' /\ ~In(u, Without(t))
  BY <1>1, <1>2, <1>4, RestOfInv DEF TurnIInv, CreatedFirst
<1>8. \A u \in Turns : at[u] = "aborting" => controller'[u] \in Reasons
  BY <1>0, <1>2 DEF Resume, TurnIInv, AbortedFirst, Aborted, RestOK
<1> QED
  BY <1>1, <1>2, <1>3, <1>4, <1>6, <1>7, <1>8, PumpStep

LEMMA RecoverKeeps ==
  ASSUME TurnAssumption, TurnIInv, NEW t \in Turns, Recover(t)
  PROVE  TurnIInv'
<1>1. TurnTypeOK'
  BY DEF Recover, Call, TurnIInv, TurnTypeOK, TurnAssumption, Terminal
<1>2. CreatedFirst'
  BY RestOfInv DEF Recover, TurnIInv, CreatedFirst, Waiting, RestOK
<1> QED
  BY <1>1, <1>2 DEF Recover, TurnIInv, Queued, Held, AbortedFirst, Aborted

LEMMA RestartKeeps ==
  ASSUME TurnAssumption, TurnIInv, Restart
  PROVE  TurnIInv'
<1>1. TurnTypeOK'
  BY EmptySeq DEF Restart, Call, TurnIInv, TurnTypeOK, TurnAssumption
<1>2. \A l \in Lanes : queues'[l] = <<>> /\ Len(queues'[l]) = 0
  BY EmptySeq DEF Restart
<1>3. Queued(queues, stage)' /\ CreatedFirst'
  BY <1>2 DEF Restart, TurnIInv, Queued, CreatedFirst, Waiting, Contains
<1>4. Held(running, stage)' /\ AbortedFirst'
  BY DEF Restart, TurnAssumption, Held, AbortedFirst, Working, Terminal
<1> QED
  BY <1>1, <1>3, <1>4 DEF TurnIInv

LEMMA NextKeeps ==
  ASSUME TurnAssumption, TurnIInv, [TurnNext]_turnVars
  PROVE  TurnIInv'
<1>1. CASE UNCHANGED turnVars
  BY <1>1 DEF turnVars, TurnIInv, TurnTypeOK, Queued, Held, CreatedFirst, AbortedFirst, Aborted, Waiting
<1>2. CASE TurnNext
  <2>1. ASSUME NEW t \in Turns, Create(t) \/ Start(t) \/ Run(t) \/ CancelWrite(t) \/ Recover(t)
        PROVE  TurnIInv'
    BY <2>1, StartKeeps, RunKeeps, CancelKeeps, RecoverKeeps
  <2>2. ASSUME NEW t \in Turns, NEW reason \in Reasons, Cancel(t, reason)
        PROVE  TurnIInv'
    BY <2>2, CancelKeeps
  <2>3. ASSUME NEW t \in Turns, NEW l \in Lanes, Resume(t, l)
        PROVE  TurnIInv'
    BY <2>3, ResumeKeeps
  <2> QED
    BY <1>2, <2>1, <2>2, <2>3, RestartKeeps DEF TurnNext
<1> QED
  BY <1>1, <1>2

-----------------------------------------------------------------------------
(* The inductive invariant of the queue and the lanes: turns wait once and  *)
(* idle, lanes are held one to one (turnQueueCoordinator.js:16-93).         *)
THEOREM TurnInductive == TurnSpec => []TurnIInv
<1>1. TurnAssumption /\ TurnInit => TurnIInv
  BY TurnInitInv
<1>2. TurnAssumption /\ TurnIInv /\ [TurnNext]_turnVars => TurnIInv'
  BY NextKeeps
<1> QED
  BY <1>1, <1>2, TurnAssumption, PTL DEF TurnSpec

(* Every variable keeps its type, however calls and runs interleave.        *)
THEOREM TurnTypeCorrect == TurnSpec => []TurnTypeOK
<1>1. TurnIInv => TurnTypeOK
  BY DEF TurnIInv
<1> QED
  BY <1>1, TurnInductive, PTL

(* No lane ever has two turns, no turn two lanes, an unbound turn runs      *)
(* alone, and what holds a lane is worked on: for any number of turns and   *)
(* clients, cancellations, recoveries and restarts of the server            *)
(* (turnQueueCoordinator.js:44-93, turnManager.js:206-427).                 *)
THEOREM LanesExclude == TurnSpec => []LaneExclusion
<1>1. TurnIInv => LaneExclusion
  BY DEF TurnIInv, Held, LaneExclusion, Holds
<1> QED
  BY <1>1, TurnInductive, PTL

-----------------------------------------------------------------------------
(* RequestMachine *)

-----------------------------------------------------------------------------
(* The pieces the handlers are built from keep their types. *)

(* A lifecycle patch leads to a lifecycle, and to a live one from a live one. *)
LEMMA AdvanceType ==
  ASSUME NEW from \in LiveStages, NEW to \in LiveStages
  PROVE  Advance(from, to) \in LiveStages
BY DEF Advance

(* An implicit acceptance leads to a submission state and a lifecycle.      *)
LEMMA AcceptedType ==
  ASSUME TypeOK
  PROVE  /\ AcceptedSubmission \in {"pending", "accepted", "submitted"}
         /\ lifecycle \in LiveStages => AcceptedLifecycle \in LiveStages
         /\ AcceptedLifecycle \in Lifecycles
BY AdvanceType DEF TypeOK, AcceptedSubmission, AcceptedLifecycle, Advance, Lifecycles, LiveStages

(* A terminal event types the whole next state.                             *)
LEMMA TerminateType ==
  ASSUME TypeOK, NEW code \in Codes, Terminate(code), client' \in Clients \cup {NoClient}
  PROVE  /\ lifecycle' \in Lifecycles
         /\ generation' = "stopped"
         /\ coordinator' = NoEffect
         /\ completion' \in [pending : BOOLEAN, deadline : BOOLEAN]
         /\ terminal' = code
         /\ emitted' \in SUBSET EffectRequests
BY DEF TypeOK, Terminate, TerminalLifecycle, Lifecycles, EffectRequests

(* An outcome without page facts types the whole next state.                *)
LEMMA EndType ==
  ASSUME TypeOK, NEW code \in Codes, End(code),
         submission' \in {"pending", "accepted", "submitted"},
         browser' \in [active : BrowserEffects \cup {NoEffect}, result : Results,
                       of : BrowserEffects \cup {NoEffect}]
  PROVE  TypeOK'
<1>1. client' \in Clients \cup {NoClient}
  BY DEF TypeOK, End, source
<1>2. Terminate(code)
  BY DEF End
<1> QED
  BY <1>1, <1>2, TerminateType DEF TypeOK, End, source, turn

(* What a page can tell.                                                    *)
LEMMA PageType ==
  ASSUME NEW p \in Page
  PROVE  /\ PageGeneration(p) \in {"idle", "active", "stopped"}
         /\ PageOutput(p) \in {"none", "streaming", "final"}
         /\ PageBlocker(p) \in {"none", "explicit_error"}
         /\ PageArtifact(p) \in {"not_expected", "pending", "ready"}
         /\ PageLifecycle(p) \in LiveStages
         /\ p.key \in Keys \cup {NoKey} /\ p.turn \in Keys \cup {NoKey}
<1>1. PageGeneration(p) \in {"idle", "active", "stopped"}
  BY DEF PageGeneration
<1>2. PageOutput(p) \in {"none", "streaming", "final"}
  BY DEF PageOutput
<1>3. PageLifecycle(p) \in LiveStages
  BY DEF PageLifecycle, LiveStages
<1> QED
  BY <1>1, <1>2, <1>3 DEF Page, PageBlocker, PageArtifact

(* The submitted user turn is a key or none.                                *)
LEMMA SubmittedKeyType ==
  ASSUME TypeOK, NEW p \in Page
  PROVE  /\ SubmittedKey(p) \in Keys \cup {NoKey}
         /\ response.key # NoKey => SubmittedKey(p) = response.key
<1>1. /\ response.key \in Keys \cup {NoKey}
      /\ lastKey \in Keys \cup {NoKey}
      /\ p.key \in Keys \cup {NoKey}
  BY DEF TypeOK, Page
<1> QED
  BY <1>1 DEF SubmittedKey

(* What an observation patches has the type of what it patches.             *)
LEMMA SeenType ==
  ASSUME TypeOK, NEW p \in Page
  PROVE  /\ SeenBlocker(p) \in {"none", "recovery", "explicit_error"}
         /\ SeenOutput(p) \in {"none", "streaming", "final"}
         /\ SeenArtifact(p) \in {"not_expected", "pending", "ready"}
         /\ SeenGeneration(p) \in {"idle", "active", "stopped"}
         /\ lifecycle \in LiveStages => SeenLifecycle(p) \in LiveStages
         /\ SeenLifecycle(p) \in Lifecycles
         /\ SeenResponse(p) \in [epoch : Nat, key : Keys \cup {NoKey},
                                 previous : Keys \cup {NoKey}]
         /\ SeenRetry(p) \in [attempts : Nat, scheduled : Nat,
                              status : {"idle", "scheduled", "dispatching"},
                              key : Keys \cup {NoKey}]
<1>1. /\ lifecycle \in LiveStages => SeenLifecycle(p) \in LiveStages
      /\ SeenLifecycle(p) \in Lifecycles
  BY PageType, AdvanceType DEF TypeOK, SeenLifecycle, Advance, Lifecycles, LiveStages
<1>2. SeenResponse(p) \in [epoch : Nat, key : Keys \cup {NoKey},
                           previous : Keys \cup {NoKey}]
  BY SubmittedKeyType DEF TypeOK, SeenResponse
<1>3. SeenRetry(p) \in [attempts : Nat, scheduled : Nat,
                        status : {"idle", "scheduled", "dispatching"},
                        key : Keys \cup {NoKey}]
  BY DEF TypeOK, SeenRetry
<1> QED
  BY <1>1, <1>2, <1>3, PageType
  DEF TypeOK, SeenBlocker, SeenOutput, SeenArtifact, SeenGeneration

-----------------------------------------------------------------------------
(* Types are preserved, handler by handler. *)

(* The browser slot keeps its type when it is filled, emptied or cleared.   *)
LEMMA BrowserType ==
  ASSUME NEW e \in BrowserEffects, NEW result \in Results, TypeOK
  PROVE  /\ BrowserResult(result, e) =>
              browser' \in [active : BrowserEffects \cup {NoEffect}, result : Results,
                            of : BrowserEffects \cup {NoEffect}]
         /\ NoBrowserEffect =>
              browser' \in [active : BrowserEffects \cup {NoEffect}, result : Results,
                            of : BrowserEffects \cup {NoEffect}]
BY DEF TypeOK, BrowserResult, NoBrowserEffect

(* Binding a tab (sendRequest) keeps the types.                             *)
LEMMA BindingType ==
  ASSUME TypeOK, NEW c \in Clients, SourceBound(c)
  PROVE  TypeOK'
<1>1. lifecycle' \in Lifecycles
  BY DEF TypeOK, SourceBound, Advance, Lifecycles, LiveStages
<1> QED
  BY <1>1 DEF TypeOK, SourceBound, page, turn, effects

(* The implicit acceptance of the prompt keeps the types.                   *)
LEMMA AcceptanceType ==
  ASSUME TypeOK, ImplicitlyAccepted
  PROVE  TypeOK'
BY AcceptedType DEF TypeOK, ImplicitlyAccepted, page, turn, source, effects

(* Opening a response epoch keeps the types.                                *)
LEMMA NextEpochType ==
  ASSUME TypeOK, NEW k \in Keys \cup {NoKey}, NextEpoch(k)
  PROVE  /\ response' \in [epoch : Nat, key : Keys \cup {NoKey}, previous : Keys \cup {NoKey}]
         /\ lastKey' \in Keys \cup {NoKey}
         /\ generation' = "idle" /\ blocker' = "none" /\ output' = "none"
         /\ artifact' \in {"not_expected", "pending", "ready"}
         /\ completion' \in [pending : BOOLEAN, deadline : BOOLEAN]
BY DEF TypeOK, NextEpoch, InitialArtifact, NoCompletion

(* Each message about a browser effect keeps the types.                     *)
LEMMA EffectMessageType ==
  ASSUME TypeOK, NEW e \in PhysicalEffects, EffectMessage(e)
  PROVE  TypeOK'
<1> USE RequestConstants DEF PhysicalEffects
<1>1. CASE EffectStarted(e)
  BY <1>1, AcceptedType DEF TypeOK, EffectStarted, page, turn, source, Results
<1>2. CASE EffectStartConflict(e)
  BY <1>2, AcceptedType, BrowserType, EndType DEF EffectStartConflict, Codes, Results
<1>3. CASE PreparationSucceeded(e)
  BY <1>3, AcceptedType, BrowserType
  DEF TypeOK, PreparationSucceeded, page, turn, source, Results, EffectRequests
<1>4. CASE PromptSubmitted(e)
  <2>1. lifecycle' \in Lifecycles
    BY <1>4, AcceptedType DEF PromptSubmitted, Advance, Lifecycles, LiveStages
  <2> QED
    BY <1>4, <2>1, BrowserType DEF TypeOK, PromptSubmitted, page, turn, source, Results
<1>5. CASE CancelSucceeded(e)
  BY <1>5, AcceptedType, BrowserType, EndType DEF CancelSucceeded, Codes, Results
<1>6. CASE EffectCancelled(e)
  BY <1>6, AcceptedType, BrowserType
  DEF TypeOK, EffectCancelled, page, turn, source, Results
<1>7. CASE CancelNotExecuted(e)
  BY <1>7, AcceptedType, BrowserType, EndType DEF CancelNotExecuted, Codes, Results
<1>8. CASE EffectFailed(e)
  BY <1>8, AcceptedType, BrowserType, EndType DEF EffectFailed, Codes, Results
<1>9. CASE EffectFailedRetryably(e)
  BY <1>9, AcceptedType, BrowserType
  DEF TypeOK, EffectFailedRetryably, page, turn, source, Results
<1>10. ASSUME NEW epoch \in 0..MaxEpoch, EffectUncertain(e, epoch)
       PROVE  TypeOK'
  BY <1>10, AcceptedType, BrowserType
  DEF TypeOK, EffectUncertain, Uncertain, turn, Results, EffectRequests
<1>11. ASSUME NEW attempt \in 1..MaxRetries, NEW k \in Keys \cup {NoKey},
              RetryAccepted(e, attempt, k)
       PROVE  TypeOK'
  <2>1. lifecycle' \in Lifecycles
    BY <1>11, AcceptedType DEF RetryAccepted, Advance, Lifecycles, LiveStages
  <2>2. retry' \in [attempts : Nat, scheduled : Nat,
                    status : {"idle", "scheduled", "dispatching"},
                    key : Keys \cup {NoKey}]
    BY <1>11 DEF RetryAccepted, NoRetry
  <2> QED
    BY <1>11, <2>1, <2>2, NextEpochType, BrowserType
    DEF TypeOK, RetryAccepted, source, Results
<1>12. ASSUME NEW attempt \in 1..MaxRetries, NEW from \in 0..MaxEpoch,
              RetryMismatched(e, from, attempt)
       PROVE  TypeOK'
  BY <1>12, AcceptedType, BrowserType
  DEF TypeOK, RetryMismatched, page, turn, source, Results
<1> QED
  BY <1>1, <1>2, <1>3, <1>4, <1>5, <1>6, <1>7, <1>8, <1>9, <1>10, <1>11, <1>12
  DEF EffectMessage

(* Uncertain effects and their reconciliation keep the types.               *)
LEMMA ReconciliationType ==
  ASSUME TypeOK, Reconciliation
  PROVE  TypeOK'
<1> USE RequestConstants
<1>1. CASE UnsubmittedReload
  <2>1. PICK e \in BrowserEffects : Uncertain(e) /\ UNCHANGED <<submission, lifecycle>>
    BY <1>1 DEF UnsubmittedReload, TypeOK
  <2> QED
    BY <2>1, BrowserType DEF TypeOK, Uncertain, turn, Results, EffectRequests
<1>2. ASSUME NEW e \in BrowserEffects, Reconciled(e), emitted' \in SUBSET EffectRequests
      PROVE  TypeOK'
  BY <1>2, BrowserType DEF TypeOK, Reconciled, turn, Results
<1>3. ASSUME NEW e \in BrowserEffects, ReconciledSucceeded(e)
      PROVE  TypeOK'
  <2>1. emitted' \in SUBSET EffectRequests
    BY <1>3 DEF ReconciledSucceeded, EffectRequests
  <2> QED
    BY <1>2, <1>3, <2>1 DEF ReconciledSucceeded
<1>4. ASSUME NEW e \in BrowserEffects, ReconciledNotStarted(e)
      PROVE  TypeOK'
  <2>1. emitted' \in SUBSET EffectRequests
    BY <1>4 DEF ReconciledNotStarted, EffectRequests
  <2> QED
    BY <1>2, <1>4, <2>1 DEF ReconciledNotStarted
<1>5. ASSUME NEW e \in BrowserEffects, ReconciledCancelSucceeded(e)
      PROVE  TypeOK'
  <2>1. submission' \in {"pending", "accepted", "submitted"}
    BY <1>5 DEF ReconciledCancelSucceeded, TypeOK
  <2> QED
    BY <1>5, <2>1, BrowserType, EndType DEF ReconciledCancelSucceeded, Codes, Results
<1>6. ASSUME NEW code \in {"recovery_uncertain", "effect_failed"}, ReconciledFatal(code)
      PROVE  TypeOK'
  <2>1. submission' \in {"pending", "accepted", "submitted"}
    BY <1>6 DEF ReconciledFatal, TypeOK
  <2> QED
    BY <1>6, <2>1, BrowserType, EndType DEF ReconciledFatal, Codes, Results
<1> QED
  BY <1>1, <1>3, <1>4, <1>5, <1>6 DEF Reconciliation

(* A terminal event that leaves the submission alone, whoever causes it.    *)
LEMMA PlainEndType ==
  ASSUME TypeOK, NEW code \in Codes, End(code), NoBrowserEffect, UNCHANGED submission
  PROVE  TypeOK'
<1>1. submission' \in {"pending", "accepted", "submitted"}
  BY DEF TypeOK
<1>2. browser' \in [active : BrowserEffects \cup {NoEffect}, result : Results,
                    of : BrowserEffects \cup {NoEffect}]
  BY DEF TypeOK, NoBrowserEffect
<1> QED
  BY <1>1, <1>2, EndType

(* The server's own effects keep the types.                                 *)
LEMMA CoordinatorEffectType ==
  ASSUME TypeOK, CoordinatorEffect
  PROVE  TypeOK'
<1>1. CASE CoordinatorFailed
  BY <1>1, PlainEndType DEF CoordinatorFailed, Codes
<1>2. ASSUME NEW x \in CoordEffects, CoordinatorStarted(x)
      PROVE  TypeOK'
  BY <1>2 DEF TypeOK, CoordinatorStarted, page, turn, source
<1>3. ASSUME NEW x \in CoordEffects, CoordinatorConflict(x)
      PROVE  TypeOK'
  BY <1>3, PlainEndType DEF CoordinatorConflict, Codes
<1>4. ASSUME NEW x \in CoordEffects, CoordinatorSettled(x)
      PROVE  TypeOK'
  BY <1>4 DEF TypeOK, CoordinatorSettled, page, turn, source
<1> QED
  BY <1>1, <1>2, <1>3, <1>4 DEF CoordinatorEffect

(* A page seen by the request, and what each outcome adds to it.            *)
LEMMA PatchType ==
  ASSUME TypeOK, NEW c \in Clients, NEW p \in Page, Seen(c, p)
  PROVE  /\ client' = c /\ target' = target
         /\ response' \in [epoch : Nat, key : Keys \cup {NoKey}, previous : Keys \cup {NoKey}]
         /\ lastKey' \in Keys \cup {NoKey}
         /\ artifact' \in {"not_expected", "pending", "ready"}
BY SeenType, SubmittedKeyType DEF Seen

(* An outcome decided by an observation types the whole next state.         *)
LEMMA SeenEndType ==
  ASSUME TypeOK, NEW c \in Clients, NEW p \in Page, NEW code \in Codes,
         SeenEnd(c, p, code), blocker' = SeenBlocker(p), output' = SeenOutput(p)
  PROVE  TypeOK'
<1>1. client' \in Clients \cup {NoClient}
  BY PatchType DEF SeenEnd
<1>2. Terminate(code)
  BY DEF SeenEnd
<1>3. browser' \in [active : BrowserEffects \cup {NoEffect}, result : Results,
                    of : BrowserEffects \cup {NoEffect}]
  BY DEF TypeOK, SeenEnd, NoBrowserEffect
<1> QED
  BY <1>1, <1>2, <1>3, PatchType, SeenType, TerminateType DEF TypeOK, SeenEnd

(* The heartbeat after an observation keeps the types.                      *)
LEMMA BeatType ==
  ASSUME TypeOK, NEW p \in Page, Beat(p)
  PROVE  /\ connection' \in {"unknown", "connected", "disconnected", "reconciling"}
         /\ heartbeat' \in BOOLEAN
BY DEF TypeOK, Beat

(* Each way to take an observation keeps the types.                         *)
LEMMA ObservationType ==
  ASSUME TypeOK, NEW c \in Clients, NEW p \in Page, Observation(c, p)
  PROVE  TypeOK'
<1>1. CASE ObserveConversationChanged(c, p)
  BY <1>1, SeenEndType DEF ObserveConversationChanged, Codes
<1>2. CASE ObserveReplaced(c, p)
  BY <1>2, SeenEndType DEF ObserveReplaced, Codes
<1>3. CASE ObserveExplicitError(c, p)
  BY <1>3, SeenEndType DEF ObserveExplicitError, Codes
<1>4. CASE ObserveRetryExhausted(c, p)
  BY <1>4, SeenEndType DEF ObserveRetryExhausted, Codes
<1>5. CASE ObserveDuplicateError(c, p)
  BY <1>5, PatchType, SeenType, BeatType
  DEF TypeOK, ObserveDuplicateError, effects
<1>6. CASE ObserveRetryableError(c, p)
  <2>1. retry' \in [attempts : Nat, scheduled : Nat,
                    status : {"idle", "scheduled", "dispatching"},
                    key : Keys \cup {NoKey}]
    <3>1. retry.attempts + 1 \in Nat
      BY DEF TypeOK
    <3>2. p.key \in Keys \cup {NoKey}
      BY PageType
    <3>3. retry \in [attempts : Nat, scheduled : Nat,
                    status : {"idle", "scheduled", "dispatching"},
                    key : Keys \cup {NoKey}]
      BY DEF TypeOK
    <3> QED
      BY <1>6, <3>1, <3>2, <3>3 DEF ObserveRetryableError
  <2> QED
    BY <1>6, <2>1, PatchType, SeenType, BeatType
    DEF TypeOK, ObserveRetryableError, effects
<1>7. CASE ObserveProgress(c, p)
  BY <1>7, PatchType, SeenType, BeatType
  DEF TypeOK, ObserveProgress, effects
<1>8. CASE ObserveCompleted(c, p)
  <2>1. browser' \in [active : BrowserEffects \cup {NoEffect}, result : Results,
                      of : BrowserEffects \cup {NoEffect}]
    BY <1>8 DEF TypeOK, ObserveCompleted, NoBrowserEffect
  <2>2. Terminate("completed") /\ Seen(c, p)
    BY <1>8 DEF ObserveCompleted
  <2>3. client' \in Clients \cup {NoClient}
    BY <2>2, PatchType
  <2> QED
    BY <1>8, <2>1, <2>2, <2>3, PatchType, SeenType, TerminateType
    DEF TypeOK, ObserveCompleted, Codes
<1>9. CASE ObserveArtifactMissing(c, p)
  BY <1>9, PatchType, SeenType, BeatType
  DEF TypeOK, ObserveArtifactMissing, effects, Lifecycles, LiveStages
<1> QED
  BY <1>1, <1>2, <1>3, <1>4, <1>5, <1>6, <1>7, <1>8, <1>9 DEF Observation

(* Heartbeats, closed clients and forced snapshots keep the types.          *)
LEMMA ConnectionType ==
  ASSUME TypeOK, Heartbeat \/ ClientClosed \/ ForcedSnapshotInactive
  PROVE  TypeOK'
<1>1. CASE Heartbeat
  BY <1>1 DEF TypeOK, Heartbeat, page, turn, effects
<1>2. CASE ClientClosed
  BY <1>2 DEF TypeOK, ClientClosed, page, turn, effects
<1>3. CASE ForcedSnapshotInactive
  <2>1. lifecycle' \in Lifecycles
    BY <1>3 DEF TypeOK, ForcedSnapshotInactive, Advance, Lifecycles, LiveStages
  <2> QED
    BY <1>3, <2>1 DEF TypeOK, ForcedSnapshotInactive, effects
<1> QED
  BY <1>1, <1>2, <1>3

(* The results of the server's commands keep the types.                     *)
LEMMA CommandResultType ==
  ASSUME TypeOK, CommandResult
  PROVE  TypeOK'
<1>1. ASSUME NEW k \in Keys \cup {NoKey}, SteerAccepted(k)
      PROVE  TypeOK'
  <2>1. lifecycle' \in Lifecycles
    BY <1>1 DEF TypeOK, SteerAccepted, Advance, Lifecycles, LiveStages
  <2> QED
    BY <1>1, <2>1, NextEpochType DEF TypeOK, SteerAccepted, source, effects
<1>2. ASSUME NEW k \in Keys, BoundaryRebound(k)
      PROVE  TypeOK'
  BY <1>2 DEF TypeOK, BoundaryRebound, page, source, effects
<1>3. CASE BoundaryLost
  BY <1>3, PlainEndType DEF BoundaryLost, Codes
<1>4. CASE Failed
  BY <1>4, PlainEndType DEF Failed, Codes
<1>5. CASE CancelledWithoutSource
  BY <1>5, PlainEndType DEF CancelledWithoutSource, Codes
<1> QED
  BY <1>1, <1>2, <1>3, <1>4, <1>5 DEF CommandResult

(* The deadlines that end a request end it with a code of the policy.       *)
LEMMA EndingDeadlineCodes ==
  /\ DOMAIN EndingDeadline = {"recovery", "source_reconnect", "artifact_settle",
                              "progress_liveness"}
  /\ EndingDeadline["recovery"] = "recovery_uncertain"
  /\ EndingDeadline["source_reconnect"] = "source_lost"
  /\ EndingDeadline["artifact_settle"] = "required_artifact_missing"
  /\ EndingDeadline["progress_liveness"] = "deadline_exceeded"
BY DEF EndingDeadline

(* Each deadline that fires keeps the types.                                *)
LEMMA DeadlineType ==
  ASSUME TypeOK, Deadline
  PROVE  TypeOK'
<1>1. ASSUME NEW k \in DeadlineKinds, DeadlineEnds(k)
      PROVE  TypeOK'
  <2>1. EndingDeadline[k] \in Codes
    BY <1>1, EndingDeadlineCodes DEF DeadlineEnds, Codes
  <2> QED
    BY <1>1, <2>1, PlainEndType DEF DeadlineEnds
<1>2. CASE RetryDue
  BY <1>2 DEF TypeOK, RetryDue, page, turn, source, effects, EffectRequests
<1>3. CASE ProbeDue("forced_snapshot", "snapshot")
  BY <1>3 DEF TypeOK, ProbeDue, page, turn, source, effects, EffectRequests
<1>4. CASE ProbeDue("artifact_probe", "probe")
  BY <1>4 DEF TypeOK, ProbeDue, page, turn, source, effects, EffectRequests
<1>5. CASE HardLivenessDue
  BY <1>5 DEF TypeOK, HardLivenessDue, page, turn, effects
<1> QED
  BY <1>1, <1>2, <1>3, <1>4, <1>5 DEF Deadline

(* A request is created with the right types.                               *)
LEMMA InitType == Init => TypeOK
<1> SUFFICES ASSUME Init PROVE TypeOK
  OBVIOUS
<1>1. /\ lifecycle \in Lifecycles
      /\ submission \in {"pending", "accepted", "submitted"}
      /\ client \in Clients \cup {NoClient} /\ target \in Clients \cup {NoClient}
      /\ connection \in {"unknown", "connected", "disconnected", "reconciling"}
      /\ artifact \in {"not_expected", "pending", "ready"}
      /\ response \in [epoch : Nat, key : Keys \cup {NoKey}, previous : Keys \cup {NoKey}]
  BY RequestConstants
  DEF Init, Fresh, ResumedOn, InitialArtifact, Lifecycles, LiveStages
<1> QED
  BY <1>1 DEF Init, TypeOK, Results, NoCompletion, NoRetry, EffectRequests

(* Every step keeps the types.                                              *)
LEMMA NextType == TypeOK /\ [Next]_vars => TypeOK'
<1> SUFFICES ASSUME TypeOK, [Next]_vars PROVE TypeOK'
  OBVIOUS
<1>1. CASE UNCHANGED vars
  BY <1>1 DEF TypeOK, vars, page, turn, source, effects
<1>2. ASSUME NEW c \in Clients, SourceBound(c) PROVE TypeOK'
  BY <1>2, BindingType
<1>3. ASSUME NEW e \in PhysicalEffects, EffectMessage(e) PROVE TypeOK'
  BY <1>3, EffectMessageType
<1>4. ASSUME NEW c \in Clients, NEW p \in Page, Observation(c, p) PROVE TypeOK'
  BY <1>4, ObservationType
<1> QED
  BY <1>1, <1>2, <1>3, <1>4, AcceptanceType, ReconciliationType, CoordinatorEffectType,
     ConnectionType, CommandResultType, DeadlineType
  DEF Next

(* Every variable keeps its type.                                           *)
THEOREM TypeCorrect == Spec => []TypeOK
BY InitType, NextType, PTL DEF Spec

-----------------------------------------------------------------------------
(* The kinds of step the invariants tell apart. *)

(* The request ends without an answer, mostly for a reason its tab gives.    *)
Ends(code) ==
  /\ End(code)
  /\ code = "required_artifact_missing" => Settling
  /\ target = NoClient => \/ code \in {"cancelled", "failed", "deadline_exceeded"}
                          \/ connection \in {"reconciling", "disconnected"}
                          \/ Settling

EndStep ==
  /\ Live
  /\ \E code \in Codes \ {"completed", "retry_exhausted"} : Ends(code)
  /\ browser'.active = NoEffect
  /\ submission' \in {submission, AcceptedSubmission}
  /\ target = NoClient => UNCHANGED submission

(* The message itself may accept the prompt.                                *)
Accepting ==
  \/ UNCHANGED <<submission, lifecycle>>
  \/ submission' = AcceptedSubmission /\ lifecycle' = AcceptedLifecycle

(* Effects start and settle, probes are asked for.                          *)
Bookkeeping ==
  /\ Live
  /\ UNCHANGED <<page, turn, source, completion, retry, terminal, target>>
  /\ Accepting
  /\ target = NoClient => UNCHANGED <<submission, lifecycle>>

UncertainStep ==
  /\ Message
  /\ \E e \in BrowserEffects : Uncertain(e)
  /\ Accepting

(* Clearing the browser slot leaves no active effect in it.                 *)
LEMMA NoBrowserEffectActive ==
  ASSUME TypeOK, NoBrowserEffect
  PROVE  browser'.active = NoEffect
BY DEF TypeOK, NoBrowserEffect

(* A message about a browser effect ends the request, updates bookkeeping,  *)
(* leaves the effect uncertain, proves the submission or accepts a retry.   *)
LEMMA EffectMessageKinds ==
  ASSUME TypeOK, NEW e \in PhysicalEffects, EffectMessage(e)
  PROVE  \/ EndStep \/ Bookkeeping \/ UncertainStep
         \/ PromptSubmitted(e)
         \/ \E attempt \in 1..MaxRetries, k \in Keys \cup {NoKey} :
              RetryAccepted(e, attempt, k)
<1>1. e \in BrowserEffects
  BY DEF PhysicalEffects
<1>2. CASE EffectStarted(e)
  BY <1>2 DEF EffectStarted, Bookkeeping, Message, Accepting, page, turn, source
<1>3. CASE EffectStartConflict(e)
  BY <1>3, NoBrowserEffectActive DEF EffectStartConflict, EndStep, Ends, Message, Codes
<1>4. CASE PreparationSucceeded(e)
  BY <1>4 DEF PreparationSucceeded, Bookkeeping, Message, Accepting, page, turn, source
<1>5. CASE CancelSucceeded(e)
  BY <1>5 DEF CancelSucceeded, EndStep, Ends, BrowserResult, Message, Codes
<1>6. CASE EffectCancelled(e)
  BY <1>6 DEF EffectCancelled, Bookkeeping, Message, Accepting, page, turn, source
<1>7. CASE CancelNotExecuted(e)
  BY <1>7 DEF CancelNotExecuted, EndStep, Ends, BrowserResult, Message, Codes
<1>8. CASE EffectFailed(e)
  BY <1>8 DEF EffectFailed, EndStep, Ends, BrowserResult, Message, Codes
<1>9. CASE EffectFailedRetryably(e)
  BY <1>9 DEF EffectFailedRetryably, Bookkeeping, Message, Accepting, page, turn, source
<1>10. ASSUME NEW epoch \in 0..MaxEpoch, EffectUncertain(e, epoch)
       PROVE  UncertainStep
  BY <1>1, <1>10 DEF EffectUncertain, UncertainStep, Accepting
<1>11. ASSUME NEW attempt \in 1..MaxRetries, NEW from \in 0..MaxEpoch,
              RetryMismatched(e, from, attempt)
       PROVE  Bookkeeping
  BY <1>11 DEF RetryMismatched, Bookkeeping, Message, Accepting, page, turn, source
<1> QED
  BY <1>2, <1>3, <1>4, <1>5, <1>6, <1>7, <1>8, <1>9, <1>10, <1>11 DEF EffectMessage

(* What a step can be: an end, bookkeeping, an uncertain effect, or one of the *)
(* handlers that change what the request believes.                          *)
LEMMA StepKinds ==
  ASSUME TypeOK, Next
  PROVE  \/ EndStep \/ Bookkeeping \/ UncertainStep
         \/ \E c \in Clients : SourceBound(c)
         \/ \E e \in BrowserEffects : PromptSubmitted(e)
         \/ \E e \in BrowserEffects, attempt \in 1..MaxRetries, k \in Keys \cup {NoKey} :
              RetryAccepted(e, attempt, k)
         \/ \E e \in BrowserEffects : Reconciled(e)
         \/ \E c \in Clients, p \in Page : Observation(c, p)
         \/ Heartbeat \/ ClientClosed \/ ForcedSnapshotInactive
         \/ \E k \in Keys \cup {NoKey} : SteerAccepted(k)
         \/ \E k \in Keys : BoundaryRebound(k)
         \/ RetryDue \/ HardLivenessDue
<1>1. CASE ImplicitlyAccepted
  BY <1>1 DEF ImplicitlyAccepted, Bookkeeping, Message, Accepting, page, turn, source
<1>2. ASSUME NEW e \in PhysicalEffects, EffectMessage(e)
      PROVE  \/ EndStep \/ Bookkeeping \/ UncertainStep
             \/ \E f \in BrowserEffects : PromptSubmitted(f)
             \/ \E f \in BrowserEffects, attempt \in 1..MaxRetries, k \in Keys \cup {NoKey} :
                  RetryAccepted(f, attempt, k)
  BY <1>2, EffectMessageKinds DEF PhysicalEffects
<1>3. CASE UnsubmittedReload
  <2>1. \E e \in BrowserEffects : Uncertain(e)
    BY <1>3, RequestConstants DEF UnsubmittedReload, TypeOK
  <2> QED
    BY <1>3, <2>1 DEF UnsubmittedReload, UncertainStep, Accepting
<1>4. ASSUME NEW e \in BrowserEffects, ReconciledSucceeded(e) \/ ReconciledNotStarted(e)
      PROVE  Reconciled(e)
  BY <1>4 DEF ReconciledSucceeded, ReconciledNotStarted
<1>5. ASSUME NEW e \in BrowserEffects, ReconciledCancelSucceeded(e)
      PROVE  EndStep
  BY <1>5 DEF ReconciledCancelSucceeded, EndStep, Ends, BrowserResult, Message, Codes
<1>6. ASSUME NEW code \in {"recovery_uncertain", "effect_failed"}, ReconciledFatal(code)
      PROVE  EndStep
  BY <1>6, NoBrowserEffectActive DEF ReconciledFatal, EndStep, Ends, Message, Codes
<1>7. CASE CoordinatorFailed
  BY <1>7, NoBrowserEffectActive DEF CoordinatorFailed, EndStep, Ends, Message, Codes
<1>8. ASSUME NEW x \in CoordEffects, CoordinatorStarted(x) \/ CoordinatorSettled(x)
      PROVE  Bookkeeping
  BY <1>8 DEF CoordinatorStarted, CoordinatorSettled, Bookkeeping, Message, Accepting,
              page, turn, source
<1>9. ASSUME NEW x \in CoordEffects, CoordinatorConflict(x)
      PROVE  EndStep
  BY <1>9, NoBrowserEffectActive DEF CoordinatorConflict, EndStep, Ends, Message, Codes
<1>10. CASE BoundaryLost
  BY <1>10, NoBrowserEffectActive DEF BoundaryLost, EndStep, Ends, Message, Codes
<1>11. CASE Failed
  BY <1>11, NoBrowserEffectActive DEF Failed, EndStep, Ends, Codes
<1>12. CASE CancelledWithoutSource
  BY <1>12, NoBrowserEffectActive DEF CancelledWithoutSource, EndStep, Ends, Codes
<1>13. ASSUME NEW k \in DeadlineKinds, DeadlineEnds(k)
       PROVE  EndStep
  <2>1. k \in Armed /\ k \in DOMAIN EndingDeadline
    BY <1>13 DEF DeadlineEnds
  <2>2. /\ EndingDeadline[k] \in Codes \ {"completed", "retry_exhausted"}
        /\ EndingDeadline[k] = "required_artifact_missing" => k = "artifact_settle"
        /\ \/ EndingDeadline[k] = "deadline_exceeded"
           \/ k \in {"recovery", "source_reconnect", "artifact_settle"}
    BY <2>1, EndingDeadlineCodes DEF Codes
  <2>3. /\ k = "artifact_settle" => Settling
        /\ k \in {"recovery", "source_reconnect"} =>
             connection \in {"reconciling", "disconnected"}
    <3>1. Due[k]
      BY <2>1 DEF Armed
    <3>2. /\ Due["artifact_settle"] => Settling
          /\ Due["recovery"] => connection = "reconciling"
          /\ Due["source_reconnect"] => connection = "disconnected"
      BY DEF Due
    <3> QED
      BY <3>1, <3>2
  <2>4. Ends(EndingDeadline[k])
    BY <1>13, <2>2, <2>3 DEF DeadlineEnds, Ends
  <2> QED
    BY <1>13, <2>1, <2>2, <2>4, NoBrowserEffectActive DEF DeadlineEnds, EndStep, Armed
<1>14. ASSUME NEW k, NEW what, ProbeDue(k, what)
       PROVE  Bookkeeping
  BY <1>14 DEF ProbeDue, Bookkeeping, Accepting, Armed, page, turn, source
<1> QED
  BY <1>1, <1>2, <1>3, <1>4, <1>5, <1>6, <1>7, <1>8, <1>9, <1>10, <1>11, <1>12, <1>13,
     <1>14
  DEF Next, Reconciliation, CoordinatorEffect, CommandResult, Deadline

-----------------------------------------------------------------------------
(* The inductive invariant: the properties, and what holds them together.   *)

(* Nothing happens to a request before it is bound to a tab.                *)
UnboundQuiet ==
  target = NoClient =>
    /\ submission = "pending" /\ generation # "active" /\ blocker # "explicit_error"
    /\ lifecycle # "artifact_settling"
    /\ ~RetryPending
    /\ connection \notin {"reconciling", "disconnected"} /\ ~heartbeat

(* Only the owner of the request makes it wait for a required artifact.     *)
SettlingWaits == Settling => Required /\ heartbeat /\ target # NoClient

IInv ==
  /\ TypeOK
  /\ RequestStateInvariants
  /\ RetryConsistent
  /\ GeneratingOwnTurn
  /\ CompletedWithEvidence
  /\ TargetReleased
  /\ UnboundQuiet
  /\ SettlingWaits

(* The lifecycle of an outcome is never a live one.                         *)
LEMMA TerminalLifecycleOf ==
  /\ TerminalLifecycle("completed") = "completed"
  /\ TerminalLifecycle("cancelled") = "cancelled"
  /\ \A code \in Codes \ {"completed", "cancelled"} : TerminalLifecycle(code) = "failed"
BY DEF TerminalLifecycle

(* A request is created within the inductive invariant.                     *)
LEMMA InitInv == Init => IInv
<1> SUFFICES ASSUME Init PROVE IInv
  OBVIOUS
<1>1. lifecycle \in LiveStages /\ lifecycle # "artifact_settling"
  BY DEF Init, Fresh, ResumedOn, LiveStages
<1>2. target = NoClient => submission = "pending" /\ connection = "unknown"
  BY RequestConstants DEF Init, Fresh, ResumedOn
<1>3. target # NoClient => client = target
  BY DEF Init, Fresh, ResumedOn
<1>4. RequestStateInvariants
  BY <1>1 DEF Init, RequestStateInvariants, Live, LiveStages
<1>5. RetryConsistent
  BY RequestConstants DEF Init, RetryConsistent, RetryPending, NoRetry
<1>6. GeneratingOwnTurn /\ CompletedWithEvidence
  BY DEF Init, GeneratingOwnTurn, CompletedWithEvidence, NoCode
<1>7. TargetReleased /\ UnboundQuiet /\ SettlingWaits
  BY <1>1, <1>2, <1>3
  DEF Init, TargetReleased, UnboundQuiet, SettlingWaits, Live, Settling, RetryPending, NoRetry
<1> QED
  BY <1>4, <1>5, <1>6, <1>7, InitType DEF IInv

(* What an observation establishes before anything is decided about it.     *)
LEMMA HeardFacts ==
  ASSUME TypeOK, NEW c \in Clients, NEW p \in Page, Hears(c, p)
  PROVE  /\ Live
         /\ p.owner = "this" => target = c /\ target # NoClient
         /\ target # NoClient => c = target
         /\ Applies(p) => /\ p.owner = "this" /\ submission = "submitted"
                          /\ SubmittedKey(p) # NoKey
                          /\ SeenResponse(p).key = SubmittedKey(p)
         /\ response.key # NoKey => SeenResponse(p).key = response.key
         /\ Candidate(p) => /\ Applies(p) /\ SeenOutput(p) = "final"
                            /\ p.shows \in {"final", "final_error"}
         /\ p.shows = "active" => PageBlocker(p) = "none"
         /\ SeenGeneration(p) = "active" => \/ Applies(p) /\ p.shows = "active"
                                            \/ ~Applies(p) /\ generation = "active"
<1>1. /\ Live
      /\ p.owner = "this" => target = c /\ target # NoClient
      /\ target # NoClient => c = target
  BY RequestConstants DEF Hears
<1>2. DirectBoundary(p) \/ ContinuationBoundary(p) => SubmittedKey(p) # NoKey
  BY DEF DirectBoundary, ContinuationBoundary
<1>3. Established(p) => SeenResponse(p).key = SubmittedKey(p)
  BY DEF TypeOK, SeenResponse
<1>4. ~Established(p) => SeenResponse(p) = response
  BY DEF TypeOK, SeenResponse
<1>5. Applies(p) => /\ p.owner = "this" /\ submission = "submitted"
                    /\ SubmittedKey(p) # NoKey
                    /\ SeenResponse(p).key = SubmittedKey(p)
  BY <1>2, <1>3 DEF Applies, Established
<1>6. response.key # NoKey => SeenResponse(p).key = response.key
  BY <1>3, <1>4, SubmittedKeyType
<1>7. p.shows \in {"final", "final_error"} => PageOutput(p) = "final"
  BY DEF PageOutput
<1>8. Candidate(p) => /\ Applies(p) /\ SeenOutput(p) = "final"
                      /\ p.shows \in {"final", "final_error"}
  BY <1>7 DEF Candidate, SeenOutput
<1>9. PageGeneration(p) = "active" => p.shows = "active"
  BY DEF PageGeneration
<1>10. p.shows = "active" => PageBlocker(p) = "none"
  BY DEF PageBlocker, PageError
<1> QED
  BY <1>1, <1>5, <1>6, <1>8, <1>9, <1>10 DEF SeenGeneration

(* The outcomes of an observation that end the request, but for completion. *)
ObservedEnd(c, p) ==
  /\ Hears(c, p)
  /\ \E code \in Codes \ {"completed"} : SeenEnd(c, p, code)
  /\ blocker' = SeenBlocker(p)

(* An observation is heard, and ends the request, completes it, or lets it  *)
(* go on in one of the ways named.                                          *)
LEMMA ObservationKinds ==
  ASSUME NEW c \in Clients, NEW p \in Page, Observation(c, p)
  PROVE  /\ Hears(c, p)
         /\ \/ ObservedEnd(c, p)
            \/ ObserveDuplicateError(c, p) \/ ObserveRetryableError(c, p)
            \/ ObserveProgress(c, p) \/ ObserveCompleted(c, p)
            \/ ObserveArtifactMissing(c, p)
<1>1. Hears(c, p)
  BY DEF Observation, ObserveConversationChanged, ObserveReplaced, ObserveExplicitError,
         ObserveRetryExhausted, ObserveDuplicateError, ObserveRetryableError,
         ObserveProgress, ObserveCompleted, ObserveArtifactMissing
<1>2. ObserveConversationChanged(c, p) => ObservedEnd(c, p)
  BY DEF ObserveConversationChanged, ObservedEnd, Codes
<1>3. ObserveReplaced(c, p) => ObservedEnd(c, p)
  BY DEF ObserveReplaced, ObservedEnd, Codes
<1>4. ObserveExplicitError(c, p) => ObservedEnd(c, p)
  BY DEF ObserveExplicitError, ObservedEnd, Codes
<1>5. ObserveRetryExhausted(c, p) => ObservedEnd(c, p)
  BY DEF ObserveRetryExhausted, ObservedEnd, Codes
<1> QED
  BY <1>1, <1>2, <1>3, <1>4, <1>5 DEF Observation

(* An observation that ends the request without an answer clears the browser *)
(* slot and touches neither the submission nor the retry.                   *)
LEMMA ObservedEndFacts ==
  ASSUME TypeOK, NEW c \in Clients, NEW p \in Page, ObservedEnd(c, p)
  PROVE  /\ \E code \in Codes \ {"completed"} : Terminate(code)
         /\ browser'.active = NoEffect
         /\ client' = c /\ target' = target
         /\ UNCHANGED <<submission, retry, heartbeat>>
BY NoBrowserEffectActive DEF ObservedEnd, SeenEnd, Seen

(* The handlers after which the request goes on.                            *)
LEMMA LivesOn ==
  ASSUME TypeOK, RequestStateInvariants, Next,
         ~EndStep,
         \A c \in Clients, p \in Page : ~ObservedEnd(c, p) /\ ~ObserveCompleted(c, p)
  PROVE  Live /\ Live' /\ lifecycle' \in LiveStages
<1> SUFFICES Live /\ terminal' = terminal /\ lifecycle' \in LiveStages
  BY DEF Live
<1>1. Live => lifecycle \in LiveStages
  BY DEF RequestStateInvariants
<1>2. CASE Bookkeeping
  BY <1>1, <1>2, AcceptedType DEF Bookkeeping, Accepting
<1>3. CASE UncertainStep
  BY <1>1, <1>3, AcceptedType DEF UncertainStep, Uncertain, Accepting, Message
<1>4. ASSUME NEW c \in Clients, SourceBound(c)
      PROVE  Live /\ terminal' = terminal /\ lifecycle' \in LiveStages
  BY <1>1, <1>4, AdvanceType DEF SourceBound, LiveStages
<1>5. ASSUME NEW e \in BrowserEffects, PromptSubmitted(e)
      PROVE  Live /\ terminal' = terminal /\ lifecycle' \in LiveStages
  BY <1>1, <1>5, AcceptedType, AdvanceType DEF PromptSubmitted, Message, LiveStages
<1>6. ASSUME NEW e \in BrowserEffects, NEW attempt \in 1..MaxRetries,
             NEW k \in Keys \cup {NoKey}, RetryAccepted(e, attempt, k)
      PROVE  Live /\ terminal' = terminal /\ lifecycle' \in LiveStages
  BY <1>1, <1>6, AcceptedType, AdvanceType DEF RetryAccepted, Message, LiveStages
<1>7. ASSUME NEW e \in BrowserEffects, Reconciled(e)
      PROVE  Live /\ terminal' = terminal /\ lifecycle' \in LiveStages
  BY <1>1, <1>7 DEF Reconciled, Message
<1>8. ASSUME NEW c \in Clients, NEW p \in Page, Observation(c, p)
      PROVE  Live /\ terminal' = terminal /\ lifecycle' \in LiveStages
  <2>1. Live
    BY <1>8, ObservationKinds, HeardFacts
  <2>2. lifecycle' = SeenLifecycle(p) => lifecycle' \in LiveStages
    BY <1>1, <2>1, SeenType
  <2>3. CASE ObserveDuplicateError(c, p)
    BY <2>1, <2>2, <2>3 DEF ObserveDuplicateError
  <2>4. CASE ObserveRetryableError(c, p)
    BY <2>1, <2>2, <2>4 DEF ObserveRetryableError
  <2>5. CASE ObserveProgress(c, p)
    BY <2>1, <2>2, <2>5 DEF ObserveProgress
  <2>6. CASE ObserveArtifactMissing(c, p)
    BY <2>1, <2>6 DEF ObserveArtifactMissing, LiveStages
  <2> QED
    BY <1>8, <2>3, <2>4, <2>5, <2>6, ObservationKinds
<1>9. CASE Heartbeat
  BY <1>1, <1>9 DEF Heartbeat, Message
<1>10. CASE ClientClosed
  BY <1>1, <1>10 DEF ClientClosed, Message
<1>11. CASE ForcedSnapshotInactive
  BY <1>1, <1>11, AdvanceType DEF ForcedSnapshotInactive, Message, LiveStages
<1>12. ASSUME NEW k \in Keys \cup {NoKey}, SteerAccepted(k)
       PROVE  Live /\ terminal' = terminal /\ lifecycle' \in LiveStages
  BY <1>1, <1>12, AdvanceType DEF SteerAccepted, Message, LiveStages
<1>13. ASSUME NEW k \in Keys, BoundaryRebound(k)
       PROVE  Live /\ terminal' = terminal /\ lifecycle' \in LiveStages
  BY <1>1, <1>13 DEF BoundaryRebound, Message
<1>14. CASE RetryDue
  BY <1>1, <1>14 DEF RetryDue, Armed
<1>15. CASE HardLivenessDue
  BY <1>1, <1>15 DEF HardLivenessDue, Armed
<1> QED
  BY <1>2, <1>3, <1>4, <1>5, <1>6, <1>7, <1>8, <1>9, <1>10, <1>11, <1>12, <1>13, <1>14,
     <1>15, StepKinds

(* What an outcome leaves behind.                                           *)
LEMMA EndShape ==
  ASSUME TypeOK, TypeOK', NEW code \in Codes, Terminate(code), browser'.active = NoEffect,
         code = "completed" => ContractSatisfied(artifact')
  PROVE  RequestStateInvariants'
<1>1. terminal' = code /\ lifecycle' = TerminalLifecycle(code)
  BY DEF Terminate
<1>2. ~Live'
  BY <1>1 DEF Live, NoCode, Codes
<1>3. code # "completed" => lifecycle' # "completed"
  BY <1>1, TerminalLifecycleOf
<1>4. generation' # "active" /\ ~HasActiveEffect'
  BY DEF Terminate, HasActiveEffect
<1> QED
  BY <1>1, <1>2, <1>3, <1>4 DEF RequestStateInvariants, ContractSatisfied

(* Every step keeps the state invariants of the reducer.                    *)
LEMMA RequestStateStep ==
  ASSUME TypeOK, TypeOK', RequestStateInvariants, Next
  PROVE  RequestStateInvariants'
<1>1. CASE EndStep
  BY <1>1, EndShape DEF EndStep, Ends, End
<1>2. ASSUME NEW c \in Clients, NEW p \in Page, ObservedEnd(c, p)
      PROVE  RequestStateInvariants'
  BY <1>2, ObservedEndFacts, EndShape
<1>3. ASSUME NEW c \in Clients, NEW p \in Page, ObserveCompleted(c, p)
      PROVE  RequestStateInvariants'
  <2>1. Terminate("completed") /\ browser'.active = NoEffect
    BY <1>3, NoBrowserEffectActive DEF ObserveCompleted
  <2>2. artifact' = PageArtifact(p)
    BY <1>3 DEF ObserveCompleted, Finishes, Candidate, Seen, SeenArtifact
  <2>3. ContractSatisfied(artifact')
    BY <1>3, <2>2 DEF ObserveCompleted
  <2> QED
    BY <2>1, <2>3, EndShape DEF Codes
<1>4. CASE Live' /\ lifecycle' \in LiveStages
  BY <1>4 DEF RequestStateInvariants, LiveStages
<1> QED
  BY <1>1, <1>2, <1>3, <1>4, LivesOn

-----------------------------------------------------------------------------
(* The automatic retry *)

(* An observation keeps a retry or returns it to idle.                      *)
LEMMA SeenRetryFacts ==
  ASSUME TypeOK, NEW p \in Page
  PROVE  /\ SeenRetry(p).attempts = retry.attempts
         /\ RetryPending /\ Resumes(p) => /\ SeenRetry(p).status = "idle"
                                          /\ SeenRetry(p).scheduled = 0
         /\ ~(RetryPending /\ Resumes(p)) => SeenRetry(p) = retry
BY DEF TypeOK, SeenRetry

(* A step that leaves the retry and an inactive generation alone.           *)
LEMMA RetryKept ==
  ASSUME RetryConsistent, UNCHANGED retry,
         generation' = "active" => generation = "active"
  PROVE  RetryConsistent'
BY DEF RetryConsistent, RetryPending

(* Every step keeps the retry bookkeeping consistent.                       *)
LEMMA RetryStep ==
  ASSUME TypeOK, TypeOK', RetryConsistent, Next
  PROVE  RetryConsistent'
<1>1. CASE EndStep
  BY <1>1, RetryKept DEF EndStep, Ends, End, Terminate
<1>2. CASE Bookkeeping
  BY <1>2, RetryKept DEF Bookkeeping, page
<1>3. CASE UncertainStep
  BY <1>3, RetryKept DEF UncertainStep, Uncertain
<1>4. ASSUME NEW c \in Clients, SourceBound(c)
      PROVE  RetryConsistent'
  BY <1>4, RetryKept DEF SourceBound, page
<1>5. ASSUME NEW e \in BrowserEffects, PromptSubmitted(e)
      PROVE  RetryConsistent'
  BY <1>5, RetryKept DEF PromptSubmitted, page
<1>6. ASSUME NEW e \in BrowserEffects, NEW attempt \in 1..MaxRetries,
             NEW k \in Keys \cup {NoKey}, RetryAccepted(e, attempt, k)
      PROVE  RetryConsistent'
  <2>1. retry'.attempts = attempt /\ retry'.scheduled = 0 /\ retry'.status = "idle"
    BY <1>6 DEF RetryAccepted, NoRetry
  <2>2. attempt <= MaxRetries
    BY RequestConstants
  <2> QED
    BY <2>1, <2>2 DEF RetryConsistent, RetryPending
<1>7. ASSUME NEW e \in BrowserEffects, Reconciled(e)
      PROVE  RetryConsistent'
  BY <1>7, RetryKept DEF Reconciled
<1>8. ASSUME NEW c \in Clients, NEW p \in Page, Observation(c, p)
      PROVE  RetryConsistent'
  <2>1. CASE ObservedEnd(c, p)
    BY <2>1, ObservedEndFacts, RetryKept DEF Terminate
  <2>2. CASE ObserveDuplicateError(c, p)
    <3>1. generation' = SeenGeneration(p) /\ UNCHANGED retry
      BY <2>2 DEF ObserveDuplicateError
    <3>2. p.shows \in {"transient", "final_error"}
      BY <2>2 DEF ObserveDuplicateError, RetryableError
    <3>3. SeenGeneration(p) = "active" => generation = "active"
      BY <1>8, <3>2, ObservationKinds, HeardFacts
    <3> QED
      BY <3>1, <3>3, RetryKept
  <2>3. CASE ObserveRetryableError(c, p)
    <3>1. retry.attempts \in Nat /\ MaxRetries \in Nat /\ p.key # NoKey
      BY <2>3, RequestConstants DEF TypeOK, ObserveRetryableError, RetryableError
    <3>2. retry'.attempts = retry.attempts /\ retry'.key = p.key
      BY <2>3 DEF TypeOK, ObserveRetryableError
    <3>3. retry'.scheduled = retry.attempts + 1 /\ retry'.status = "scheduled"
      BY <2>3 DEF TypeOK, ObserveRetryableError
    <3>4. retry.attempts + 1 <= MaxRetries /\ generation' = "stopped"
      BY <2>3 DEF ObserveRetryableError
    <3> QED
      BY <3>1, <3>2, <3>3, <3>4 DEF RetryConsistent, RetryPending
  <2>4. ASSUME retry' = SeenRetry(p),
               generation' \in {SeenGeneration(p), "stopped"}
        PROVE  RetryConsistent'
    <3>1. CASE RetryPending /\ Resumes(p)
      BY <2>4, <3>1, SeenRetryFacts DEF RetryConsistent, RetryPending
    <3>2. CASE ~(RetryPending /\ Resumes(p))
      <4>1. UNCHANGED retry
        BY <2>4, <3>2, SeenRetryFacts
      <4>2. RetryPending => generation' # "active"
        BY <1>8, <2>4, <3>2, ObservationKinds, HeardFacts DEF Resumes, RetryConsistent
      <4> QED
        BY <4>1, <4>2 DEF RetryConsistent, RetryPending
    <3> QED
      BY <3>1, <3>2
  <2>5. CASE ObserveProgress(c, p)
    BY <2>4, <2>5 DEF ObserveProgress
  <2>6. CASE ObserveCompleted(c, p)
    BY <2>4, <2>6 DEF ObserveCompleted, Terminate
  <2>7. CASE ObserveArtifactMissing(c, p)
    BY <2>4, <2>7 DEF ObserveArtifactMissing
  <2> QED
    BY <1>8, <2>1, <2>2, <2>3, <2>5, <2>6, <2>7, ObservationKinds
<1>9. CASE Heartbeat
  BY <1>9, RetryKept DEF Heartbeat, page
<1>10. CASE ClientClosed
  BY <1>10, RetryKept DEF ClientClosed, page
<1>11. CASE ForcedSnapshotInactive
  BY <1>11, RetryKept DEF ForcedSnapshotInactive
<1>12. ASSUME NEW k \in Keys \cup {NoKey}, SteerAccepted(k)
       PROVE  RetryConsistent'
  BY <1>12, RetryKept DEF SteerAccepted, NextEpoch
<1>13. ASSUME NEW k \in Keys, BoundaryRebound(k)
       PROVE  RetryConsistent'
  BY <1>13, RetryKept DEF BoundaryRebound, page
<1>14. CASE RetryDue
  <2>1. retry.status = "scheduled" /\ UNCHANGED generation
    BY <1>14 DEF RetryDue, Armed, Due, page
  <2>2. /\ retry'.status = "dispatching" /\ retry'.key = retry.key
        /\ retry'.attempts = retry.attempts /\ retry'.scheduled = retry.scheduled
    BY <1>14 DEF TypeOK, RetryDue
  <2> QED
    BY <2>1, <2>2 DEF RetryConsistent, RetryPending
<1>15. CASE HardLivenessDue
  BY <1>15, RetryKept DEF HardLivenessDue, page
<1> QED
  BY <1>1, <1>2, <1>3, <1>4, <1>5, <1>6, <1>7, <1>8, <1>9, <1>10, <1>11, <1>12, <1>13,
     <1>14, <1>15, StepKinds

-----------------------------------------------------------------------------
(* Generation and completion *)

(* A step that neither starts generation nor forgets the turn it belongs to. *)
LEMMA GeneratingKept ==
  ASSUME GeneratingOwnTurn,
         generation' = "active" =>
           /\ generation = "active"
           /\ response.key # NoKey => response'.key # NoKey
           /\ blocker' \in {blocker, "none", "recovery"}
  PROVE  GeneratingOwnTurn'
BY DEF GeneratingOwnTurn

(* Every step keeps generation tied to a known user turn.                   *)
LEMMA GeneratingStep ==
  ASSUME TypeOK, RetryConsistent, GeneratingOwnTurn, Next
  PROVE  GeneratingOwnTurn'
<1>1. CASE EndStep
  BY <1>1, GeneratingKept DEF EndStep, Ends, End, Terminate
<1>2. CASE Bookkeeping
  BY <1>2, GeneratingKept DEF Bookkeeping, page, turn
<1>3. CASE UncertainStep
  BY <1>3, GeneratingKept DEF UncertainStep, Uncertain, turn
<1>4. ASSUME NEW c \in Clients, SourceBound(c)
      PROVE  GeneratingOwnTurn'
  BY <1>4, GeneratingKept DEF SourceBound, page, turn
<1>5. ASSUME NEW e \in BrowserEffects, PromptSubmitted(e)
      PROVE  GeneratingOwnTurn'
  BY <1>5, GeneratingKept DEF PromptSubmitted, page, turn
<1>6. ASSUME NEW e \in BrowserEffects, NEW attempt \in 1..MaxRetries,
             NEW k \in Keys \cup {NoKey}, RetryAccepted(e, attempt, k)
      PROVE  GeneratingOwnTurn'
  BY <1>6, GeneratingKept DEF RetryAccepted, NextEpoch
<1>7. ASSUME NEW e \in BrowserEffects, Reconciled(e)
      PROVE  GeneratingOwnTurn'
  BY <1>7, GeneratingKept DEF Reconciled, turn
<1>8. ASSUME NEW c \in Clients, NEW p \in Page, Observation(c, p)
      PROVE  GeneratingOwnTurn'
  <2>1. Hears(c, p)
    BY <1>8, ObservationKinds
  <2>2. CASE ObservedEnd(c, p) \/ ObserveRetryableError(c, p)
             \/ ObserveCompleted(c, p) \/ ObserveArtifactMissing(c, p)
    <3>1. generation' = "stopped"
      BY <2>2, ObservedEndFacts
      DEF ObserveRetryableError, ObserveCompleted, ObserveArtifactMissing, Terminate
    <3> QED
      BY <3>1, GeneratingKept
  <2>3. CASE ObserveDuplicateError(c, p)
    <3>1. generation' = SeenGeneration(p) /\ RetryPending
      BY <2>3 DEF ObserveDuplicateError, DuplicateError
    <3>2. p.shows \in {"transient", "final_error"}
      BY <2>3 DEF ObserveDuplicateError, RetryableError
    <3>3. generation' # "active"
      BY <2>1, <3>1, <3>2, HeardFacts DEF RetryConsistent
    <3> QED
      BY <3>3, GeneratingKept
  <2>4. CASE ObserveProgress(c, p)
    <3>1. /\ generation' = SeenGeneration(p) /\ blocker' = SeenBlocker(p)
          /\ response' = SeenResponse(p)
      BY <2>4 DEF ObserveProgress, Seen
    <3>2. CASE Applies(p) /\ p.shows = "active"
      <4>1. response'.key # NoKey
        BY <2>1, <3>1, <3>2, HeardFacts
      <4>2. blocker' = "none"
        BY <2>1, <3>1, <3>2, HeardFacts DEF SeenBlocker
      <4> QED
        BY <4>1, <4>2 DEF GeneratingOwnTurn
    <3>3. CASE ~(Applies(p) /\ p.shows = "active")
      <4>1. generation' = "active" => generation = "active"
        BY <2>1, <3>1, <3>3, HeardFacts
      <4>2. response.key # NoKey => response'.key # NoKey
        BY <2>1, <3>1, HeardFacts
      <4>3. blocker' # "explicit_error"
        BY <2>4, <3>1, <2>1, HeardFacts
        DEF ObserveProgress, Errs, RecoveredFinal
      <4> QED
        BY <4>1, <4>2, <4>3 DEF GeneratingOwnTurn
    <3> QED
      BY <3>2, <3>3
  <2> QED
    BY <1>8, <2>2, <2>3, <2>4, ObservationKinds
<1>9. CASE Heartbeat
  BY <1>9, GeneratingKept DEF Heartbeat, page, turn
<1>10. CASE ClientClosed
  BY <1>10, GeneratingKept DEF ClientClosed, page, turn
<1>11. CASE ForcedSnapshotInactive
  BY <1>11, GeneratingKept DEF ForcedSnapshotInactive
<1>12. ASSUME NEW k \in Keys \cup {NoKey}, SteerAccepted(k)
       PROVE  GeneratingOwnTurn'
  BY <1>12, GeneratingKept DEF SteerAccepted, NextEpoch
<1>13. ASSUME NEW k \in Keys, BoundaryRebound(k)
       PROVE  GeneratingOwnTurn'
  <2>1. response'.key # NoKey
    BY <1>13, RequestConstants DEF TypeOK, BoundaryRebound
  <2> QED
    BY <1>13, <2>1, GeneratingKept DEF BoundaryRebound, page
<1>14. CASE RetryDue \/ HardLivenessDue
  BY <1>14, GeneratingKept DEF RetryDue, HardLivenessDue, page, turn
<1> QED
  BY <1>1, <1>2, <1>3, <1>4, <1>5, <1>6, <1>7, <1>8, <1>9, <1>10, <1>11, <1>12, <1>13,
     <1>14, StepKinds

(* A step to a completed request has the evidence for it.                   *)
LEMMA CompletedStep ==
  ASSUME TypeOK, RequestStateInvariants, Next
  PROVE  CompletedWithEvidence'
<1>1. CASE EndStep
  BY <1>1 DEF EndStep, Ends, End, Terminate, CompletedWithEvidence
<1>2. ASSUME NEW c \in Clients, NEW p \in Page, ObservedEnd(c, p)
      PROVE  CompletedWithEvidence'
  BY <1>2, ObservedEndFacts DEF Terminate, CompletedWithEvidence
<1>3. ASSUME NEW c \in Clients, NEW p \in Page, ObserveCompleted(c, p)
      PROVE  CompletedWithEvidence'
  <2>1. Hears(c, p) /\ Candidate(p)
    BY <1>3 DEF ObserveCompleted, Finishes
  <2>2. /\ submission' = submission /\ blocker' = "none" /\ output' = "final"
        /\ response' = SeenResponse(p) /\ artifact' = SeenArtifact(p)
        /\ ContractSatisfied(PageArtifact(p))
    BY <1>3 DEF ObserveCompleted, Seen
  <2>3. submission = "submitted" /\ SeenResponse(p).key # NoKey /\ Applies(p)
    BY <2>1, HeardFacts
  <2> QED
    BY <2>2, <2>3 DEF CompletedWithEvidence, SeenArtifact, ContractSatisfied
<1>4. CASE Live'
  BY <1>4 DEF CompletedWithEvidence, Live, NoCode
<1> QED
  BY <1>1, <1>2, <1>3, <1>4, LivesOn

-----------------------------------------------------------------------------
(* The bound tab *)

(* An outcome asks the source for release, and nobody else.                 *)
LEMMA ReleaseRequest ==
  ASSUME TypeOK, NEW code \in Codes, Terminate(code), target # NoClient => client' = target,
         target' = target
  PROVE  TargetReleased'
<1>1. CASE target = NoClient
  BY <1>1 DEF TargetReleased
<1>2. CASE target # NoClient
  <2>1. client' = target'
    BY <1>2
  <2>2. {client'} \ {NoClient} = {target'}
    BY <1>2, <2>1
  <2>3. emitted' = [type : {"release"}, on : {target'}]
    BY <2>2 DEF Terminate
  <2> QED
    BY <2>1, <2>3 DEF TargetReleased
<1> QED
  BY <1>1, <1>2

(* A step that keeps source and target of a live request keeps their agreement. *)
LEMMA TargetKept ==
  ASSUME TargetReleased, Live', UNCHANGED target, client' = client \/ client' = target
  PROVE  TargetReleased'
BY DEF TargetReleased

(* Every step keeps the source the tab the prompt went to.                  *)
LEMMA TargetStep ==
  ASSUME TypeOK, RequestStateInvariants, TargetReleased, Next
  PROVE  TargetReleased'
<1>1. CASE EndStep
  <2>1. /\ \E code \in Codes : Terminate(code)
        /\ client' = client /\ target' = target
    BY <1>1 DEF EndStep, Ends, End, source
  <2> QED
    BY <2>1, ReleaseRequest DEF TargetReleased
<1>2. ASSUME NEW c \in Clients, NEW p \in Page,
             ObservedEnd(c, p) \/ ObserveCompleted(c, p)
      PROVE  TargetReleased'
  <2>1. /\ \E code \in Codes : Terminate(code)
        /\ client' = c /\ target' = target
    BY <1>2, ObservedEndFacts DEF ObserveCompleted, Seen, Codes
  <2>2. target # NoClient => c = target
    BY <1>2, HeardFacts DEF ObservedEnd, ObserveCompleted
  <2> QED
    BY <2>1, <2>2, ReleaseRequest
<1>3. ASSUME Live' PROVE TargetReleased'
  <2>1. CASE Bookkeeping
    BY <1>3, <2>1, TargetKept DEF Bookkeeping, source
  <2>2. CASE UncertainStep
    BY <1>3, <2>2, TargetKept DEF UncertainStep, Uncertain
  <2>3. ASSUME NEW c \in Clients, SourceBound(c) PROVE TargetReleased'
    BY <1>3, <2>3 DEF SourceBound, TargetReleased
  <2>4. ASSUME NEW e \in BrowserEffects, PromptSubmitted(e) PROVE TargetReleased'
    BY <1>3, <2>4, TargetKept DEF PromptSubmitted, source
  <2>5. ASSUME NEW e \in BrowserEffects, NEW attempt \in 1..MaxRetries,
               NEW k \in Keys \cup {NoKey}, RetryAccepted(e, attempt, k)
        PROVE  TargetReleased'
    BY <1>3, <2>5, TargetKept DEF RetryAccepted, source
  <2>6. ASSUME NEW e \in BrowserEffects, Reconciled(e) PROVE TargetReleased'
    BY <1>3, <2>6, TargetKept DEF Reconciled
  <2>7. ASSUME NEW c \in Clients, NEW p \in Page, Observation(c, p) PROVE TargetReleased'
    <3>1. Hears(c, p)
      BY <2>7, ObservationKinds
    <3>2. Seen(c, p) \/ ObservedEnd(c, p)
      BY <2>7, ObservationKinds
      DEF ObserveDuplicateError, ObserveRetryableError, ObserveProgress, ObserveCompleted,
          ObserveArtifactMissing
    <3>3. client' = c /\ target' = target
      BY <3>2, ObservedEndFacts DEF Seen
    <3> QED
      BY <1>3, <3>1, <3>3, HeardFacts DEF TargetReleased
  <2>8. CASE Heartbeat \/ ClientClosed \/ ForcedSnapshotInactive
    BY <1>3, <2>8, TargetKept DEF Heartbeat, ClientClosed, ForcedSnapshotInactive
  <2>9. ASSUME NEW k \in Keys \cup {NoKey}, SteerAccepted(k) PROVE TargetReleased'
    BY <1>3, <2>9, TargetKept DEF SteerAccepted, source
  <2>10. ASSUME NEW k \in Keys, BoundaryRebound(k) PROVE TargetReleased'
    BY <1>3, <2>10, TargetKept DEF BoundaryRebound, source
  <2>11. CASE RetryDue \/ HardLivenessDue
    BY <1>3, <2>11, TargetKept DEF RetryDue, HardLivenessDue, source
  <2>12. CASE EndStep
    BY <1>1, <2>12
  <2> QED
    BY <2>1, <2>2, <2>3, <2>4, <2>5, <2>6, <2>7, <2>8, <2>9, <2>10, <2>11, <2>12, StepKinds
<1> QED
  BY <1>1, <1>2, <1>3, LivesOn

(* Before the binding only a binding, an observation of a tab that knows    *)
(* nothing of the request, or the end of the request can happen.            *)
LEMMA UnboundStep ==
  ASSUME TypeOK, TargetReleased, UnboundQuiet, Next
  PROVE  UnboundQuiet'
<1> SUFFICES ASSUME target' = NoClient
             PROVE  UnboundQuiet'
  BY DEF UnboundQuiet
<1>1. CASE target # NoClient
  <2>1. ~UNCHANGED target
    BY <1>1
  <2>2. ASSUME NEW c \in Clients, SourceBound(c) PROVE FALSE
    BY <2>2, RequestConstants DEF SourceBound
  <2>3. ASSUME NEW c \in Clients, NEW p \in Page, Observation(c, p) PROVE FALSE
    <3>1. Seen(c, p) \/ ObservedEnd(c, p)
      BY <2>3, ObservationKinds
      DEF ObserveDuplicateError, ObserveRetryableError, ObserveProgress, ObserveCompleted,
          ObserveArtifactMissing
    <3> QED
      BY <2>1, <3>1, ObservedEndFacts DEF Seen
  <2> QED
    BY <2>1, <2>2, <2>3, StepKinds
    DEF EndStep, Ends, End, Bookkeeping, UncertainStep, Uncertain, PromptSubmitted,
        RetryAccepted, Reconciled, Heartbeat, ClientClosed, ForcedSnapshotInactive,
        SteerAccepted, BoundaryRebound, RetryDue, HardLivenessDue
<1>2. CASE target = NoClient
  <2>1. /\ submission = "pending" /\ generation # "active" /\ blocker # "explicit_error"
        /\ lifecycle # "artifact_settling" /\ ~RetryPending
        /\ connection \notin {"reconciling", "disconnected"} /\ ~heartbeat
    BY <1>2 DEF UnboundQuiet
  <2>2. ~Message
    BY <1>2 DEF Message
  <2>3. CASE EndStep
    <3>1. PICK code \in Codes \ {"completed"} : End(code)
      BY <2>3 DEF EndStep, Ends
    <3>2. TerminalLifecycle(code) # "artifact_settling"
      BY TerminalLifecycleOf
    <3>3. UNCHANGED submission
      BY <1>2, <2>3 DEF EndStep, Ends
    <3> QED
      BY <2>1, <3>1, <3>2, <3>3 DEF End, Terminate, UnboundQuiet, RetryPending, source
  <2>4. ASSUME NEW c \in Clients, NEW p \in Page, Observation(c, p) PROVE UnboundQuiet'
    <3>1. Hears(c, p) /\ p.owner # "this" /\ ~Applies(p) /\ ~RetryableError(p) /\ ~Candidate(p)
      BY <1>2, <2>4, ObservationKinds, HeardFacts DEF RetryableError
    <3>2. SeenGeneration(p) = generation /\ SeenBlocker(p) = blocker
          /\ SeenLifecycle(p) = lifecycle /\ SeenRetry(p) = retry
      BY <3>1, <2>1 DEF SeenGeneration, SeenBlocker, SeenLifecycle, SeenRetry
    <3>3. CASE ObserveProgress(c, p)
      BY <2>1, <3>1, <3>2, <3>3 DEF ObserveProgress, Beat, UnboundQuiet, RetryPending
    <3>4. CASE ObservedEnd(c, p)
      <4>1. PICK code \in Codes \ {"completed"} : SeenEnd(c, p, code)
        BY <3>4 DEF ObservedEnd
      <4>2. TerminalLifecycle(code) # "artifact_settling"
        BY TerminalLifecycleOf
      <4>3. blocker' = blocker
        BY <3>2, <3>4 DEF ObservedEnd
      <4> QED
        BY <2>1, <4>1, <4>2, <4>3 DEF SeenEnd, Terminate, UnboundQuiet, RetryPending
    <3> QED
      BY <2>4, <3>1, <3>3, <3>4, ObservationKinds
      DEF ObserveDuplicateError, ObserveRetryableError, ObserveCompleted,
          ObserveArtifactMissing, Finishes
  <2>5. CASE Bookkeeping
    BY <1>2, <2>1, <2>5 DEF Bookkeeping, UnboundQuiet, RetryPending, page, source
  <2>6. ~(RetryDue \/ HardLivenessDue)
    BY <2>1 DEF RetryDue, HardLivenessDue, Armed, Due, RetryPending
  <2>7. \A c \in Clients : ~SourceBound(c)
    BY RequestConstants DEF SourceBound
  <2> QED
    BY <2>2, <2>3, <2>4, <2>5, <2>6, <2>7, StepKinds
    DEF UncertainStep, PromptSubmitted, RetryAccepted, Reconciled, Heartbeat, ClientClosed,
        ForcedSnapshotInactive, SteerAccepted, BoundaryRebound
<1> QED
  BY <1>1, <1>2

(* A step that does not begin to settle, and forgets neither heartbeat nor  *)
(* target, keeps a settling request waiting for its tab.                    *)
LEMMA SettlingKept ==
  ASSUME SettlingWaits, Settling' => Settling, heartbeat => heartbeat',
         target # NoClient => target' # NoClient
  PROVE  SettlingWaits'
BY DEF SettlingWaits

(* No lifecycle patch of a message or a page leads into settling.           *)
LEMMA AdvanceSettling ==
  /\ AcceptedLifecycle = "artifact_settling" => lifecycle = "artifact_settling"
  /\ \A from, to \in Lifecycles :
       Advance(from, to) = "artifact_settling" /\ to # "artifact_settling" =>
         from = "artifact_settling"
BY DEF AcceptedLifecycle, Advance

(* Every step keeps a settling request bound to its tab and required to wait. *)
LEMMA SettlingStep ==
  ASSUME TypeOK, SettlingWaits, Next
  PROVE  SettlingWaits'
<1>1. CASE EndStep
  <2>1. PICK code \in Codes : End(code)
    BY <1>1 DEF EndStep, Ends
  <2>2. TerminalLifecycle(code) # "artifact_settling"
    BY TerminalLifecycleOf
  <2> QED
    BY <2>1, <2>2, SettlingKept DEF End, Terminate, Settling, source
<1>2. CASE Bookkeeping
  BY <1>2, SettlingKept, AdvanceSettling DEF Bookkeeping, Accepting, Settling, source
<1>3. CASE UncertainStep
  BY <1>3, SettlingKept, AdvanceSettling DEF UncertainStep, Uncertain, Accepting, Settling
<1>4. ASSUME NEW c \in Clients, SourceBound(c) PROVE SettlingWaits'
  BY <1>4, SettlingKept, RequestConstants DEF SourceBound, Settling, Advance
<1>5. ASSUME NEW e \in BrowserEffects, PromptSubmitted(e) PROVE SettlingWaits'
  BY <1>5, SettlingKept, AdvanceSettling DEF PromptSubmitted, Settling, source, Advance
<1>6. ASSUME NEW e \in BrowserEffects, NEW attempt \in 1..MaxRetries,
             NEW k \in Keys \cup {NoKey}, RetryAccepted(e, attempt, k)
      PROVE  SettlingWaits'
  BY <1>6, SettlingKept, AdvanceSettling DEF RetryAccepted, Settling, source, Advance
<1>7. ASSUME NEW e \in BrowserEffects, Reconciled(e) PROVE SettlingWaits'
  BY <1>7, SettlingKept DEF Reconciled, Settling
<1>8. ASSUME NEW c \in Clients, NEW p \in Page, Observation(c, p) PROVE SettlingWaits'
  <2>1. Hears(c, p)
    BY <1>8, ObservationKinds
  <2>2. SeenLifecycle(p) = "artifact_settling" => lifecycle = "artifact_settling"
    <3>1. PageLifecycle(p) # "artifact_settling"
      BY DEF PageLifecycle
    <3> QED
      BY <3>1 DEF SeenLifecycle, Advance
  <2>3. CASE ObservedEnd(c, p)
    <3>1. PICK code \in Codes : SeenEnd(c, p, code)
      BY <2>3 DEF ObservedEnd
    <3>2. TerminalLifecycle(code) # "artifact_settling"
      BY TerminalLifecycleOf
    <3> QED
      BY <3>1, <3>2, SettlingKept DEF SeenEnd, Seen, Terminate, Settling
  <2>4. CASE ObserveDuplicateError(c, p)
    BY <2>2, <2>4, SettlingKept DEF ObserveDuplicateError, Seen, Beat, Settling
  <2>5. CASE ObserveRetryableError(c, p)
    BY <2>2, <2>5, SettlingKept DEF ObserveRetryableError, Seen, Beat, Settling
  <2>6. CASE ObserveProgress(c, p)
    BY <2>2, <2>6, SettlingKept DEF ObserveProgress, Seen, Beat, Settling
  <2>7. CASE ObserveCompleted(c, p)
    BY <2>7, TerminalLifecycleOf, SettlingKept DEF ObserveCompleted, Seen, Terminate, Settling
  <2>8. CASE ObserveArtifactMissing(c, p)
    <3>1. p.owner = "this" /\ target # NoClient
      BY <2>1, <2>8, HeardFacts DEF ObserveArtifactMissing, Finishes
    <3> QED
      BY <2>8, <3>1 DEF ObserveArtifactMissing, Seen, Beat, SettlingWaits, ContractSatisfied
  <2> QED
    BY <1>8, <2>3, <2>4, <2>5, <2>6, <2>7, <2>8, ObservationKinds
<1>9. CASE Heartbeat \/ ClientClosed
  BY <1>9, SettlingKept DEF Heartbeat, ClientClosed, Settling
<1>10. CASE ForcedSnapshotInactive
  BY <1>10, SettlingKept DEF ForcedSnapshotInactive, Settling, Advance
<1>11. ASSUME NEW k \in Keys \cup {NoKey}, SteerAccepted(k) PROVE SettlingWaits'
  BY <1>11, SettlingKept DEF SteerAccepted, Settling, source, Advance
<1>12. ASSUME NEW k \in Keys, BoundaryRebound(k) PROVE SettlingWaits'
  BY <1>12, SettlingKept DEF BoundaryRebound, Settling, source
<1>13. CASE RetryDue \/ HardLivenessDue
  BY <1>13, SettlingKept DEF RetryDue, HardLivenessDue, Settling, source
<1> QED
  BY <1>1, <1>2, <1>3, <1>4, <1>5, <1>6, <1>7, <1>8, <1>9, <1>10, <1>11, <1>12, <1>13,
     StepKinds

-----------------------------------------------------------------------------
(* The theorems *)

(* The inductive invariant is inductive.                                    *)
LEMMA NextInv == IInv /\ [Next]_vars => IInv'
<1> SUFFICES ASSUME IInv, [Next]_vars PROVE IInv'
  OBVIOUS
<1>1. TypeOK /\ TypeOK'
  BY NextType DEF IInv
<1>2. CASE Next
  BY <1>1, <1>2, RequestStateStep, RetryStep, GeneratingStep, CompletedStep, TargetStep,
     UnboundStep, SettlingStep
  DEF IInv
<1>3. CASE UNCHANGED vars
  <2>1. /\ UNCHANGED <<lifecycle, submission, generation, blocker, output, artifact>>
        /\ UNCHANGED <<response, client, connection, heartbeat, browser, coordinator>>
        /\ UNCHANGED <<retry, terminal, target, emitted>>
    BY <1>3 DEF vars, page, turn, source, effects
  <2> QED
    BY <1>1, <2>1
    DEF IInv, RequestStateInvariants, RetryConsistent, GeneratingOwnTurn,
        CompletedWithEvidence, TargetReleased, UnboundQuiet, SettlingWaits, Live,
        HasActiveEffect, RetryPending, Settling
<1> QED
  BY <1>2, <1>3

(* Every reachable state satisfies the inductive invariant: the conjuncts the *)
(* runs check, and the two that make them inductive.                        *)
THEOREM Invariance == Spec => []IInv
BY InitInv, NextInv, PTL DEF Spec

(* The invariants requestInvariants.js asserts after each transition hold:  *)
(* the reducer never falls back to an outcome that keeps the tab.           *)
THEOREM RequestStateSafe == Spec => []RequestStateInvariants
<1>1. IInv => RequestStateInvariants
  BY DEF IInv
<1> QED
  BY <1>1, Invariance, PTL

(* Retries keep their budget and never race a running answer.               *)
THEOREM RetrySafe == Spec => []RetryConsistent
<1>1. IInv => RetryConsistent
  BY DEF IInv
<1> QED
  BY <1>1, Invariance, PTL

(* Generation is only believed of a user turn the server can name.          *)
THEOREM GenerationSafe == Spec => []GeneratingOwnTurn
<1>1. IInv => GeneratingOwnTurn
  BY DEF IInv
<1> QED
  BY <1>1, Invariance, PTL

(* A completed request has the evidence for it.                             *)
THEOREM CompletionSafe == Spec => []CompletedWithEvidence
<1>1. IInv => CompletedWithEvidence
  BY DEF IInv
<1> QED
  BY <1>1, Invariance, PTL

(* The tab that got the prompt is the one asked to release the request.     *)
THEOREM ReleaseSafe == Spec => []TargetReleased
<1>1. IInv => TargetReleased
  BY DEF IInv
<1> QED
  BY <1>1, Invariance, PTL

(* No open request is left without a deadline or a running effect.          *)
THEOREM AlwaysWatched == Spec => []Watched
<1>1. IInv => Watched
  <2> SUFFICES ASSUME IInv, Live, ~HasActiveEffect
               PROVE  Armed # {}
    BY DEF Watched
  <2>1. CASE ~Answering
    <3>1. Due["recovery"] \/ Due["source_reconnect"]
      BY <2>1 DEF Due, Answering
    <3> QED
      BY <3>1 DEF Armed, DeadlineKinds
  <2>2. CASE Answering /\ Settling
    <3>1. heartbeat /\ client # NoClient
      BY <2>2 DEF IInv, SettlingWaits, TargetReleased
    <3>2. Due["hard_liveness"]
      BY <2>2, <3>1 DEF Due
    <3> QED
      BY <3>2 DEF Armed, DeadlineKinds
  <2>3. CASE Answering /\ ~Settling /\ client # NoClient
    <3>1. Due["forced_snapshot"]
      BY <2>3 DEF Due
    <3> QED
      BY <3>1 DEF Armed, DeadlineKinds
  <2>4. CASE Answering /\ ~Settling /\ client = NoClient
    <3>1. target = NoClient
      BY <2>4 DEF IInv, TargetReleased
    <3>2. submission # "submitted" /\ generation # "active"
      BY <3>1 DEF IInv, UnboundQuiet
    <3>3. Due["progress_liveness"]
      BY <2>4, <3>2 DEF Due
    <3> QED
      BY <3>3 DEF Armed, DeadlineKinds
  <2> QED
    BY <2>1, <2>2, <2>3, <2>4
<1> QED
  BY <1>1, Invariance, PTL

(* A new response epoch starts without the evidence of the previous one.    *)
THEOREM EpochsClean == Spec => EpochsOpenClean
<1> DEFINE Opens == response'.epoch # response.epoch =>
                      /\ response'.epoch = response.epoch + 1
                      /\ response'.previous = response.key
                      /\ generation' = "idle" /\ output' = "none" /\ blocker' = "none"
                      /\ artifact' = InitialArtifact
                      /\ ~completion'.pending
<1>1. TypeOK /\ [Next]_vars => [Opens]_vars
  <2> SUFFICES ASSUME TypeOK, Next PROVE Opens
    OBVIOUS
  <2>1. ASSUME NEW k, NextEpoch(k) PROVE Opens
    BY <2>1 DEF NextEpoch, NoCompletion
  <2>2. CASE response' = response
    BY <2>2
  <2>3. ASSUME NEW c \in Clients, NEW p \in Page, Observation(c, p) PROVE Opens
    <3>1. response' = SeenResponse(p)
      BY <2>3, ObservationKinds
      DEF ObservedEnd, SeenEnd, ObserveDuplicateError, ObserveRetryableError,
          ObserveProgress, ObserveCompleted, ObserveArtifactMissing, Seen
    <3>2. SeenResponse(p).epoch = response.epoch
      BY DEF TypeOK, SeenResponse
    <3> QED
      BY <3>1, <3>2
  <2>4. ASSUME NEW k \in Keys, BoundaryRebound(k) PROVE Opens
    <3>1. response'.epoch = response.epoch
      BY <2>4 DEF TypeOK, BoundaryRebound
    <3> QED
      BY <3>1
  <2>5. \/ response' = response
        \/ \E k \in Keys \cup {NoKey} : NextEpoch(k)
        \/ \E c \in Clients, p \in Page : Observation(c, p)
        \/ \E k \in Keys : BoundaryRebound(k)
    BY StepKinds
    DEF EndStep, Ends, End, Bookkeeping, UncertainStep, Uncertain, SourceBound, PromptSubmitted,
        RetryAccepted, Reconciled, Heartbeat, ClientClosed, ForcedSnapshotInactive,
        SteerAccepted, RetryDue, HardLivenessDue, turn
  <2> QED
    BY <2>1, <2>2, <2>3, <2>4, <2>5
<1>2. Spec => [][Opens]_vars
  BY <1>1, TypeCorrect, PTL DEF Spec
<1> QED
  BY <1>2 DEF EpochsOpenClean

-----------------------------------------------------------------------------
(* The machine implements the contract of a request. *)

(* A new request is one the contract starts from.                           *)
LEMMA ContractInit == Init => Contract!Init
BY RequestConstants
DEF Init, Fresh, ResumedOn, NoRetry, RetryPending, Contract!Init, Contract!Unsent,
    Contract!Resumed

(* What the contract does not see.                                          *)
LEMMA ContractStutter ==
  ASSUME TypeOK, UNCHANGED <<target, retry, terminal>>,
         response'.epoch = response.epoch,
         submission' = "submitted" <=> submission = "submitted"
  PROVE  UNCHANGED Contract!contract
BY DEF Contract!contract, RetryPending

(* An outcome of the machine is one the contract allows.                    *)
LEMMA ContractEnd ==
  ASSUME TypeOK, Live, NEW code \in Codes, terminal' = code,
         Contract!Allowed(code),
         UNCHANGED target, response'.epoch = response.epoch,
         retry'.attempts = retry.attempts,
         UNCHANGED retry \/ ~RetryPending',
         submission' = "submitted" <=> submission = "submitted"
  PROVE  Contract!Next
<1>1. RetryPending' \in {RetryPending, FALSE}
  <2>1. CASE UNCHANGED retry
    BY <2>1 DEF RetryPending
  <2>2. CASE ~RetryPending'
    <3>1. RetryPending' = FALSE
      BY <2>2 DEF RetryPending
    <3> QED
      BY <3>1
  <2> QED
    BY <2>1, <2>2
<1> QED
  BY <1>1 DEF Contract!Next, Contract!End, Contract!Open, Live

(* An implicit acceptance never proves or retracts a submission.            *)
LEMMA AcceptedSubmissionKeeps ==
  AcceptedSubmission = "submitted" <=> submission = "submitted"
BY DEF AcceptedSubmission

(* Each way to take an observation is a step of the contract or a stutter.  *)
LEMMA ObservationContract ==
  ASSUME IInv, NEW c \in Clients, NEW p \in Page, Observation(c, p)
  PROVE  Contract!Next \/ UNCHANGED Contract!contract
<1> USE DEF IInv
<1>1. Hears(c, p) /\ Live
  BY ObservationKinds, HeardFacts
<1>2. SeenResponse(p).epoch = response.epoch
  BY DEF TypeOK, SeenResponse
<1>3. ASSUME NEW code \in Codes, SeenEnd(c, p, code), Contract!Allowed(code)
      PROVE  Contract!Next
  <2>1. /\ terminal' = code /\ UNCHANGED <<target, retry, submission>>
        /\ response' = SeenResponse(p)
    BY <1>3 DEF SeenEnd, Seen, Terminate
  <2> QED
    BY <1>1, <1>2, <1>3, <2>1, ContractEnd
<1>4. target # NoClient => Contract!Bound
  BY <1>1 DEF Contract!Bound, Contract!Open, Live
<1>5. Bound => Contract!Bound
  BY <1>4 DEF Bound, UnboundQuiet
<1>6. CASE ObserveConversationChanged(c, p)
  <2>1. Contract!Allowed("conversation_changed")
    BY <1>5, <1>6 DEF ObserveConversationChanged, Contract!Allowed
  <2> QED
    BY <1>3, <1>6, <2>1 DEF ObserveConversationChanged, Codes
<1>7. CASE ObserveReplaced(c, p)
  <2>1. Contract!Allowed("request_replaced")
    BY <1>5, <1>7 DEF ObserveReplaced, Contract!Allowed
  <2> QED
    BY <1>3, <1>7, <2>1 DEF ObserveReplaced, Codes
<1>8. CASE ObserveExplicitError(c, p)
  <2>1. target # NoClient
    BY <1>1, <1>8, HeardFacts DEF ObserveExplicitError, Errs, SeenBlocker, UnboundQuiet
  <2>2. Contract!Allowed("explicit_ui_error")
    BY <1>4, <2>1 DEF Contract!Allowed
  <2> QED
    BY <1>3, <1>8, <2>2 DEF ObserveExplicitError, Codes
<1>9. CASE ObserveRetryExhausted(c, p)
  <2>1. target # NoClient
    BY <1>1, <1>9, HeardFacts DEF ObserveRetryExhausted, RetryableError
  <2>2. retry.attempts = MaxRetries
    BY <1>9, RequestConstants DEF TypeOK, ObserveRetryExhausted, RetryConsistent
  <2>3. Contract!Allowed("retry_exhausted")
    BY <1>4, <2>1, <2>2 DEF Contract!Allowed
  <2> QED
    BY <1>3, <1>9, <2>3 DEF ObserveRetryExhausted, Codes
<1>10. CASE ObserveDuplicateError(c, p)
  BY <1>2, <1>10, ContractStutter DEF ObserveDuplicateError, Seen
<1>11. CASE ObserveRetryableError(c, p)
  <2>1. target # NoClient
    BY <1>1, <1>11, HeardFacts DEF ObserveRetryableError, RetryableError
  <2>2. /\ retry'.attempts = retry.attempts /\ RetryPending'
    BY <1>11 DEF TypeOK, ObserveRetryableError, RetryPending
  <2>3. retry.attempts < MaxRetries
    BY <1>11, RequestConstants DEF TypeOK, ObserveRetryableError
  <2>4. /\ submission' # "submitted" /\ UNCHANGED <<target, terminal>>
        /\ response'.epoch = response.epoch
    BY <1>2, <1>11 DEF ObserveRetryableError, Seen
  <2>5. Contract!ScheduleRetry
    BY <1>4, <2>1, <2>2, <2>3, <2>4 DEF Contract!ScheduleRetry
  <2> QED
    BY <2>5 DEF Contract!Next
<1>12. ASSUME retry' = SeenRetry(p), UNCHANGED <<target, submission, terminal>>,
              response' = SeenResponse(p)
       PROVE  Contract!Next \/ UNCHANGED Contract!contract
  <2>1. CASE RetryPending /\ Resumes(p)
    <3>1. retry'.attempts = retry.attempts /\ ~RetryPending'
      BY <1>12, <2>1, SeenRetryFacts DEF RetryPending
    <3>2. submission = "submitted" /\ target # NoClient
      BY <1>1, <2>1, HeardFacts DEF Resumes
    <3>3. Contract!AbandonRetry
      BY <1>2, <1>4, <1>12, <2>1, <3>1, <3>2 DEF Contract!AbandonRetry
    <3> QED
      BY <3>3 DEF Contract!Next
  <2>2. CASE ~(RetryPending /\ Resumes(p))
    <3>1. UNCHANGED retry
      BY <1>12, <2>2, SeenRetryFacts
    <3> QED
      BY <1>2, <1>12, <3>1, ContractStutter
  <2> QED
    BY <2>1, <2>2
<1>13. CASE ObserveProgress(c, p)
  BY <1>12, <1>13 DEF ObserveProgress, Seen
<1>14. CASE ObserveArtifactMissing(c, p)
  BY <1>12, <1>14 DEF ObserveArtifactMissing, Seen
<1>15. CASE ObserveCompleted(c, p)
  <2>1. submission = "submitted" /\ target # NoClient
    BY <1>1, <1>15, HeardFacts DEF ObserveCompleted, Finishes
  <2>2. Contract!Allowed("completed")
    BY <1>4, <2>1 DEF Contract!Allowed
  <2>3. /\ terminal' = "completed" /\ UNCHANGED <<target, submission>>
        /\ response'.epoch = response.epoch /\ retry' = SeenRetry(p)
    BY <1>2, <1>15 DEF ObserveCompleted, Seen, Terminate
  <2>4. retry'.attempts = retry.attempts /\ (UNCHANGED retry \/ ~RetryPending')
    BY <2>3, SeenRetryFacts DEF RetryPending
  <2> QED
    BY <1>1, <2>2, <2>3, <2>4, ContractEnd DEF Codes
<1> QED
  BY <1>6, <1>7, <1>8, <1>9, <1>10, <1>11, <1>13, <1>14, <1>15 DEF Observation

(* Every step of the machine is a step of the contract or a stutter.        *)
LEMMA ContractStep ==
  ASSUME IInv, Next
  PROVE  Contract!Next \/ UNCHANGED Contract!contract
<1> USE DEF IInv
<1>1. Message => Contract!Bound
  BY DEF Message, Contract!Bound, Contract!Open, Live
<1>2. CASE EndStep
  <2>1. PICK code \in Codes \ {"completed", "retry_exhausted"} : Ends(code)
    BY <1>2 DEF EndStep
  <2>2. Live /\ submission' \in {submission, AcceptedSubmission}
    BY <1>2 DEF EndStep
  <2>3. target # NoClient \/ code \in {"cancelled", "failed", "deadline_exceeded"}
    BY <2>1 DEF Ends, UnboundQuiet, Settling
  <2>4. code = "required_artifact_missing" => Required /\ target # NoClient
    BY <2>1 DEF Ends, SettlingWaits
  <2>5. target # NoClient => Contract!Bound
    BY <2>2 DEF Contract!Bound, Contract!Open, Live
  <2>6. Contract!Allowed(code)
    BY <2>3, <2>4, <2>5 DEF Contract!Allowed
  <2>7. terminal' = code /\ UNCHANGED <<target, retry, response>>
    BY <2>1 DEF Ends, End, Terminate, turn
  <2> QED
    BY <2>2, <2>6, <2>7, ContractEnd, AcceptedSubmissionKeeps
<1>3. CASE Bookkeeping
  BY <1>3, ContractStutter, AcceptedSubmissionKeeps DEF Bookkeeping, Accepting, turn
<1>4. CASE UncertainStep
  BY <1>4, ContractStutter, AcceptedSubmissionKeeps
  DEF UncertainStep, Uncertain, Accepting, turn
<1>5. ASSUME NEW c \in Clients, SourceBound(c)
      PROVE  Contract!Next
  <2>1. Contract!Bind
    BY <1>5 DEF SourceBound, Contract!Bind, Contract!Open, Live, turn, RetryPending
  <2> QED
    BY <2>1 DEF Contract!Next
<1>6. ASSUME NEW e \in BrowserEffects, PromptSubmitted(e)
      PROVE  Contract!Next
  <2>1. Contract!Submit
    BY <1>1, <1>6 DEF PromptSubmitted, Contract!Submit, turn, RetryPending
  <2> QED
    BY <2>1 DEF Contract!Next
<1>7. ASSUME NEW e \in BrowserEffects, NEW attempt \in 1..MaxRetries,
             NEW k \in Keys \cup {NoKey}, RetryAccepted(e, attempt, k)
      PROVE  Contract!Next
  <2>1. /\ retry'.attempts = attempt /\ ~RetryPending'
        /\ response'.epoch = response.epoch + 1
        /\ submission' = "submitted" /\ UNCHANGED <<target, terminal>>
    BY <1>7 DEF RetryAccepted, NoRetry, NextEpoch, RetryPending
  <2>2. RetryPending => attempt = retry.attempts + 1
    BY <1>7 DEF TypeOK, RetryAccepted, AwaitedAttempt, RetryConsistent
  <2>3. Contract!AcceptRetry
    BY <1>1, <1>7, <2>1, <2>2 DEF RetryAccepted, Contract!AcceptRetry
  <2> QED
    BY <2>3 DEF Contract!Next
<1>8. ASSUME NEW e \in BrowserEffects, Reconciled(e)
      PROVE  UNCHANGED Contract!contract
  BY <1>8, ContractStutter DEF Reconciled, turn
<1>9. CASE Heartbeat \/ ClientClosed \/ ForcedSnapshotInactive
  BY <1>9, ContractStutter DEF Heartbeat, ClientClosed, ForcedSnapshotInactive, turn
<1>10. ASSUME NEW k \in Keys \cup {NoKey}, SteerAccepted(k)
       PROVE  Contract!Next
  <2>1. Contract!Steer
    BY <1>1, <1>10 DEF SteerAccepted, NextEpoch, Contract!Steer, RetryPending
  <2> QED
    BY <2>1 DEF Contract!Next
<1>11. ASSUME NEW k \in Keys, BoundaryRebound(k)
       PROVE  UNCHANGED Contract!contract
  <2>1. response'.epoch = response.epoch
    BY <1>11 DEF TypeOK, BoundaryRebound
  <2> QED
    BY <1>11, <2>1, ContractStutter DEF BoundaryRebound
<1>12. CASE RetryDue
  <2>1. RetryPending /\ RetryPending' /\ retry'.attempts = retry.attempts
    BY <1>12 DEF TypeOK, RetryDue, Armed, Due, RetryPending
  <2>2. RetryPending' = RetryPending
    BY <2>1 DEF RetryPending
  <2> QED
    BY <1>12, <2>1, <2>2 DEF RetryDue, turn, Contract!contract
<1>13. CASE HardLivenessDue
  BY <1>13, ContractStutter DEF HardLivenessDue, turn
<1> QED
  BY <1>2, <1>3, <1>4, <1>5, <1>6, <1>7, <1>8, <1>9, <1>10, <1>11, <1>12, <1>13,
     StepKinds, ObservationContract

(* Every behaviour of the machine is one the contract allows.               *)
THEOREM Refinement == Spec => ImplementsContract
<1>1. IInv /\ [Next]_vars => [Contract!Next]_Contract!contract
  <2> SUFFICES ASSUME IInv, [Next]_vars
               PROVE  Contract!Next \/ UNCHANGED Contract!contract
    OBVIOUS
  <2>1. CASE UNCHANGED vars
    BY <2>1 DEF vars, turn, Contract!contract, RetryPending
  <2> QED
    BY <2>1, ContractStep
<1> QED
  BY <1>1, ContractInit, Invariance, PTL DEF Spec, ImplementsContract, Contract!Spec
=============================================================================
