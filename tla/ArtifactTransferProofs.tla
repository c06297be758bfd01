----------------------- MODULE ArtifactTransferProofs -----------------------
(***************************************************************************)
(* Theorems about ArtifactTransfer, for any artifacts and any number of    *)
(* fetches, captures, downloads and faults.                                *)
(***************************************************************************)
EXTENDS ArtifactTransfer, SequenceTheorems, WellFoundedInduction, TLAPS

(* A capture is in memory only when its record is durable, and what memory *)
(* knows of it the record knows too: its download, and its completion.     *)
CapturesGood ==
    \A c \in Captures :
      /\ record[c].status = "none" => record[c] = Blank /\ ~live[c].on
      /\ record[c].status # "none" => record[c].of # 0
      /\ ~live[c].on => live[c].item = 0 /\ live[c].done = "no"
      /\ live[c].item # 0 => record[c].item = live[c].item
      /\ live[c].done = "result" => record[c].status = "completed"

(* The operation of the tab queue works for the capture it was asked about. *)
OpGood ==
    /\ op.kind = "none" => op = NoOp
    /\ op.kind # "none" => op.capture # 0
    /\ op.kind = "begin" => record[op.capture] = Blank /\ op.of # 0
    /\ op.kind = "arm" => /\ record[op.capture].status # "none"
                          /\ record[op.capture].of = op.of

Early == {"idle", "finding", "beginning"}

(* An action j holds a capture of its own fetch, in the records r; a file   *)
(* it was handed is that of a completed capture.                            *)
JobFine(j, r) ==
    /\ j \in Job
    /\ (j.stage = "idle") <=> (j.of = 0)
    /\ j.stage \in Early => /\ ~j.held /\ j.capture = 0
                            /\ j.chrome = "off" /\ j.result = "none"
    /\ j.held \/ j.chrome # "off" \/ j.result = "file" => j.capture # 0
    /\ j.stage \in Asking \ {"beginning"} => j.held
    /\ j.capture # 0 => /\ r[j.capture].status # "none"
                        /\ r[j.capture].of = j.of
    /\ j.chrome = "file" \/ j.result = "file" =>
         r[j.capture].status = "completed"
    /\ j.stage \in {"adopting", "rejoining"} => /\ j.capture # 0
                                                 /\ r[j.capture].item # 0

(* The action that waits for the answer of an operation asked for it.       *)
Asks(o, j) ==
    o.heard => /\ j.stage \in Asking
               /\ (o.kind \in {"begin", "arm"}) <=> (j.stage = "beginning")
               /\ o.kind # "none"
               /\ IF j.stage = "beginning" THEN o.of = j.of
                  ELSE o.capture = j.capture

(* Only the fetch of a file acts on the page.                               *)
Acted(f, k) == f[k].of \in Files /\ f[k].step # "none"

ActedGood ==
    /\ \A i \in 1..Len(queue) : Acted(fetch, queue[i])
    /\ job.of # 0 => Acted(fetch, job.of)
    /\ op.of # 0 => Acted(fetch, op.of)
    /\ \A c \in Captures : record[c].of # 0 => Acted(fetch, record[c].of)

(* A fetch that was answered with a download has a capture that completed.  *)
Answered(k) ==
    fetch[k].item # 0 =>
      \E c \in Captures : /\ record[c].of = k
                          /\ record[c].status = "completed"
                          /\ record[c].item = fetch[k].item

AnsweredGood == \A k \in Fetches : Answered(k)

(* The fetches of one artifact come one after the other, in the order of    *)
(* their numbers.                                                           *)
FetchesGood ==
    /\ \A k \in Fetches :
         /\ (fetch[k].step = "none") <=> (fetch[k].of = 0)
         /\ fetch[k].step \in {"none", "sent", "orphan"} => fetch[k].item = 0
    /\ \A k, j \in Fetches : k < j /\ fetch[j].step # "none" =>
         /\ fetch[k].step # "none"
         /\ fetch[k].of = fetch[j].of /\ fetch[k].of \in Files => At(k, "ended")

(* A capture that has, may get or is about to get the download d.           *)
Claims(c, d) ==
    \/ c \in item[d].near
    \/ record[c].item = d \/ live[c].item = d
    \/ \E w \in writes : w.kind = "bind" /\ w.capture = c /\ w.item = d
    \/ op.kind = "search" /\ op.capture = c /\ op.item = d

StartedGood ==
    /\ \A c \in Captures, d \in Downloads : Claims(c, d) =>
         item[d].state # "none" /\ record[c].status # "none"
    /\ \A w \in writes : w.kind = "bind" => w.item # 0
    /\ op.kind = "search" => op.item # 0
    /\ \A d \in Downloads : file[d] # "absent" => item[d].state = "complete"

(* The captures of a later fetch of an artifact have no claim on the        *)
(* download an earlier fetch of it was answered with.                       *)
ClaimsGood ==
    \A k \in Fetches, c \in Captures, d \in Downloads :
      /\ fetch[k].item = d /\ record[c].of # 0 /\ k < record[c].of
      /\ fetch[record[c].of].of = fetch[k].of
      => ~Claims(c, d)

InStore == {"commit", "saving", "unlink"}     \* while the mutex is held
Since   == {"unlink", "remove", "ended"}      \* when a copy may be indexed

Copied(d) == \E copy \in Indexed \union taken.dropped :
                 copy.form = "captured" /\ copy.item = d

(* An import that holds the mutex has its copy on disk; if the copy is not  *)
(* of the file as it was downloaded, that file is there no more.            *)
ImportGood(k) ==
    /\ fetch[k].step \in InStore =>
         /\ store.mutex = k
         /\ fetch[k].content \in store.disk
         /\ fetch[k].content.by = k
         /\ fetch[k].content.item = fetch[k].item
         /\ fetch[k].item # 0 => \/ fetch[k].content.form = "captured"
                                 \/ file[fetch[k].item] # "captured"
    /\ At(k, "saving") =>
         /\ fetch[k].old = store.index[fetch[k].of]
         /\ fetch[k].draft = [store.index EXCEPT ![fetch[k].of] = fetch[k].content]
    /\ At(k, "unlink") =>
         /\ store.index[fetch[k].of] = fetch[k].content
         /\ fetch[k].old \notin Indexed
    /\ fetch[k].step \in InStore \union {"remove"} /\ fetch[k].item # 0 =>
         item[fetch[k].item].state = "complete"
    /\ At(k, "remove") =>
         /\ fetch[k].item # 0
         /\ file[fetch[k].item] = "captured" => Copied(fetch[k].item)

ImportsGood == \A k \in Fetches : ImportGood(k)

(* Every copy has the number of its import, and the index names it for the  *)
(* artifact of that import.                                                 *)
CopiesGood ==
    /\ \A a \in Artifacts : Stored(a) =>
         /\ store.index[a] \in store.disk
         /\ fetch[store.index[a].by].of = a
         /\ fetch[store.index[a].by].step \in Since
    /\ \A copy \in taken.dropped : fetch[copy.by].step # "none"
    /\ \A d \in taken.gone : Copied(d)
    /\ \A i \in Images : image[i] = "ready" =>
         Stored(i) \/ \E copy \in taken.dropped : fetch[copy.by].of = i

PageInv   == JobFine(job, record) /\ OpGood /\ Asks(op, job) /\ ActedGood
ClaimInv  == StartedGood /\ ClaimsGood
ServerInv == ImportsGood /\ CopiesGood
Inv == /\ TypeOK /\ CapturesGood /\ PageInv /\ FetchesGood /\ AnsweredGood
       /\ ClaimInv /\ ServerInv

-----------------------------------------------------------------------------
(* The operators the model is built from *)

(* The least element of a set of numbers is in it, and least.               *)
LEMMA Least ==
  ASSUME NEW S, S \subseteq Nat, S # {}
  PROVE  /\ (CHOOSE x \in S : \A y \in S : x <= y) \in S
         /\ \A z \in S : (CHOOSE x \in S : \A y \in S : x <= y) <= z
<1>. DEFINE Below == {ss \in Nat \X Nat : ss[1] < ss[2]}
<1>1. IsWellFoundedOn(Below, Nat)
  BY NatLessThanWellFounded DEF OpToRel
<1>2. \E x \in S : \A y \in S : <<y, x>> \notin Below
  <2>. HIDE DEF Below
  <2> QED BY <1>1, WFMin
<1>3. \E x \in S : \A y \in S : x <= y
  <2>1. PICK x \in S : \A y \in S : <<y, x>> \notin Below
    BY <1>2
  <2>2. ASSUME NEW y \in S  PROVE x <= y
    <3>1. <<y, x>> \in Nat \X Nat /\ <<y, x>>[1] = y /\ <<y, x>>[2] = x
      OBVIOUS
    <3>2. ~ (y < x)
      BY <2>1, <3>1, <2>2
    <3> QED BY <3>2
  <2> QED BY <2>2
<1> QED BY <1>3

LEMMA NextItemLeast ==
  ASSUME Unstarted # {}
  PROVE  NextItem \in Downloads /\ item[NextItem].state = "none"
<1>1. Unstarted \subseteq Nat
  BY ArtifactAssumption DEF Unstarted, Downloads
<1> QED
  BY <1>1, Least DEF Unstarted, NextItem

LEMMA NextFetchLeast ==
  ASSUME Fresh # {}
  PROVE  /\ NextFetch \in Fetches /\ fetch[NextFetch].step = "none"
         /\ \A k \in Fetches : k < NextFetch => fetch[k].step # "none"
<1>1. Fresh \subseteq Nat
  BY ArtifactAssumption DEF Fresh, Fetches
<1>2. NextFetch \in Fresh /\ \A k \in Fresh : NextFetch <= k
  BY <1>1, Least DEF NextFetch
<1>3. NextFetch \in Nat /\ Fetches \subseteq Nat
  BY <1>1, <1>2, ArtifactAssumption DEF Fetches
<1> QED
  BY <1>2, <1>3 DEF Fresh

LEMMA FirstUnused ==
  ASSUME Unused # {}
  PROVE  LET c == CHOOSE c \in Unused : \A e \in Unused : c <= e
         IN  c \in Captures /\ record[c] = Blank
<1>1. Unused \subseteq Nat
  BY ArtifactAssumption DEF Unused, Captures
<1> QED
  BY <1>1, Least DEF Unused

(* What the page does with an answer, or without one, leaves it an action   *)
(* of the same fetch.                                                       *)
Follow(j, r, n) == JobFine(n, r) /\ n.of = j.of

LEMMA EndingFine ==
  ASSUME NEW r, NEW j, JobFine(j, r), j.of # 0,
         NEW x \in {"file", "bytes", "error"},
         x = "file" => j.capture # 0 /\ r[j.capture].status = "completed"
  PROVE  Follow(j, r, Ending(j, x))
<1> DEFINE stage == IF j.held /\ ~j.released THEN "sweeping" ELSE "closing"
<1>1. j \in Job /\ stage \in {"sweeping", "closing"} /\ (stage = "sweeping" => j.held)
  BY DEF JobFine
<1> HIDE DEF stage
<1>2. Ending(j, x) = [j EXCEPT !.result = x, !.stage = stage]
  BY DEF Ending, stage
<1>3. /\ Ending(j, x) \in Job /\ Ending(j, x).of = j.of
      /\ Ending(j, x).stage = stage /\ Ending(j, x).result = x
      /\ Ending(j, x).capture = j.capture /\ Ending(j, x).held = j.held
      /\ Ending(j, x).chrome = j.chrome
  BY <1>1, <1>2 DEF Job, Stages
<1> QED
  BY <1>1, <1>3 DEF Follow, JobFine, Early, Asking

LEMMA FailedFine ==
  ASSUME NEW r, NEW j, JobFine(j, r), j.of # 0
  PROVE  Follow(j, r, Failed(j))
BY EndingFine DEF Failed

LEMMA FiledFine ==
  ASSUME NEW r, NEW j, JobFine(j, r), j.of # 0, j.chrome = "file"
  PROVE  Follow(j, r, Filed(j))
<1> DEFINE n == [j EXCEPT !.released = TRUE]
<1>1. JobFine(n, r) /\ n.of = j.of /\ n.capture = j.capture
  BY DEF JobFine, Job, Early, Asking
<1>2. j.capture # 0 /\ r[j.capture].status = "completed"
  BY DEF JobFine
<1>3. Follow(n, r, Ending(n, "file"))
  <2> HIDE DEF n
  <2> QED BY <1>1, <1>2, EndingFine
<1> QED
  BY <1>1, <1>3 DEF Filed, Follow

LEMMA CaughtFine ==
  ASSUME NEW r, NEW j, JobFine(j, r), j.of # 0
  PROVE  Follow(j, r, Caught(j))
<1>1. CASE j.held /\ j.chrome # "off" /\ ~j.released
  BY <1>1 DEF Caught, Follow, JobFine, Job, Stages, Early, Asking
<1>2. CASE ~(j.held /\ j.chrome # "off" /\ ~j.released)
  BY <1>2, FailedFine DEF Caught
<1> QED BY <1>1, <1>2

LEMMA RefusedFine ==
  ASSUME NEW r, NEW j, JobFine(j, r), j.of # 0
  PROVE  Follow(j, r, Refused(j))
<1>1. CASE j.stage = "beginning"
  BY <1>1 DEF Refused, Follow, JobFine, Job, Stages, Early, Asking
<1>2. CASE j.stage = "activating"
  BY <1>2 DEF Refused, Follow, JobFine, Job, Stages, Early, Asking
<1>3. CASE j.stage = "dropping"
  BY <1>3 DEF Refused, Follow, JobFine, Job, Stages, Early, Asking
<1>4. CASE j.stage = "opening"
  BY <1>4, CaughtFine DEF Refused
<1>5. CASE j.stage = "releasing"
  BY <1>5, EndingFine DEF Refused
<1>6. CASE j.stage = "recovering"
  BY <1>6, FailedFine DEF Refused
<1>7. CASE j.stage = "sweeping"
  BY <1>7 DEF Refused, Follow, JobFine, Job, Stages, Early, Asking
<1>8. CASE j.stage \notin {"beginning", "activating", "dropping", "opening",
                           "releasing", "recovering", "sweeping"}
  <2>1. Refused(j) = j
    BY <1>8 DEF Refused
  <2> QED BY <2>1 DEF Follow
<1> QED BY <1>1, <1>2, <1>3, <1>4, <1>5, <1>6, <1>7, <1>8

LEMMA DroppedFine ==
  ASSUME NEW r, NEW j, JobFine(j, r), j.of # 0
  PROVE  Follow(j, r, Dropped(j))
<1>1. CASE j.stage \in {"releasing", "recovering"}
  <2> DEFINE n == [j EXCEPT !.released = TRUE]
  <2>1. JobFine(n, r) /\ n.of = j.of
    BY DEF JobFine, Job, Early, Asking
  <2>2. Follow(n, r, Refused(n))
    <3> HIDE DEF n
    <3> QED BY <2>1, RefusedFine
  <2> QED BY <1>1, <2>1, <2>2 DEF Dropped, Follow
<1>2. CASE j.stage \notin {"releasing", "recovering"}
  BY <1>2, RefusedFine DEF Dropped
<1> QED BY <1>1, <1>2

LEMMA AdoptsFine ==
  ASSUME NEW r, NEW j, JobFine(j, r), j.of # 0,
         j.stage \in {"releasing", "recovering"} => r[j.capture].item # 0
  PROVE  Follow(j, r, Adopts(j))
<1>1. CASE j.stage \in {"releasing", "recovering"}
  BY <1>1 DEF Adopts, Follow, JobFine, Job, Stages, Early, Asking
<1>2. CASE j.stage \notin {"releasing", "recovering"}
  BY <1>2, RefusedFine DEF Adopts
<1> QED BY <1>1, <1>2

LEMMA SkippedFine ==
  ASSUME NEW r, NEW j, JobFine(j, r), j.of # 0
  PROVE  Follow(j, r, Skipped(j))
<1>1. CASE j.stage = "activating"
  BY <1>1 DEF Skipped, Follow, JobFine, Job, Stages, Early, Asking
<1>2. CASE j.stage # "activating"
  BY <1>2, DroppedFine DEF Skipped
<1> QED BY <1>1, <1>2

LEMMA RacingFine ==
  ASSUME NEW r, NEW j, JobFine(j, r), j.of # 0
  PROVE  Follow(j, r, Racing(j))
BY DEF Racing, Follow, JobFine, Job, Stages, Early, Asking

(* The wait for a download ends: the page is where it was.                  *)
LEMMA TellFine ==
  ASSUME NEW r, JobFine(job, r), NEW c \in Captures,
         NEW how \in {"file", "failed"},
         how = "file" => r[c].status = "completed"
  PROVE  /\ Follow(job, r, Tell(c, how))
         /\ Tell(c, how) = [job EXCEPT !.chrome = Tell(c, how).chrome]
<1>1. CASE live[c].waiter /\ live[c].on /\ job.capture = c /\ job.chrome = "waiting"
  BY <1>1 DEF Tell, Follow, JobFine, Job, Stages, Early, Asking
<1>2. CASE ~(live[c].waiter /\ live[c].on /\ job.capture = c /\ job.chrome = "waiting")
  BY <1>2 DEF Tell, Follow, JobFine, Job
<1> QED BY <1>1, <1>2

-----------------------------------------------------------------------------
(* What the steps of one part leave of the invariant of another *)

(* A record keeps its fetch, and a completed one its download.              *)
Advance(r, s) ==
    \A c \in Captures :
      /\ r[c].status # "none" => s[c].status # "none" /\ s[c].of = r[c].of
      /\ r[c].status = "completed" => /\ s[c].status = "completed"
                                      /\ s[c].item = r[c].item
      /\ r[c].item # 0 => s[c].item # 0

(* A complete download is not downloaded again.                             *)
Forward ==
    \A d \in Downloads :
      /\ item[d].state # "none" => item'[d].state # "none"
      /\ item[d].state = "complete" =>
           /\ item'[d].state = "complete"
           /\ file'[d] = "captured" => file[d] = "captured"

(* A new claim is on a download that starts now, by a capture there is.     *)
HandsOn ==
    \A c \in Captures, d \in Downloads : Claims(c, d)' =>
      \/ Claims(c, d)
      \/ item[d].state = "none" /\ item'[d].state # "none" /\ record[c].status # "none"

(* No fetch is created, and none comes back.                                *)
FetchSteps ==
    \A k \in Fetches :
      /\ fetch'[k].of = fetch[k].of
      /\ fetch'[k].step = "none" <=> fetch[k].step = "none"
      /\ fetch[k].step = "ended" => fetch'[k].step = "ended"
      /\ fetch[k].step \in Since => fetch'[k].step \in Since

LEMMA JobAdvances ==
  ASSUME NEW r, NEW s, NEW j, JobFine(j, r), Advance(r, s)
  PROVE  JobFine(j, s)
<1>1. j.capture # 0 => j.capture \in Captures
  BY ArtifactAssumption DEF JobFine, Job, Captures
<1>2. j.capture # 0 =>
        /\ r[j.capture].status # "none" => s[j.capture].status # "none" /\ s[j.capture].of = r[j.capture].of
        /\ r[j.capture].status = "completed" => s[j.capture].status = "completed"
        /\ r[j.capture].item # 0 => s[j.capture].item # 0
  BY <1>1 DEF Advance
<1> QED
  BY <1>2 DEF JobFine

LEMMA RecordStays == Advance(record, record)
BY DEF Advance

LEMMA JobStays ==
  ASSUME PageInv
  PROVE  Follow(job, record, job)
BY DEF PageInv, Follow

LEMMA AnsweredKept ==
  ASSUME AnsweredGood, Advance(record, record'),
         \A k \in Fetches : fetch'[k].item # 0 => fetch[k].item = fetch'[k].item,
         \A c \in Captures : record[c].status = "completed" => record[c].status # "none"
  PROVE  AnsweredGood'
<1> SUFFICES ASSUME NEW k \in Fetches, fetch'[k].item # 0
             PROVE  \E c \in Captures : /\ record'[c].of = k
                                        /\ record'[c].status = "completed"
                                        /\ record'[c].item = fetch'[k].item
  BY DEF AnsweredGood, Answered
<1>1. PICK c \in Captures : /\ record[c].of = k
                            /\ record[c].status = "completed"
                            /\ record[c].item = fetch[k].item
  BY DEF AnsweredGood, Answered
<1> QED
  BY <1>1 DEF Advance

LEMMA FetchesKept ==
  ASSUME FetchesGood, FetchSteps,
         \A k \in Fetches : fetch'[k].step \in {"none", "sent", "orphan"} => fetch'[k].item = 0
  PROVE  FetchesGood'
BY DEF FetchesGood, FetchSteps, At

(* What the page and the background name exists.                            *)
LEMMA InRange ==
  ASSUME TypeOK
  PROVE  /\ job.of # 0 => job.of \in Fetches
         /\ op.of # 0 => op.of \in Fetches
         /\ \A c \in Captures : record[c].of # 0 => record[c].of \in Fetches
         /\ \A i \in 1..Len(queue) : queue[i] \in Fetches
         /\ \A d \in Downloads : /\ d # 0 /\ d \in 0..MaxDownloads
                                 /\ item[d] \in Item /\ item[d].near \subseteq Captures
<1>1. \A n \in 0..MaxFetches : n # 0 => n \in Fetches
  BY ArtifactAssumption DEF Fetches
<1>2. job.of \in 0..MaxFetches
  BY DEF TypeOK, Job
<1>3. op.of \in 0..MaxFetches
  BY DEF TypeOK, Operation
<1>4. \A c \in Captures : record[c].of \in 0..MaxFetches
  BY DEF TypeOK, Record
<1>5. \A i \in 1..Len(queue) : queue[i] \in Fetches
  BY ElementOfSeq DEF TypeOK
<1>6. \A d \in Downloads : d # 0 /\ d \in 0..MaxDownloads
  BY ArtifactAssumption DEF Downloads
<1>7. \A d \in Downloads : item[d] \in Item /\ item[d].near \subseteq Captures
  BY DEF TypeOK, Item
<1> QED BY <1>1, <1>2, <1>3, <1>4, <1>5, <1>6, <1>7

LEMMA PageKept ==
  ASSUME TypeOK, PageInv, FetchSteps, queue' = queue,
         Follow(job, record, job') \/ Follow(job, record', job'),
         Advance(record, record'),
         OpGood', Asks(op, job)', op'.of \in {0, op.of, job.of},
         \A c \in Captures : record'[c].of \in {0, op.of, record[c].of}
  PROVE  PageInv'
<1>1. JobFine(job', record')
  BY JobAdvances DEF Follow
<1>2. \A k \in Fetches : Acted(fetch, k) => Acted(fetch', k)
  BY DEF FetchSteps, Acted
<1>3. /\ job.of # 0 => job.of \in Fetches
      /\ op.of # 0 => op.of \in Fetches
      /\ \A c \in Captures : record[c].of # 0 => record[c].of \in Fetches
  BY InRange
<1>4. \A i \in 1..Len(queue) : queue[i] \in Fetches
  BY InRange
<1>5. ActedGood'
  <2>1. \A i \in 1..Len(queue') : Acted(fetch', queue'[i])
    BY <1>2, <1>4 DEF PageInv, ActedGood
  <2>2. job'.of # 0 => Acted(fetch', job'.of)
    BY <1>2, <1>3 DEF PageInv, ActedGood, Follow
  <2>3. op'.of # 0 => Acted(fetch', op'.of)
    BY <1>2, <1>3 DEF PageInv, ActedGood
  <2>4. \A c \in Captures : record'[c].of # 0 => Acted(fetch', record'[c].of)
    BY <1>2, <1>3 DEF PageInv, ActedGood
  <2> QED BY <2>1, <2>2, <2>3, <2>4 DEF ActedGood
<1> QED
  BY <1>1, <1>5 DEF PageInv

LEMMA ClaimsKept ==
  ASSUME TypeOK, StartedGood, AnsweredGood, ActedGood, FetchesGood, ClaimsGood,
         Advance(record, record'), HandsOn,
         \A k \in Fetches : /\ fetch[k].step # "none" => fetch'[k].of = fetch[k].of
                            /\ fetch'[k].item \in {0, fetch[k].item},
         \A c \in Captures, d \in Downloads :
            Claims(c, d) /\ record[c].status # "none" => record[c].of # 0
  PROVE  ClaimsGood'
<1> SUFFICES ASSUME NEW k \in Fetches, NEW c \in Captures, NEW d \in Downloads,
                    fetch'[k].item = d, record'[c].of # 0, k < record'[c].of,
                    fetch'[record'[c].of].of = fetch'[k].of,
                    Claims(c, d)'
             PROVE  FALSE
  BY DEF ClaimsGood
<1>1. d # 0 /\ d \in 1..MaxDownloads
  BY ArtifactAssumption DEF Downloads
<1>2. fetch[k].item = d
  BY <1>1
<1>3. PICK e \in Captures : /\ record[e].of = k
                            /\ record[e].status = "completed"
                            /\ record[e].item = d
  BY <1>1, <1>2 DEF AnsweredGood, Answered
<1>4. item[d].state # "none"
  BY <1>3 DEF StartedGood, Claims
<1>5. Claims(c, d)
  BY <1>4 DEF HandsOn
<1>6. record[c].status # "none" /\ record'[c].of = record[c].of /\ record[c].of # 0
  BY <1>5 DEF StartedGood, Advance
<1>7. record[c].of \in Fetches /\ fetch[record[c].of].step # "none"
  BY <1>6, ArtifactAssumption DEF TypeOK, Record, Fetches, ActedGood, Acted
<1>8. fetch[k].step # "none"
  BY <1>1, <1>2 DEF FetchesGood
<1> QED
  BY <1>2, <1>5, <1>6, <1>7, <1>8 DEF ClaimsGood

LEMMA StartedKept ==
  ASSUME StartedGood, Advance(record, record'), HandsOn,
         \A d \in Downloads : item[d].state # "none" => item'[d].state # "none",
         \A w \in writes' : w.kind = "bind" => w.item # 0,
         op'.kind = "search" => op'.item # 0,
         \A d \in Downloads : file'[d] # "absent" => item'[d].state = "complete"
  PROVE  StartedGood'
<1>1. \A c \in Captures, d \in Downloads : Claims(c, d)' =>
        item'[d].state # "none" /\ record'[c].status # "none"
  BY DEF StartedGood, HandsOn, Advance
<1> QED
  BY <1>1 DEF StartedGood

(* A step that leaves the copies alone.                                     *)
LEMMA ImportsKept ==
  ASSUME TypeOK, ImportsGood, Forward, UNCHANGED <<store, taken>>,
         \A k \in Fetches : \/ fetch'[k] = fetch[k]
                            \/ fetch'[k].step \notin InStore \union {"remove"}
  PROVE  ImportsGood'
<1> SUFFICES ASSUME NEW k \in Fetches
             PROVE  ImportGood(k)'
  BY DEF ImportsGood
<1>1. CASE fetch'[k].step \notin InStore \union {"remove"}
  BY <1>1 DEF ImportGood, At, InStore
<1>2. CASE fetch'[k] = fetch[k]
  <2>1. ImportGood(k)
    BY DEF ImportsGood
  <2>2. Indexed' = Indexed /\ \A d : Copied(d)' = Copied(d)
    BY DEF Indexed, Copied
  <2>3. fetch[k].item # 0 => fetch[k].item \in Downloads
    BY ArtifactAssumption DEF TypeOK, Fetch, Downloads
  <2>4. fetch[k].step \in InStore \union {"remove"} /\ fetch[k].item # 0 =>
           /\ item'[fetch[k].item].state = "complete"
           /\ file'[fetch[k].item] = "captured" => file[fetch[k].item] = "captured"
    BY <2>1, <2>3 DEF ImportGood, Forward
  <2> QED
    BY <1>2, <2>1, <2>2, <2>4 DEF ImportGood, At, InStore
<1> QED
  BY <1>1, <1>2

LEMMA CopiesKept ==
  ASSUME TypeOK, CopiesGood, UNCHANGED <<store, taken>>,
         \A k \in Fetches : /\ fetch[k].step # "none" => /\ fetch'[k].step # "none"
                                                         /\ fetch'[k].of = fetch[k].of
                            /\ fetch[k].step \in Since => fetch'[k].step \in Since,
         \A i \in Images : image'[i] = "ready" => image[i] = "ready" \/ Stored(i)
  PROVE  CopiesGood'
<1>1. \A a \in Artifacts : Stored(a) => store.index[a].by \in Fetches
  BY DEF TypeOK, Stored, Indexes, Contents
<1>2. \A copy \in taken.dropped : copy.by \in Fetches
  BY DEF TypeOK, Contents
<1>3. \A a \in Artifacts : Stored(a)' = Stored(a)
  BY DEF Stored
<1>4. \A d : Copied(d)' = Copied(d)
  BY DEF Copied, Indexed
<1>5. \A a \in Artifacts : Stored(a) =>
         /\ store.index[a] \in store.disk
         /\ fetch'[store.index[a].by].of = a
         /\ fetch'[store.index[a].by].step \in Since
  BY <1>1 DEF CopiesGood, Since
<1>6. \A copy \in taken.dropped : /\ fetch'[copy.by].step # "none"
                                  /\ fetch'[copy.by].of = fetch[copy.by].of
  BY <1>2 DEF CopiesGood
<1>7. \A i \in Images : Stored(i)' = Stored(i)
  BY <1>3 DEF Artifacts
<1>8. \A i \in Images : image'[i] = "ready" =>
         Stored(i) \/ \E copy \in taken.dropped : fetch'[copy.by].of = i
  BY <1>6 DEF CopiesGood
<1> QED
  BY <1>3, <1>4, <1>5, <1>6, <1>7, <1>8 DEF CopiesGood

-----------------------------------------------------------------------------
(* The steps of the page and of the background, which leave the fetches and *)
(* the store alone                                                          *)

(* The page follows what it asked for, the queue works on what was asked.   *)
Turn == /\ Follow(job, record, job') \/ Follow(job, record', job')
        /\ OpGood' /\ Asks(op', job')
        /\ op'.of \in {0, op.of, job.of}

(* Downloads are claimed only when they start.                              *)
Handles == /\ HandsOn /\ Forward
           /\ \A w \in writes' : w.kind = "bind" => w.item # 0
           /\ op'.kind = "search" => op'.item # 0
           /\ \A d \in Downloads : file'[d] # "absent" => item'[d].state = "complete"

LEMMA BackStep ==
  ASSUME Inv, UNCHANGED <<queue, fetch, store, taken, image>>,
         TypeOK', CapturesGood', Turn, Handles, Advance(record, record'),
         \A c \in Captures : record'[c].of \in {0, op.of, record[c].of}
  PROVE  Inv'
<1>1. FetchSteps
  BY DEF FetchSteps
<1>2. PageInv'
  <2>1. Asks(op, job)'
    BY DEF Turn
  <2> QED BY <1>1, <2>1, PageKept DEF Inv, Turn
<1>3. FetchesGood'
  BY <1>1, FetchesKept DEF Inv, FetchesGood
<1>4. AnsweredGood'
  BY AnsweredKept DEF Inv
<1>5. StartedGood'
  BY StartedKept DEF Inv, ClaimInv, Handles, Forward
<1>6. ClaimsGood'
  <2>1. \A c \in Captures, d \in Downloads :
            Claims(c, d) /\ record[c].status # "none" => record[c].of # 0
    BY DEF Inv, CapturesGood
  <2> QED BY <2>1, ClaimsKept DEF Inv, PageInv, ClaimInv, Handles
<1>7. ImportsGood'
  BY ImportsKept DEF Inv, ServerInv, Handles
<1>8. CopiesGood'
  BY CopiesKept DEF Inv, ServerInv
<1> QED
  BY <1>2, <1>3, <1>4, <1>5, <1>6, <1>7, <1>8 DEF Inv, ClaimInv, ServerInv

(* A step that starts no download and binds none.                           *)
LEMMA HandsFree ==
  ASSUME Inv, UNCHANGED <<item, file>>,
         \A w \in writes' : w \in writes \/ w.kind # "bind",
         op'.kind = "search" => op'.kind = op.kind /\ op'.item = op.item /\ op'.capture = op.capture,
         \A c \in Captures : /\ record'[c].item \in {0, record[c].item}
                             /\ live'[c].item \in {0, live[c].item, record[c].item}
  PROVE  Handles
<1>1. \A d \in Downloads : d # 0
  BY ArtifactAssumption DEF Downloads
<1>2. HandsOn
  BY <1>1 DEF HandsOn, Claims
<1> QED
  BY <1>2 DEF Handles, Forward, Inv, ClaimInv, StartedGood

(* An answer is given, and heard or not.                                    *)
LEMMA ReplyTurn ==
  ASSUME Inv, NEW j, Reply(j), op.heard => Follow(job, record, j)
  PROVE  Turn
<1>1. Follow(job, record, job')
  BY JobStays DEF Inv, Reply
<1> QED
  BY <1>1 DEF Turn, Reply, NoOp, OpGood, Asks

(* What the page asked, when it hears an answer.                            *)
LEMMA Heard1 ==
  ASSUME Inv, op.heard
  PROVE  JobFine(job, record) /\ job.of # 0 /\ job.stage \in Asking
BY DEF Inv, PageInv, Asks, JobFine, Asking

LEMMA BlankType ==
  /\ NoOp \in Operation /\ Gone \in Live /\ Blank \in Record /\ Idle \in Job
BY ArtifactAssumption DEF NoOp, Operation, Gone, Live, Blank, Record, Statuses,
                          Idle, Job, Stages

LEMMA BeginInv ==
  ASSUME Inv, Begin  PROVE Inv'
<1> USE DEF Begin, page, chrome, server
<1>1. /\ op.capture \in Captures /\ op \in Operation /\ op.of # 0
      /\ record[op.capture] = Blank
  BY ArtifactAssumption DEF Inv, TypeOK, PageInv, OpGood, Operation, Captures
<1>2. TypeOK'
  <2>1. record' \in [Captures -> Record]
    <3>1. [Blank EXCEPT !.status = "planned", !.of = op.of, !.lease = lease] \in Record
      BY <1>1, ArtifactAssumption DEF Inv, TypeOK, Operation, Record, Blank, Statuses
    <3> QED BY <1>1, <3>1 DEF Inv, TypeOK
  <2>2. live' \in [Captures -> Live]
    <3>1. [Gone EXCEPT !.on = TRUE, !.mine = port, !.named = TRUE] \in Live
      BY BlankType DEF Inv, TypeOK, Live
    <3> QED BY <1>1, <3>1 DEF Inv, TypeOK
  <2>3. op' \in Operation
    BY <1>1 DEF Operation
  <2> QED BY <2>1, <2>2, <2>3 DEF Inv, TypeOK
<1>3. CapturesGood'
  BY <1>1 DEF Inv, TypeOK, CapturesGood, Blank, Gone
<1>4. Turn
  <2>1. Follow(job, record, job') /\ op'.of = op.of
    BY <1>1, JobStays DEF Inv, Operation
  <2>2. OpGood'
    <3>1. op' = [op EXCEPT !.kind = "arm"]
      OBVIOUS
    <3>2. record'[op.capture].status = "planned" /\ record'[op.capture].of = op.of
      BY <1>1 DEF Inv, TypeOK, Blank
    <3>3. op.capture # 0
      BY DEF Inv, PageInv, OpGood
    <3> QED BY <1>1, <3>1, <3>2, <3>3 DEF OpGood, Operation
  <2>3. Asks(op', job')
    BY <1>1 DEF Inv, PageInv, Asks, Operation
  <2> QED BY <2>1, <2>2, <2>3 DEF Turn
<1>5. Handles
  BY <1>1, HandsFree DEF Inv, TypeOK, Operation, Blank, Gone
<1>6. Advance(record, record')
  BY <1>1 DEF Inv, TypeOK, Advance, Blank
<1>7. \A c \in Captures : record'[c].of \in {0, op.of, record[c].of}
  BY <1>1 DEF Inv, TypeOK
<1> QED BY <1>2, <1>3, <1>4, <1>5, <1>6, <1>7, BackStep

LEMMA ArmInv ==
  ASSUME Inv, Arm  PROVE Inv'
<1> USE DEF Arm, chrome, server
<1>1. /\ op.capture \in Captures /\ op \in Operation
      /\ record[op.capture].status # "none" /\ record[op.capture].of = op.of
      /\ record[op.capture] \in Record
  BY ArtifactAssumption DEF Inv, TypeOK, PageInv, OpGood, Operation, Captures
<1>2. CASE Accepts(op.capture, "armed")
  <2> DEFINE j == [job EXCEPT !.stage = "checking", !.held = TRUE, !.capture = op.capture]
  <2>1. op.heard => Follow(job, record, j)
    <3> SUFFICES ASSUME op.heard PROVE Follow(job, record, j)
      OBVIOUS
    <3>1. job.stage = "beginning" /\ op.of = job.of /\ JobFine(job, record)
      BY DEF Inv, PageInv, Asks
    <3>2. job \in Job /\ op.capture \in 0..MaxCaptures /\ op.capture # 0
      BY <1>1, <3>1, ArtifactAssumption DEF JobFine, Operation, Captures
    <3>3. j \in Job
      BY <3>2 DEF Job, Stages
    <3> QED
      BY <1>1, <3>1, <3>2, <3>3 DEF Follow, JobFine, Job, Early, Asking
  <2>2. Reply(j) /\ live' = live /\ record' = [record EXCEPT ![op.capture].status = "armed"]
    BY <1>2
  <2>3. Turn
    <3> HIDE DEF j
    <3> QED BY <2>1, <2>2, ReplyTurn
  <2>4. TypeOK'
    <3>1. job' \in Job
      BY <2>3 DEF Turn, Follow, JobFine
    <3>2. record' \in [Captures -> Record]
      BY <1>1, <2>2 DEF Inv, TypeOK, Record, Statuses
    <3>3. op' \in Operation
      BY <2>2, BlankType DEF Reply
    <3> QED BY <2>2, <3>1, <3>2, <3>3 DEF Inv, TypeOK
  <2>5. CapturesGood'
    BY <1>1, <2>2, <1>2 DEF Inv, TypeOK, CapturesGood, Record, Accepts, Follows
  <2>6. Handles
    <3>1. op'.kind # "search"
      BY <2>2 DEF Reply, NoOp
    <3> QED BY <1>1, <2>2, <3>1, HandsFree DEF Inv, TypeOK, Record
  <2>7. Advance(record, record')
    BY <1>1, <1>2, <2>2 DEF Inv, TypeOK, Advance, Record, Accepts, Follows
  <2>8. \A c \in Captures : record'[c].of \in {0, op.of, record[c].of}
    BY <1>1, <2>2 DEF Inv, TypeOK, Record
  <2> QED BY <2>3, <2>4, <2>5, <2>6, <2>7, <2>8, BackStep
<1>3. CASE ~Accepts(op.capture, "armed")
  <2>1. /\ Reply(Refused(job)) /\ record' = record
        /\ live' = [live EXCEPT ![op.capture] = Gone]
    BY <1>3
  <2>2. Turn
    BY <2>1, ReplyTurn, RefusedFine, Heard1
  <2>3. TypeOK'
    <3>1. job' \in Job
      BY <2>2 DEF Turn, Follow, JobFine
    <3>2. live' \in [Captures -> Live]
      BY <1>1, <2>1, BlankType DEF Inv, TypeOK
    <3>3. op' \in Operation
      BY <2>1, BlankType DEF Reply
    <3> QED BY <2>1, <3>1, <3>2, <3>3 DEF Inv, TypeOK
  <2>4. CapturesGood'
    BY <1>1, <2>1 DEF Inv, TypeOK, CapturesGood, Gone
  <2>5. Handles
    <3>1. op'.kind # "search"
      BY <2>1 DEF Reply, NoOp
    <3> QED BY <1>1, <2>1, <3>1, HandsFree DEF Inv, TypeOK, Gone
  <2> QED BY <2>1, <2>2, <2>3, <2>4, <2>5, RecordStays, BackStep
<1> QED BY <1>2, <1>3

(* An operation that only answers.                                          *)
LEMMA ReplyInv ==
  ASSUME Inv, NEW j, Reply(j), op.heard => Follow(job, record, j),
         UNCHANGED <<queue, clicks, port, lease, record, live, stop, writes,
                     chrome, server>>,
         faults' \in 0..MaxFaults
  PROVE  Inv'
<1> USE DEF chrome, server
<1>1. Turn
  BY ReplyTurn
<1>2. TypeOK'
  <2>1. job' \in Job
    BY <1>1 DEF Turn, Follow, JobFine
  <2>2. op' \in Operation
    BY BlankType DEF Reply
  <2> QED BY <2>1, <2>2 DEF Inv, TypeOK
<1>3. CapturesGood'
  BY DEF Inv, CapturesGood
<1>4. Handles
  BY HandsFree DEF Reply, NoOp, Inv, TypeOK
<1> QED BY <1>1, <1>2, <1>3, <1>4, RecordStays, BackStep

LEMMA FaultType ==
  ASSUME TypeOK, Fault \/ UNCHANGED faults
  PROVE  faults' \in 0..MaxFaults
BY ArtifactAssumption DEF TypeOK, Fault

LEMMA OpCapture ==
  ASSUME Inv, op.kind # "none"
  PROVE  /\ op.capture \in Captures /\ op.capture # 0 /\ op \in Operation
         /\ record[op.capture] \in Record /\ live[op.capture] \in Live
BY ArtifactAssumption DEF Inv, TypeOK, PageInv, OpGood, Operation, Captures

LEMMA ActivateInv ==
  ASSUME Inv, Activate  PROVE Inv'
<1> USE DEF Activate, chrome, server
<1> DEFINE c == op.capture
<1>1. /\ c \in Captures /\ c # 0 /\ op \in Operation /\ op.kind \in {"activate", "start"}
      /\ record[c] \in Record /\ live[c] \in Live
  BY OpCapture
<1>2. CASE ~ (Reachable(c) /\ (Unbound(c) => record[c].status \in {"planned", "armed", "bound"}))
  <2>1. Reply(Refused(job)) /\ UNCHANGED <<record, live, faults>>
    BY <1>2
  <2> QED BY <2>1, ReplyInv, RefusedFine, Heard1, FaultType DEF Inv
<1>3. CASE Reachable(c) /\ (Unbound(c) => record[c].status \in {"planned", "armed", "bound"})
  <2>1. /\ record' = [record EXCEPT ![c].active = @ \/ Unbound(c)]
        /\ live' = [live EXCEPT ![c].active = @ \/ Unbound(c)]
        /\ Reply([job EXCEPT !.stage = "starting"]) \/ UNCHANGED <<op, job>>
    BY <1>3
  <2>2. Advance(record, record')
    BY <1>1, <2>1 DEF Inv, TypeOK, Advance, Record
  <2>3. Turn
    <3>1. CASE UNCHANGED <<op, job>>
      <4>1. OpGood'
        BY <1>1, <2>1, <3>1 DEF Inv, TypeOK, PageInv, OpGood, Record
      <4> QED BY <3>1, <4>1, JobStays DEF Turn, Inv, PageInv
    <3>2. CASE Reply([job EXCEPT !.stage = "starting"])
      <4>1. op.heard => Follow(job, record, [job EXCEPT !.stage = "starting"])
        BY Heard1 DEF Follow, JobFine, Job, Stages, Early, Asking
      <4> QED BY <3>2, <4>1, ReplyTurn
    <3> QED BY <2>1, <3>1, <3>2
  <2>4. TypeOK'
    <3>1. record' \in [Captures -> Record]
      <4>1. [record[c] EXCEPT !.active = @ \/ Unbound(c)] \in Record
        BY <1>1 DEF Record, Unbound
      <4> QED BY <1>1, <2>1, <4>1 DEF Inv, TypeOK
    <3>2. live' \in [Captures -> Live]
      <4>1. [live[c] EXCEPT !.active = @ \/ Unbound(c)] \in Live
        BY <1>1 DEF Live, Unbound
      <4> QED BY <1>1, <2>1, <4>1 DEF Inv, TypeOK
    <3>3. job' \in Job
      BY <2>3 DEF Turn, Follow, JobFine
    <3>4. op' \in Operation
      BY <1>1, <2>1, BlankType DEF Reply
    <3> QED BY <3>1, <3>2, <3>3, <3>4 DEF Inv, TypeOK
  <2>5. CapturesGood'
    BY <1>1, <1>3, <2>1 DEF Inv, TypeOK, CapturesGood, Record, Live, Reachable
  <2>6. Handles
    <3>1. op'.kind # "search"
      BY <1>1, <2>1 DEF Reply, NoOp
    <3> QED BY <1>1, <2>1, <3>1, HandsFree DEF Inv, TypeOK, Record, Live
  <2>7. \A e \in Captures : record'[e].of \in {0, op.of, record[e].of}
    BY <1>1, <2>1 DEF Inv, TypeOK, Record
  <2> QED BY <2>2, <2>3, <2>4, <2>5, <2>6, <2>7, BackStep
<1> QED BY <1>2, <1>3

LEMMA StartUrlInv ==
  ASSUME Inv, StartUrl  PROVE Inv'
<1> USE DEF chrome, server
<1> DEFINE c == op.capture
           d == NextItem
<1>1. /\ c \in Captures /\ c # 0 /\ op \in Operation /\ op.kind = "start"
      /\ record[c] \in Record /\ live[c] \in Live
  BY OpCapture DEF StartUrl
<1>2. CASE Reply(Refused(job)) /\ UNCHANGED <<item, news>>
  <2>1. Fault \/ UNCHANGED faults
    BY <1>1, <1>2 DEF StartUrl, Reply, NoOp
  <2>2. UNCHANGED <<queue, clicks, port, lease, record, live, stop, writes, file, server>>
    BY DEF StartUrl
  <2> QED BY <1>2, <2>1, <2>2, ReplyInv, RefusedFine, Heard1, FaultType DEF Inv
<1>3. CASE /\ Reachable(c) /\ Unstarted # {}
           /\ item' = Started(d) /\ news' = news \union {d}
           /\ op' = [op EXCEPT !.kind = "search", !.item = d]
           /\ UNCHANGED <<job, faults>>
  <2>1. d \in Downloads /\ item[d].state = "none"
    BY <1>3, NextItemLeast
  <2>2. UNCHANGED <<queue, clicks, port, lease, record, live, stop, writes, file, server>>
    BY DEF StartUrl
  <2>3. d # 0 /\ d \in 0..MaxDownloads
    BY <2>1, ArtifactAssumption DEF Downloads
  <2>4. Active \subseteq Captures /\ c \in Captures /\ live[c].on
    BY <1>1, <1>3 DEF Active, Reachable
  <2>5. item' = [item EXCEPT ![d] = [state |-> "in_progress", near |-> Active]]
    BY <1>3 DEF Started
  <2> HIDE DEF d
  <2>6. TypeOK'
    <3>1. item' \in [Downloads -> Item]
      BY <2>1, <2>4, <2>5 DEF Inv, TypeOK, Item
    <3>2. op' \in Operation
      BY <1>1, <1>3, <2>3 DEF Operation
    <3>3. news' \subseteq Downloads
      BY <1>3, <2>1 DEF Inv, TypeOK
    <3> QED BY <1>3, <2>2, <3>1, <3>2, <3>3 DEF Inv, TypeOK
  <2>7. CapturesGood'
    BY <2>2 DEF Inv, CapturesGood
  <2>8. Turn
    <3>1. OpGood'
      BY <1>1, <1>3 DEF OpGood, Operation
    <3>2. Asks(op', job')
      BY <1>1, <1>3 DEF Inv, PageInv, Asks, Operation
    <3>3. op'.of = op.of
      BY <1>1, <1>3 DEF Operation
    <3> QED BY <1>3, <3>1, <3>2, <3>3, JobStays DEF Turn, Inv
  <2>9. Handles
    <3>1. HandsOn
      <4> SUFFICES ASSUME NEW b \in Captures, NEW e \in Downloads, Claims(b, e)'
                   PROVE  \/ Claims(b, e)
                          \/ item[e].state = "none" /\ item'[e].state # "none" /\ record[b].status # "none"
        BY DEF HandsOn
      <4>1. CASE e = d
        <5>1. record[b].status # "none"
          <6>1. live[b].on \/ Claims(b, e)
            BY <4>1, <1>1, <1>3, <2>1, <2>2, <2>4, <2>5 DEF Claims, Active, Inv, TypeOK, Operation
          <6> QED BY <6>1 DEF Inv, CapturesGood, ClaimInv, StartedGood
        <5> QED BY <4>1, <5>1, <2>1, <2>5 DEF Inv, TypeOK
      <4>2. CASE e # d
        <5>1. item'[e] = item[e]
          BY <4>2, <2>1, <2>5 DEF Inv, TypeOK
        <5>2. op'.item = d
          BY <1>1, <1>3 DEF Operation
        <5> QED BY <4>2, <5>1, <5>2, <2>2 DEF Claims
      <4> QED BY <4>1, <4>2
    <3>2. Forward
      BY <2>1, <2>2, <2>5 DEF Forward, Inv, TypeOK
    <3>3. op'.item # 0
      BY <1>1, <1>3, <2>3 DEF Operation
    <3>4. \A e \in Downloads : file'[e] # "absent" => item'[e].state = "complete"
      BY <2>1, <2>2, <2>5 DEF Inv, TypeOK, ClaimInv, StartedGood
    <3> QED BY <2>2, <3>1, <3>2, <3>3, <3>4 DEF Handles, Inv, ClaimInv, StartedGood
  <2> QED BY <2>2, <2>6, <2>7, <2>8, <2>9, RecordStays, BackStep
<1> QED BY <1>2, <1>3 DEF StartUrl

LEMMA SearchInv ==
  ASSUME Inv, Search  PROVE Inv'
<1> USE DEF chrome, server
<1> DEFINE c == op.capture
           d == op.item
           seen == item[d].state
<1>1. /\ c \in Captures /\ c # 0 /\ op \in Operation /\ op.kind = "search"
      /\ record[c] \in Record /\ live[c] \in Live
  BY OpCapture DEF Search
<1>2. d \in Downloads /\ d # 0 /\ d \in 0..MaxDownloads
  BY <1>1, ArtifactAssumption DEF Inv, ClaimInv, StartedGood, Operation, Downloads
<1>3. UNCHANGED <<queue, clicks, port, lease, record, live, stop, chrome, server, faults>>
  BY DEF Search
<1>4. seen \in {"in_progress", "complete", "interrupted"}
  <2>1. Claims(c, d)
    BY <1>1 DEF Claims
  <2>2. seen # "none"
    BY <1>1, <1>2, <2>1 DEF Inv, ClaimInv, StartedGood
  <2> QED BY <1>2, <2>2 DEF Inv, TypeOK, Item
<1>5. CASE Reply(Refused(job)) /\ UNCHANGED writes
  BY <1>3, <1>5, ReplyInv, RefusedFine, Heard1, FaultType DEF Inv
<1>6. CASE /\ writes' = writes \union {Bind(c, d, TRUE, seen)}
           /\ op' = [op EXCEPT !.kind = "bind"]
           /\ UNCHANGED job
  <2>1. Bind(c, d, TRUE, seen) \in Write
    BY <1>1, <1>2, <1>4 DEF Bind, Write
  <2>2. TypeOK'
    <3>1. op' \in Operation
      BY <1>1, <1>6 DEF Operation
    <3> QED BY <1>3, <1>6, <2>1, <3>1 DEF Inv, TypeOK
  <2>3. CapturesGood'
    BY <1>3 DEF Inv, CapturesGood
  <2>4. Turn
    <3>1. OpGood'
      BY <1>1, <1>6 DEF OpGood, Operation
    <3>2. Asks(op', job')
      BY <1>1, <1>6 DEF Inv, PageInv, Asks, Operation
    <3>3. op'.of = op.of
      BY <1>1, <1>6 DEF Operation
    <3> QED BY <1>6, <3>1, <3>2, <3>3, JobStays DEF Turn, Inv
  <2>5. Handles
    <3>1. HandsOn
      BY <1>1, <1>3, <1>6 DEF HandsOn, Claims, Bind
    <3>2. op'.kind = "bind"
      BY <1>1, <1>6 DEF Operation
    <3> QED BY <1>2, <1>3, <1>6, <3>1, <3>2 DEF Handles, Forward, Inv, ClaimInv, StartedGood, Bind
  <2> QED BY <1>3, <2>2, <2>3, <2>4, <2>5, RecordStays, BackStep
<1>7. CASE /\ writes' = writes \union Update(c, d, seen)
           /\ Reply(Racing(job))
  <2>1. \A w \in Update(c, d, seen) : w \in Write /\ w.kind # "bind"
    BY <1>1, <1>2, <1>4 DEF Update, Bind, Write
  <2>2. Turn
    BY <1>7, ReplyTurn, RacingFine, Heard1
  <2>3. TypeOK'
    <3>1. op' \in Operation /\ job' \in Job
      BY <1>7, <2>2, BlankType DEF Reply, Turn, Follow, JobFine
    <3> QED BY <1>3, <1>7, <2>1, <3>1 DEF Inv, TypeOK
  <2>4. CapturesGood'
    BY <1>3 DEF Inv, CapturesGood
  <2>5. Handles
    BY <1>3, <1>7, <2>1, HandsFree DEF Reply, NoOp, Inv, TypeOK
  <2> QED BY <1>3, <2>2, <2>3, <2>4, <2>5, RecordStays, BackStep
<1> QED BY <1>5, <1>6, <1>7 DEF Search

(* What the page asked to give up has a download: the record says so too.   *)
LEMMA AdoptsTurn ==
  ASSUME Inv, op.kind \in {"release", "cancel"}, live[op.capture].item # 0, op.heard
  PROVE  Follow(job, record, Adopts(job))
<1>1. op.capture \in Captures
  BY OpCapture
<1>2. JobFine(job, record) /\ job.of # 0 /\ op.capture = job.capture
  BY Heard1 DEF Inv, PageInv, Asks
<1>3. record[op.capture].item # 0
  BY <1>1 DEF Inv, CapturesGood
<1> QED BY <1>2, <1>3, AdoptsFine

LEMMA ReleaseInv ==
  ASSUME Inv, Release  PROVE Inv'
<1>1. UNCHANGED <<queue, clicks, port, lease, record, live, stop, writes, chrome, server, faults>>
  BY DEF Release
<1>2. faults' \in 0..MaxFaults
  BY <1>1, FaultType DEF Inv
<1>3. CASE Reply(Dropped(job))
  BY <1>1, <1>2, <1>3, ReplyInv, DroppedFine, Heard1
<1>4. CASE Reply(Refused(job))
  BY <1>1, <1>2, <1>4, ReplyInv, RefusedFine, Heard1
<1>5. CASE live[op.capture].item # 0 /\ Reply(Adopts(job))
  BY <1>1, <1>2, <1>5, ReplyInv, AdoptsTurn DEF Release
<1>6. CASE op' = [op EXCEPT !.kind = "cancel"] /\ UNCHANGED job
  <2> USE DEF chrome, server
  <2>1. op \in Operation /\ op.kind = "release" /\ op.capture # 0
    BY OpCapture DEF Release
  <2>2. op' \in Operation /\ op'.kind = "cancel" /\ op'.capture = op.capture
        /\ op'.heard = op.heard /\ op'.of = op.of
    BY <1>6, <2>1 DEF Operation
  <2>3. TypeOK'
    BY <1>1, <1>6, <2>2 DEF Inv, TypeOK
  <2>4. CapturesGood'
    BY <1>1 DEF Inv, CapturesGood
  <2>5. Turn
    BY <1>6, <2>1, <2>2, JobStays DEF Turn, Inv, PageInv, OpGood, Asks
  <2>6. Handles
    BY <1>1, <2>2, HandsFree DEF Inv, TypeOK
  <2> QED BY <1>1, <2>3, <2>4, <2>5, <2>6, RecordStays, BackStep
<1> QED BY <1>3, <1>4, <1>5, <1>6 DEF Release

LEMMA CancelInv ==
  ASSUME Inv, Cancel  PROVE Inv'
<1> DEFINE c == op.capture
<1>1. UNCHANGED <<queue, clicks, port, lease, record, stop, writes, chrome, server, faults>>
  BY DEF Cancel
<1>2. faults' \in 0..MaxFaults
  BY <1>1, FaultType DEF Inv
<1>3. op.kind = "cancel" /\ op \in Operation /\ c # 0 /\ c \in Captures
  BY OpCapture DEF Cancel
<1>4. CASE Reply(Dropped(job)) /\ UNCHANGED live
  BY <1>1, <1>2, <1>4, ReplyInv, DroppedFine, Heard1
<1>5. CASE Reply(Refused(job)) /\ UNCHANGED live
  BY <1>1, <1>2, <1>5, ReplyInv, RefusedFine, Heard1
<1>6. CASE live[op.capture].item # 0 /\ Reply(Adopts(job)) /\ UNCHANGED live
  BY <1>1, <1>2, <1>3, <1>6, ReplyInv, AdoptsTurn
<1>7. CASE op' = [op EXCEPT !.kind = "failing"] /\ UNCHANGED <<job, live>>
  <2> USE DEF chrome, server
  <2>1. op' \in Operation /\ op'.kind = "failing" /\ op'.capture = op.capture
        /\ op'.heard = op.heard /\ op'.of = op.of
    BY <1>3, <1>7 DEF Operation
  <2>2. TypeOK'
    BY <1>1, <1>7, <2>1 DEF Inv, TypeOK
  <2>3. CapturesGood'
    BY <1>1, <1>7 DEF Inv, CapturesGood
  <2>4. Turn
    BY <1>3, <1>7, <2>1, JobStays DEF Turn, Inv, PageInv, OpGood, Asks
  <2>5. Handles
    BY <1>1, <1>7, <2>1, HandsFree DEF Inv, TypeOK
  <2> QED BY <1>1, <2>2, <2>3, <2>4, <2>5, RecordStays, BackStep
<1>8. CASE live' = [live EXCEPT ![c] = Gone] /\ Reply(Dropped(job))
  <2> USE DEF chrome, server
  <2>1. Turn
    BY <1>8, ReplyTurn, DroppedFine, Heard1
  <2>2. TypeOK'
    <3>1. op' \in Operation /\ job' \in Job
      BY <1>8, <2>1, BlankType DEF Reply, Turn, Follow, JobFine
    <3>2. live' \in [Captures -> Live]
      BY <1>3, <1>8, BlankType DEF Inv, TypeOK
    <3> QED BY <1>1, <3>1, <3>2 DEF Inv, TypeOK
  <2>3. CapturesGood'
    BY <1>1, <1>3, <1>8 DEF Inv, TypeOK, CapturesGood, Gone
  <2>4. Handles
    <3>1. op'.kind # "search"
      BY <1>8 DEF Reply, NoOp
    <3> QED BY <1>1, <1>3, <1>8, <3>1, HandsFree DEF Inv, TypeOK, Gone
  <2> QED BY <1>1, <2>1, <2>2, <2>3, <2>4, RecordStays, BackStep
<1> QED BY <1>4, <1>5, <1>6, <1>7, <1>8 DEF Cancel

(* A transition of one record.                                              *)
Transits(c, status) ==
  record' = [record EXCEPT ![c].status = IF Accepts(c, status) THEN status ELSE @]

LEMMA Transition ==
  ASSUME Inv, NEW c \in Captures, NEW status \in {"failed", "completed"},
         Transits(c, status)
  PROVE  /\ record' \in [Captures -> Record]
         /\ Advance(record, record')
         /\ \A e \in Captures : record'[e].of = record[e].of /\ record'[e].item = record[e].item
         /\ \A e \in Captures : e # c => record'[e] = record[e]
         /\ record[c].status = "none" => record' = record
         /\ Accepts(c, status) => record'[c].status = status
         /\ record[c].status # "none" => record'[c].status # "none"
<1>1. record \in [Captures -> Record]
  BY DEF Inv, TypeOK
<1>2. CASE Accepts(c, status)
  <2>1. record' = [record EXCEPT ![c] = [record[c] EXCEPT !.status = status]]
    BY <1>1, <1>2 DEF Transits
  <2>2. record[c].status \notin {"none", "completed"}
    BY <1>2 DEF Accepts, Follows
  <2> QED BY <1>1, <1>2, <2>1, <2>2 DEF Advance, Record, Statuses
<1>3. CASE ~Accepts(c, status)
  <2>1. record' = record
    BY <1>1, <1>3 DEF Record, Transits
  <2> QED BY <1>1, <1>3, <2>1, RecordStays
<1> QED BY <1>2, <1>3

LEMMA CancelCommitInv ==
  ASSUME Inv, CancelCommit  PROVE Inv'
<1> USE DEF chrome, server
<1> DEFINE c == op.capture
           t == Tell(c, "failed")
<1>1. /\ UNCHANGED <<queue, clicks, port, lease, stop, writes, chrome, server, faults>>
      /\ record' = [record EXCEPT ![c].status = IF Accepts(c, "failed") THEN "failed" ELSE @]
      /\ live' = [live EXCEPT ![c] = Gone]
      /\ op' = NoOp
      /\ job' = IF op.heard THEN Dropped(t) ELSE t
  BY DEF CancelCommit
<1>2. op \in Operation /\ c # 0 /\ c \in Captures
  BY OpCapture DEF CancelCommit
<1>3. /\ record' \in [Captures -> Record] /\ Advance(record, record')
      /\ \A e \in Captures : record'[e].of = record[e].of /\ record'[e].item = record[e].item
      /\ \A e \in Captures : e # c => record'[e] = record[e]
      /\ record[c].status = "none" => record' = record
      /\ record[c].status # "none" => record'[c].status # "none"
  <2>1. Transits(c, "failed")
    BY <1>1 DEF Transits
  <2> QED BY <1>2, <2>1, Transition
<1>4. Follow(job, record, job')
  <2>1. Follow(job, record, t)
    BY <1>2, TellFine DEF Inv, PageInv
  <2>2. op.heard => Follow(t, record, Dropped(t))
    <3> HIDE DEF t
    <3> QED BY <2>1, DroppedFine, Heard1 DEF Follow
  <2> QED BY <1>1, <2>1, <2>2 DEF Follow
<1>5. Turn
  BY <1>1, <1>4 DEF Turn, OpGood, Asks, NoOp
<1>6. TypeOK'
  <2>1. live' \in [Captures -> Live] /\ op' \in Operation
    BY <1>1, <1>2, BlankType DEF Inv, TypeOK
  <2> QED BY <1>1, <1>3, <1>4, <2>1 DEF Inv, TypeOK, Follow, JobFine
<1>7. CapturesGood'
  <2> SUFFICES ASSUME NEW e \in Captures
               PROVE  /\ record'[e].status = "none" => record'[e] = Blank /\ ~live'[e].on
                      /\ record'[e].status # "none" => record'[e].of # 0
                      /\ ~live'[e].on => live'[e].item = 0 /\ live'[e].done = "no"
                      /\ live'[e].item # 0 => record'[e].item = live'[e].item
                      /\ live'[e].done = "result" => record'[e].status = "completed"
    BY DEF CapturesGood
  <2>1. CASE e = c
    <3>1. live'[e] = Gone
      BY <2>1, <1>1, <1>2 DEF Inv, TypeOK
    <3>2. /\ record'[e].status = "none" => record'[e] = Blank
          /\ record'[e].status # "none" => record'[e].of # 0
      BY <2>1, <1>2, <1>3 DEF Inv, CapturesGood
    <3> QED BY <3>1, <3>2 DEF Gone
  <2>2. CASE e # c
    BY <2>2, <1>1, <1>2, <1>3 DEF Inv, TypeOK, CapturesGood
  <2> QED BY <2>1, <2>2
<1>8. Handles
  BY <1>1, <1>2, <1>3, HandsFree DEF Inv, TypeOK, Gone, NoOp
<1>9. \A e \in Captures : record'[e].of \in {0, op.of, record[e].of}
  BY <1>3
<1> QED BY <1>1, <1>3, <1>5, <1>6, <1>7, <1>8, <1>9, BackStep

LEMMA StopInv ==
  ASSUME Inv, Stop  PROVE Inv'
<1> USE DEF page, chrome, server
<1>1. /\ stop # 0 /\ op = NoOp /\ stop' = 0
      /\ op' = [NoOp EXCEPT !.kind = "cancel", !.capture = stop]
      /\ UNCHANGED <<page, port, lease, record, live, writes, chrome, server, faults>>
  BY DEF Stop
<1>2. op' \in Operation /\ op'.kind = "cancel" /\ op'.capture = stop
      /\ op'.heard = FALSE /\ op'.of = op.of
  BY <1>1, BlankType DEF Inv, TypeOK, NoOp, Operation
<1>3. TypeOK'
  BY <1>1, <1>2, ArtifactAssumption DEF Inv, TypeOK
<1>4. CapturesGood'
  BY <1>1 DEF Inv, CapturesGood
<1>5. Turn
  BY <1>1, <1>2, JobStays DEF Turn, Inv, PageInv, OpGood, Asks
<1>6. Handles
  BY <1>1, <1>2, HandsFree DEF Inv, TypeOK
<1> QED BY <1>1, <1>3, <1>4, <1>5, <1>6, RecordStays, BackStep

LEMMA OperationsInv ==
  ASSUME Inv, Operations  PROVE Inv'
BY BeginInv, ArmInv, ActivateInv, StartUrlInv, SearchInv, ReleaseInv, CancelInv,
   CancelCommitInv, StopInv DEF Operations

(* A write that is committed, or tells that it could not be.                *)
LEMMA CommitBindInv ==
  ASSUME Inv, NEW w \in writes, CommitBind(w),
         UNCHANGED <<queue, clicks, port, lease, stop, chrome, server, faults>>
  PROVE  Inv'
<1> USE DEF chrome, server
<1> DEFINE c == w.capture
           ok == Accepts(c, "bound")
           on == ok /\ live[c].on
<1>1. /\ record' = IF ~ok THEN record ELSE
              [record EXCEPT ![c].status = "bound", ![c].item = w.item]
      /\ live' = IF on THEN [live EXCEPT ![c].item = w.item] ELSE live
      /\ writes' = (writes \ {w}) \union
              IF on /\ live[c].done = "no" THEN Update(c, w.item, w.seen) ELSE {}
  BY DEF CommitBind
<1>2. /\ w \in Write /\ w.kind = "bind" /\ c \in Captures
      /\ w.item # 0 /\ w.item \in Downloads /\ w.item \in 0..MaxDownloads
      /\ record[c] \in Record /\ live[c] \in Live
  BY ArtifactAssumption DEF CommitBind, Inv, ClaimInv, StartedGood, TypeOK, Write, Downloads
<1>3. ok => record[c].status = "armed"
  BY DEF Accepts, Follows
<1>4. /\ record' \in [Captures -> Record] /\ Advance(record, record')
      /\ \A e \in Captures : record'[e].of = record[e].of
      /\ \A e \in Captures : e # c => record'[e] = record[e]
      /\ ok => /\ record'[c].status = "bound" /\ record'[c].item = w.item
               /\ record[c].status # "none"
      /\ ~ok => record' = record
  <2>1. CASE ok
    <3>1. record' = [record EXCEPT ![c] = [record[c] EXCEPT !.status = "bound", !.item = w.item]]
      BY <1>1, <1>2, <2>1 DEF Inv, TypeOK
    <3>2. [record[c] EXCEPT !.status = "bound", !.item = w.item] \in Record
      BY <1>2 DEF Record, Statuses
    <3> QED BY <1>2, <1>3, <2>1, <3>1, <3>2 DEF Inv, TypeOK, Advance, Record
  <2>2. CASE ~ok
    BY <1>1, <2>2, RecordStays DEF Inv, TypeOK
  <2> QED BY <2>1, <2>2
<1>5. /\ live' \in [Captures -> Live]
      /\ \A e \in Captures : e # c => live'[e] = live[e]
      /\ on => live'[c] = [live[c] EXCEPT !.item = w.item]
      /\ ~on => live'[c] = live[c]
  <2>1. [live[c] EXCEPT !.item = w.item] \in Live
    BY <1>2 DEF Live
  <2> QED BY <1>1, <1>2, <2>1 DEF Inv, TypeOK
<1>6. \A v \in Update(c, w.item, w.seen) : v \in Write /\ v.kind # "bind"
  BY <1>2 DEF Update, Bind, Write
<1>7. Turn
  <2>1. CASE w.direct
    <3> DEFINE j == IF ok THEN Racing(job) ELSE Refused(job)
    <3>1. Reply(j)
      BY <2>1 DEF CommitBind
    <3>2. op.heard => Follow(job, record, j)
      BY RacingFine, RefusedFine, Heard1
    <3> HIDE DEF j
    <3> QED BY <3>1, <3>2, ReplyTurn
  <2>2. CASE ~w.direct
    <3>1. UNCHANGED <<job, op>>
      BY <2>2 DEF CommitBind
    <3>2. OpGood'
      <4>1. op.kind \in {"begin", "arm"} => op.capture \in Captures
        BY OpCapture
      <4> QED BY <1>2, <1>3, <1>4, <3>1, <4>1 DEF Inv, PageInv, OpGood, Blank
    <3> QED BY <3>1, <3>2, JobStays DEF Turn, Inv, PageInv
  <2> QED BY <2>1, <2>2
<1>8. TypeOK'
  <2>1. job' \in Job
    BY <1>7 DEF Turn, Follow, JobFine
  <2>2. op' \in Operation
    BY BlankType DEF CommitBind, Reply, Inv, TypeOK
  <2>3. writes' \subseteq Write
    BY <1>1, <1>6 DEF Inv, TypeOK
  <2> QED BY <1>4, <1>5, <2>1, <2>2, <2>3 DEF Inv, TypeOK
<1>9. CapturesGood'
  <2> SUFFICES ASSUME NEW e \in Captures
               PROVE  /\ record'[e].status = "none" => record'[e] = Blank /\ ~live'[e].on
                      /\ record'[e].status # "none" => record'[e].of # 0
                      /\ ~live'[e].on => live'[e].item = 0 /\ live'[e].done = "no"
                      /\ live'[e].item # 0 => record'[e].item = live'[e].item
                      /\ live'[e].done = "result" => record'[e].status = "completed"
    BY DEF CapturesGood
  <2>1. CASE e # c
    BY <2>1, <1>4, <1>5 DEF Inv, CapturesGood
  <2>2. CASE e = c /\ ok
    BY <2>2, <1>2, <1>3, <1>4, <1>5 DEF Inv, CapturesGood, Live
  <2>3. CASE e = c /\ ~ok
    BY <2>3, <1>4, <1>5 DEF Inv, CapturesGood
  <2> QED BY <2>1, <2>2, <2>3
<1>10. Handles
  <2>1. \A v \in writes' : v.kind = "bind" => v \in writes
    BY <1>1, <1>6
  <2>2. op'.kind = "search" => op' = op
    BY DEF CommitBind, Reply, NoOp
  <2>3. HandsOn
    <3> SUFFICES ASSUME NEW e \in Captures, NEW d \in Downloads, Claims(e, d)'
                 PROVE  Claims(e, d)
      BY DEF HandsOn
    <3>1. d # 0
      BY ArtifactAssumption DEF Downloads
    <3>2. CASE e = c /\ d = w.item
      BY <3>2, <1>2 DEF Claims
    <3>3. CASE ~(e = c /\ d = w.item)
      <4>1. record'[e].item = d => record[e].item = d
        BY <3>3, <1>4
      <4>2. live'[e].item = d => live[e].item = d
        BY <3>3, <1>2, <1>5 DEF Live
      <4> QED BY <2>1, <2>2, <4>1, <4>2 DEF Claims
    <3> QED BY <3>2, <3>3
  <2> QED BY <2>1, <2>2, <2>3 DEF Handles, Forward, Inv, ClaimInv, StartedGood
<1>11. \A e \in Captures : record'[e].of \in {0, op.of, record[e].of}
  BY <1>4
<1> QED BY <1>4, <1>7, <1>8, <1>9, <1>10, <1>11, BackStep

(* A download has ended: the record and the memory of its capture follow.   *)
LEMMA EndStep ==
  ASSUME Inv, NEW w \in writes, NEW status \in {"failed", "completed"},
         Transits(w.capture, status),
         writes' = writes \ {w},
         NEW done \in {"result", "error"},
         done = "result" => record'[w.capture].status = "completed",
         live' = live \/ /\ live[w.capture].on
                         /\ live' = [live EXCEPT ![w.capture].done = done,
                                                 ![w.capture].waiter = FALSE],
         Follow(job, record', job'), job' = [job EXCEPT !.chrome = job'.chrome],
         UNCHANGED <<op, queue, clicks, port, lease, stop, chrome, server, faults>>
  PROVE  Inv'
<1> USE DEF chrome, server
<1> DEFINE c == w.capture
<1>1. w \in Write /\ c \in Captures
  BY DEF Inv, TypeOK, Write
<1>2. /\ record' \in [Captures -> Record] /\ Advance(record, record')
      /\ \A e \in Captures : record'[e].of = record[e].of /\ record'[e].item = record[e].item
      /\ \A e \in Captures : e # c => record'[e] = record[e]
      /\ record[c].status = "none" => record' = record
      /\ record[c].status # "none" => record'[c].status # "none"
  BY <1>1, Transition
<1>3. /\ live' \in [Captures -> Live]
      /\ \A e \in Captures : /\ live'[e].on = live[e].on /\ live'[e].item = live[e].item
                            /\ \/ live'[e].done = live[e].done
                               \/ e = c /\ live[c].on /\ live'[c].done = done
  <2>1. CASE live' = live
    BY <2>1 DEF Inv, TypeOK
  <2>2. CASE /\ live[c].on
             /\ live' = [live EXCEPT ![c].done = done, ![c].waiter = FALSE]
    <3>1. live[c] \in Live /\ live \in [Captures -> Live]
      BY <1>1 DEF Inv, TypeOK
    <3>2. live' = [live EXCEPT ![c] = [live[c] EXCEPT !.done = done, !.waiter = FALSE]]
      BY <2>2, <1>1, <3>1
    <3>3. [live[c] EXCEPT !.done = done, !.waiter = FALSE] \in Live
      BY <3>1 DEF Live
    <3> QED BY <1>1, <2>2, <3>1, <3>2, <3>3 DEF Live
  <2> QED BY <2>1, <2>2
<1>4. Turn
  <2>1. OpGood'
    <3>1. op.kind \in {"begin", "arm"} => op.capture \in Captures
      BY OpCapture
    <3> QED BY <1>1, <1>2, <3>1 DEF Inv, PageInv, OpGood, Blank
  <2>2. Asks(op', job')
    BY DEF Inv, TypeOK, Job, PageInv, Asks
  <2> QED BY <2>1, <2>2 DEF Turn
<1>5. TypeOK'
  <2>1. job' \in Job
    BY DEF Follow, JobFine
  <2> QED BY <1>2, <1>3, <2>1 DEF Inv, TypeOK
<1>6. CapturesGood'
  <2> SUFFICES ASSUME NEW e \in Captures
               PROVE  /\ record'[e].status = "none" => record'[e] = Blank /\ ~live'[e].on
                      /\ record'[e].status # "none" => record'[e].of # 0
                      /\ ~live'[e].on => live'[e].item = 0 /\ live'[e].done = "no"
                      /\ live'[e].item # 0 => record'[e].item = live'[e].item
                      /\ live'[e].done = "result" => record'[e].status = "completed"
    BY DEF CapturesGood
  <2>1. record'[e].status = "none" => record'[e] = record[e] /\ record[e].status = "none"
    BY <1>2
  <2>2. record'[e].of = record[e].of /\ (record'[e].status # "none" => record[e].status # "none")
    BY <1>2, <2>1
  <2>3. live'[e].done = "result" => record'[e].status = "completed"
    BY <1>1, <1>2, <1>3 DEF Inv, CapturesGood, Advance
  <2>4. ~live'[e].on => live'[e].item = 0 /\ live'[e].done = "no"
    BY <1>3 DEF Inv, CapturesGood
  <2> QED BY <1>2, <1>3, <2>1, <2>2, <2>3, <2>4 DEF Inv, CapturesGood
<1>7. Handles
  BY <1>2, <1>3, HandsFree
<1>8. \A e \in Captures : record'[e].of \in {0, op.of, record[e].of}
  BY <1>2
<1> QED BY <1>2, <1>4, <1>5, <1>6, <1>7, <1>8, BackStep

LEMMA CommitResolveInv ==
  ASSUME Inv, NEW w \in writes, CommitResolve(w),
         writes' = writes \ {w}, UNCHANGED op,
         UNCHANGED <<queue, clicks, port, lease, stop, chrome, server, faults>>
  PROVE  Inv'
<1> DEFINE c == w.capture
           kept == Accepts(c, "completed")
           done == IF kept THEN "result" ELSE "error"
<1>1. w \in Write /\ c \in Captures
  BY DEF Inv, TypeOK, Write
<1>2. Transits(c, "completed")
  BY DEF CommitResolve, Transits
<1>3. Advance(record, record') /\ (kept => record'[c].status = "completed")
  BY <1>1, <1>2, Transition
<1>4. JobFine(job, record')
  BY <1>3, JobAdvances DEF Inv, PageInv
<1>5. CASE live[c].done = "no" \/ kept
  <2>1. /\ live' = live \/ /\ live[c].on
                           /\ live' = [live EXCEPT ![c].done = done, ![c].waiter = FALSE]
        /\ job' = Tell(c, IF kept THEN "file" ELSE "failed")
    BY <1>5 DEF CommitResolve, Keeps
  <2>2. /\ Follow(job, record', job')
        /\ job' = [job EXCEPT !.chrome = job'.chrome]
    BY <1>1, <1>3, <1>4, <2>1, TellFine
  <2>3. done \in {"result", "error"} /\ (done = "result" => record'[c].status = "completed")
    BY <1>3
  <2> HIDE DEF done
  <2> QED BY <1>2, <2>1, <2>2, <2>3, EndStep
<1>6. CASE ~(live[c].done = "no" \/ kept)
  <2>1. UNCHANGED <<live, job>>
    BY <1>6 DEF CommitResolve, Keeps
  <2>2. Follow(job, record', job') /\ job' = [job EXCEPT !.chrome = job'.chrome]
    BY <1>4, <2>1 DEF Follow, JobFine, Job
  <2> QED BY <1>2, <2>1, <2>2, EndStep
<1> QED BY <1>5, <1>6

LEMMA CommitRejectInv ==
  ASSUME Inv, NEW w \in writes, CommitReject(w),
         writes' = writes \ {w}, UNCHANGED op,
         UNCHANGED <<queue, clicks, port, lease, stop, chrome, server, faults>>
  PROVE  Inv'
<1> DEFINE c == w.capture
<1>1. w \in Write /\ c \in Captures
  BY DEF Inv, TypeOK, Write
<1>2. /\ Transits(c, "failed")
      /\ live' = live \/ /\ live[c].on
                         /\ live' = [live EXCEPT ![c].done = "error", ![c].waiter = FALSE]
      /\ job' = Tell(c, "failed")
  BY DEF CommitReject, Transits
<1>3. Advance(record, record')
  BY <1>1, <1>2, Transition
<1>4. /\ Follow(job, record', job')
      /\ job' = [job EXCEPT !.chrome = job'.chrome]
  BY <1>1, <1>2, <1>3, TellFine, JobAdvances DEF Inv, PageInv
<1> QED BY <1>2, <1>4, EndStep

LEMMA CommitInv ==
  ASSUME Inv, Commit  PROVE Inv'
<1>1. PICK w \in writes : CommitBind(w) \/ CommitResolve(w) \/ CommitReject(w)
  BY DEF Commit
<1>2. UNCHANGED <<queue, clicks, port, lease, stop, chrome, server, faults>>
  BY DEF Commit
<1>3. CASE CommitBind(w)
  BY <1>2, <1>3, CommitBindInv
<1>4. CASE CommitResolve(w)
  BY <1>2, <1>4, CommitResolveInv DEF CommitResolve
<1>5. CASE CommitReject(w)
  BY <1>2, <1>5, CommitRejectInv DEF CommitReject
<1> QED BY <1>1, <1>3, <1>4, <1>5

LEMMA UpdateType ==
  ASSUME NEW c \in Captures, NEW d \in 0..MaxDownloads,
         NEW seen \in {"in_progress", "complete", "interrupted"}
  PROVE  \A w \in Update(c, d, seen) : w \in Write /\ w.kind # "bind"
BY DEF Update, Bind, Write

LEMMA FitsType ==
  ASSUME Inv, NEW d \in Downloads, NEW near, near \subseteq Captures,
         NEW seen \in {"in_progress", "complete", "interrupted"}
  PROVE  \A w \in Fits(d, near, seen) :
            /\ w \in Write /\ w.kind = "bind" /\ w.item = d
            /\ w.capture \in near /\ record[w.capture].status # "none"
<1> SUFFICES ASSUME NEW w \in Fits(d, near, seen)
             PROVE  /\ w \in Write /\ w.kind = "bind" /\ w.item = d
                    /\ w.capture \in near /\ record[w.capture].status # "none"
  OBVIOUS
<1>1. PICK c \in Pending(near) : w = Bind(c, d, FALSE, seen)
  BY DEF Fits
<1>2. c \in near /\ c \in Captures /\ live[c].on
  BY DEF Pending
<1>3. record[c].status # "none"
  BY <1>2 DEF Inv, CapturesGood
<1>4. d \in 0..MaxDownloads
  BY DEF Downloads
<1> QED BY <1>1, <1>2, <1>3, <1>4 DEF Bind, Write

(* More is written, for captures that had a claim already.                  *)
LEMMA WritesStep ==
  ASSUME Inv, NEW W, writes' = writes \union W,
         \A w \in W : /\ w \in Write
                      /\ w.kind = "bind" => w.item # 0 /\ Claims(w.capture, w.item),
         UNCHANGED <<page, port, lease, record, live, op, stop, server>>,
         item' \in [Downloads -> Item], news' \subseteq Downloads,
         \A d \in Downloads : /\ item'[d].near = item[d].near
                              /\ item[d].state # "none" => item'[d].state # "none",
         Forward,
         file' \in [Downloads -> {"absent", "captured", "edited"}],
         \A d \in Downloads : file'[d] # "absent" => item'[d].state = "complete",
         faults' \in 0..MaxFaults
  PROVE  Inv'
<1> USE DEF page, server
<1>1. TypeOK'
  BY DEF Inv, TypeOK
<1>2. CapturesGood'
  BY DEF Inv, CapturesGood
<1>3. Turn
  BY JobStays DEF Turn, Inv, PageInv, OpGood
<1>4. Handles
  <2>1. HandsOn
    BY DEF HandsOn, Claims
  <2> QED BY <2>1 DEF Handles, Inv, ClaimInv, StartedGood
<1> QED BY <1>1, <1>2, <1>3, <1>4, RecordStays, BackStep

LEMMA ListenInv ==
  ASSUME Inv, Listen  PROVE Inv'
<1>1. PICK d \in news : /\ news' = news \ {d}
                        /\ writes' = writes \union Fits(d, item[d].near, "in_progress")
                        /\ UNCHANGED <<page, port, lease, record, live, op, stop, item, file,
                                       server, faults>>
  BY DEF Listen
<1>2. d \in Downloads /\ d # 0 /\ item[d].near \subseteq Captures
  <2>1. d \in Downloads
    BY DEF Inv, TypeOK
  <2> QED BY <2>1, InRange DEF Inv
<1>3. \A w \in Fits(d, item[d].near, "in_progress") :
         w \in Write /\ w.item # 0 /\ Claims(w.capture, w.item)
  BY <1>2, FitsType DEF Claims
<1>4. Forward /\ news' \subseteq Downloads
  BY <1>1 DEF Forward, Inv, TypeOK
<1> QED
  BY <1>1, <1>3, <1>4, WritesStep DEF Inv, TypeOK, ClaimInv, StartedGood

LEMMA TimersInv ==
  ASSUME Inv, Timers  PROVE Inv'
<1>1. PICK c \in Captures : TimesOut(c)
  BY DEF Timers
<1> DEFINE W == {[Bind(c, live[c].item, FALSE, "interrupted") EXCEPT !.kind = "reject"]}
<1>2. /\ writes' = writes \union W
      /\ UNCHANGED <<page, port, lease, record, live, op, stop, chrome, server>>
      /\ faults' \in 0..MaxFaults
  BY <1>1, FaultType DEF TimesOut, Inv
<1>3. \A w \in W : w \in Write /\ (w.kind = "bind" => w.item # 0 /\ Claims(w.capture, w.item))
  <2>1. live[c] \in Live
    BY DEF Inv, TypeOK
  <2>2. live[c].item \in 0..MaxDownloads
    BY <2>1 DEF Live
  <2> QED BY <2>2 DEF Bind, Write
<1>4. UNCHANGED <<item, news, file>>
  BY <1>2 DEF chrome
<1> HIDE DEF W
<1>5. Forward
  BY <1>4 DEF Forward
<1> QED
  BY <1>2, <1>3, <1>4, <1>5, WritesStep DEF Inv, TypeOK, ClaimInv, StartedGood

LEMMA DownloadEndsInv ==
  ASSUME Inv, NEW d \in Downloads, DownloadEnds(d)  PROVE Inv'
<1>1. item[d].state = "in_progress"
  BY DEF DownloadEnds
<1>2. PICK state \in {"complete", "interrupted"} :
         /\ IF state = "complete" THEN UNCHANGED faults ELSE Fault
         /\ item' = [item EXCEPT ![d].state = state]
         /\ file' = [file EXCEPT ![d] = IF state = "complete" THEN "captured" ELSE @]
         /\ writes' = writes \union Heard(d, state)
  BY DEF DownloadEnds
<1>3. /\ UNCHANGED <<page, port, lease, record, live, op, stop, news, server>>
      /\ faults' \in 0..MaxFaults
  BY <1>2, FaultType DEF DownloadEnds, Inv
<1>4. d # 0 /\ d \in 0..MaxDownloads /\ item[d] \in Item /\ item[d].near \subseteq Captures
  BY InRange DEF Inv
<1>5. \A w \in Heard(d, state) :
         w \in Write /\ (w.kind = "bind" => w.item # 0 /\ Claims(w.capture, w.item))
  <2>1. CASE Known(d) = {}
    <3>1. Heard(d, state) = Fits(d, item[d].near, state)
      BY <2>1 DEF Heard
    <3> QED BY <1>4, <3>1, FitsType DEF Claims
  <2>2. CASE Known(d) # {}
    <3>1. \A w \in Heard(d, state) : \E c \in Captures : w \in Update(c, d, state)
      BY <2>2 DEF Heard, Known
    <3> QED BY <1>4, <3>1, UpdateType
  <2> QED BY <2>1, <2>2
<1>6. /\ item' \in [Downloads -> Item]
      /\ \A e \in Downloads : /\ item'[e].near = item[e].near
                              /\ item[e].state # "none" => item'[e].state # "none"
                              /\ e # d => item'[e] = item[e]
      /\ item'[d].state = state
  BY <1>1, <1>2, <1>4 DEF Inv, TypeOK, Item
<1>7. /\ file' \in [Downloads -> {"absent", "captured", "edited"}]
      /\ \A e \in Downloads : e # d => file'[e] = file[e]
      /\ file'[d] = IF state = "complete" THEN "captured" ELSE file[d]
  BY <1>2 DEF Inv, TypeOK
<1>8. Forward
  BY <1>1, <1>6, <1>7 DEF Forward
<1>9. \A e \in Downloads : file'[e] # "absent" => item'[e].state = "complete"
  BY <1>1, <1>6, <1>7 DEF Inv, ClaimInv, StartedGood
<1> QED
  BY <1>2, <1>3, <1>5, <1>6, <1>7, <1>8, <1>9, WritesStep DEF Inv, TypeOK

LEMMA TouchInv ==
  ASSUME Inv, NEW d \in Downloads, Touch(d)  PROVE Inv'
<1>1. /\ file[d] = "captured"
      /\ file' \in {[file EXCEPT ![d] = f] : f \in {"absent", "edited"}}
      /\ UNCHANGED <<page, port, back, item, news, server>>
      /\ faults' \in 0..MaxFaults
  BY FaultType DEF Touch, Inv
<1>2. /\ file' \in [Downloads -> {"absent", "captured", "edited"}]
      /\ \A e \in Downloads : /\ file'[e] # "absent" => file[e] # "absent"
                              /\ file'[e] = "captured" => file[e] = "captured"
  BY <1>1 DEF Inv, TypeOK
<1>3. Forward
  BY <1>1, <1>2 DEF Forward
<1> DEFINE W == {}
<1>4. /\ writes' = writes \union W /\ \A w \in W : FALSE
      /\ UNCHANGED <<lease, record, live, op, stop>>
  BY <1>1 DEF back
<1> HIDE DEF W
<1>5. /\ item' \in [Downloads -> Item] /\ news' \subseteq Downloads
      /\ \A e \in Downloads : /\ item'[e].near = item[e].near
                             /\ item[e].state # "none" => item'[e].state # "none"
      /\ \A e \in Downloads : file'[e] # "absent" => item'[e].state = "complete"
  BY <1>1, <1>2 DEF Inv, TypeOK, ClaimInv, StartedGood
<1> QED
  BY <1>1, <1>2, <1>3, <1>4, <1>5, WritesStep

LEMMA ClickStartsInv ==
  ASSUME Inv, ClickStarts  PROVE Inv'
<1> USE DEF server
<1> DEFINE d == NextItem
           W == Fits(d, Active, "in_progress")
<1>1. /\ clicks > 0 /\ clicks' = clicks - 1
      /\ UNCHANGED <<queue, job, port, lease, record, live, op, stop, news, file,
                     server, faults>>
  BY DEF ClickStarts
<1>2. clicks' \in 0..MaxDownloads
  BY <1>1, ArtifactAssumption DEF Inv, TypeOK
<1>3. CapturesGood' /\ Turn
  BY <1>1, JobStays DEF Inv, CapturesGood, Turn, PageInv, OpGood
<1>4. CASE UNCHANGED <<item, writes>>
  <2>1. TypeOK'
    BY <1>1, <1>2, <1>4 DEF Inv, TypeOK
  <2>2. Handles
    BY <1>1, <1>4, HandsFree DEF Inv, TypeOK
  <2> QED BY <1>1, <1>3, <2>1, <2>2, RecordStays, BackStep
<1>5. CASE /\ Unstarted # {} /\ item' = Started(d)
           /\ writes' = writes \union W
  <2>1. d \in Downloads /\ item[d].state = "none" /\ d # 0
    BY <1>5, NextItemLeast, ArtifactAssumption DEF Downloads
  <2>2. Active \subseteq Captures /\ \A c \in Active : record[c].status # "none"
    BY DEF Active, Inv, CapturesGood
  <2>3. \A w \in W : /\ w \in Write /\ w.kind = "bind" /\ w.item = d
                     /\ w.capture \in Captures /\ record[w.capture].status # "none"
    BY <2>1, <2>2, FitsType
  <2>4. /\ item' \in [Downloads -> Item]
        /\ item'[d] = [state |-> "in_progress", near |-> Active]
        /\ \A e \in Downloads : e # d => item'[e] = item[e]
    BY <1>5, <2>1, <2>2 DEF Started, Inv, TypeOK, Item
  <2> HIDE DEF d, W
  <2>5. TypeOK'
    BY <1>1, <1>2, <1>5, <2>3, <2>4 DEF Inv, TypeOK
  <2>6. HandsOn
    <3> SUFFICES ASSUME NEW b \in Captures, NEW e \in Downloads, Claims(b, e)'
                 PROVE  \/ Claims(b, e)
                        \/ item[e].state = "none" /\ item'[e].state # "none" /\ record[b].status # "none"
      BY DEF HandsOn
    <3>1. CASE e = d
      <4>1. record[b].status # "none"
        BY <3>1, <1>1, <1>5, <2>2, <2>3, <2>4 DEF Claims, Inv, ClaimInv, StartedGood
      <4> QED BY <3>1, <4>1, <2>1, <2>4
    <3>2. CASE e # d
      BY <3>2, <1>1, <1>5, <2>3, <2>4 DEF Claims
    <3> QED BY <3>1, <3>2
  <2>7. Handles
    BY <1>1, <1>5, <2>1, <2>3, <2>4, <2>6 DEF Handles, Forward, Inv, ClaimInv, StartedGood
  <2> QED BY <1>1, <1>3, <2>5, <2>7, RecordStays, BackStep
<1> QED BY <1>4, <1>5 DEF ClickStarts

LEMMA AskInv ==
  ASSUME Inv, Ask  PROVE Inv'
<1> USE DEF page, chrome, server
<1> DEFINE first == CHOOSE c \in Unused : \A e \in Unused : c <= e
<1>1. /\ job.stage \in Asking /\ op = NoOp
      /\ job.stage = "beginning" => Unused # {}
      /\ op' = [NoOp EXCEPT !.kind = Kind(job.stage), !.heard = TRUE,
                 !.of = IF job.stage = "beginning" THEN job.of ELSE 0,
                 !.capture = IF job.stage # "beginning" THEN job.capture ELSE first]
      /\ UNCHANGED <<page, port, lease, record, live, stop, writes, chrome, server, faults>>
  BY DEF Ask
<1>2. job.stage = "beginning" =>
        first \in Captures /\ first \in 0..MaxCaptures /\ first # 0 /\ record[first] = Blank
  <2> SUFFICES ASSUME job.stage = "beginning"
               PROVE  /\ first \in Captures /\ first \in 0..MaxCaptures /\ first # 0
                      /\ record[first] = Blank
    OBVIOUS
  <2>1. first \in Captures /\ record[first] = Blank
    BY <1>1, FirstUnused
  <2> HIDE DEF first
  <2> QED BY <2>1, ArtifactAssumption DEF Captures
<1>3. /\ job \in Job /\ job.of # 0
      /\ job.stage # "beginning" => job.capture # 0
  BY <1>1 DEF Inv, PageInv, JobFine, Asking
<1>4. /\ Kind(job.stage) \in {"begin", "activate", "cancel", "start", "release"}
      /\ Kind(job.stage) = "begin" <=> job.stage = "beginning"
  BY DEF Kind
<1> HIDE DEF first
<1>5. /\ op' \in Operation /\ op'.kind = Kind(job.stage) /\ op'.heard
      /\ op'.capture = IF job.stage # "beginning" THEN job.capture ELSE first
      /\ op'.of = IF job.stage = "beginning" THEN job.of ELSE 0
  BY <1>1, <1>2, <1>3, <1>4, BlankType DEF Operation, NoOp, Job
<1>6. TypeOK'
  BY <1>1, <1>5 DEF Inv, TypeOK
<1>7. CapturesGood'
  BY <1>1 DEF Inv, CapturesGood
<1>8. Turn
  <2>1. OpGood'
    BY <1>1, <1>2, <1>3, <1>4, <1>5 DEF OpGood
  <2>2. Asks(op', job')
    BY <1>1, <1>4, <1>5 DEF Asks
  <2> QED BY <1>1, <1>5, <2>1, <2>2, JobStays DEF Turn, Inv
<1>9. Handles
  BY <1>1, <1>4, <1>5, HandsFree DEF Inv, TypeOK
<1> QED BY <1>1, <1>6, <1>7, <1>8, <1>9, RecordStays, BackStep

LEMMA ImpatientInv ==
  ASSUME Inv, Impatient  PROVE Inv'
<1> USE DEF chrome, server
<1>1. /\ op.heard /\ Fault
      /\ op' = [op EXCEPT !.heard = FALSE]
      /\ job' = Refused(job)
      /\ UNCHANGED <<queue, clicks, port, lease, record, live, stop, writes, chrome, server>>
  BY DEF Impatient, Asked
<1>2. Follow(job, record, job')
  BY <1>1, RefusedFine, Heard1
<1>3. /\ op \in Operation /\ op' \in Operation /\ ~op'.heard /\ op.kind # "none"
      /\ op'.kind = op.kind /\ op'.capture = op.capture /\ op'.of = op.of /\ op'.item = op.item
  BY <1>1 DEF Inv, TypeOK, Operation, PageInv, Asks
<1>4. TypeOK'
  BY <1>1, <1>2, <1>3, FaultType DEF Inv, TypeOK, Follow, JobFine
<1>5. CapturesGood'
  BY <1>1 DEF Inv, CapturesGood
<1>6. Turn
  BY <1>1, <1>2, <1>3 DEF Turn, Inv, PageInv, OpGood, Asks
<1>7. Handles
  BY <1>1, <1>3, HandsFree DEF Inv, TypeOK
<1> QED BY <1>1, <1>4, <1>5, <1>6, <1>7, RecordStays, BackStep

LEMMA LeaseEndsInv ==
  ASSUME Inv, LeaseEnds  PROVE Inv'
<1> USE DEF page, chrome, server
<1>1. /\ Fault /\ lease' \in {0, 2}
      /\ UNCHANGED <<page, port, record, live, op, stop, writes, chrome, server>>
  BY DEF LeaseEnds
<1>2. TypeOK'
  BY <1>1, FaultType DEF Inv, TypeOK
<1>3. CapturesGood'
  BY <1>1 DEF Inv, CapturesGood
<1>4. Turn
  BY <1>1, JobStays DEF Turn, Inv, PageInv, OpGood
<1>5. Handles
  BY <1>1, HandsFree DEF Inv, TypeOK
<1> QED BY <1>1, <1>2, <1>3, <1>4, <1>5, RecordStays, BackStep

LEMMA CheckInv ==
  ASSUME Inv, Check  PROVE Inv'
<1> USE DEF chrome, server
<1> DEFINE c == job.capture
           wait == job.held /\ port
           how == IF ~job.held THEN "off"
                  ELSE IF ~port \/ ~Reachable(c) \/ live[c].done = "error" THEN "failed"
                  ELSE IF live[c].done = "result" THEN "file"
                  ELSE "waiting"
           j == [job EXCEPT !.stage = IF wait THEN "activating" ELSE "starting",
                            !.chrome = how]
<1>1. /\ job.stage = "checking"
      /\ UNCHANGED <<queue, clicks, port, lease, record, op, stop, writes, chrome,
                     server, faults>>
  BY DEF Check
<1>2. JobFine(job, record) /\ job.of # 0
  BY <1>1 DEF Inv, PageInv, JobFine
<1>3. ~op.heard
  BY <1>1 DEF Inv, PageInv, Asks, Asking
<1>4. job.held => c # 0 /\ c \in Captures
  BY <1>2, ArtifactAssumption DEF JobFine, Job, Captures
<1>5. job.held /\ how = "file" => record[c].status = "completed"
  BY <1>4 DEF Inv, CapturesGood
<1>6. CASE job' = Caught(job) /\ UNCHANGED live
  <2>1. Follow(job, record, job')
    BY <1>2, <1>6, CaughtFine
  <2>2. TypeOK'
    BY <1>1, <1>6, <2>1 DEF Inv, TypeOK, Follow, JobFine
  <2>3. CapturesGood'
    BY <1>1, <1>6 DEF Inv, CapturesGood
  <2>4. Turn
    BY <1>1, <1>3, <2>1 DEF Turn, Inv, PageInv, OpGood, Asks
  <2>5. Handles
    BY <1>1, <1>6, HandsFree DEF Inv, TypeOK
  <2> QED BY <1>1, <1>6, <2>2, <2>3, <2>4, <2>5, RecordStays, BackStep
<1>7. CASE /\ job' = j
           /\ live' = IF how = "waiting" THEN [live EXCEPT ![c].waiter = TRUE] ELSE live
  <2>1. Follow(job, record, job')
    <3>1. how \in {"off", "waiting", "file", "failed"} /\ (how # "off" <=> job.held)
          /\ (how = "file" => record[c].status = "completed")
      BY <1>5
    <3>2. /\ job' \in Job /\ job'.of = job.of /\ job'.capture = job.capture
          /\ job'.held = job.held /\ job'.chrome = how /\ job'.result = job.result
          /\ job'.stage = IF wait THEN "activating" ELSE "starting"
      <4> HIDE DEF how, wait
      <4> QED BY <1>2, <1>7, <3>1 DEF JobFine, Job, Stages
    <3> HIDE DEF how
    <3> QED BY <1>2, <3>1, <3>2 DEF Follow, JobFine, Early, Asking
  <2>2. /\ live' \in [Captures -> Live]
        /\ \A e \in Captures : /\ live'[e].on = live[e].on /\ live'[e].item = live[e].item
                               /\ live'[e].done = live[e].done
    <3>1. CASE live' = live
      BY <3>1 DEF Inv, TypeOK
    <3>2. CASE job.held /\ live' = [live EXCEPT ![c].waiter = TRUE]
      <4>1. live[c] \in Live /\ live \in [Captures -> Live]
        BY <1>4, <3>2 DEF Inv, TypeOK
      <4>2. [live[c] EXCEPT !.waiter = TRUE] \in Live
        BY <4>1 DEF Live
      <4> QED BY <1>4, <3>2, <4>1, <4>2 DEF Live
    <3> QED BY <1>7, <3>1, <3>2
  <2>3. TypeOK'
    BY <1>1, <2>1, <2>2 DEF Inv, TypeOK, Follow, JobFine
  <2>4. CapturesGood'
    BY <1>1, <2>2 DEF Inv, CapturesGood
  <2>5. Turn
    BY <1>1, <1>3, <2>1 DEF Turn, Inv, PageInv, OpGood, Asks
  <2>6. Handles
    BY <1>1, <2>2, HandsFree DEF Inv, TypeOK
  <2> QED BY <1>1, <2>3, <2>4, <2>5, <2>6, RecordStays, BackStep
<1> QED BY <1>6, <1>7 DEF Check

LEMMA WorkerStopsInv ==
  ASSUME Inv, WorkerStops  PROVE Inv'
<1> USE DEF chrome, server
<1> DEFINE cut == IF Asked THEN Refused(job) ELSE job
           j == [cut EXCEPT !.chrome = IF @ = "waiting" THEN "failed" ELSE @]
<1>1. /\ Fault /\ port' = FALSE /\ op' = NoOp /\ stop' = 0 /\ writes' = {}
      /\ live' = [c \in Captures |-> Gone]
      /\ job' = j
      /\ UNCHANGED <<queue, clicks, lease, record, chrome, server>>
  BY DEF WorkerStops
<1>2. Follow(job, record, job')
  <2>1. Follow(job, record, cut)
    BY RefusedFine, Heard1, JobStays DEF Asked, Inv
  <2> HIDE DEF cut
  <2>2. JobFine([cut EXCEPT !.chrome = IF @ = "waiting" THEN "failed" ELSE @], record)
    BY <2>1 DEF Follow, JobFine, Job
  <2> QED BY <1>1, <2>1, <2>2 DEF Follow, JobFine, Job
<1>3. live' \in [Captures -> Live] /\ op' \in Operation
  BY <1>1, BlankType
<1>4. TypeOK'
  <2>1. stop' \in 0..MaxCaptures /\ writes' \subseteq Write
    BY <1>1, ArtifactAssumption
  <2>3. faults' \in 0..MaxFaults
    BY FaultType DEF WorkerStops, Inv
  <2>2. job' \in Job
    BY <1>2 DEF Follow, JobFine
  <2> HIDE DEF j
  <2> QED BY <1>1, <1>3, <2>1, <2>2, <2>3 DEF Inv, TypeOK
<1>5. CapturesGood'
  BY <1>1 DEF Inv, CapturesGood, Gone
<1>6. Turn
  BY <1>1, <1>2 DEF Turn, OpGood, Asks, NoOp
<1>7. Handles
  BY <1>1, HandsFree DEF Gone, NoOp
<1> QED BY <1>1, <1>4, <1>5, <1>6, <1>7, RecordStays, BackStep

LEMMA ReconnectInv ==
  ASSUME Inv, Reconnect  PROVE Inv'
<1> USE DEF page, chrome, server
<1> DEFINE back1(c) == [Gone EXCEPT !.on = TRUE, !.mine = TRUE, !.item = record[c].item,
                                    !.active = record[c].active]
           W == UNION {Update(c, record[c].item, item[record[c].item].state)
                          : c \in {e \in Restored : record[e].item # 0}}
<1>1. /\ port' = TRUE
      /\ live' = [c \in Captures |-> IF c \notin Restored THEN live[c] ELSE back1(c)]
      /\ writes' = writes \union W
      /\ UNCHANGED <<page, lease, record, op, stop, chrome, server, faults>>
  BY DEF Reconnect
<1>2. \A w \in W : w \in Write /\ w.kind # "bind"
  <2> SUFFICES ASSUME NEW c \in Restored, record[c].item # 0,
                      NEW w \in Update(c, record[c].item, item[record[c].item].state)
               PROVE  w \in Write /\ w.kind # "bind"
    OBVIOUS
  <2>1. c \in Captures /\ record[c].item \in Downloads /\ record[c].item \in 0..MaxDownloads
    BY ArtifactAssumption DEF Restored, Inv, TypeOK, Record, Downloads
  <2>2. item[record[c].item].state # "none"
    BY <2>1 DEF Inv, ClaimInv, StartedGood, Claims
  <2>3. item[record[c].item].state \in {"in_progress", "complete", "interrupted"}
    BY <2>1, <2>2 DEF Inv, TypeOK, Item
  <2> QED BY <2>1, <2>3, UpdateType
<1>3. \A c \in Captures : /\ back1(c) \in Live /\ back1(c).on /\ back1(c).done = "no"
                          /\ back1(c).item = record[c].item
  <2> SUFFICES ASSUME NEW c \in Captures
               PROVE  /\ back1(c) \in Live /\ back1(c).on /\ back1(c).done = "no"
                      /\ back1(c).item = record[c].item
    OBVIOUS
  <2>1. record[c] \in Record
    BY DEF Inv, TypeOK
  <2>2. back1(c) \in Live
    BY <2>1, BlankType DEF Live, Record
  <2> QED BY <2>2 DEF Gone
<1> HIDE DEF back1, W
<1>4. /\ live' \in [Captures -> Live]
      /\ \A c \in Captures : live'[c] = IF c \notin Restored THEN live[c] ELSE back1(c)
  BY <1>1, <1>3 DEF Inv, TypeOK
<1>5. TypeOK'
  BY <1>1, <1>2, <1>4 DEF Inv, TypeOK
<1>6. CapturesGood'
  BY <1>1, <1>3, <1>4 DEF Inv, CapturesGood, Restored
<1>7. Turn
  BY <1>1, JobStays DEF Turn, Inv, PageInv, OpGood
<1>8. Handles
  <2>1. \A c \in Captures : live'[c].item \in {0, live[c].item, record[c].item}
    BY <1>3, <1>4
  <2>2. \A w \in writes' : w \in writes \/ w.kind # "bind"
    BY <1>1, <1>2
  <2> QED BY <1>1, <2>1, <2>2, HandsFree
<1> QED BY <1>1, <1>5, <1>6, <1>7, <1>8, RecordStays, BackStep

LEMMA PageOnlyStep ==
  ASSUME Inv, UNCHANGED Aside, TypeOK', PageInv'
  PROVE  Inv'
<1> USE DEF Aside, back, chrome, server
<1>1. FetchSteps
  BY DEF FetchSteps
<1>2. CapturesGood' /\ FetchesGood' /\ AnsweredGood'
  BY DEF Inv, CapturesGood, FetchesGood, AnsweredGood, Answered, At
<1>3. Handles
  BY HandsFree DEF Inv, TypeOK
<1>4. StartedGood'
  BY <1>3, StartedKept, RecordStays DEF Inv, ClaimInv, Handles, Forward
<1>5. ClaimsGood'
  BY DEF Inv, ClaimInv, ClaimsGood, Claims
<1>6. ImportsGood'
  BY <1>3, ImportsKept DEF Inv, ServerInv, Handles
<1>7. CopiesGood'
  BY CopiesKept DEF Inv, ServerInv
<1> QED
  BY <1>2, <1>4, <1>5, <1>6, <1>7 DEF Inv, ClaimInv, ServerInv

(* A step of the page that asks nothing and is not waited for.              *)
LEMMA PageStep ==
  ASSUME Inv, UNCHANGED Aside, UNCHANGED queue, clicks' \in 0..MaxDownloads,
         job.stage \notin Asking \/ ~op.heard, Follow(job, record, job')
  PROVE  Inv'
<1> USE DEF Aside, back, chrome, server
<1>1. FetchSteps
  BY DEF FetchSteps
<1>2. PageInv'
  <2>1. OpGood' /\ Asks(op, job)'
    BY DEF Inv, PageInv, OpGood, Asks
  <2> QED BY <1>1, <2>1, PageKept, RecordStays DEF Inv
<1>3. TypeOK'
  BY DEF Inv, TypeOK, Follow, JobFine
<1> QED BY <1>2, <1>3, PageOnlyStep

LEMMA StartJobInv ==
  ASSUME Inv, StartJob  PROVE Inv'
<1> USE DEF Aside, back, chrome, server
<1> DEFINE k == Head(queue)
<1>1. /\ job.stage = "idle" /\ queue # <<>>
      /\ job' = [Idle EXCEPT !.of = k, !.stage = "finding",
                             !.aborted = fetch[k].step # "sent"]
      /\ queue' = Tail(queue) /\ UNCHANGED <<clicks, Aside>>
  BY DEF StartJob
<1>2. /\ queue \in Seq(Fetches) /\ Len(queue) \in Nat /\ Len(queue) >= 1
      /\ k \in Fetches /\ k = queue[1]
      /\ Tail(queue) \in Seq(Fetches) /\ Len(Tail(queue)) = Len(queue) - 1
      /\ \A i \in 1..Len(Tail(queue)) : Tail(queue)[i] = queue[i + 1]
  BY <1>1, EmptySeq, LenProperties, HeadTailProperties, ElementOfSeq DEF Inv, TypeOK
<1>3. k # 0 /\ k \in 0..MaxFetches
  BY <1>2, ArtifactAssumption DEF Fetches
<1>4. Acted(fetch, k) /\ \A i \in 1..Len(Tail(queue)) : Acted(fetch, Tail(queue)[i])
  BY <1>2 DEF Inv, PageInv, ActedGood
<1> HIDE DEF k
<1>5. /\ job' \in Job /\ job'.of = k /\ job'.stage = "finding" /\ ~job'.held
      /\ job'.capture = 0 /\ job'.chrome = "off" /\ job'.result = "none"
  BY <1>1, <1>3, BlankType DEF Idle, Job, Stages
<1>6. JobFine(job', record)
  BY <1>3, <1>5 DEF JobFine, Early, Asking
<1>7. ~op.heard
  BY <1>1 DEF Inv, PageInv, Asks, Asking
<1>8. PageInv'
  <2>1. OpGood' /\ Asks(op, job)'
    BY <1>1, <1>7 DEF Inv, PageInv, OpGood, Asks
  <2>2. ActedGood'
    BY <1>1, <1>4, <1>5 DEF Inv, PageInv, ActedGood, Acted
  <2> QED BY <1>1, <1>6, <2>1, <2>2 DEF PageInv
<1>9. TypeOK'
  BY <1>1, <1>2, <1>5 DEF Inv, TypeOK
<1> QED BY <1>1, <1>8, <1>9, PageOnlyStep

(* An action that is going on is that of a fetch.                           *)
LEMMA GoesOn ==
  ASSUME Inv, job.stage # "idle"
  PROVE  JobFine(job, record) /\ job.of # 0 /\ job \in Job
BY DEF Inv, PageInv, JobFine

LEMMA FindActionInv ==
  ASSUME Inv, FindAction  PROVE Inv'
<1>1. job.stage = "finding" /\ UNCHANGED <<queue, clicks, Aside>>
      /\ (job' = [job EXCEPT !.stage = "beginning"] \/ job' = Caught(job))
  BY DEF FindAction, Page
<1>2. Follow(job, record, [job EXCEPT !.stage = "beginning"])
  BY <1>1, GoesOn DEF Follow, JobFine, Job, Stages, Early, Asking
<1>3. Follow(job, record, job')
  BY <1>1, <1>2, GoesOn, CaughtFine
<1> QED BY <1>1, <1>3, PageStep DEF Asking, Inv, TypeOK

LEMMA NoPortInv ==
  ASSUME Inv, NoPort  PROVE Inv'
<1>1. job.stage \in Asking /\ ~op.heard /\ job' = Skipped(job)
      /\ UNCHANGED <<queue, clicks, Aside>>
  BY DEF NoPort, Asked
<1>2. Follow(job, record, job')
  BY <1>1, GoesOn, SkippedFine DEF Asking
<1> QED BY <1>1, <1>2, PageStep DEF Inv, TypeOK

LEMMA StartInv ==
  ASSUME Inv, Start  PROVE Inv'
<1>1. job.stage = "starting" /\ UNCHANGED <<queue, Aside>>
  BY DEF Start, Page
<1>2. clicks' \in 0..MaxDownloads
  BY ArtifactAssumption DEF Start, Inv, TypeOK
<1>3. Follow(job, record, job')
  <2>1. CASE job.held /\ job' = [job EXCEPT !.stage = "opening"]
    BY <1>1, <2>1, GoesOn DEF Follow, JobFine, Job, Stages, Early, Asking
  <2>2. CASE job' = Racing(job)
    BY <1>1, <2>2, GoesOn, RacingFine
  <2> QED BY <2>1, <2>2 DEF Start, Page
<1> QED BY <1>1, <1>2, <1>3, PageStep DEF Asking

LEMMA RacingInv ==
  ASSUME Inv, DirectFails \/ Fatal \/ DirectYields  PROVE Inv'
<1>1. job.stage = "racing" /\ UNCHANGED <<queue, clicks, Aside>>
  BY DEF DirectFails, Fatal, DirectYields, Page
<1>2. JobFine(job, record) /\ job.of # 0
  BY <1>1, GoesOn
<1>3. CASE job' = [job EXCEPT !.direct = FALSE]
  <2>1. Follow(job, record, job')
    BY <1>2, <1>3 DEF Follow, JobFine, Job, Early, Asking
  <2> QED BY <1>1, <2>1, PageStep DEF Asking, Inv, TypeOK
<1>4. CASE job' = Caught(job)
  BY <1>1, <1>2, <1>4, CaughtFine, PageStep DEF Asking, Inv, TypeOK
<1>5. CASE job.held /\ job' = [job EXCEPT !.stage = "releasing"]
  <2>1. Follow(job, record, job')
    BY <1>1, <1>2, <1>5 DEF Follow, JobFine, Job, Stages, Early, Asking
  <2> QED BY <1>1, <2>1, PageStep DEF Asking, Inv, TypeOK
<1>6. CASE job' = Ending(job, "bytes")
  BY <1>1, <1>2, <1>6, EndingFine, PageStep DEF Asking, Inv, TypeOK
<1> QED BY <1>3, <1>4, <1>5, <1>6 DEF DirectFails, Fatal, DirectYields, Page

LEMMA DownloadedInv ==
  ASSUME Inv, Downloaded  PROVE Inv'
<1>1. job.stage \in {"racing", "adopting", "rejoining"} /\ UNCHANGED <<queue, clicks, Aside>>
  BY DEF Downloaded, Page
<1>2. JobFine(job, record) /\ job.of # 0
  BY <1>1, GoesOn
<1>3. Follow(job, record, job')
  BY <1>2, FiledFine, CaughtFine, FailedFine DEF Downloaded, Page
<1> QED BY <1>1, <1>3, PageStep DEF Asking, Inv, TypeOK

-----------------------------------------------------------------------------
(* The steps of the server                                                  *)

(* A step that creates no fetch and answers none with a download.           *)
LEMMA ServerStep ==
  ASSUME Inv, record' = record, FetchSteps, Handles,
         \A k \in Fetches : /\ fetch'[k].item = fetch[k].item
                            /\ fetch'[k].step \in {"none", "sent", "orphan"} =>
                                 fetch[k].step \in {"none", "sent", "orphan"},
         TypeOK', CapturesGood', PageInv', ImportsGood', CopiesGood'
  PROVE  Inv'
<1>1. FetchesGood'
  BY FetchesKept DEF Inv, FetchesGood
<1>2. AnsweredGood'
  BY AnsweredKept, RecordStays DEF Inv
<1>3. StartedGood'
  BY StartedKept, RecordStays DEF Inv, ClaimInv, Handles, Forward
<1>4. ClaimsGood'
  <2>1. \A c \in Captures, d \in Downloads :
            Claims(c, d) /\ record[c].status # "none" => record[c].of # 0
    BY DEF Inv, CapturesGood
  <2> QED BY <2>1, ClaimsKept, RecordStays DEF Inv, PageInv, ClaimInv, Handles, FetchSteps
<1> QED
  BY <1>1, <1>2, <1>3, <1>4 DEF Inv, ClaimInv, ServerInv

(* The same, while the page and the background do nothing.                  *)
LEMMA ImportStep ==
  ASSUME Inv, UNCHANGED Elsewhere, UNCHANGED <<item, news>>,
         \A d \in Downloads : file'[d] \in {"absent", file[d]},
         FetchSteps,
         \A k \in Fetches : /\ fetch'[k].item = fetch[k].item
                            /\ fetch'[k].step \in {"none", "sent", "orphan"} =>
                                 fetch[k].step \in {"none", "sent", "orphan"},
         TypeOK', ImportsGood', CopiesGood'
  PROVE  Inv'
<1> USE DEF Elsewhere, page, back
<1>1. CapturesGood'
  BY DEF Inv, CapturesGood
<1>2. PageInv'
  <2>1. OpGood' /\ Asks(op, job)'
    BY DEF Inv, PageInv, OpGood, Asks
  <2>2. Follow(job, record, job') /\ Advance(record, record')
    BY JobStays, RecordStays DEF Inv
  <2> QED BY <2>1, <2>2, PageKept DEF Inv
<1>3. Handles
  BY DEF Handles, HandsOn, Claims, Forward, Inv, ClaimInv, StartedGood
<1> QED BY <1>1, <1>2, <1>3, ServerStep

(* The fetch k alone takes a step.                                          *)
LEMMA OneFetch ==
  ASSUME Inv, NEW k \in Fetches, NEW f \in Fetch, fetch' = [fetch EXCEPT ![k] = f],
         f.of = fetch[k].of, f.item = fetch[k].item,
         fetch[k].step \notin {"none", "ended"}, f.step \notin {"none", "sent", "orphan"},
         fetch[k].step \in Since => f.step \in Since
  PROVE  /\ fetch' \in [Fetches -> Fetch] /\ fetch'[k] = f
         /\ \A j \in Fetches : j # k => fetch'[j] = fetch[j]
         /\ FetchSteps
         /\ \A j \in Fetches : /\ fetch'[j].item = fetch[j].item
                               /\ fetch'[j].step \in {"none", "sent", "orphan"} =>
                                    fetch[j].step \in {"none", "sent", "orphan"}
<1>1. fetch \in [Fetches -> Fetch]
  BY DEF Inv, TypeOK
<1> QED BY <1>1 DEF FetchSteps

(* An import outside the store.                                             *)
LEMMA Outside ==
  ASSUME Inv, NEW k \in Fetches, fetch[k].step \notin {"none", "ended"},
         NEW f \in Fetch, fetch' = [fetch EXCEPT ![k] = f],
         f.of = fetch[k].of, f.item = fetch[k].item,
         f.step \in {"copy", "resolve", "ended"}, fetch[k].step \in Since => f.step = "ended",
         UNCHANGED <<Elsewhere, chrome, store, taken>>,
         image' \in [Images -> {"none", "materializing", "ready", "failed"}],
         \A i \in Images : image'[i] = "ready" => image[i] = "ready" \/ Stored(i),
         faults' \in 0..MaxFaults
  PROVE  Inv'
<1> USE DEF chrome
<1>1. /\ fetch' \in [Fetches -> Fetch] /\ fetch'[k] = f
      /\ \A j \in Fetches : j # k => fetch'[j] = fetch[j]
      /\ FetchSteps
      /\ \A j \in Fetches : /\ fetch'[j].item = fetch[j].item
                            /\ fetch'[j].step \in {"none", "sent", "orphan"} =>
                                 fetch[j].step \in {"none", "sent", "orphan"}
  BY OneFetch DEF Since
<1>2. TypeOK'
  BY <1>1 DEF Inv, TypeOK, Elsewhere, page, back
<1>3. ImportsGood'
  <2>1. \A j \in Fetches : fetch'[j] = fetch[j] \/ fetch'[j].step \notin InStore \union {"remove"}
    BY <1>1 DEF InStore
  <2>2. Forward
    BY DEF Forward
  <2> QED BY <2>1, <2>2, ImportsKept DEF Inv, ServerInv
<1>4. CopiesGood'
  BY <1>1, CopiesKept DEF FetchSteps, Inv, ServerInv
<1> QED BY <1>1, <1>2, <1>3, <1>4, ImportStep DEF Inv, TypeOK

(* How the image of a fetch ends.                                           *)
LEMMA SettledType ==
  ASSUME Inv, NEW k \in Fetches, NEW ok \in BOOLEAN
  PROVE  /\ Settled(k, ok) \in [Images -> {"none", "materializing", "ready", "failed"}]
         /\ \A i \in Images : Settled(k, ok)[i] = "ready" =>
               image[i] = "ready" \/ (ok /\ fetch[k].of = i)
BY DEF Settled, Inv, TypeOK

LEMMA MoveType ==
  ASSUME Inv, NEW k \in Fetches, NEW step \in Steps, Move(k, step)
  PROVE  /\ [fetch[k] EXCEPT !.step = step] \in Fetch
         /\ fetch' = [fetch EXCEPT ![k] = [fetch[k] EXCEPT !.step = step]]
         /\ [fetch[k] EXCEPT !.step = step].of = fetch[k].of
         /\ [fetch[k] EXCEPT !.step = step].item = fetch[k].item
         /\ [fetch[k] EXCEPT !.step = step].step = step
<1>1. fetch[k] \in Fetch /\ fetch \in [Fetches -> Fetch]
  BY DEF Inv, TypeOK
<1> QED BY <1>1 DEF Fetch, Move

LEMMA ResolveInv ==
  ASSUME Inv, NEW k \in Fetches, Resolve(k)  PROVE Inv'
<1> DEFINE step == IF file[fetch[k].item] = "captured" THEN "copy" ELSE "ended"
<1>1. /\ fetch[k].step = "resolve" /\ Move(k, step)
      /\ UNCHANGED <<Elsewhere, chrome, store, taken, image, faults>>
  BY DEF Resolve, At
<1>2. step \in {"copy", "ended"} /\ step \in Steps
  BY DEF Steps
<1> HIDE DEF step
<1> DEFINE f == [fetch[k] EXCEPT !.step = step]
<1>3. /\ f \in Fetch /\ fetch' = [fetch EXCEPT ![k] = f]
      /\ f.of = fetch[k].of /\ f.item = fetch[k].item /\ f.step = step
  BY <1>1, <1>2, MoveType
<1> HIDE DEF f
<1> QED BY <1>1, <1>2, <1>3, Outside DEF Inv, TypeOK, Since

LEMMA ReadImageInv ==
  ASSUME Inv, NEW k \in Fetches, ReadImage(k)  PROVE Inv'
<1>1. /\ fetch[k].step = "sent" /\ fetch[k].of \in Images
      /\ UNCHANGED <<Elsewhere, chrome, store, taken, faults>>
  BY DEF ReadImage, Elsewhere
<1>2. PICK step \in {"copy", "ended"} :
         /\ fetch' = [fetch EXCEPT ![k].step = step]
         /\ image' = image \/ image' = [image EXCEPT ![fetch[k].of] = "failed"]
  BY DEF ReadImage
<1>3. Move(k, step) /\ step \in Steps
  BY <1>2 DEF Move, Steps
<1> DEFINE f == [fetch[k] EXCEPT !.step = step]
<1>4. /\ f \in Fetch /\ fetch' = [fetch EXCEPT ![k] = f]
      /\ f.of = fetch[k].of /\ f.item = fetch[k].item /\ f.step = step
  BY <1>3, MoveType
<1>5. /\ image' \in [Images -> {"none", "materializing", "ready", "failed"}]
      /\ \A i \in Images : image'[i] = "ready" => image[i] = "ready"
  BY <1>1, <1>2 DEF Inv, TypeOK
<1>6. f.step \in {"copy", "ended"} /\ faults' \in 0..MaxFaults
  BY <1>1, <1>2, <1>4 DEF Inv, TypeOK
<1> HIDE DEF f
<1> QED BY <1>1, <1>4, <1>5, <1>6, Outside DEF Since

(* Only one import is in the store.                                         *)
LEMMA Alone ==
  ASSUME Inv, NEW k \in Fetches, fetch[k].step \in InStore \/ Free
  PROVE  \A j \in Fetches : j # k \/ Free => fetch[j].step \notin InStore
<1>1. \A j \in Fetches : fetch[j].step \in InStore => store.mutex = j
  BY DEF Inv, ServerInv, ImportsGood, ImportGood
<1>2. \A j \in Fetches : j # 0
  BY ArtifactAssumption DEF Fetches
<1> QED BY <1>1, <1>2 DEF Free

(* What one import does to the copies leaves the others what they had.      *)
LEMMA OthersKept ==
  ASSUME Inv, NEW k \in Fetches,
         \A j \in Fetches : j # k => fetch'[j] = fetch[j] /\ fetch[j].step \notin InStore,
         Forward, \A d : Copied(d) => Copied(d)',
         ImportGood(k)'
  PROVE  ImportsGood'
<1> SUFFICES ASSUME NEW j \in Fetches, j # k
             PROVE  ImportGood(j)'
  BY DEF ImportsGood
<1>1. ImportGood(j) /\ fetch'[j] = fetch[j] /\ fetch[j].step \notin InStore
  BY DEF Inv, ServerInv, ImportsGood
<1>2. fetch[j].item # 0 => fetch[j].item \in Downloads
  BY ArtifactAssumption DEF Inv, TypeOK, Fetch, Downloads
<1>3. fetch[j].step = "remove" =>
         /\ fetch[j].item # 0
         /\ item'[fetch[j].item].state = "complete"
         /\ file'[fetch[j].item] = "captured" => Copied(fetch[j].item)'
  BY <1>1, <1>2 DEF ImportGood, At, Forward
<1> QED
  BY <1>1, <1>3 DEF ImportGood, At, InStore

LEMMA CopyInv ==
  ASSUME Inv, NEW k \in Fetches, Copy(k)  PROVE Inv'
<1> USE DEF chrome
<1> DEFINE d == fetch[k].item
           content == [by |-> k, form |-> IF d = 0 THEN "bytes" ELSE file[d], item |-> d]
           f == [fetch[k] EXCEPT !.step = "commit", !.content = content]
<1>1. /\ fetch[k].step = "copy" /\ Free
      /\ UNCHANGED <<Elsewhere, chrome, taken>>
  BY DEF Copy, At
<1>2. CASE /\ IF d # 0 /\ file[d] = "absent" THEN UNCHANGED faults ELSE Fault
           /\ Move(k, "ended")
           /\ image' = Settled(k, FALSE)
           /\ UNCHANGED store
  <2>1. faults' \in 0..MaxFaults
    BY <1>2, FaultType DEF Inv
  <2> DEFINE g == [fetch[k] EXCEPT !.step = "ended"]
  <2>2. /\ g \in Fetch /\ fetch' = [fetch EXCEPT ![k] = g]
        /\ g.of = fetch[k].of /\ g.item = fetch[k].item /\ g.step = "ended"
    BY <1>2, MoveType DEF Steps
  <2>3. /\ image' \in [Images -> {"none", "materializing", "ready", "failed"}]
        /\ \A i \in Images : image'[i] = "ready" => image[i] = "ready"
    BY <1>2, SettledType
  <2> HIDE DEF g
  <2> QED BY <1>1, <1>2, <2>1, <2>2, <2>3, Outside
<1>3. CASE /\ d # 0 => file[d] # "absent"
           /\ store' = [store EXCEPT !.mutex = k, !.disk = @ \union {content}]
           /\ fetch' = [fetch EXCEPT ![k].step = "commit", ![k].content = content]
           /\ UNCHANGED <<image, faults>>
  <2>1. fetch[k] \in Fetch /\ d \in 0..MaxDownloads /\ (d # 0 => d \in Downloads)
    BY ArtifactAssumption DEF Inv, TypeOK, Fetch, Downloads
  <2>2. content \in Contents /\ content.by = k /\ content.item = d
        /\ (d # 0 => content.form = file[d])
    BY <1>3, <2>1 DEF Contents, Forms, Inv, TypeOK
  <2>3. d # 0 => item[d].state = "complete"
    BY <1>3, <2>1 DEF Inv, ClaimInv, StartedGood
  <2>4. d # 0 => content.form = "captured" \/ file[d] # "captured"
    BY <2>2
  <2> HIDE DEF d, content
  <2>5. /\ f \in Fetch /\ fetch' = [fetch EXCEPT ![k] = f]
        /\ f.of = fetch[k].of /\ f.item = fetch[k].item /\ f.step = "commit" /\ f.content = content
    BY <1>3, <2>1, <2>2 DEF Fetch, Steps, Inv, TypeOK
  <2> HIDE DEF f
  <2>6. /\ fetch' \in [Fetches -> Fetch] /\ fetch'[k] = f
        /\ \A j \in Fetches : j # k => fetch'[j] = fetch[j]
        /\ FetchSteps
        /\ \A j \in Fetches : /\ fetch'[j].item = fetch[j].item
                              /\ fetch'[j].step \in {"none", "sent", "orphan"} =>
                                   fetch[j].step \in {"none", "sent", "orphan"}
    BY <1>1, <2>5, OneFetch DEF Since
  <2>7. /\ store' \in [index: Indexes, disk: SUBSET Contents, mutex: 0..MaxFetches]
        /\ store'.index = store.index /\ store'.mutex = k
        /\ store'.disk = store.disk \union {content}
    <3>1. k \in 0..MaxFetches
      BY ArtifactAssumption DEF Fetches
    <3>2. store.disk \union {content} \in SUBSET Contents
      BY <2>2 DEF Inv, TypeOK
    <3> QED BY <1>3, <3>1, <3>2 DEF Inv, TypeOK
  <2>8. TypeOK'
    BY <1>1, <1>3, <2>6, <2>7 DEF Inv, TypeOK, Elsewhere, page, back
  <2>9. ImportsGood'
    <3>1. \A j \in Fetches : fetch[j].step \notin InStore
      BY <1>1, Alone
    <3>2. Forward /\ \A e : Copied(e) => Copied(e)'
      BY <1>1, <2>7 DEF Forward, Copied, Indexed
    <3>3. ImportGood(k)'
      BY <1>1, <2>2, <2>3, <2>4, <2>5, <2>6, <2>7 DEF ImportGood, At, InStore, d
    <3> QED BY <2>6, <3>1, <3>2, <3>3, OthersKept
  <2>10. CopiesGood'
    <3>1. \A a \in Artifacts : Stored(a)' = Stored(a) /\ (Stored(a) => store.index[a].by \in Fetches)
      BY <2>7 DEF Stored, Inv, TypeOK, Indexes, Contents
    <3>2. \A copy \in taken.dropped : copy.by \in Fetches
      BY DEF Inv, TypeOK, Contents
    <3>3. Artifacts = Files \union Images
      BY DEF Artifacts
    <3>4. \A e : Copied(e) => Copied(e)'
      BY <1>1, <2>7 DEF Copied, Indexed
    <3> QED
      BY <1>1, <1>3, <2>5, <2>6, <2>7, <3>1, <3>2, <3>3, <3>4
         DEF Inv, ServerInv, CopiesGood, FetchSteps
  <2> QED BY <1>1, <2>6, <2>8, <2>9, <2>10, ImportStep DEF Inv, TypeOK
<1> QED BY <1>2, <1>3 DEF Copy

LEMMA DraftInv ==
  ASSUME Inv, NEW k \in Fetches, Draft(k)  PROVE Inv'
<1> USE DEF chrome
<1> DEFINE a == fetch[k].of
           draft == [store.index EXCEPT ![a] = fetch[k].content]
           f == [fetch[k] EXCEPT !.step = "saving", !.old = store.index[a], !.draft = draft]
<1>1. /\ fetch[k].step = "commit"
      /\ fetch' = [fetch EXCEPT ![k].step = "saving", ![k].old = store.index[a],
                                ![k].draft = draft]
      /\ UNCHANGED <<Elsewhere, chrome, store, taken, image, faults>>
  BY DEF Draft, At
<1>2. fetch[k] \in Fetch /\ store.index \in Indexes /\ a \in Artifacts
  BY <1>1 DEF Inv, TypeOK, Fetch, FetchesGood
<1>3. draft \in Indexes /\ store.index[a] \in Contents \union {NoContent}
  BY <1>2 DEF Indexes, Fetch
<1> HIDE DEF draft
<1>4. /\ f \in Fetch /\ fetch' = [fetch EXCEPT ![k] = f]
      /\ f.of = a /\ f.item = fetch[k].item /\ f.step = "saving" /\ f.content = fetch[k].content
      /\ f.old = store.index[a] /\ f.draft = draft
  BY <1>1, <1>2, <1>3 DEF Fetch, Steps, Inv, TypeOK
<1> HIDE DEF f
<1>5. /\ fetch' \in [Fetches -> Fetch] /\ fetch'[k] = f
      /\ \A j \in Fetches : j # k => fetch'[j] = fetch[j]
      /\ FetchSteps
      /\ \A j \in Fetches : /\ fetch'[j].item = fetch[j].item
                            /\ fetch'[j].step \in {"none", "sent", "orphan"} =>
                                 fetch[j].step \in {"none", "sent", "orphan"}
  BY <1>1, <1>4, OneFetch DEF Since
<1>6. TypeOK'
  BY <1>1, <1>5 DEF Inv, TypeOK, Elsewhere, page, back
<1>7. ImportsGood'
  <2>1. \A j \in Fetches : j # k => fetch[j].step \notin InStore
    BY <1>1, Alone DEF InStore
  <2>2. Forward /\ \A e : Copied(e) => Copied(e)'
    BY <1>1 DEF Forward, Copied, Indexed
  <2>3. ImportGood(k)'
    <3>1. ImportGood(k)
      BY DEF Inv, ServerInv, ImportsGood
    <3> QED BY <1>1, <1>4, <1>5, <3>1 DEF ImportGood, At, InStore, draft
  <2> QED BY <1>5, <2>1, <2>2, <2>3, OthersKept
<1>8. CopiesGood'
  BY <1>1, <1>5, CopiesKept DEF FetchSteps, Inv, ServerInv
<1> QED BY <1>1, <1>5, <1>6, <1>7, <1>8, ImportStep DEF Inv, TypeOK

(* What an import that has its copy on disk knows of it.                    *)
LEMMA Writing ==
  ASSUME Inv, NEW k \in Fetches, fetch[k].step \in InStore
  PROVE  /\ fetch[k] \in Fetch /\ fetch[k].of \in Artifacts
         /\ fetch[k].content \in Contents /\ fetch[k].content # NoContent
         /\ fetch[k].content \in store.disk
         /\ fetch[k].content.by = k /\ fetch[k].content.item = fetch[k].item
         /\ store.index \in Indexes
         /\ \A a \in Artifacts : Stored(a) =>
              /\ store.index[a] \in Contents /\ store.index[a].by \in Fetches
              /\ fetch[k].step # "unlink" => store.index[a].by # k
         /\ \A j \in Fetches : j # k => fetch[j].step \notin InStore
<1>1. fetch[k] \in Fetch /\ fetch[k].of \in Artifacts
  BY DEF Inv, TypeOK, Fetch, FetchesGood, InStore
<1>2. /\ fetch[k].content \in store.disk /\ fetch[k].content.by = k
      /\ fetch[k].content.item = fetch[k].item
  BY DEF Inv, ServerInv, ImportsGood, ImportGood
<1>3. fetch[k].content \in Contents /\ k # 0
  BY <1>2, ArtifactAssumption DEF Inv, TypeOK, Fetches
<1>4. fetch[k].content # NoContent
  BY <1>2, <1>3 DEF NoContent
<1>5. store.index \in Indexes
  BY DEF Inv, TypeOK
<1>6. \A a \in Artifacts : Stored(a) =>
              /\ store.index[a] \in Contents /\ store.index[a].by \in Fetches
              /\ fetch[store.index[a].by].step \in Since
  BY <1>5 DEF Stored, Indexes, Contents, Inv, ServerInv, CopiesGood
<1>7. fetch[k].step # "unlink" => fetch[k].step \notin Since
  BY DEF InStore, Since
<1>8. \A j \in Fetches : j # k => fetch[j].step \notin InStore
  BY Alone
<1> QED BY <1>1, <1>2, <1>3, <1>4, <1>5, <1>6, <1>7, <1>8

LEMMA SaveInv ==
  ASSUME Inv, NEW k \in Fetches, Save(k)  PROVE Inv'
<1> USE DEF chrome
<1> DEFINE a == fetch[k].of
           content == fetch[k].content
<1>1. fetch[k].step = "saving" /\ UNCHANGED <<Elsewhere, chrome>>
  BY DEF Save, At
<1>2. /\ fetch[k] \in Fetch /\ a \in Artifacts
      /\ content \in Contents /\ content # NoContent /\ content \in store.disk
      /\ content.by = k /\ content.item = fetch[k].item
      /\ store.index \in Indexes
      /\ \A b \in Artifacts : Stored(b) =>
              store.index[b] \in Contents /\ store.index[b].by \in Fetches /\ store.index[b].by # k
      /\ \A j \in Fetches : j # k => fetch[j].step \notin InStore
  BY <1>1, Writing DEF InStore
<1>3. NoDraft \in Indexes
  BY DEF NoDraft, Indexes
<1>4. /\ fetch[k].old = store.index[a] /\ store.mutex = k
      /\ fetch[k].draft = [store.index EXCEPT ![a] = content]
      /\ fetch[k].item # 0 => /\ content.form = "captured" \/ file[fetch[k].item] # "captured"
                              /\ item[fetch[k].item].state = "complete"
  BY <1>1 DEF Inv, ServerInv, ImportsGood, ImportGood, At, InStore
<1>5. \A b \in Artifacts : Stored(b) =>
        /\ store.index[b] \in store.disk
        /\ fetch[store.index[b].by].of = b
        /\ fetch[store.index[b].by].step \in Since
  BY DEF Inv, ServerInv, CopiesGood
<1>6. \A copy \in taken.dropped : copy.by \in Fetches
  BY DEF Inv, TypeOK, Contents
<1>7. CASE /\ store' = [store EXCEPT !.index = fetch[k].draft]
           /\ taken' = [taken EXCEPT !.dropped = @ \union Old(k)]
           /\ fetch' = [fetch EXCEPT ![k].step = "unlink", ![k].draft = NoDraft]
           /\ UNCHANGED <<image, faults>>
  <2> DEFINE f == [fetch[k] EXCEPT !.step = "unlink", !.draft = NoDraft]
  <2>1. /\ f \in Fetch /\ fetch' = [fetch EXCEPT ![k] = f]
        /\ f.of = a /\ f.item = fetch[k].item /\ f.step = "unlink" /\ f.content = content
        /\ f.old = fetch[k].old
    BY <1>2, <1>3, <1>7 DEF Fetch, Steps, Inv, TypeOK
  <2> HIDE DEF f
  <2>2. /\ fetch' \in [Fetches -> Fetch] /\ fetch'[k] = f
        /\ \A j \in Fetches : j # k => fetch'[j] = fetch[j]
        /\ FetchSteps
        /\ \A j \in Fetches : /\ fetch'[j].item = fetch[j].item
                              /\ fetch'[j].step \in {"none", "sent", "orphan"} =>
                                   fetch[j].step \in {"none", "sent", "orphan"}
    BY <1>1, <2>1, OneFetch DEF Since
  <2>3. /\ store' \in [index: Indexes, disk: SUBSET Contents, mutex: 0..MaxFetches]
        /\ store'.disk = store.disk /\ store'.mutex = k
        /\ store'.index[a] = content
        /\ \A b \in Artifacts : b # a => store'.index[b] = store.index[b]
    <3>1. /\ fetch[k].draft \in Indexes /\ fetch[k].draft[a] = content
          /\ \A b \in Artifacts : b # a => fetch[k].draft[b] = store.index[b]
      BY <1>2, <1>4 DEF Indexes
    <3>2. store \in [index: Indexes, disk: SUBSET Contents, mutex: 0..MaxFetches]
      BY DEF Inv, TypeOK
    <3>3. /\ store' \in [index: Indexes, disk: SUBSET Contents, mutex: 0..MaxFetches]
          /\ store'.index = fetch[k].draft /\ store'.disk = store.disk /\ store'.mutex = store.mutex
      BY <1>7, <3>1, <3>2
    <3> QED BY <1>4, <3>1, <3>3
  <2>4. Old(k) \subseteq Contents /\ (Stored(a) => store.index[a] \in Old(k))
        /\ \A copy \in Old(k) : Stored(a) /\ copy = store.index[a]
    BY <1>2, <1>4 DEF Old, Stored, Indexes
  <2>5. /\ taken' \in [gone: SUBSET Downloads, dropped: SUBSET Contents]
        /\ taken'.gone = taken.gone
        /\ taken'.dropped = taken.dropped \union Old(k)
    BY <1>7, <2>4 DEF Inv, TypeOK
  <2>6. TypeOK'
    BY <1>1, <1>7, <2>2, <2>3, <2>5 DEF Inv, TypeOK, Elsewhere, page, back
  <2>7. \A e : Copied(e) => Copied(e)'
    <3>1. Indexed \union taken.dropped \subseteq Indexed' \union taken'.dropped
      BY <2>3, <2>4, <2>5 DEF Indexed, Stored
    <3> QED BY <3>1 DEF Copied
  <2>8. \A b \in Artifacts : Stored(b)' => b = a \/ Stored(b)
    BY <2>3 DEF Stored
  <2>9. \A b \in Artifacts : Stored(b) => Stored(b)'
    <3>1. store'.index[a] # NoContent
      BY <1>2, <2>3
    <3> QED BY <2>3, <3>1 DEF Stored
  <2>10. ImportsGood'
    <3>1. fetch[k].old \notin Indexed'
      <4> SUFFICES ASSUME NEW b \in Artifacts, store'.index[b] = fetch[k].old,
                          fetch[k].old # NoContent
                   PROVE  FALSE
        BY DEF Indexed
      <4>1. Stored(a)
        BY <1>4 DEF Stored
      <4>2. CASE b = a
        BY <4>1, <4>2, <1>2, <1>4, <2>3
      <4>3. CASE b # a
        <5>1. Stored(b) /\ store.index[b] = store.index[a]
          BY <4>1, <4>3, <1>4, <2>3 DEF Stored
        <5> QED BY <4>1, <4>3, <5>1, <1>2, <1>5
      <4> QED BY <4>2, <4>3
    <3>2. ImportGood(k)'
      BY <1>1, <1>2, <1>4, <2>1, <2>2, <2>3, <3>1 DEF ImportGood, At, InStore
    <3>3. Forward
      BY <1>1 DEF Forward
    <3> QED BY <1>2, <2>2, <2>7, <3>2, <3>3, OthersKept
  <2>11. CopiesGood'
    <3>1. \A b \in Artifacts : Stored(b)' =>
            /\ store'.index[b] \in store'.disk
            /\ fetch'[store'.index[b].by].of = b
            /\ fetch'[store'.index[b].by].step \in Since
      <4> SUFFICES ASSUME NEW b \in Artifacts, Stored(b)'
                   PROVE  /\ store'.index[b] \in store'.disk
                          /\ fetch'[store'.index[b].by].of = b
                          /\ fetch'[store'.index[b].by].step \in Since
        OBVIOUS
      <4>1. CASE b = a
        BY <4>1, <1>2, <2>1, <2>2, <2>3 DEF Since
      <4>2. CASE b # a
        BY <4>2, <1>2, <1>5, <2>2, <2>3, <2>8
      <4> QED BY <4>1, <4>2
    <3>2. \A copy \in taken'.dropped : fetch'[copy.by].step # "none"
      <4>1. \A copy \in taken.dropped : fetch[copy.by].step # "none"
        BY DEF Inv, ServerInv, CopiesGood
      <4>2. \A copy \in Old(k) : fetch[copy.by].step \in Since /\ copy.by \in Fetches
        BY <1>2, <1>5, <2>4
      <4> QED BY <4>1, <4>2, <1>6, <2>2, <2>5 DEF FetchSteps, Since
    <3>3. \A e \in taken'.gone : Copied(e)'
      BY <2>5, <2>7 DEF Inv, ServerInv, CopiesGood
    <3>4. \A i \in Images : image'[i] = "ready" =>
            Stored(i)' \/ \E copy \in taken'.dropped : fetch'[copy.by].of = i
      <4>1. \A i \in Images : image[i] = "ready" =>
              Stored(i) \/ \E copy \in taken.dropped : fetch[copy.by].of = i
        BY DEF Inv, ServerInv, CopiesGood
      <4>2. \A copy \in taken.dropped : fetch'[copy.by].of = fetch[copy.by].of
        BY <1>6, <2>2 DEF FetchSteps
      <4>3. \A i \in Images : Stored(i) => Stored(i)'
        BY <2>9 DEF Artifacts
      <4>4. image' = image /\ taken.dropped \subseteq taken'.dropped
        BY <1>7, <2>5
      <4> QED BY <4>1, <4>2, <4>3, <4>4
    <3> QED BY <3>1, <3>2, <3>3, <3>4 DEF CopiesGood
  <2> QED BY <1>1, <2>2, <2>6, <2>10, <2>11, ImportStep DEF Inv, TypeOK
<1>8. CASE /\ Fault
           /\ store' = [store EXCEPT !.mutex = 0, !.disk = @ \ {content}]
           /\ fetch' = [fetch EXCEPT ![k].step = "ended", ![k].draft = NoDraft]
           /\ image' = Settled(k, FALSE)
           /\ UNCHANGED taken
  <2> DEFINE f == [fetch[k] EXCEPT !.step = "ended", !.draft = NoDraft]
  <2>1. /\ f \in Fetch /\ fetch' = [fetch EXCEPT ![k] = f]
        /\ f.of = a /\ f.item = fetch[k].item /\ f.step = "ended"
    BY <1>2, <1>3, <1>8 DEF Fetch, Steps, Inv, TypeOK
  <2> HIDE DEF f
  <2>2. /\ fetch' \in [Fetches -> Fetch] /\ fetch'[k] = f
        /\ \A j \in Fetches : j # k => fetch'[j] = fetch[j]
        /\ FetchSteps
        /\ \A j \in Fetches : /\ fetch'[j].item = fetch[j].item
                              /\ fetch'[j].step \in {"none", "sent", "orphan"} =>
                                   fetch[j].step \in {"none", "sent", "orphan"}
    BY <1>1, <2>1, OneFetch DEF Since
  <2>3. /\ store' \in [index: Indexes, disk: SUBSET Contents, mutex: 0..MaxFetches]
        /\ store'.index = store.index /\ store'.disk = store.disk \ {content}
    <3>1. store \in [index: Indexes, disk: SUBSET Contents, mutex: 0..MaxFetches]
      BY DEF Inv, TypeOK
    <3>2. store.disk \ {content} \in SUBSET Contents /\ 0 \in 0..MaxFetches
      BY <3>1, ArtifactAssumption
    <3> QED BY <1>8, <3>1, <3>2
  <2>4. faults' \in 0..MaxFaults
    BY <1>8, FaultType DEF Inv
  <2>5. /\ image' \in [Images -> {"none", "materializing", "ready", "failed"}]
        /\ \A i \in Images : image'[i] = "ready" => image[i] = "ready"
    BY <1>8, SettledType
  <2>6. TypeOK'
    BY <1>1, <1>8, <2>2, <2>3, <2>4, <2>5 DEF Inv, TypeOK, Elsewhere, page, back
  <2>7. \A e : Copied(e)' = Copied(e)
    BY <1>8, <2>3 DEF Copied, Indexed
  <2>8. ImportsGood'
    <3>1. ImportGood(k)'
      BY <2>1, <2>2 DEF ImportGood, At, InStore
    <3>2. Forward
      BY <1>1 DEF Forward
    <3> QED BY <1>2, <2>2, <2>7, <3>1, <3>2, OthersKept
  <2>9. CopiesGood'
    <3>1. \A b \in Artifacts : Stored(b)' = Stored(b)
      BY <2>3 DEF Stored
    <3>2. \A b \in Artifacts : Stored(b) =>
            /\ store.index[b] \in store'.disk
            /\ fetch'[store.index[b].by].of = b
            /\ fetch'[store.index[b].by].step \in Since
      BY <1>2, <1>5, <2>2, <2>3
    <3>3. \A copy \in taken.dropped : /\ fetch'[copy.by].step # "none"
                                      /\ fetch'[copy.by].of = fetch[copy.by].of
      BY <1>6, <2>2 DEF FetchSteps, Inv, ServerInv, CopiesGood
    <3>4. \A i \in Images : Stored(i)' = Stored(i)
      BY <3>1 DEF Artifacts
    <3>5. \A i \in Images : image'[i] = "ready" =>
            Stored(i) \/ \E copy \in taken.dropped : fetch'[copy.by].of = i
      BY <3>3, <2>5 DEF Inv, ServerInv, CopiesGood
    <3>6. \A e \in taken.gone : Copied(e)
      BY DEF Inv, ServerInv, CopiesGood
    <3> QED BY <1>8, <2>3, <2>7, <3>1, <3>2, <3>3, <3>4, <3>5, <3>6 DEF CopiesGood
  <2> QED BY <1>1, <2>2, <2>6, <2>8, <2>9, ImportStep DEF Inv, TypeOK
<1> QED BY <1>7, <1>8 DEF Save

LEMMA UnlinkInv ==
  ASSUME Inv, NEW k \in Fetches, Unlink(k)  PROVE Inv'
<1> USE DEF chrome
<1> DEFINE a == fetch[k].of
           content == fetch[k].content
           step == IF fetch[k].item = 0 THEN "ended" ELSE "remove"
           f == [fetch[k] EXCEPT !.old = NoContent, !.content = NoContent, !.step = step]
<1>1. /\ fetch[k].step = "unlink"
      /\ store' = [store EXCEPT !.mutex = 0, !.disk = @ \ Old(k)]
      /\ fetch' = [fetch EXCEPT ![k].old = NoContent, ![k].content = NoContent, ![k].step = step]
      /\ image' = Settled(k, TRUE)
      /\ UNCHANGED <<Elsewhere, chrome, taken, faults>>
  BY DEF Unlink, At
<1>2. /\ fetch[k] \in Fetch /\ a \in Artifacts
      /\ content # NoContent /\ content.item = fetch[k].item
      /\ \A j \in Fetches : j # k => fetch[j].step \notin InStore
      /\ \A b \in Artifacts : Stored(b) => store.index[b].by \in Fetches
  BY <1>1, Writing DEF InStore
<1>3. /\ store.index[a] = content /\ fetch[k].old \notin Indexed
      /\ fetch[k].item # 0 => /\ content.form = "captured" \/ file[fetch[k].item] # "captured"
                              /\ item[fetch[k].item].state = "complete"
  BY <1>1 DEF Inv, ServerInv, ImportsGood, ImportGood, At, InStore
<1>4. step \in {"ended", "remove"} /\ (step = "remove" <=> fetch[k].item # 0)
  OBVIOUS
<1> HIDE DEF step
<1>5. /\ f \in Fetch /\ fetch' = [fetch EXCEPT ![k] = f]
      /\ f.of = a /\ f.item = fetch[k].item /\ f.step = step
  BY <1>1, <1>2, <1>4 DEF Fetch, Steps, Inv, TypeOK
<1> HIDE DEF f
<1>6. /\ fetch' \in [Fetches -> Fetch] /\ fetch'[k] = f
      /\ \A j \in Fetches : j # k => fetch'[j] = fetch[j]
      /\ FetchSteps
      /\ \A j \in Fetches : /\ fetch'[j].item = fetch[j].item
                            /\ fetch'[j].step \in {"none", "sent", "orphan"} =>
                                 fetch[j].step \in {"none", "sent", "orphan"}
  BY <1>1, <1>4, <1>5, OneFetch DEF Since
<1>7. /\ store' \in [index: Indexes, disk: SUBSET Contents, mutex: 0..MaxFetches]
      /\ store'.index = store.index /\ store'.disk = store.disk \ Old(k)
  <2>1. store \in [index: Indexes, disk: SUBSET Contents, mutex: 0..MaxFetches]
    BY DEF Inv, TypeOK
  <2>2. store.disk \ Old(k) \in SUBSET Contents /\ 0 \in 0..MaxFetches
    BY <2>1, ArtifactAssumption
  <2> QED BY <1>1, <2>1, <2>2
<1>8. /\ image' \in [Images -> {"none", "materializing", "ready", "failed"}]
      /\ \A i \in Images : image'[i] = "ready" => image[i] = "ready" \/ a = i
  BY <1>1, SettledType
<1>9. TypeOK'
  BY <1>1, <1>6, <1>7, <1>8 DEF Inv, TypeOK, Elsewhere, page, back
<1>10. \A e : Copied(e)' = Copied(e)
  BY <1>1, <1>7 DEF Copied, Indexed
<1>11. content \in Indexed
  BY <1>2, <1>3 DEF Indexed
<1>12. ImportsGood'
  <2>1. fetch[k].item # 0 /\ file[fetch[k].item] = "captured" => Copied(fetch[k].item)
    BY <1>2, <1>3, <1>11 DEF Copied
  <2>2. ImportGood(k)'
    BY <1>1, <1>3, <1>4, <1>5, <1>6, <1>10, <2>1 DEF ImportGood, At, InStore
  <2>3. Forward
    BY <1>1 DEF Forward
  <2> QED BY <1>2, <1>6, <1>10, <2>2, <2>3, OthersKept
<1>13. CopiesGood'
  <2>1. \A b \in Artifacts : Stored(b)' = Stored(b)
    BY <1>7 DEF Stored
  <2>2. \A b \in Artifacts : Stored(b) =>
          /\ store.index[b] \in store'.disk
          /\ fetch'[store.index[b].by].of = b
          /\ fetch'[store.index[b].by].step \in Since
    <3>1. \A b \in Artifacts : Stored(b) => store.index[b] \in Indexed
      BY DEF Indexed, Stored
    <3>2. \A b \in Artifacts : Stored(b) => store.index[b] \notin Old(k)
      BY <1>3, <3>1 DEF Old
    <3> QED BY <1>2, <1>6, <1>7, <3>2 DEF Inv, ServerInv, CopiesGood, FetchSteps
  <2>3. \A copy \in taken.dropped : copy.by \in Fetches
    BY DEF Inv, TypeOK, Contents
  <2>4. \A copy \in taken.dropped : /\ fetch'[copy.by].step # "none"
                                    /\ fetch'[copy.by].of = fetch[copy.by].of
    BY <2>3, <1>6 DEF FetchSteps, Inv, ServerInv, CopiesGood
  <2>5. \A i \in Images : Stored(i)' = Stored(i)
    BY <2>1 DEF Artifacts
  <2>6. \A i \in Images : image'[i] = "ready" =>
          Stored(i) \/ \E copy \in taken.dropped : fetch'[copy.by].of = i
    BY <1>2, <1>3, <1>8, <2>4 DEF Inv, ServerInv, CopiesGood, Stored
  <2>7. \A e \in taken.gone : Copied(e)
    BY DEF Inv, ServerInv, CopiesGood
  <2> QED BY <1>1, <1>7, <1>10, <2>1, <2>2, <2>4, <2>5, <2>6, <2>7 DEF CopiesGood
<1> QED BY <1>1, <1>6, <1>9, <1>12, <1>13, ImportStep DEF Inv, TypeOK

LEMMA RemoveSourceInv ==
  ASSUME Inv, NEW k \in Fetches, RemoveSource(k)  PROVE Inv'
<1> DEFINE d == fetch[k].item
           f == [fetch[k] EXCEPT !.step = "ended", !.named = FALSE]
<1>1. /\ fetch[k].step = "remove"
      /\ fetch' = [fetch EXCEPT ![k].step = "ended", ![k].named = FALSE]
      /\ UNCHANGED <<Elsewhere, item, news, store, image, faults>>
      /\ \/ UNCHANGED <<taken, file>>
         \/ /\ file[d] = "captured"
            /\ taken' = [taken EXCEPT !.gone = @ \union {d}]
            /\ file' = [file EXCEPT ![d] = "absent"]
  BY DEF RemoveSource, At, Removable
<1>2. /\ fetch[k] \in Fetch /\ d \in Downloads
      /\ file[d] = "captured" => Copied(d)
  <2>1. fetch[k] \in Fetch
    BY DEF Inv, TypeOK
  <2>2. d # 0 /\ (file[d] = "captured" => Copied(d))
    BY <1>1 DEF Inv, ServerInv, ImportsGood, ImportGood, At
  <2> QED BY <2>1, <2>2, ArtifactAssumption DEF Fetch, Downloads
<1>3. /\ f \in Fetch /\ fetch' = [fetch EXCEPT ![k] = f]
      /\ f.of = fetch[k].of /\ f.item = d /\ f.step = "ended"
  BY <1>1, <1>2 DEF Fetch, Steps, Inv, TypeOK
<1> HIDE DEF f
<1>4. /\ fetch' \in [Fetches -> Fetch] /\ fetch'[k] = f
      /\ \A j \in Fetches : j # k => fetch'[j] = fetch[j]
      /\ FetchSteps
      /\ \A j \in Fetches : /\ fetch'[j].item = fetch[j].item
                            /\ fetch'[j].step \in {"none", "sent", "orphan"} =>
                                 fetch[j].step \in {"none", "sent", "orphan"}
  BY <1>1, <1>3, OneFetch DEF Since
<1>5. /\ file' \in [Downloads -> {"absent", "captured", "edited"}]
      /\ \A e \in Downloads : file'[e] \in {"absent", file[e]}
  BY <1>1 DEF Inv, TypeOK
<1>6. /\ taken' \in [gone: SUBSET Downloads, dropped: SUBSET Contents]
      /\ taken'.dropped = taken.dropped
      /\ \A e \in taken'.gone : Copied(e)
  <2>1. taken \in [gone: SUBSET Downloads, dropped: SUBSET Contents]
    BY DEF Inv, TypeOK
  <2>2. \A e \in taken.gone : Copied(e)
    BY DEF Inv, ServerInv, CopiesGood
  <2>3. CASE file[d] = "captured" /\ taken' = [taken EXCEPT !.gone = @ \union {d}]
    BY <1>2, <2>1, <2>2, <2>3
  <2>4. CASE taken' = taken
    BY <2>1, <2>2, <2>4
  <2> QED BY <1>1, <2>3, <2>4
<1>7. TypeOK'
  BY <1>1, <1>4, <1>5, <1>6 DEF Inv, TypeOK, Elsewhere, page, back
<1>8. \A e : Copied(e)' = Copied(e)
  BY <1>1, <1>6 DEF Copied, Indexed
<1>9. ImportsGood'
  <2> SUFFICES ASSUME NEW j \in Fetches
               PROVE  ImportGood(j)'
    BY DEF ImportsGood
  <2>1. CASE j = k
    BY <2>1, <1>3, <1>4 DEF ImportGood, At, InStore
  <2>2. CASE j # k
    <3>1. ImportGood(j) /\ fetch'[j] = fetch[j]
      BY <2>2, <1>4 DEF Inv, ServerInv, ImportsGood
    <3>2. fetch[j].item # 0 => fetch[j].item \in Downloads
      BY ArtifactAssumption DEF Inv, TypeOK, Fetch, Downloads
    <3>3. fetch[j].item # 0 /\ file'[fetch[j].item] = "captured" => file[fetch[j].item] = "captured"
      BY <1>5, <3>2
    <3>4. Indexed' = Indexed /\ store' = store /\ item' = item
      BY <1>1 DEF Indexed
    <3> QED BY <1>8, <3>1, <3>3, <3>4 DEF ImportGood, At, InStore
  <2> QED BY <2>1, <2>2
<1>10. CopiesGood'
  <2>1. \A b \in Artifacts : Stored(b)' = Stored(b) /\ (Stored(b) => store.index[b].by \in Fetches)
    BY <1>1 DEF Stored, Inv, TypeOK, Indexes, Contents
  <2>2. \A copy \in taken.dropped : copy.by \in Fetches
    BY DEF Inv, TypeOK, Contents
  <2>3. \A i \in Images : Stored(i)' = Stored(i)
    BY <2>1 DEF Artifacts
  <2> QED BY <1>1, <1>4, <1>6, <1>8, <2>1, <2>2, <2>3 DEF Inv, ServerInv, CopiesGood, FetchSteps
<1> QED BY <1>1, <1>4, <1>5, <1>7, <1>9, <1>10, ImportStep

LEMMA RemoveInv ==
  ASSUME Inv, NEW a \in Artifacts, Remove(a)  PROVE Inv'
<1> USE DEF chrome
<1> DEFINE copy == store.index[a]
<1>1. /\ Free /\ Stored(a)
      /\ store' = [store EXCEPT !.index[a] = NoContent, !.disk = @ \ {copy}]
      /\ taken' = [taken EXCEPT !.dropped = @ \union {copy}]
      /\ UNCHANGED <<Elsewhere, chrome, fetch, image>>
  BY DEF Remove
<1>2. faults' \in 0..MaxFaults
  BY FaultType DEF Remove, Inv
<1>3. /\ store \in [index: Indexes, disk: SUBSET Contents, mutex: 0..MaxFetches]
      /\ taken \in [gone: SUBSET Downloads, dropped: SUBSET Contents]
  BY DEF Inv, TypeOK
<1>4. copy \in Contents /\ copy.by \in Fetches /\ copy # NoContent
  BY <1>1, <1>3 DEF Stored, Indexes, Contents
<1>5. \A b \in Artifacts : Stored(b) =>
        /\ store.index[b] \in store.disk
        /\ fetch[store.index[b].by].of = b
        /\ fetch[store.index[b].by].step \in Since
  BY DEF Inv, ServerInv, CopiesGood
<1>6. /\ store' \in [index: Indexes, disk: SUBSET Contents, mutex: 0..MaxFetches]
      /\ store'.index[a] = NoContent /\ store'.disk = store.disk \ {copy}
      /\ \A b \in Artifacts : b # a => store'.index[b] = store.index[b]
      /\ store'.mutex = store.mutex
  BY <1>1, <1>3 DEF Indexes
<1>7. /\ taken' \in [gone: SUBSET Downloads, dropped: SUBSET Contents]
      /\ taken'.dropped = taken.dropped \union {copy} /\ taken'.gone = taken.gone
  BY <1>1, <1>3, <1>4
<1>8. TypeOK'
  BY <1>1, <1>2, <1>6, <1>7 DEF Inv, TypeOK, Elsewhere, page, back
<1>9. \A e : Copied(e) => Copied(e)'
  <2>1. Indexed \union taken.dropped \subseteq Indexed' \union taken'.dropped
    BY <1>6, <1>7 DEF Indexed
  <2> QED BY <2>1 DEF Copied
<1>10. \A j \in Fetches : fetch[j].step \notin InStore
  <2>1. \A j \in Fetches : fetch[j].step \in InStore => store.mutex = j
    BY DEF Inv, ServerInv, ImportsGood, ImportGood
  <2> QED BY <1>1, <2>1, ArtifactAssumption DEF Free, Fetches
<1>11. ImportsGood'
  <2> SUFFICES ASSUME NEW j \in Fetches
               PROVE  ImportGood(j)'
    BY DEF ImportsGood
  <2>1. ImportGood(j)
    BY DEF Inv, ServerInv, ImportsGood
  <2> QED BY <1>1, <1>9, <1>10, <2>1 DEF ImportGood, At, InStore
<1>12. CopiesGood'
  <2>1. \A b \in Artifacts : Stored(b)' => b # a /\ Stored(b)
    BY <1>6 DEF Stored
  <2>2. \A b \in Artifacts : Stored(b)' =>
          /\ store'.index[b] \in store'.disk
          /\ fetch[store'.index[b].by].of = b
          /\ fetch[store'.index[b].by].step \in Since
    BY <1>1, <1>5, <1>6, <2>1
  <2>3. \A c \in taken'.dropped : fetch[c.by].step # "none"
    BY <1>1, <1>5, <1>7 DEF Inv, ServerInv, CopiesGood, Since
  <2>4. \A i \in Images : image[i] = "ready" =>
          Stored(i)' \/ \E c \in taken'.dropped : fetch[c.by].of = i
    <3> SUFFICES ASSUME NEW i \in Images, image[i] = "ready", ~Stored(i)'
                 PROVE  \E c \in taken'.dropped : fetch[c.by].of = i
      OBVIOUS
    <3>1. CASE i = a
      BY <3>1, <1>1, <1>5, <1>7
    <3>2. CASE i # a
      <4>1. ~Stored(i)
        BY <3>2, <1>6 DEF Stored, Artifacts
      <4> QED BY <4>1, <1>7 DEF Inv, ServerInv, CopiesGood
    <3> QED BY <3>1, <3>2
  <2>5. \A e \in taken'.gone : Copied(e)'
    BY <1>7, <1>9 DEF Inv, ServerInv, CopiesGood
  <2> QED BY <1>1, <2>2, <2>3, <2>4, <2>5 DEF CopiesGood
<1>13. FetchSteps
  BY <1>1 DEF FetchSteps
<1> QED BY <1>1, <1>8, <1>11, <1>12, <1>13, ImportStep DEF Inv, TypeOK

-----------------------------------------------------------------------------
(* The commands of the server, and what ends them                           *)

(* A fetch the page had is answered, with the download of a capture of its  *)
(* own that completed if with any.  No later fetch of the artifact exists.  *)
LEMMA AnswerStep ==
  ASSUME Inv, NEW k \in Fetches, fetch[k].step \in {"sent", "orphan"},
         NEW f \in Fetch, fetch' = [fetch EXCEPT ![k] = f],
         f.of = fetch[k].of, f.step \in {"resolve", "copy", "ended"},
         f.item # 0 => \E c \in Captures : /\ record[c].of = k
                                           /\ record[c].status = "completed"
                                           /\ record[c].item = f.item,
         record' = record, Handles, UNCHANGED <<store, taken>>,
         \A i \in Images : image'[i] = "ready" => image[i] = "ready",
         TypeOK', CapturesGood', PageInv'
  PROVE  Inv'
<1>1. /\ fetch'[k] = f
      /\ \A j \in Fetches : j # k => fetch'[j] = fetch[j]
      /\ \A j \in Fetches : fetch'[j].of = fetch[j].of
  BY DEF Inv, TypeOK
<1>2. FetchSteps
  BY <1>1 DEF FetchSteps, Since
<1>3. FetchesGood'
  <2>1. \A j \in Fetches : fetch'[j].step \in {"none", "sent", "orphan"} => fetch'[j].item = 0
    BY <1>1 DEF Inv, FetchesGood
  <2> QED BY <1>2, <2>1, FetchesKept DEF Inv
<1>4. AnsweredGood'
  BY <1>1 DEF Inv, AnsweredGood, Answered
<1>5. StartedGood'
  BY StartedKept, RecordStays DEF Inv, ClaimInv, Handles, Forward
<1>6. ClaimsGood'
  <2> SUFFICES ASSUME NEW m \in Fetches, NEW c \in Captures, NEW d \in Downloads,
                      fetch'[m].item = d, record[c].of # 0, m < record[c].of,
                      fetch'[record[c].of].of = fetch'[m].of,
                      Claims(c, d)'
               PROVE  FALSE
    BY DEF ClaimsGood
  <2>1. /\ record[c].of \in Fetches /\ fetch[record[c].of].of = fetch[m].of
        /\ fetch[record[c].of].step # "none" /\ fetch[record[c].of].of \in Files
    <3>1. record[c].of \in Fetches /\ Acted(fetch, record[c].of)
      BY InRange DEF Inv, PageInv, ActedGood
    <3> QED BY <1>1, <3>1 DEF Acted
  <2>2. At(m, "ended")
    BY <2>1 DEF Inv, FetchesGood
  <2>3. m # k /\ fetch[m].item = d
    BY <1>1, <2>2 DEF At
  <2>4. d # 0
    BY ArtifactAssumption DEF Downloads
  <2>5. PICK e \in Captures : /\ record[e].of = m
                              /\ record[e].status = "completed"
                              /\ record[e].item = d
    BY <2>3, <2>4 DEF Inv, AnsweredGood, Answered
  <2>6. item[d].state # "none"
    BY <2>5 DEF Inv, ClaimInv, StartedGood, Claims
  <2>7. Claims(c, d)
    BY <2>6 DEF Handles, HandsOn
  <2> QED BY <2>1, <2>3, <2>7 DEF Inv, ClaimInv, ClaimsGood
<1>7. ImportsGood'
  <2>1. \A j \in Fetches : fetch'[j] = fetch[j] \/ fetch'[j].step \notin InStore \union {"remove"}
    BY <1>1 DEF InStore
  <2> QED BY <2>1, ImportsKept DEF Inv, ServerInv, Handles
<1>8. CopiesGood'
  BY <1>2, CopiesKept DEF FetchSteps, Inv, ServerInv
<1> QED
  BY <1>3, <1>4, <1>5, <1>6, <1>7, <1>8 DEF Inv, ClaimInv, ServerInv

LEMMA AnswerInv ==
  ASSUME Inv, Answer  PROVE Inv'
<1> USE DEF back, chrome
<1> DEFINE k == job.of
           c == job.capture
<1>1. PICK result \in {job.result, "error"} :
         /\ IF result = job.result THEN UNCHANGED faults ELSE Fault
         /\ fetch' = IF fetch[k].step # "sent" THEN fetch
                  ELSE [fetch EXCEPT
                    ![k].step = CASE result = "file"  -> "resolve"
                                  [] result = "bytes" -> "copy"
                                  [] OTHER            -> "ended",
                    ![k].named = result = "file",
                    ![k].item = IF result = "file" THEN record[c].item ELSE 0]
  BY DEF Answer
<1>2. /\ job.stage = "closing" /\ job' = Idle
      /\ UNCHANGED <<queue, clicks, port, back, chrome, store, taken, image>>
  BY DEF Answer
<1>3. /\ JobFine(job, record) /\ k # 0 /\ job \in Job
      /\ k \in Fetches /\ c \in 0..MaxCaptures
      /\ ~op.heard
  <2>1. JobFine(job, record) /\ k # 0 /\ job \in Job /\ ~op.heard
    BY <1>2, GoesOn DEF Inv, PageInv, Asks, Asking
  <2> QED BY <2>1, ArtifactAssumption DEF Job, Fetches
<1>4. faults' \in 0..MaxFaults
  BY <1>1, FaultType DEF Inv
<1>5. result = "file" => /\ c \in Captures /\ record[c].of = k
                         /\ record[c].status = "completed" /\ record[c] \in Record
  <2> SUFFICES ASSUME result = "file"
               PROVE  /\ c \in Captures /\ record[c].of = k
                      /\ record[c].status = "completed" /\ record[c] \in Record
    OBVIOUS
  <2>1. job.result = "file"
    BY <1>1
  <2>2. c # 0 /\ record[c].of = k /\ record[c].status = "completed"
    BY <1>3, <2>1 DEF JobFine
  <2> QED BY <1>3, <2>2, ArtifactAssumption DEF Captures, Inv, TypeOK
<1>6. JobFine(Idle, record) /\ Idle \in Job
  BY BlankType DEF JobFine, Idle, Early, Asking
<1>7. OpGood' /\ ~op'.heard
  BY <1>2, <1>3 DEF Inv, PageInv, OpGood
<1>8. CASE fetch[k].step # "sent"
  <2>1. fetch' = fetch
    BY <1>1, <1>8
  <2>2. FetchSteps
    BY <2>1 DEF FetchSteps
  <2>3. PageInv'
    <3>1. ActedGood'
      BY <1>2, <2>1 DEF Inv, PageInv, ActedGood, Idle
    <3> QED BY <1>2, <1>6, <1>7, <3>1 DEF PageInv, Asks
  <2>4. TypeOK'
    BY <1>2, <1>4, <1>6, <2>1 DEF Inv, TypeOK
  <2>5. CapturesGood'
    BY <1>2 DEF Inv, CapturesGood
  <2>6. Handles
    BY <1>2, HandsFree DEF Inv, TypeOK
  <2>7. ImportsGood' /\ CopiesGood'
    BY <1>2, <2>1, <2>6, ImportsKept, CopiesKept DEF Inv, ServerInv, Handles
  <2> QED BY <1>2, <2>1, <2>2, <2>3, <2>4, <2>5, <2>6, <2>7, ServerStep
<1>9. CASE fetch[k].step = "sent"
  <2> DEFINE f == [fetch[k] EXCEPT
                     !.step = CASE result = "file"  -> "resolve"
                                [] result = "bytes" -> "copy"
                                [] OTHER            -> "ended",
                     !.named = result = "file",
                     !.item = IF result = "file" THEN record[c].item ELSE 0]
  <2>1. fetch' = [fetch EXCEPT ![k] = f]
    BY <1>1, <1>9
  <2>2. fetch[k] \in Fetch
    BY <1>3 DEF Inv, TypeOK
  <2>3. (IF result = "file" THEN record[c].item ELSE 0) \in 0..MaxDownloads
    BY <1>5, ArtifactAssumption DEF Record
  <2>4. /\ f \in Fetch /\ f.of = fetch[k].of /\ f.step \in {"resolve", "copy", "ended"}
        /\ f.item # 0 => result = "file" /\ f.item = record[c].item
    BY <2>2, <2>3 DEF Fetch, Steps
  <2> HIDE DEF f
  <2>5. f.item # 0 => \E e \in Captures : /\ record[e].of = k
                                          /\ record[e].status = "completed"
                                          /\ record[e].item = f.item
    BY <1>5, <2>4
  <2>6. fetch' \in [Fetches -> Fetch]
    BY <2>1, <2>4 DEF Inv, TypeOK
  <2>7. \A j \in Fetches : Acted(fetch, j) => Acted(fetch', j)
    BY <1>9, <2>1, <2>4 DEF Inv, TypeOK, Acted
  <2>8. PageInv'
    <3>1. op.of # 0 => op.of \in Fetches
      BY InRange DEF Inv
    <3>2. \A e \in Captures : record[e].of # 0 => record[e].of \in Fetches
      BY InRange DEF Inv
    <3>3. \A i \in 1..Len(queue) : queue[i] \in Fetches
      BY InRange DEF Inv
    <3>4. ActedGood'
      BY <1>2, <2>7, <3>1, <3>2, <3>3 DEF Inv, PageInv, ActedGood, Idle
    <3> QED BY <1>2, <1>6, <1>7, <3>4 DEF PageInv, Asks
  <2>9. TypeOK'
    BY <1>2, <1>4, <1>6, <2>6 DEF Inv, TypeOK
  <2>10. CapturesGood'
    BY <1>2 DEF Inv, CapturesGood
  <2>11. Handles
    BY <1>2, HandsFree DEF Inv, TypeOK
  <2> QED BY <1>2, <1>3, <1>9, <2>1, <2>4, <2>5, <2>8, <2>9, <2>10, <2>11, AnswerStep
<1> QED BY <1>8, <1>9

(* What the page and the background have, when the server alone acts.       *)
LEMMA PageRests ==
  ASSUME Inv, UNCHANGED Elsewhere,
         \A k \in Fetches : Acted(fetch, k) => Acted(fetch', k)
  PROVE  CapturesGood' /\ PageInv'
<1> USE DEF Elsewhere, page, back
<1>1. CapturesGood'
  BY DEF Inv, CapturesGood
<1>2. op.of # 0 => op.of \in Fetches
  BY InRange DEF Inv
<1>3. job.of # 0 => job.of \in Fetches
  BY InRange DEF Inv
<1>4. \A c \in Captures : record[c].of # 0 => record[c].of \in Fetches
  BY InRange DEF Inv
<1>5. \A i \in 1..Len(queue) : queue[i] \in Fetches
  BY InRange DEF Inv
<1>6. ActedGood'
  BY <1>2, <1>3, <1>4, <1>5 DEF Inv, PageInv, ActedGood
<1>7. OpGood' /\ Asks(op, job)' /\ JobFine(job, record)'
  BY DEF Inv, PageInv, OpGood, Asks
<1> QED BY <1>1, <1>6, <1>7 DEF PageInv

LEMMA RecoverInv ==
  ASSUME Inv, NEW k \in Fetches, Recover(k)  PROVE Inv'
<1> USE DEF Elsewhere, page, back, chrome
<1>1. /\ fetch[k].step = "orphan"
      /\ UNCHANGED <<Elsewhere, chrome, store, taken, faults>>
      /\ \/ \E c \in Captures :
              /\ record[c].of = k /\ record[c].status = "completed"
              /\ fetch' = [fetch EXCEPT ![k].step = "resolve", ![k].item = record[c].item]
              /\ UNCHANGED image
         \/ Move(k, "ended") /\ image' = Settled(k, FALSE)
  BY DEF Recover, Mine, At
<1>2. fetch[k] \in Fetch /\ fetch[k].item = 0
  BY <1>1 DEF Inv, TypeOK, FetchesGood
<1>3. PICK f \in Fetch :
         /\ fetch' = [fetch EXCEPT ![k] = f]
         /\ f.of = fetch[k].of /\ f.step \in {"resolve", "copy", "ended"}
         /\ f.item # 0 => \E c \in Captures : /\ record[c].of = k
                                              /\ record[c].status = "completed"
                                              /\ record[c].item = f.item
         /\ image' \in [Images -> {"none", "materializing", "ready", "failed"}]
         /\ \A i \in Images : image'[i] = "ready" => image[i] = "ready"
  <2>1. CASE Move(k, "ended") /\ image' = Settled(k, FALSE)
    <3> DEFINE f == [fetch[k] EXCEPT !.step = "ended"]
    <3>1. /\ f \in Fetch /\ fetch' = [fetch EXCEPT ![k] = f]
          /\ f.of = fetch[k].of /\ f.item = 0 /\ f.step = "ended"
      BY <1>2, <2>1, MoveType DEF Steps
    <3>2. /\ image' \in [Images -> {"none", "materializing", "ready", "failed"}]
          /\ \A i \in Images : image'[i] = "ready" => image[i] = "ready"
      BY <2>1, SettledType
    <3> HIDE DEF f
    <3> QED BY <3>1, <3>2
  <2>2. ASSUME NEW c \in Captures, record[c].of = k, record[c].status = "completed",
               fetch' = [fetch EXCEPT ![k].step = "resolve", ![k].item = record[c].item],
               UNCHANGED image
        PROVE  \E f \in Fetch :
                 /\ fetch' = [fetch EXCEPT ![k] = f]
                 /\ f.of = fetch[k].of /\ f.step \in {"resolve", "copy", "ended"}
                 /\ f.item # 0 => \E e \in Captures : /\ record[e].of = k
                                                      /\ record[e].status = "completed"
                                                      /\ record[e].item = f.item
                 /\ image' \in [Images -> {"none", "materializing", "ready", "failed"}]
                 /\ \A i \in Images : image'[i] = "ready" => image[i] = "ready"
    <3> DEFINE f == [fetch[k] EXCEPT !.step = "resolve", !.item = record[c].item]
    <3>1. record[c].item \in 0..MaxDownloads
      BY DEF Inv, TypeOK, Record
    <3>2. /\ f \in Fetch /\ f.of = fetch[k].of /\ f.step = "resolve"
          /\ f.item = record[c].item
      BY <1>2, <3>1 DEF Fetch, Steps
    <3>3. fetch' = [fetch EXCEPT ![k] = f]
      BY <2>2
    <3>4. image' \in [Images -> {"none", "materializing", "ready", "failed"}]
      BY <2>2 DEF Inv, TypeOK
    <3> HIDE DEF f
    <3> QED BY <2>2, <3>2, <3>3, <3>4
  <2> QED BY <1>1, <2>1, <2>2
<1>4. /\ fetch' \in [Fetches -> Fetch]
      /\ \A j \in Fetches : Acted(fetch, j) => Acted(fetch', j)
  BY <1>1, <1>3 DEF Inv, TypeOK, Acted
<1>5. CapturesGood' /\ PageInv'
  BY <1>1, <1>4, PageRests
<1>6. TypeOK'
  BY <1>1, <1>3, <1>4 DEF Inv, TypeOK
<1>7. Handles
  BY <1>1, HandsFree DEF Inv, TypeOK
<1> QED BY <1>1, <1>3, <1>5, <1>6, <1>7, AnswerStep

LEMMA CancelFetchInv ==
  ASSUME Inv, NEW k \in Fetches, CancelFetch(k)  PROVE Inv'
<1> USE DEF chrome
<1> DEFINE f == [fetch[k] EXCEPT !.step = "ended"]
<1>1. /\ fetch[k].step = "sent" /\ Move(k, "ended")
      /\ image' = Settled(k, FALSE)
      /\ UNCHANGED <<queue, clicks, port, lease, record, live, op, writes, chrome,
                     store, taken, faults>>
      /\ \/ UNCHANGED <<job, stop>>
         \/ /\ job' = [job EXCEPT !.aborted = TRUE]
            /\ stop' = IF job.held THEN job.capture ELSE stop
  BY DEF CancelFetch, At
<1>2. /\ f \in Fetch /\ fetch' = [fetch EXCEPT ![k] = f]
      /\ f.of = fetch[k].of /\ f.item = fetch[k].item /\ f.step = "ended"
  BY <1>1, MoveType DEF Steps
<1> HIDE DEF f
<1>3. f.item = 0
  BY <1>1, <1>2 DEF Inv, FetchesGood
<1>4. /\ image' \in [Images -> {"none", "materializing", "ready", "failed"}]
      /\ \A i \in Images : image'[i] = "ready" => image[i] = "ready"
  BY <1>1, SettledType
<1>5. Follow(job, record, job') /\ stop' \in 0..MaxCaptures /\ job'.stage = job.stage
      /\ job'.capture = job.capture
  <2>1. Follow(job, record, job) /\ job \in Job
    BY JobStays DEF Inv, TypeOK
  <2>2. CASE UNCHANGED <<job, stop>>
    BY <2>1, <2>2 DEF Inv, TypeOK
  <2>3. CASE /\ job' = [job EXCEPT !.aborted = TRUE]
             /\ stop' = IF job.held THEN job.capture ELSE stop
    BY <2>1, <2>3 DEF Inv, TypeOK, Follow, JobFine, Job, Early
  <2> QED BY <1>1, <2>2, <2>3
<1>6. /\ fetch' \in [Fetches -> Fetch] /\ FetchSteps
  BY <1>1, <1>2, OneFetch DEF Since
<1>7. PageInv'
  <2>1. OpGood' /\ Asks(op, job)'
    BY <1>1, <1>5 DEF Inv, PageInv, OpGood, Asks, Follow
  <2> QED BY <1>1, <1>5, <1>6, <2>1, PageKept, RecordStays DEF Inv
<1>8. TypeOK'
  BY <1>1, <1>4, <1>5, <1>6 DEF Inv, TypeOK, Follow, JobFine
<1>9. CapturesGood'
  BY <1>1 DEF Inv, CapturesGood
<1>10. Handles
  BY <1>1, HandsFree DEF Inv, TypeOK
<1> QED BY <1>1, <1>2, <1>3, <1>4, <1>7, <1>8, <1>9, <1>10, AnswerStep

LEMMA PageReloadsInv ==
  ASSUME Inv, PageReloads  PROVE Inv'
<1> USE DEF chrome
<1>1. /\ port' = FALSE /\ job' = Idle /\ queue' = <<>> /\ clicks' = 0 /\ stop' = 0
      /\ op' = [op EXCEPT !.heard = FALSE]
      /\ live' = [c \in Captures |-> [live[c] EXCEPT !.mine = FALSE]]
      /\ fetch' = [k \in Fetches |-> IF fetch[k].step = "sent"
                    THEN [fetch[k] EXCEPT !.step = "orphan"] ELSE fetch[k]]
      /\ UNCHANGED <<lease, record, writes, chrome, store, taken, image>>
  BY DEF PageReloads, At
<1>2. faults' \in 0..MaxFaults
  BY FaultType DEF PageReloads, Inv
<1>3. \A k \in Fetches : /\ fetch'[k] \in Fetch
                         /\ fetch'[k].of = fetch[k].of /\ fetch'[k].item = fetch[k].item
                         /\ \/ fetch'[k] = fetch[k]
                            \/ fetch[k].step = "sent" /\ fetch'[k].step = "orphan"
  <2> SUFFICES ASSUME NEW k \in Fetches
               PROVE  /\ fetch'[k] \in Fetch
                      /\ fetch'[k].of = fetch[k].of /\ fetch'[k].item = fetch[k].item
                      /\ \/ fetch'[k] = fetch[k]
                         \/ fetch[k].step = "sent" /\ fetch'[k].step = "orphan"
    OBVIOUS
  <2>1. fetch[k] \in Fetch
    BY DEF Inv, TypeOK
  <2> QED BY <1>1, <2>1 DEF Fetch, Steps
<1>4. FetchSteps
  BY <1>3 DEF FetchSteps, Since
<1>5. \A c \in Captures : /\ live'[c] \in Live
                          /\ live'[c].on = live[c].on /\ live'[c].item = live[c].item
                          /\ live'[c].done = live[c].done
  <2> SUFFICES ASSUME NEW c \in Captures
               PROVE  /\ live'[c] \in Live
                      /\ live'[c].on = live[c].on /\ live'[c].item = live[c].item
                      /\ live'[c].done = live[c].done
    OBVIOUS
  <2>1. live[c] \in Live
    BY DEF Inv, TypeOK
  <2> QED BY <1>1, <2>1 DEF Live
<1>6. /\ op' \in Operation /\ ~op'.heard /\ op'.kind = op.kind /\ op'.capture = op.capture
      /\ op'.of = op.of /\ op'.item = op.item
      /\ op.kind = "none" => op' = NoOp
  <2>1. op \in Operation /\ (op.kind = "none" => op = NoOp)
    BY DEF Inv, TypeOK, PageInv, OpGood
  <2>2. [NoOp EXCEPT !.heard = FALSE] = NoOp
    <3>1. NoOp \in Operation /\ NoOp.heard = FALSE
      BY BlankType DEF NoOp
    <3> HIDE DEF NoOp
    <3> QED BY <3>1 DEF Operation
  <2>3. op.kind = "none" => op' = NoOp
    BY <1>1, <2>1, <2>2
  <2> QED BY <1>1, <2>1, <2>3 DEF Operation
<1>7. JobFine(Idle, record) /\ Idle \in Job /\ Idle.of = 0
  BY BlankType DEF JobFine, Idle, Early, Asking
<1>8. TypeOK'
  <2>1. queue' \in Seq(Fetches) /\ 0 \in 0..MaxDownloads /\ 0 \in 0..MaxCaptures
    BY <1>1, ArtifactAssumption
  <2>2. fetch' \in [Fetches -> Fetch] /\ live' \in [Captures -> Live]
    BY <1>1, <1>3, <1>5
  <2> QED BY <1>1, <1>2, <1>6, <1>7, <2>1, <2>2 DEF Inv, TypeOK
<1>9. CapturesGood'
  BY <1>1, <1>5 DEF Inv, CapturesGood
<1>10. PageInv'
  <2>1. OpGood'
    BY <1>1, <1>6 DEF Inv, PageInv, OpGood
  <2>2. \A j \in Fetches : Acted(fetch, j) => Acted(fetch', j)
    BY <1>4 DEF FetchSteps, Acted
  <2>3. op.of # 0 => op.of \in Fetches
    BY InRange DEF Inv
  <2>4. \A e \in Captures : record[e].of # 0 => record[e].of \in Fetches
    BY InRange DEF Inv
  <2>5. Len(queue') = 0
    BY <1>1
  <2>6. ActedGood'
    BY <1>1, <1>6, <1>7, <2>2, <2>3, <2>4, <2>5 DEF Inv, PageInv, ActedGood
  <2> QED BY <1>1, <1>6, <1>7, <2>1, <2>6 DEF PageInv, Asks
<1>11. Handles
  BY <1>1, <1>5, <1>6, HandsFree DEF Inv, TypeOK
<1>12. ImportsGood'
  <2>1. \A k \in Fetches : fetch'[k] = fetch[k] \/ fetch'[k].step \notin InStore \union {"remove"}
    BY <1>3 DEF InStore
  <2> QED BY <1>1, <1>11, <2>1, ImportsKept DEF Inv, ServerInv, Handles
<1>13. CopiesGood'
  BY <1>1, <1>4, CopiesKept DEF FetchSteps, Inv, ServerInv
<1>14. \A k \in Fetches : /\ fetch'[k].item = fetch[k].item
                          /\ fetch'[k].step \in {"none", "sent", "orphan"} =>
                               fetch[k].step \in {"none", "sent", "orphan"}
  BY <1>3
<1> QED BY <1>1, <1>4, <1>8, <1>9, <1>10, <1>11, <1>12, <1>13, <1>14, ServerStep

LEMMA ServerStopsInv ==
  ASSUME Inv, ServerStops  PROVE Inv'
<1> USE DEF Elsewhere, page, back, chrome
<1>1. /\ fetch' = [k \in Fetches |-> IF fetch[k].step \in {"none", "ended"} THEN fetch[k]
           ELSE [fetch[k] EXCEPT !.step = "ended", !.draft = NoDraft, !.old = NoContent]]
      /\ store' = [store EXCEPT !.mutex = 0]
      /\ image' = [i \in Images |-> "none"]
      /\ UNCHANGED <<Elsewhere, chrome, taken>>
  BY DEF ServerStops
<1>2. faults' \in 0..MaxFaults
  BY FaultType DEF ServerStops, Inv
<1>3. \A k \in Fetches : /\ fetch'[k] \in Fetch
                         /\ fetch'[k].of = fetch[k].of /\ fetch'[k].item = fetch[k].item
                         /\ fetch'[k].step = IF fetch[k].step = "none" THEN "none" ELSE "ended"
  <2> SUFFICES ASSUME NEW k \in Fetches
               PROVE  /\ fetch'[k] \in Fetch
                      /\ fetch'[k].of = fetch[k].of /\ fetch'[k].item = fetch[k].item
                      /\ fetch'[k].step = IF fetch[k].step = "none" THEN "none" ELSE "ended"
    OBVIOUS
  <2>1. fetch[k] \in Fetch
    BY DEF Inv, TypeOK
  <2>2. CASE fetch[k].step \in {"none", "ended"}
    BY <1>1, <2>1, <2>2
  <2>3. CASE fetch[k].step \notin {"none", "ended"}
    <3>1. fetch'[k] = [fetch[k] EXCEPT !.step = "ended", !.draft = NoDraft, !.old = NoContent]
      BY <1>1, <2>3
    <3>2. NoDraft \in Indexes
      BY DEF NoDraft, Indexes
    <3> QED BY <2>1, <2>3, <3>1, <3>2 DEF Fetch, Steps
  <2> QED BY <2>2, <2>3
<1>4. FetchSteps
  BY <1>3 DEF FetchSteps, Since
<1>5. /\ store' \in [index: Indexes, disk: SUBSET Contents, mutex: 0..MaxFetches]
      /\ store'.index = store.index /\ store'.disk = store.disk
  <2>1. store \in [index: Indexes, disk: SUBSET Contents, mutex: 0..MaxFetches]
    BY DEF Inv, TypeOK
  <2>2. 0 \in 0..MaxFetches
    BY ArtifactAssumption
  <2> QED BY <1>1, <2>1, <2>2
<1>6. image' \in [Images -> {"none", "materializing", "ready", "failed"}]
      /\ \A i \in Images : image'[i] # "ready"
  BY <1>1
<1>7. TypeOK'
  <2>1. fetch' \in [Fetches -> Fetch]
    BY <1>1, <1>3
  <2> QED BY <1>1, <1>2, <1>5, <1>6, <2>1 DEF Inv, TypeOK
<1>8. ImportsGood'
  BY <1>3 DEF ImportsGood, ImportGood, At, InStore
<1>9. CopiesGood'
  <2>1. \A a \in Artifacts : Stored(a)' = Stored(a) /\ (Stored(a) => store.index[a].by \in Fetches)
    BY <1>5 DEF Stored, Inv, TypeOK, Indexes, Contents
  <2>2. \A copy \in taken.dropped : copy.by \in Fetches
    BY DEF Inv, TypeOK, Contents
  <2>3. \A e : Copied(e)' = Copied(e)
    BY <1>1, <1>5 DEF Copied, Indexed
  <2>4. CopiesGood
    BY DEF Inv, ServerInv
  <2>5. \A a \in Artifacts : Stored(a) =>
           /\ fetch'[store.index[a].by].of = a
           /\ fetch'[store.index[a].by].step \in Since
    BY <1>4, <2>1, <2>4 DEF CopiesGood, FetchSteps
  <2>6. \A copy \in taken.dropped : fetch'[copy.by].step # "none"
    BY <1>4, <2>2, <2>4 DEF CopiesGood, FetchSteps
  <2>7. \A d \in taken.gone : Copied(d)
    BY <2>4 DEF CopiesGood
  <2>8. \A a \in Artifacts : Stored(a) => store.index[a] \in store.disk
    BY <2>4 DEF CopiesGood
  <2>9. store'.index = store.index /\ store'.disk = store.disk /\ taken' = taken
    BY <1>1, <1>5
  <2> HIDE DEF Elsewhere, page, back, chrome
  <2> QED BY <1>6, <2>1, <2>3, <2>5, <2>6, <2>7, <2>8, <2>9 DEF CopiesGood
<1>10. \A k \in Fetches : /\ fetch'[k].item = fetch[k].item
                          /\ fetch'[k].step \in {"none", "sent", "orphan"} =>
                               fetch[k].step \in {"none", "sent", "orphan"}
  BY <1>3
<1>11. CapturesGood' /\ PageInv'
  <2>1. \A k \in Fetches : Acted(fetch, k) => Acted(fetch', k)
    BY <1>3 DEF Acted
  <2> QED BY <1>1, <2>1, PageRests
<1>12. Handles
  BY <1>1, HandsFree DEF Inv, TypeOK
<1> QED BY <1>1, <1>4, <1>7, <1>8, <1>9, <1>10, <1>11, <1>12, ServerStep

(* A new fetch has the next number, and is the only one of its file.        *)
LEMMA NewFetchInv ==
  ASSUME Inv, NEW n \in Fetches, fetch[n].step = "none",
         \A k \in Fetches : k < n => fetch[k].step # "none",
         NEW a \in Artifacts, a \in Files => ~InFlight(a),
         fetch' = [fetch EXCEPT ![n].of = a, ![n].step = "sent"],
         UNCHANGED <<job, clicks, port, back, chrome, store, taken>>,
         queue' = queue \/ (a \in Files /\ queue' = Append(queue, n)),
         image' \in [Images -> {"none", "materializing", "ready", "failed"}],
         \A i \in Images : image'[i] = "ready" => image[i] = "ready" \/ Stored(i),
         faults' \in 0..MaxFaults
  PROVE  Inv'
<1> USE DEF back, chrome
<1>1. fetch[n] \in Fetch /\ fetch[n].of = 0 /\ fetch[n].item = 0 /\ a # 0
  BY ArtifactAssumption DEF Inv, TypeOK, FetchesGood, Artifacts
<1>2. /\ fetch'[n] \in Fetch /\ fetch'[n].of = a /\ fetch'[n].step = "sent"
      /\ fetch'[n].item = 0
      /\ \A k \in Fetches : k # n => fetch'[k] = fetch[k]
      /\ fetch' \in [Fetches -> Fetch]
  <2> DEFINE f == [fetch[n] EXCEPT !.of = a, !.step = "sent"]
  <2>1. f \in Fetch /\ f.of = a /\ f.step = "sent" /\ f.item = 0
    BY <1>1 DEF Fetch, Steps
  <2>2. fetch' = [fetch EXCEPT ![n] = f] /\ fetch \in [Fetches -> Fetch]
    BY DEF Inv, TypeOK
  <2> HIDE DEF f
  <2> QED BY <2>1, <2>2
<1>3. \A k \in Fetches : /\ fetch'[k].item = fetch[k].item
                         /\ fetch[k].step # "none" => fetch'[k] = fetch[k]
  BY <1>1, <1>2
<1>4. TypeOK'
  <2>1. queue' \in Seq(Fetches)
    <3>1. queue \in Seq(Fetches)
      BY DEF Inv, TypeOK
    <3>2. Append(queue, n) \in Seq(Fetches)
      BY <3>1, AppendProperties
    <3> QED BY <3>1, <3>2
  <2> QED BY <1>2, <2>1 DEF Inv, TypeOK
<1>5. CapturesGood'
  BY DEF Inv, CapturesGood
<1>6. PageInv'
  <2>1. \A k \in Fetches : Acted(fetch, k) => Acted(fetch', k)
    BY <1>3 DEF Acted
  <2>2. op.of # 0 => op.of \in Fetches
    BY InRange DEF Inv
  <2>3. job.of # 0 => job.of \in Fetches
    BY InRange DEF Inv
  <2>4. \A c \in Captures : record[c].of # 0 => record[c].of \in Fetches
    BY InRange DEF Inv
  <2>5. \A i \in 1..Len(queue') : Acted(fetch', queue'[i])
    <3>1. \A i \in 1..Len(queue) : queue[i] \in Fetches
      BY InRange DEF Inv
    <3>2. \A i \in 1..Len(queue) : Acted(fetch', queue[i])
      BY <2>1, <3>1 DEF Inv, PageInv, ActedGood
    <3>3. CASE a \in Files /\ queue' = Append(queue, n)
      <4>1. Acted(fetch', n)
        BY <1>2, <3>3 DEF Acted
      <4>2. Len(queue') = Len(queue) + 1 /\ Len(queue) \in Nat
        BY <3>3, AppendProperties, LenProperties DEF Inv, TypeOK
      <4>3. \A i \in 1..Len(queue) : queue'[i] = queue[i]
        BY <3>3, AppendProperties DEF Inv, TypeOK
      <4>4. queue'[Len(queue) + 1] = n
        BY <3>3, AppendProperties DEF Inv, TypeOK
      <4> SUFFICES ASSUME NEW i \in 1..Len(queue')
                   PROVE  Acted(fetch', queue'[i])
        OBVIOUS
      <4>5. i \in 1..Len(queue) \/ i = Len(queue) + 1
        BY <4>2
      <4> QED BY <3>2, <4>1, <4>3, <4>4, <4>5
    <3>4. CASE queue' = queue
      BY <3>2, <3>4
    <3> QED BY <3>3, <3>4
  <2>6. ActedGood'
    BY <2>1, <2>2, <2>3, <2>4, <2>5 DEF Inv, PageInv, ActedGood
  <2>7. OpGood' /\ Asks(op, job)' /\ JobFine(job, record)'
    BY DEF Inv, PageInv, OpGood, Asks
  <2> QED BY <2>6, <2>7 DEF PageInv
<1>7. FetchesGood'
  <2>1. \A k \in Fetches :
          /\ (fetch'[k].step = "none") <=> (fetch'[k].of = 0)
          /\ fetch'[k].step \in {"none", "sent", "orphan"} => fetch'[k].item = 0
    BY <1>1, <1>2 DEF Inv, FetchesGood
  <2> SUFFICES ASSUME NEW k \in Fetches, NEW j \in Fetches, k < j, fetch'[j].step # "none"
               PROVE  /\ fetch'[k].step # "none"
                      /\ fetch'[k].of = fetch'[j].of /\ fetch'[k].of \in Files =>
                           fetch'[k].step = "ended"
    BY <2>1 DEF FetchesGood, At
  <2>2. k \in Nat /\ j \in Nat /\ n \in Nat
    BY ArtifactAssumption DEF Fetches
  <2>3. CASE j = n
    <3>1. k # n /\ fetch[k].step # "none" /\ fetch'[k] = fetch[k]
      BY <1>2, <2>2, <2>3
    <3>2. fetch[k].of = a /\ a \in Files => fetch[k].step = "ended"
      BY DEF InFlight
    <3> QED BY <1>2, <2>3, <3>1, <3>2
  <2>4. CASE j # n
    <3>1. fetch'[j] = fetch[j] /\ fetch[j].step # "none"
      BY <1>2, <2>4
    <3>2. /\ fetch[k].step # "none"
          /\ fetch[k].of = fetch[j].of /\ fetch[k].of \in Files => fetch[k].step = "ended"
      BY <3>1 DEF Inv, FetchesGood, At
    <3> QED BY <1>2, <3>1, <3>2
  <2> QED BY <2>3, <2>4
<1>8. AnsweredGood'
  <2>1. \A c \in Captures : record[c].status = "completed" => record[c].status # "none"
    OBVIOUS
  <2> QED BY <1>3, <2>1, AnsweredKept, RecordStays DEF Inv
<1>9. Handles
  BY HandsFree DEF Inv, TypeOK
<1>10. StartedGood'
  BY <1>9, StartedKept, RecordStays DEF Inv, ClaimInv, Handles, Forward
<1>11. ClaimsGood'
  <2>1. \A c \in Captures, d \in Downloads :
            Claims(c, d) /\ record[c].status # "none" => record[c].of # 0
    BY DEF Inv, CapturesGood
  <2> QED BY <1>3, <1>9, <2>1, ClaimsKept, RecordStays DEF Inv, PageInv, ClaimInv, Handles
<1>12. ImportsGood'
  <2>1. \A k \in Fetches : fetch'[k] = fetch[k] \/ fetch'[k].step \notin InStore \union {"remove"}
    BY <1>2 DEF InStore
  <2> QED BY <1>9, <2>1, ImportsKept DEF Inv, ServerInv, Handles
<1>13. CopiesGood'
  <2>1. \A k \in Fetches : /\ fetch[k].step # "none" => /\ fetch'[k].step # "none"
                                                        /\ fetch'[k].of = fetch[k].of
                           /\ fetch[k].step \in Since => fetch'[k].step \in Since
    BY <1>3 DEF Since
  <2> QED BY <2>1, CopiesKept DEF Inv, ServerInv
<1> QED
  BY <1>4, <1>5, <1>6, <1>7, <1>8, <1>10, <1>11, <1>12, <1>13 DEF Inv, ClaimInv, ServerInv

LEMMA RequestFetchInv ==
  ASSUME Inv, NEW a \in Artifacts, RequestFetch(a)  PROVE Inv'
<1> DEFINE n == NextFetch
<1>1. /\ a \in Files /\ ~InFlight(a) /\ Fresh # {}
      /\ fetch' = [fetch EXCEPT ![n].of = a, ![n].step = "sent"]
      /\ queue' = Append(queue, n)
      /\ UNCHANGED <<job, clicks, port, back, chrome, store, taken, image>>
  BY DEF RequestFetch
<1>2. faults' \in 0..MaxFaults
  BY FaultType DEF RequestFetch, Inv
<1>3. /\ n \in Fetches /\ fetch[n].step = "none"
      /\ \A k \in Fetches : k < n => fetch[k].step # "none"
  BY <1>1, NextFetchLeast
<1>4. image' \in [Images -> {"none", "materializing", "ready", "failed"}]
  BY <1>1 DEF Inv, TypeOK
<1> HIDE DEF n
<1> QED BY <1>1, <1>2, <1>3, <1>4, NewFetchInv

LEMMA ObserveInv ==
  ASSUME Inv, NEW i \in Artifacts, Observe(i)  PROVE Inv'
<1> DEFINE n == NextFetch
<1>1. i \in Images /\ UNCHANGED <<Elsewhere, chrome, store, taken, faults>>
  BY DEF Observe
<1>2. CASE Stored(i) /\ image' = [image EXCEPT ![i] = "ready"] /\ UNCHANGED fetch
  <2> USE DEF Elsewhere, page, back, chrome
  <2>1. /\ image' \in [Images -> {"none", "materializing", "ready", "failed"}]
        /\ \A e \in Images : image'[e] = "ready" => image[e] = "ready" \/ Stored(e)
    BY <1>1, <1>2 DEF Inv, TypeOK
  <2>2. FetchSteps /\ Forward
    BY <1>1, <1>2 DEF FetchSteps, Forward
  <2>3. TypeOK'
    BY <1>1, <1>2, <2>1 DEF Inv, TypeOK
  <2>4. ImportsGood' /\ CopiesGood'
    BY <1>1, <1>2, <2>1, <2>2, ImportsKept, CopiesKept DEF Inv, ServerInv
  <2> QED BY <1>1, <1>2, <2>2, <2>3, <2>4, ImportStep DEF Inv, TypeOK
<1>3. CASE /\ Fresh # {} /\ image' = [image EXCEPT ![i] = "materializing"]
           /\ fetch' = [fetch EXCEPT ![n].of = i, ![n].step = "sent"]
  <2>1. /\ n \in Fetches /\ fetch[n].step = "none"
        /\ \A k \in Fetches : k < n => fetch[k].step # "none"
    BY <1>3, NextFetchLeast
  <2>2. /\ image' \in [Images -> {"none", "materializing", "ready", "failed"}]
        /\ \A e \in Images : image'[e] = "ready" => image[e] = "ready"
    BY <1>1, <1>3 DEF Inv, TypeOK
  <2>3. i \notin Files /\ faults' \in 0..MaxFaults
    BY <1>1, ArtifactAssumption DEF Inv, TypeOK
  <2>4. UNCHANGED <<job, clicks, port, back, chrome, store, taken>> /\ queue' = queue
    BY <1>1 DEF Elsewhere, page
  <2> HIDE DEF n
  <2> QED BY <1>3, <2>1, <2>2, <2>3, <2>4, NewFetchInv
<1> QED BY <1>2, <1>3 DEF Observe

-----------------------------------------------------------------------------
(* The invariant, and what follows from it                                  *)

LEMMA InitInv ==
  ASSUME Init  PROVE Inv
<1>1. NoDraft \in Indexes /\ \A a \in Artifacts : NoDraft[a] = NoContent
  BY DEF NoDraft, Indexes
<1>2. \A k \in Fetches : /\ fetch[k] \in Fetch /\ fetch[k].step = "none"
                         /\ fetch[k].of = 0 /\ fetch[k].item = 0
  BY <1>1, ArtifactAssumption DEF Init, Fetch, Steps
<1>3. TypeOK
  <2>1. fetch \in [Fetches -> Fetch]
    BY <1>2 DEF Init
  <2>2. queue \in Seq(Fetches)
    BY DEF Init
  <2>3. item \in [Downloads -> Item]
    BY DEF Init, Item
  <2>4. store \in [index: Indexes, disk: SUBSET Contents, mutex: 0..MaxFetches]
    BY <1>1, ArtifactAssumption DEF Init
  <2>5. 0 \in 0..MaxFaults /\ 0 \in 0..MaxDownloads /\ 0 \in 0..MaxCaptures
    BY ArtifactAssumption
  <2>6. /\ record \in [Captures -> Record] /\ live \in [Captures -> Live]
        /\ op \in Operation /\ job \in Job
    BY BlankType DEF Init
  <2>7. /\ file \in [Downloads -> {"absent", "captured", "edited"}]
        /\ taken \in [gone: SUBSET Downloads, dropped: SUBSET Contents]
        /\ image \in [Images -> {"none", "materializing", "ready", "failed"}]
        /\ writes \subseteq Write /\ news \subseteq Downloads
    BY DEF Init
  <2>8. port \in BOOLEAN /\ lease \in 0..2
    BY DEF Init
  <2> QED BY <2>1, <2>2, <2>3, <2>4, <2>5, <2>6, <2>7, <2>8 DEF Init, TypeOK
<1>4. CapturesGood
  BY DEF Init, CapturesGood, Blank, Gone
<1>5. PageInv
  <2>1. JobFine(job, record)
    BY <1>3 DEF TypeOK, Init, JobFine, Idle, Early, Asking
  <2>2. Len(queue) = 0
    BY DEF Init
  <2>3. ActedGood
    BY <2>2 DEF Init, ActedGood, Idle, NoOp, Blank
  <2> QED BY <2>1, <2>3 DEF Init, PageInv, OpGood, Asks, NoOp
<1>6. FetchesGood /\ AnsweredGood
  BY <1>2 DEF FetchesGood, AnsweredGood, Answered
<1>7. ClaimInv
  <2>1. \A d \in Downloads : d # 0
    BY ArtifactAssumption DEF Downloads
  <2>2. \A c \in Captures, d \in Downloads : ~Claims(c, d)
    BY <2>1 DEF Init, Claims, Blank, Gone, NoOp
  <2> QED BY <2>2 DEF Init, ClaimInv, StartedGood, ClaimsGood, NoOp
<1>8. ServerInv
  <2>1. ImportsGood
    BY <1>2 DEF ImportsGood, ImportGood, At, InStore
  <2>2. CopiesGood
    BY <1>1 DEF Init, CopiesGood, Stored
  <2> QED BY <2>1, <2>2 DEF ServerInv
<1> QED BY <1>3, <1>4, <1>5, <1>6, <1>7, <1>8 DEF Inv

LEMMA StutterInv ==
  ASSUME Inv, UNCHANGED vars  PROVE Inv'
<1> USE DEF vars, page, back, chrome, server
<1>1. TypeOK' /\ CapturesGood' /\ FetchesGood' /\ AnsweredGood'
  BY DEF Inv, TypeOK, CapturesGood, FetchesGood, AnsweredGood, Answered, At
<1>2. PageInv'
  BY DEF Inv, PageInv, OpGood, Asks, ActedGood
<1>3. ClaimInv'
  BY DEF Inv, ClaimInv, StartedGood, ClaimsGood, Claims
<1>4. ServerInv'
  BY DEF Inv, ServerInv, ImportsGood, ImportGood, CopiesGood, Copied, Indexed, Stored, At
<1> QED BY <1>1, <1>2, <1>3, <1>4 DEF Inv

LEMMA NextInv ==
  ASSUME Inv, [Next]_vars  PROVE Inv'
<1>1. CASE Waits
  <2>1. CASE StartJob  BY <2>1, StartJobInv
  <2>2. CASE FindAction  BY <2>2, FindActionInv
  <2>3. CASE Ask  BY <2>3, AskInv
  <2>4. CASE NoPort  BY <2>4, NoPortInv
  <2>5. CASE Check  BY <2>5, CheckInv
  <2>6. CASE Start  BY <2>6, StartInv
  <2>7. CASE DirectFails \/ Fatal \/ DirectYields  BY <2>7, RacingInv
  <2>8. CASE Downloaded  BY <2>8, DownloadedInv
  <2>9. CASE Answer  BY <2>9, AnswerInv
  <2> QED BY <1>1, <2>1, <2>2, <2>3, <2>4, <2>5, <2>6, <2>7, <2>8, <2>9 DEF Waits
<1>2. CASE Operations \/ Commit \/ Listen \/ Timers
  BY <1>2, OperationsInv, CommitInv, ListenInv, TimersInv
<1>3. CASE Import
  BY <1>3, ResolveInv, CopyInv, DraftInv, SaveInv, UnlinkInv, RemoveSourceInv DEF Import
<1>4. CASE Reconnect \/ Browser
  BY <1>4, ReconnectInv, ClickStartsInv, DownloadEndsInv DEF Browser
<1>5. CASE Faulty
  BY <1>5, WorkerStopsInv, PageReloadsInv, LeaseEndsInv, ServerStopsInv, ImpatientInv
     DEF Faulty
<1>6. CASE \E a \in Artifacts : RequestFetch(a) \/ Observe(a) \/ Remove(a)
  BY <1>6, RequestFetchInv, ObserveInv, RemoveInv
<1>7. CASE \E k \in Fetches : ReadImage(k) \/ CancelFetch(k) \/ Recover(k)
  BY <1>7, ReadImageInv, CancelFetchInv, RecoverInv
<1>8. CASE \E d \in Downloads : Touch(d)
  BY <1>8, TouchInv
<1>9. CASE UNCHANGED vars
  BY <1>9, StutterInv
<1> QED BY <1>1, <1>2, <1>3, <1>4, <1>5, <1>6, <1>7, <1>8, <1>9 DEF Next

(* Every reachable state has the parts of the invariant: what memory knows  *)
(* of a capture is durable, the page holds captures of its own fetch, the   *)
(* imports and the copies agree with the index                              *)
(* (downloadCoordinator.js, artifactTransfer.js, fileStore.js).             *)
THEOREM ArtifactInvariant == Spec => []Inv
<1>1. Init => Inv
  BY InitInv
<1>2. Inv /\ [Next]_vars => Inv'
  BY NextInv
<1> QED BY <1>1, <1>2, PTL DEF Spec

(* The records have the form the code gives them                            *)
(* (downloadCoordinator.js, artifactTransfer.js, fileStore.js).             *)
THEOREM TypeCorrect == Spec => []TypeOK
<1>1. Inv => TypeOK
  BY DEF Inv
<1> QED BY <1>1, ArtifactInvariant, PTL

(* What was removed from the Downloads folder is in the store, no record    *)
(* names a missing file, and an image is READY only for stored bytes        *)
(* (bridgeOperations.js, fileStore.js, browserDownloads.js).                *)
THEOREM StoredBeforeRemoved == Spec => []StoredFirst
<1>1. ASSUME Inv  PROVE StoredFirst
  <2>1. \A copy \in taken.dropped : copy.by \in Fetches /\ copy.by # 0
    BY <1>1, ArtifactAssumption DEF Inv, TypeOK, Contents, Fetches
  <2>2. Indexed \subseteq store.disk
    BY <1>1 DEF Inv, ServerInv, CopiesGood, Indexed, Stored
  <2> QED BY <1>1, <2>1, <2>2 DEF Inv, ServerInv, CopiesGood, StoredFirst, Copied
<1> QED BY <1>1, ArtifactInvariant, PTL

(* The download of a fetch is the committed download of one of its own      *)
(* captures, and that of no other fetch of its artifact.                    *)
LEMMA OneAnswer ==
  ASSUME Inv, NEW k \in Fetches, NEW j \in Fetches, k < j,
         fetch[k].of = fetch[j].of, fetch[k].item = fetch[j].item
  PROVE  fetch[k].item = 0
<1> SUFFICES ASSUME fetch[k].item # 0  PROVE FALSE
  OBVIOUS
<1>1. fetch[j].item \in Downloads /\ fetch[j].item # 0
  BY ArtifactAssumption DEF Inv, TypeOK, Fetch, Downloads
<1>2. PICK c \in Captures : record[c].of = j /\ record[c].item = fetch[j].item
  BY <1>1 DEF Inv, AnsweredGood, Answered
<1>3. j # 0
  BY ArtifactAssumption DEF Fetches
<1>4. Claims(c, fetch[j].item)
  BY <1>2 DEF Claims
<1> QED BY <1>1, <1>2, <1>3, <1>4 DEF Inv, ClaimInv, ClaimsGood

(* A file is handed out, and a fetch answered with it, only when its own    *)
(* capture has durably completed; no download answers two fetches of one    *)
(* artifact (downloadCoordinator.js, standaloneCommandRecovery.js).         *)
THEOREM CommittedBeforeAnswered == Spec => []CommittedFirst
<1>1. ASSUME Inv  PROVE CommittedFirst
  <2>1. JobFine(job, record)
    BY <1>1 DEF Inv, PageInv
  <2>2. /\ job.chrome = "file" => /\ record[job.capture].status = "completed"
                                  /\ record[job.capture].of = job.of
        /\ job.stage \in {"adopting", "rejoining"} => record[job.capture].item # 0
    BY <2>1 DEF JobFine
  <2>3. \A k \in Fetches : fetch[k].item # 0 =>
          \E c \in Mine(k) : record[c].status = "completed" /\ record[c].item = fetch[k].item
    BY <1>1 DEF Inv, AnsweredGood, Answered, Mine
  <2>4. ASSUME NEW k \in Fetches, NEW j \in Fetches,
               fetch[k].of = fetch[j].of, fetch[k].item = fetch[j].item
        PROVE  k = j \/ fetch[k].item = 0
    <3>1. k < j \/ j < k \/ k = j
      BY ArtifactAssumption DEF Fetches
    <3> QED BY <1>1, <2>4, <3>1, OneAnswer
  <2> QED BY <2>2, <2>3, <2>4 DEF CommittedFirst
<1> QED BY <1>1, ArtifactInvariant, PTL
=============================================================================
