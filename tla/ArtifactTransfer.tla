-------------------------- MODULE ArtifactTransfer --------------------------
(***************************************************************************)
(* How the bytes of a generated artifact reach the file store: the content *)
(* script acts on the page (artifactTransfer.js, artifactPreview.js), the  *)
(* background binds the browser download the action starts                 *)
(* (downloadCoordinator.js), and the server imports the file, removes it   *)
(* from the Downloads folder and publishes images (bridgeOperations.js,    *)
(* fileStore.js, artifactRegistry.js).                                     *)
(*                                                                         *)
(* Every download has the name of the artifact: the score of a capture is  *)
(* decided by the time the download started, which is here the set of      *)
(* captures whose action had been activated.  A person may touch a         *)
(* downloaded file; what they leave in its place has another size or       *)
(* another identity.  External: Chrome, the page, the person.              *)
(***************************************************************************)
EXTENDS Naturals, Sequences, FiniteSets

CONSTANTS
    Files,          \* artifacts behind an action of the page
    Images,         \* images with a direct source
    MaxFetches,     \* bound: fetch commands
    MaxCaptures,    \* bound: download captures
    MaxDownloads,   \* bound: downloads Chrome starts
    MaxFaults       \* bound: restarts, reloads, lost leases, cancellations,
                    \* edits, failed writes and requests that time out

ASSUME ArtifactAssumption ==
    /\ Files \intersect Images = {} /\ 0 \notin Files \union Images
    /\ {MaxFetches, MaxCaptures, MaxDownloads, MaxFaults} \subseteq Nat

VARIABLES
    fetch,      \* the fetch commands of the server, and their imports
    queue,      \* artifact actions waiting in the page
    job,        \* the artifact action in progress
    port,       \* is the content script connected to the background?
    lease,      \* the lease of the tab, 0 when there is none (a capture that
                \* belongs to no request behaves as one that keeps its lease)
    record,     \* captures in the durable state of the tab
    live,       \* captures in the memory of the background
    op,         \* the content operation the tab queue is running
    stop,       \* a capture an aborted action asked to cancel
    writes,     \* transitions of captures that are being persisted
    item,       \* downloads of Chrome
    news,       \* started downloads Chrome has yet to tell of
    clicks,     \* clicks that may still start a download
    file,       \* what stands at the path of each download
    store,      \* the file store: its index, its files, its mutex
    taken,      \* removed from Downloads, and copies the index gave up
    image,      \* phase of each image in the registry
    faults

page   == <<queue, job, clicks>>
back   == <<lease, record, live, op, stop, writes>>
chrome == <<item, news, file>>
server == <<fetch, store, taken, image>>
vars   == <<page, port, back, chrome, server, faults>>

Artifacts == Files \union Images
Fetches   == 1..MaxFetches
Captures  == 1..MaxCaptures
Downloads == 1..MaxDownloads
Forms     == {"captured", "edited", "bytes"}
Contents  == [by: Fetches, form: Forms, item: 0..MaxDownloads]

Stages  == {"idle", "finding", "beginning", "checking", "activating",
            "dropping", "starting", "opening", "racing", "releasing",
            "adopting", "recovering", "rejoining", "sweeping", "closing"}
Job == [of: 0..MaxFetches, stage: Stages, capture: 0..MaxCaptures,
        held: BOOLEAN, chrome: {"off", "waiting", "file", "failed"},
        direct: BOOLEAN, aborted: BOOLEAN, released: BOOLEAN,
        result: {"none", "file", "bytes", "error"}]
Idle == [of |-> 0, stage |-> "idle", capture |-> 0, held |-> FALSE,
         chrome |-> "off", direct |-> FALSE, aborted |-> FALSE,
         released |-> FALSE, result |-> "none"]

Statuses  == {"none", "planned", "armed", "bound", "completed", "failed"}
Record    == [status: Statuses, of: 0..MaxFetches, lease: 0..2,
              item: 0..MaxDownloads, active: BOOLEAN]
Blank     == [status |-> "none", of |-> 0, lease |-> 0, item |-> 0,
              active |-> FALSE]
Live      == [on: BOOLEAN, mine: BOOLEAN, item: 0..MaxDownloads,
              active: BOOLEAN, done: {"no", "result", "error"},
              waiter: BOOLEAN, named: BOOLEAN]
Gone      == [on |-> FALSE, mine |-> FALSE, item |-> 0, active |-> FALSE,
              done |-> "no", waiter |-> FALSE, named |-> FALSE]
Operation == [kind: {"none", "begin", "arm", "activate", "start", "search",
                     "bind", "release", "cancel", "failing"},
              capture: 0..MaxCaptures, of: 0..MaxFetches,
              item: 0..MaxDownloads, heard: BOOLEAN]
NoOp      == [kind |-> "none", capture |-> 0, of |-> 0, item |-> 0,
              heard |-> FALSE]
Write     == [kind: {"bind", "resolve", "reject"}, capture: Captures,
              item: 0..MaxDownloads, direct: BOOLEAN,
              seen: {"in_progress", "complete", "interrupted"}]
Steps     == {"none", "sent", "orphan", "resolve", "copy", "commit", "saving",
              "unlink", "remove", "ended"}
NoContent == [by |-> 0, form |-> "none", item |-> 0]

Indexes   == [Artifacts -> Contents \union {NoContent}]
Fetch     == [of: Artifacts \union {0}, step: Steps, item: 0..MaxDownloads,
              named: BOOLEAN, content: Contents \union {NoContent},
              old: Contents \union {NoContent}, draft: Indexes]
Item      == [state: {"none", "in_progress", "complete", "interrupted"},
              near: SUBSET Captures]

\* The records have the form the code gives them.
TypeOK ==
    /\ fetch \in [Fetches -> Fetch]
    /\ queue \in Seq(Fetches) /\ job \in Job /\ port \in BOOLEAN
    /\ lease \in 0..2
    /\ record \in [Captures -> Record] /\ live \in [Captures -> Live]
    /\ op \in Operation /\ stop \in 0..MaxCaptures /\ writes \subseteq Write
    /\ item \in [Downloads -> Item]
    /\ news \subseteq Downloads
    /\ clicks \in 0..MaxDownloads
    /\ file \in [Downloads -> {"absent", "captured", "edited"}]
    /\ store \in [index: Indexes,
                  disk: SUBSET Contents, mutex: 0..MaxFetches]
    /\ taken \in [gone: SUBSET Downloads, dropped: SUBSET Contents]
    /\ image \in [Images -> {"none", "materializing", "ready", "failed"}]
    /\ faults \in 0..MaxFaults

Fault == faults < MaxFaults /\ faults' = faults + 1

-----------------------------------------------------------------------------
(* Captures in the background *)

\* DOWNLOAD_TRANSITIONS, and the lease a request's capture must still have.
Follows(old, new) ==
    \/ old = "planned" /\ new \in {"armed", "failed"}
    \/ old = "armed"   /\ new \in {"bound", "failed"}
    \/ old = "bound"   /\ new \in {"completed", "failed"}
Leased(c) == record[c].lease \in {0, lease}
Accepts(c, status) == Follows(record[c].status, status) /\ Leased(c)

\* findPendingDownloadCapture: the one capture the download can belong to.
Pending(near) == {c \in near : /\ live[c].on /\ live[c].done = "no"
                               /\ live[c].item = 0 /\ live[c].active}
Known(d) == {c \in Captures : /\ live[c].on /\ live[c].done = "no"
                              /\ live[c].item = d}

Bind(c, d, direct, seen) == [kind |-> "bind", capture |-> c, item |-> d,
                             direct |-> direct, seen |-> seen]
\* updateCaptureWithDownloadItem: what the state of a bound item leads to.
Update(c, d, seen) ==
    IF seen = "in_progress" THEN {}
    ELSE {[Bind(c, d, FALSE, seen) EXCEPT
               !.kind = IF seen = "complete" THEN "resolve" ELSE "reject"]}

\* The page hears how the wait for a download ended.
Tell(c, how) ==
    IF live[c].waiter /\ live[c].on /\ job.capture = c /\ job.chrome = "waiting"
    THEN [job EXCEPT !.chrome = how] ELSE job

-----------------------------------------------------------------------------
(* What the content script does with an answer it asked for *)

\* What follows a result or an error: a capture still held is released.
Ending(j, result) ==
    [j EXCEPT !.result = result,
              !.stage = IF j.held /\ ~j.released THEN "sweeping" ELSE "closing"]
Filed(j)  == Ending([j EXCEPT !.released = TRUE], "file")
Failed(j) == Ending(j, "error")

\* The handler of an error recovers a download that was bound.
Caught(j) == IF j.held /\ j.chrome # "off" /\ ~j.released
             THEN [j EXCEPT !.stage = "recovering"] ELSE Failed(j)

\* The request failed: the background refused it, took too long, or went.
Refused(j) ==
    CASE j.stage = "beginning"  -> [j EXCEPT !.stage = "checking"]
      [] j.stage = "activating" -> [j EXCEPT !.stage = "dropping"]
      [] j.stage = "dropping"   -> [j EXCEPT !.stage = "starting", !.held = FALSE]
      [] j.stage = "opening"    -> Caught(j)
      [] j.stage = "releasing"  -> Ending(j, "bytes")
      [] j.stage = "recovering" -> Failed(j)
      [] j.stage = "sweeping"   -> [j EXCEPT !.stage = "closing"]
      [] OTHER                  -> j

\* The capture was cancelled, or there was none.
Dropped(j) ==
    CASE j.stage \in {"releasing", "recovering"} ->
              Refused([j EXCEPT !.released = TRUE])
      [] OTHER -> Refused(j)

\* A download is bound to the capture: it becomes authoritative.
Adopts(j) ==
    CASE j.stage = "releasing"  -> [j EXCEPT !.stage = "adopting"]
      [] j.stage = "recovering" -> [j EXCEPT !.stage = "rejoining",
                                             !.released = TRUE]
      [] OTHER -> Refused(j)

\* There is no port to ask through.
Skipped(j) ==
    IF j.stage = "activating" THEN [j EXCEPT !.stage = "starting"]
    ELSE Dropped(j)

\* The download was started: the page capture, the preview and the DOM are the
\* direct sources that are waited for beside it.
Racing(j) == [j EXCEPT !.stage = "racing", !.direct = TRUE]

\* The answer reaches the content script if it still waits for it.
Reply(j) == /\ op' = NoOp
            /\ job' = IF op.heard THEN j ELSE job

-----------------------------------------------------------------------------
(* Content operations in the background, one at a time *)

Begin ==
    /\ op.kind = "begin"
    /\ record' = [record EXCEPT ![op.capture] =
           [Blank EXCEPT !.status = "planned", !.of = op.of, !.lease = lease]]
    /\ live' = [live EXCEPT ![op.capture] =
           [Gone EXCEPT !.on = TRUE, !.mine = port, !.named = TRUE]]
    /\ op' = [op EXCEPT !.kind = "arm"]
    /\ UNCHANGED <<page, port, lease, stop, writes, chrome, server, faults>>

Arm ==
    /\ op.kind = "arm"
    /\ IF Accepts(op.capture, "armed")
       THEN /\ record' = [record EXCEPT ![op.capture].status = "armed"]
            /\ Reply([job EXCEPT !.stage = "checking", !.held = TRUE,
                                 !.capture = op.capture])
            /\ UNCHANGED live
       ELSE /\ live' = [live EXCEPT ![op.capture] = Gone]
            /\ Reply(Refused(job))
            /\ UNCHANGED record
    /\ UNCHANGED <<queue, clicks, port, lease, stop, writes, chrome, server,
                   faults>>

Reachable(c) == live[c].on /\ live[c].mine

Unbound(c) == live[c].done = "no" /\ live[c].item = 0

\* A download is started for a capture nothing has activated yet.
Late(c) == Reachable(c) /\ Unbound(c) /\ ~live[c].active

\* activateDownloadCapture: nothing to activate once the capture is bound.
Activate ==
    /\ \/ op.kind = "activate"
       \/ op.kind = "start" /\ Late(op.capture)
    /\ LET c == op.capture
       IN IF /\ Reachable(c)
             /\ Unbound(c) => record[c].status \in {"planned", "armed", "bound"}
          THEN /\ record' = [record EXCEPT ![c].active = @ \/ Unbound(c)]
               /\ live' = [live EXCEPT ![c].active = @ \/ Unbound(c)]
               /\ IF op.kind = "start" THEN UNCHANGED <<op, job>>
                  ELSE Reply([job EXCEPT !.stage = "starting"])
          ELSE Reply(Refused(job)) /\ UNCHANGED <<record, live>>
    /\ UNCHANGED <<queue, clicks, port, lease, stop, writes, chrome, server,
                   faults>>

Unstarted == {d \in Downloads : item[d].state = "none"}
Active    == {c \in Captures : live[c].on /\ live[c].active}
NextItem  == CHOOSE d \in Unstarted : \A e \in Unstarted : d <= e

Started(d) == [item EXCEPT ![d] = [state |-> "in_progress", near |-> Active]]

\* startDownloadCapture: Chrome may refuse the address.
StartUrl ==
    /\ op.kind = "start" /\ ~Late(op.capture)
    /\ \/ /\ Reachable(op.capture) /\ Unstarted # {}
          /\ item' = Started(NextItem) /\ news' = news \union {NextItem}
          /\ op' = [op EXCEPT !.kind = "search", !.item = NextItem]
          /\ UNCHANGED job
          /\ UNCHANGED faults
       \/ /\ IF Reachable(op.capture) /\ Unstarted # {} THEN Fault ELSE UNCHANGED faults
          /\ Reply(Refused(job)) /\ UNCHANGED <<item, news>>
    /\ UNCHANGED <<queue, clicks, port, lease, record, live, stop, writes, file,
                   server>>

\* The item is found and bound directly, unless an event has bound it.
Search ==
    /\ op.kind = "search"
    /\ LET c == op.capture  d == op.item  seen == item[d].state
       IN \/ /\ live[c].done = "no" /\ live[c].item = 0
             /\ writes' = writes \union {Bind(c, d, TRUE, seen)}
             /\ op' = [op EXCEPT !.kind = "bind"]
             /\ UNCHANGED job
          \/ /\ live[c].done = "no" /\ live[c].item = d
             /\ writes' = writes \union Update(c, d, seen)
             /\ Reply(Racing(job))
          \/ /\ live[c].done # "no" \/ live[c].item \notin {0, d}
             /\ Reply(Refused(job))
             /\ UNCHANGED writes
    /\ UNCHANGED <<queue, clicks, port, lease, record, live, stop, chrome,
                   server, faults>>

\* releaseDownloadCapture waits for a download; its grace may end first.
Release ==
    /\ op.kind = "release"
    /\ LET c == op.capture IN
       \/ ~live[c].on /\ Reply(Dropped(job))
       \/ live[c].on /\ ~live[c].mine /\ Reply(Refused(job))
       \/ Reachable(c) /\ live[c].item # 0 /\ Reply(Adopts(job))
       \/ /\ Reachable(c) /\ live[c].item = 0
          /\ op' = [op EXCEPT !.kind = "cancel"] /\ UNCHANGED job
    /\ UNCHANGED <<queue, clicks, port, lease, record, live, stop, writes,
                   chrome, server, faults>>

\* cancelDownloadCapture reads that nothing is bound, then persists.
Cancel ==
    /\ op.kind = "cancel"
    /\ LET c == op.capture IN
       \/ ~live[c].on /\ Reply(Dropped(job)) /\ UNCHANGED live
       \/ live[c].on /\ ~live[c].mine /\ Reply(Refused(job)) /\ UNCHANGED live
       \/ Reachable(c) /\ live[c].item # 0 /\ Reply(Adopts(job)) /\ UNCHANGED live
       \/ /\ Reachable(c) /\ live[c].item = 0 /\ live[c].done = "no"
          /\ op' = [op EXCEPT !.kind = "failing"] /\ UNCHANGED <<job, live>>
       \/ /\ Reachable(c) /\ live[c].item = 0 /\ live[c].done # "no"
          /\ live' = [live EXCEPT ![c] = Gone] /\ Reply(Dropped(job))
    /\ UNCHANGED <<queue, clicks, port, lease, record, stop, writes, chrome,
                   server, faults>>

\* The waiter is told and the capture is forgotten, a download that was bound
\* meanwhile with it.
CancelCommit ==
    /\ op.kind = "failing"
    /\ LET c == op.capture
           told == IF op.heard THEN Dropped(Tell(c, "failed"))
                   ELSE Tell(c, "failed")
       IN /\ record' = [record EXCEPT ![c].status =
                           IF Accepts(c, "failed") THEN "failed" ELSE @]
          /\ live' = [live EXCEPT ![c] = Gone]
          /\ op' = NoOp
          /\ job' = told
    /\ UNCHANGED <<queue, clicks, port, lease, stop, writes, chrome, server,
                   faults>>

\* The cancellation of an aborted action takes its turn in the queue.
Stop ==
    /\ stop # 0 /\ op = NoOp
    /\ op' = [NoOp EXCEPT !.kind = "cancel", !.capture = stop]
    /\ stop' = 0
    /\ UNCHANGED <<page, port, lease, record, live, writes, chrome, server,
                   faults>>

Operations == \/ Begin \/ Arm \/ Activate \/ StartUrl \/ Search \/ Release
              \/ Cancel \/ CancelCommit \/ Stop

-----------------------------------------------------------------------------
(* Events and timers in the background: each transition is persisted before *)
(* the memory, and whoever waits, learns of it                              *)

CommitBind(w) ==
    /\ w.kind = "bind"
    /\ LET c == w.capture  ok == Accepts(c, "bound") IN
       /\ record' = IF ~ok THEN record ELSE
              [record EXCEPT ![c].status = "bound", ![c].item = w.item]
       /\ live' = IF ok /\ live[c].on
                   THEN [live EXCEPT ![c].item = w.item] ELSE live
       /\ writes' = (writes \ {w}) \union
              IF ok /\ live[c].on /\ live[c].done = "no"
              THEN Update(c, w.item, w.seen) ELSE {}
       /\ IF w.direct
          THEN Reply(IF ok THEN Racing(job) ELSE Refused(job))
          ELSE UNCHANGED <<job, op>>

\* Mutant: the result is handed out whether or not it was committed.
Keeps_Anyway(c) == TRUE

\* Without its lease a finished download is an error.
Keeps(c) == Accepts(c, "completed")

CommitResolve(w) ==
    /\ w.kind = "resolve"
    /\ LET c == w.capture  kept == Keeps(c) IN
       /\ record' = [record EXCEPT ![c].status =
              IF Accepts(c, "completed") THEN "completed" ELSE @]
       /\ IF live[c].done = "no" \/ kept
          THEN /\ live' = IF ~live[c].on THEN live ELSE
                  [live EXCEPT ![c].done = IF kept THEN "result" ELSE "error",
                               ![c].waiter = FALSE]
               /\ job' = Tell(c, IF kept THEN "file" ELSE "failed")
          ELSE UNCHANGED <<live, job>>
    /\ writes' = writes \ {w}
    /\ UNCHANGED op

CommitReject(w) ==
    /\ w.kind = "reject"
    /\ LET c == w.capture IN
       /\ record' = [record EXCEPT ![c].status =
              IF Accepts(c, "failed") THEN "failed" ELSE @]
       /\ live' = IF ~live[c].on THEN live ELSE
              [live EXCEPT ![c].done = "error", ![c].waiter = FALSE]
       /\ job' = Tell(c, "failed")
    /\ writes' = writes \ {w}
    /\ UNCHANGED op

Commit ==
    /\ \E w \in writes : CommitBind(w) \/ CommitResolve(w) \/ CommitReject(w)
    /\ UNCHANGED <<queue, clicks, port, lease, stop, chrome, server, faults>>

\* onCreated carries the item as it was created, onChanged looks it up.
Fits(d, near, seen) ==
    {Bind(c, d, FALSE, seen) : c \in {e \in Pending(near) : Pending(near) = {e}}}
Heard(d, seen) == IF Known(d) = {} THEN Fits(d, item[d].near, seen)
                  ELSE UNION {Update(c, d, seen) : c \in Known(d)}

Listen ==
    \E d \in news :
      /\ news' = news \ {d}
      /\ writes' = writes \union Fits(d, item[d].near, "in_progress")
      /\ UNCHANGED <<page, port, lease, record, live, op, stop, item, file,
                     server, faults>>

\* Mutant: a capture that is bound has no timer any more.
TimesOut_Unbound(c) ==
    /\ live[c].on /\ live[c].done = "no" /\ live[c].item = 0
    /\ ~ (op.capture = c /\ op.kind \in {"begin", "arm"})
    /\ IF op = NoOp /\ writes = {} /\ news = {} THEN UNCHANGED faults ELSE Fault
    /\ writes' = writes \union {[Bind(c, live[c].item, FALSE, "interrupted")
                                    EXCEPT !.kind = "reject"]}
    /\ UNCHANGED <<page, port, lease, record, live, op, stop, chrome, server>>

\* The timer of a capture is far longer than an operation, a write or the
\* delivery of an event; that it races one of them is a fault.
TimesOut(c) ==
    /\ live[c].on /\ live[c].done = "no"
    /\ ~ (op.capture = c /\ op.kind \in {"begin", "arm"})
    /\ IF op = NoOp /\ writes = {} /\ news = {} THEN UNCHANGED faults ELSE Fault
    /\ writes' = writes \union {[Bind(c, live[c].item, FALSE, "interrupted")
                                    EXCEPT !.kind = "reject"]}
    /\ UNCHANGED <<page, port, lease, record, live, op, stop, chrome, server>>

Timers == \E c \in Captures : TimesOut(c)
-----------------------------------------------------------------------------
(* The content script: one artifact action at a time *)

Aside == <<port, back, chrome, server, faults>>   \* what such a step leaves
Page(stage, j) == job.stage = stage /\ job' = j /\ UNCHANGED queue

\* enqueueArtifactAction: the next action starts when the last has ended.
StartJob ==
    /\ job.stage = "idle" /\ queue # <<>>
    /\ job' = [Idle EXCEPT !.of = Head(queue), !.stage = "finding",
                           !.aborted = fetch[Head(queue)].step # "sent"]
    /\ queue' = Tail(queue)
    /\ UNCHANGED <<clicks, Aside>>

\* Previews that are open are closed, and one that stays open ends the job;
\* then the exact action is waited for, and an abort ends the wait.
FindAction ==
    /\ \/ ~job.aborted /\ Page("finding", [job EXCEPT !.stage = "beginning"])
       \/ Page("finding", Caught(job))
    /\ UNCHANGED <<clicks, Aside>>

\* extensionRequest, in the order of the tab's queue.
Kind(stage) == CASE stage = "beginning"  -> "begin"
                 [] stage = "activating" -> "activate"
                 [] stage = "dropping"   -> "cancel"
                 [] stage = "opening"    -> "start"
                 [] OTHER                -> "release"
Asking == {"beginning", "activating", "dropping", "opening", "releasing",
           "recovering", "sweeping"}
Unused == {c \in Captures : record[c] = Blank}
Asked  == op.heard

Ask ==
    /\ job.stage \in Asking /\ port /\ op = NoOp /\ stop = 0
    /\ job.stage = "beginning" => Unused # {}
    /\ op' = [NoOp EXCEPT !.kind = Kind(job.stage), !.heard = TRUE,
                 !.of = IF job.stage = "beginning" THEN job.of ELSE 0,
                 !.capture = IF job.stage # "beginning" THEN job.capture
                             ELSE CHOOSE c \in Unused : \A e \in Unused : c <= e]
    /\ UNCHANGED <<page, port, lease, record, live, stop, writes, chrome,
                   server, faults>>

NoPort ==
    /\ job.stage \in Asking /\ ~Asked
    /\ \/ ~port
       \/ job.stage = "beginning" /\ Unused = {}
    /\ job' = Skipped(job)
    /\ UNCHANGED <<queue, clicks, Aside>>

\* The answer takes longer than the page waits for it.
Impatient ==
    /\ Asked /\ Fault
    /\ op' = [op EXCEPT !.heard = FALSE]
    /\ job' = Refused(job)
    /\ UNCHANGED <<queue, clicks, port, lease, record, live, stop, writes,
                   chrome, server>>

\* The action is resolved again and the wait for a download registered.
Check ==
    /\ job.stage = "checking"
    /\ LET c == job.capture
           wait == job.held /\ port
           how == IF ~job.held THEN "off"
                  ELSE IF ~port \/ ~Reachable(c) \/ live[c].done = "error" THEN "failed"
                  ELSE IF live[c].done = "result" THEN "file"
                  ELSE "waiting"
       IN \/ /\ job' = [job EXCEPT !.stage = IF wait THEN "activating"
                                            ELSE "starting", !.chrome = how]
             /\ live' = IF how = "waiting"
                        THEN [live EXCEPT ![c].waiter = TRUE] ELSE live
          \/ job' = Caught(job) /\ UNCHANGED live
    /\ UNCHANGED <<queue, clicks, port, lease, record, op, stop, writes, chrome,
                   server, faults>>

\* An action with an address of its own is downloaded, any other clicked; a
\* preview that opens is clicked in turn.  Bound: they start one download.
Start ==
    /\ \/ /\ job.held
          /\ Page("starting", [job EXCEPT !.stage = "opening"])
          /\ UNCHANGED clicks
       \/ /\ Page("starting", Racing(job))
          /\ clicks' = IF clicks < MaxDownloads THEN clicks + 1 ELSE clicks
    /\ UNCHANGED Aside

DirectFails ==
    /\ job.direct
    /\ Page("racing", [job EXCEPT !.direct = FALSE])
    /\ UNCHANGED <<clicks, Aside>>

\* The preview of another file is fatal, as an abort is.
Fatal ==
    /\ \/ job.direct
       \/ job.aborted
       \/ ~job.direct /\ job.chrome \in {"off", "failed"}
    /\ Page("racing", Caught(job))
    /\ UNCHANGED <<clicks, Aside>>

\* Bytes that came first wait for a download the click may have started.
DirectYields ==
    /\ job.direct /\ ~job.aborted
    /\ Page("racing", IF job.held /\ job.chrome # "off"
                      THEN [job EXCEPT !.stage = "releasing"]
                      ELSE Ending(job, "bytes"))
    /\ UNCHANGED <<clicks, Aside>>

\* The captured download arrives, or its wait is rejected.
Downloaded ==
    /\ \/ /\ job.chrome = "file" /\ (job.aborted => job.stage # "racing")
          /\ \E s \in {"racing", "adopting", "rejoining"} : Page(s, Filed(job))
       \/ /\ job.chrome = "failed"
          /\ \/ Page("adopting", Caught(job))
             \/ Page("rejoining", Failed(job))
    /\ UNCHANGED <<clicks, Aside>>

\* A preview that stays open makes an error of any result; what is left is
\* streamed to the server, if it still has the command.
Answer ==
    /\ job.stage = "closing"
    /\ \E result \in {job.result, "error"} :
         /\ IF result = job.result THEN UNCHANGED faults ELSE Fault
         /\ fetch' = IF fetch[job.of].step # "sent" THEN fetch
                  ELSE [fetch EXCEPT
                    ![job.of].step = CASE result = "file"  -> "resolve"
                                       [] result = "bytes" -> "copy"
                                       [] OTHER            -> "ended",
                    ![job.of].named = result = "file",
                    ![job.of].item = IF result = "file"
                                     THEN record[job.capture].item ELSE 0]
    /\ job' = Idle
    /\ UNCHANGED <<queue, clicks, port, back, chrome, store, taken, image>>

\* Bound: an import is followed while the page and the background are at rest,
\* which it shares nothing with but the files.
AtRest == /\ job = Idle /\ queue = <<>> /\ clicks = 0
          /\ op = NoOp /\ writes = {} /\ news = {}

\* An image is read from its source, beside the actions.
ReadImage(k) ==
    /\ AtRest /\ fetch[k].of \in Images /\ fetch[k].step = "sent"
    /\ \/ fetch' = [fetch EXCEPT ![k].step = "copy"] /\ UNCHANGED image
       \/ /\ fetch' = [fetch EXCEPT ![k].step = "ended"]
          /\ image' = [image EXCEPT ![fetch[k].of] = "failed"]
    /\ UNCHANGED <<page, port, back, chrome, store, taken, faults>>

Waits == \/ StartJob \/ FindAction \/ Ask \/ NoPort \/ Check \/ Start
         \/ DirectFails \/ Fatal \/ DirectYields \/ Downloaded \/ Answer
-----------------------------------------------------------------------------
(* The server: the import of what a fetch brought *)

Stored(a) == store.index[a] # NoContent
At(k, step) == fetch[k].step = step
Move(k, step) == fetch' = [fetch EXCEPT ![k].step = step]
Settled(k, ok) == IF fetch[k].of \notin Images THEN image
                  ELSE [image EXCEPT ![fetch[k].of] =
                          IF ok THEN "ready" ELSE "failed"]
Elsewhere == <<page, port, back>>

\* resolveBrowserDownloadedPath: the file at the path is the one captured.
Resolve(k) ==
    /\ At(k, "resolve")
    /\ Move(k, IF file[fetch[k].item] = "captured" THEN "copy" ELSE "ended")
    /\ UNCHANGED <<Elsewhere, chrome, store, taken, image, faults>>

\* The mutations of the store exclude each other.
Free == store.mutex = 0

\* storeBytes: what is written is what the path holds now.
Copy(k) ==
    /\ At(k, "copy") /\ Free
    /\ LET d == fetch[k].item
           content == [by |-> k, form |-> IF d = 0 THEN "bytes" ELSE file[d], item |-> d]
       IN \/ /\ d # 0 => file[d] # "absent"
             /\ store' = [store EXCEPT !.mutex = k, !.disk = @ \union {content}]
             /\ fetch' = [fetch EXCEPT ![k].step = "commit", ![k].content = content]
             /\ UNCHANGED <<image, faults>>
          \/ /\ IF d # 0 /\ file[d] = "absent" THEN UNCHANGED faults ELSE Fault
             /\ Move(k, "ended")
             /\ image' = Settled(k, FALSE)
             /\ UNCHANGED store
    /\ UNCHANGED <<Elsewhere, chrome, taken>>

\* commitRecord makes the new index from the one in memory, then writes it.
Draft(k) ==
    /\ At(k, "commit")
    /\ fetch' = [fetch EXCEPT ![k].step = "saving",
           ![k].old = store.index[fetch[k].of],
           ![k].draft = [store.index EXCEPT ![fetch[k].of] = fetch[k].content]]
    /\ UNCHANGED <<Elsewhere, chrome, store, taken, image, faults>>

NoDraft == [a \in Artifacts |-> NoContent]

\* The copy a fetch replaces, if there was one.
Old(k) == {fetch[k].old} \ {NoContent}

\* An index that cannot be written takes the new file with it.
Save(k) ==
    /\ At(k, "saving")
    /\ \/ /\ store' = [store EXCEPT !.index = fetch[k].draft]
          /\ taken' = [taken EXCEPT !.dropped = @ \union Old(k)]
          /\ fetch' = [fetch EXCEPT ![k].step = "unlink", ![k].draft = NoDraft]
          /\ UNCHANGED <<image, faults>>
       \/ /\ Fault
          /\ store' = [store EXCEPT !.mutex = 0, !.disk = @ \ {fetch[k].content}]
          /\ fetch' = [fetch EXCEPT ![k].step = "ended", ![k].draft = NoDraft]
          /\ image' = Settled(k, FALSE)
          /\ UNCHANGED taken
    /\ UNCHANGED <<Elsewhere, chrome>>

\* The file the record named before goes last.
Unlink(k) ==
    /\ At(k, "unlink")
    /\ store' = [store EXCEPT !.mutex = 0, !.disk = @ \ Old(k)]
    /\ fetch' = [fetch EXCEPT ![k].old = NoContent, ![k].content = NoContent,
           ![k].step = IF fetch[k].item = 0 THEN "ended" ELSE "remove"]
    /\ image' = Settled(k, TRUE)
    /\ UNCHANGED <<Elsewhere, chrome, taken, faults>>

\* Mutant: whatever stands at the path is removed.
Removable_Path(k) == fetch[k].named /\ file[fetch[k].item] # "absent"

\* removeCapturedBrowserDownload: only the captured file, untouched since it
\* was resolved, and only with the whole identity of its capture.
Removable(k) == fetch[k].named /\ file[fetch[k].item] = "captured"

RemoveSource(k) ==
    /\ At(k, "remove")
    /\ IF Removable(k)
       THEN /\ taken' = [taken EXCEPT !.gone = @ \union {fetch[k].item}]
            /\ file' = [file EXCEPT ![fetch[k].item] = "absent"]
       ELSE UNCHANGED <<taken, file>>
    /\ fetch' = [fetch EXCEPT ![k].step = "ended", ![k].named = FALSE]
    /\ UNCHANGED <<Elsewhere, item, news, store, image, faults>>

\* A file is deleted through the server.
Remove(a) ==
    /\ Free /\ Stored(a) /\ Fault
    /\ store' = [store EXCEPT !.index[a] = NoContent, !.disk = @ \ {store.index[a]}]
    /\ taken' = [taken EXCEPT !.dropped = @ \union {store.index[a]}]
    /\ UNCHANGED <<Elsewhere, chrome, fetch, image>>

Import == AtRest /\ \E k \in Fetches : Resolve(k) \/ Copy(k) \/ Draft(k) \/ Save(k)
                             \/ Unlink(k) \/ RemoveSource(k)

-----------------------------------------------------------------------------
(* The commands of the server *)

Fresh  == {k \in Fetches : fetch[k].step = "none"}
NextFetch == CHOOSE k \in Fresh : \A e \in Fresh : k <= e
InFlight(a) == \E k \in Fetches : fetch[k].of = a /\ fetch[k].step # "ended"

\* fetchArtifact: one fetch of an artifact at a time.  Bound: a second action
\* of the page counts as a fault.
RequestFetch(f) ==
    /\ f \in Files /\ ~InFlight(f) /\ Fresh # {} /\ port
    /\ IF \E k \in Fetches : fetch[k].of \in Files THEN Fault ELSE UNCHANGED faults
    /\ fetch' = [fetch EXCEPT ![NextFetch].of = f, ![NextFetch].step = "sent"]
    /\ queue' = Append(queue, NextFetch)
    /\ UNCHANGED <<job, clicks, port, back, chrome, store, taken, image>>

\* ArtifactRegistry.set: a READY image is captured before it is shown READY.
Observe(i) ==
    /\ AtRest /\ i \in Images /\ image[i] = "none"
    /\ \/ /\ Stored(i) /\ image' = [image EXCEPT ![i] = "ready"]
          /\ UNCHANGED fetch
       \/ /\ ~Stored(i) /\ Fresh # {} /\ port
          /\ image' = [image EXCEPT ![i] = "materializing"]
          /\ fetch' = [fetch EXCEPT ![NextFetch].of = i, ![NextFetch].step = "sent"]
    /\ UNCHANGED <<Elsewhere, chrome, store, taken, faults>>

\* The server gives a command up, and the page is told.
CancelFetch(k) ==
    /\ At(k, "sent") /\ Fresh # {}
    /\ Move(k, "ended")
    /\ image' = Settled(k, FALSE)
    /\ IF job.of = k /\ port
       THEN /\ job' = [job EXCEPT !.aborted = TRUE]
            /\ stop' = IF job.held THEN job.capture ELSE stop
       ELSE UNCHANGED <<job, stop>>
    /\ UNCHANGED <<queue, clicks, port, lease, record, live, op, writes, chrome,
                   store, taken, faults>>

\* reconcileArtifactFetch: after a reload of the page its captures answer, a
\* restored one only through its record.
Mine(k) == {c \in Captures : record[c].of = k}
Alive(k) == {c \in Mine(k) : live[c].on /\ live[c].named}
Recover(k) ==
    /\ At(k, "orphan") /\ port
    /\ LET done == {c \in Mine(k) : record[c].status = "completed"}
           bad  == {c \in Mine(k) : record[c].status = "failed"}
                   \union {c \in Alive(k) : live[c].done = "error"}
           open == {c \in Mine(k) : record[c].status \in {"planned", "armed", "bound"}}
                   \union {c \in Alive(k) : live[c].done = "no"}
       IN \/ \E c \in done : fetch' = [fetch EXCEPT ![k].step = "resolve",
                                                ![k].item = record[c].item]
                            /\ UNCHANGED image
          \/ /\ done = {} /\ (bad # {} \/ open = {})
             /\ Move(k, "ended") /\ image' = Settled(k, FALSE)
    /\ UNCHANGED <<Elsewhere, chrome, store, taken, faults>>

-----------------------------------------------------------------------------
(* Faults *)

\* The background worker stops: its requests are rejected in the page.
WorkerStops ==
    /\ Fault
    /\ port' = FALSE /\ op' = NoOp /\ stop' = 0 /\ writes' = {}
    /\ live' = [c \in Captures |-> Gone]
    /\ LET cut == IF Asked THEN Refused(job) ELSE job
       IN job' = [cut EXCEPT !.chrome = IF @ = "waiting" THEN "failed" ELSE @]
    /\ UNCHANGED <<queue, clicks, lease, record, chrome, server>>

\* restoreDownloadCapturesForPort: what is not terminal and not in memory.
Restored == {c \in Captures : /\ record[c].status \in {"planned", "armed", "bound"}
                              /\ ~live[c].on}
Reconnect ==
    /\ ~port
    /\ port' = TRUE
    /\ live' = [c \in Captures |-> IF c \notin Restored THEN live[c] ELSE
           [Gone EXCEPT !.on = TRUE, !.mine = TRUE, !.item = record[c].item,
                        !.active = record[c].active]]
    /\ writes' = writes \union UNION {Update(c, record[c].item,
                   item[record[c].item].state) : c \in {e \in Restored : record[e].item # 0}}
    /\ UNCHANGED <<page, lease, record, op, stop, chrome, server, faults>>

\* The page is loaded again: its actions are gone, the worker goes on.
PageReloads ==
    /\ Fault
    /\ port' = FALSE /\ job' = Idle /\ queue' = <<>> /\ clicks' = 0 /\ stop' = 0
    /\ op' = [op EXCEPT !.heard = FALSE]
    /\ live' = [c \in Captures |-> [live[c] EXCEPT !.mine = FALSE]]
    /\ fetch' = [k \in Fetches |-> IF At(k, "sent")
                    THEN [fetch[k] EXCEPT !.step = "orphan"] ELSE fetch[k]]
    /\ UNCHANGED <<lease, record, writes, chrome, store, taken, image>>

LeaseEnds ==
    /\ lease = 1 /\ Fault /\ lease' \in {0, 2}
    /\ UNCHANGED <<page, port, record, live, op, stop, writes, chrome, server>>

\* The server stops: the index is what was saved last.
ServerStops ==
    /\ Fault
    /\ fetch' = [k \in Fetches |-> IF fetch[k].step \in {"none", "ended"} THEN fetch[k]
           ELSE [fetch[k] EXCEPT !.step = "ended", !.draft = NoDraft, !.old = NoContent]]
    /\ store' = [store EXCEPT !.mutex = 0]
    /\ image' = [i \in Images |-> "none"]
    /\ UNCHANGED <<Elsewhere, chrome, taken>>

Faulty == WorkerStops \/ PageReloads \/ LeaseEnds \/ ServerStops \/ Impatient

-----------------------------------------------------------------------------
(* Chrome and the person (external) *)

\* A click may start a download; the background hears of it at once, for what
\* delays the event is no different from what delays the start.
ClickStarts ==
    /\ clicks > 0
    /\ clicks' = clicks - 1
    /\ \/ /\ Unstarted # {}
          /\ item' = Started(NextItem)
          /\ writes' = writes \union Fits(NextItem, Active, "in_progress")
       \/ UNCHANGED <<item, writes>>
    /\ UNCHANGED <<queue, job, port, lease, record, live, op, stop, news, file,
                   server, faults>>

DownloadEnds(d) ==
    /\ item[d].state = "in_progress" /\ d \notin news
    /\ \E state \in {"complete", "interrupted"} :
         /\ IF state = "complete" THEN UNCHANGED faults ELSE Fault
         /\ item' = [item EXCEPT ![d].state = state]
         /\ file' = [file EXCEPT ![d] = IF state = "complete" THEN "captured" ELSE @]
         /\ writes' = writes \union Heard(d, state)
    /\ UNCHANGED <<page, port, lease, record, live, op, stop, news, server>>

\* The person moves the file away or puts another in its place.
Touch(d) ==
    /\ file[d] = "captured" /\ Fault
    /\ file' \in {[file EXCEPT ![d] = f] : f \in {"absent", "edited"}}
    /\ UNCHANGED <<page, port, back, item, news, server>>

Browser == ClickStarts \/ (\E d \in Downloads : DownloadEnds(d))

-----------------------------------------------------------------------------
Init ==
    /\ fetch = [k \in Fetches |-> [of |-> 0, step |-> "none", item |-> 0,
           named |-> FALSE, content |-> NoContent, old |-> NoContent, draft |-> NoDraft]]
    /\ queue = <<>> /\ job = Idle /\ port = TRUE /\ clicks = 0
    /\ lease = 1
    /\ record = [c \in Captures |-> Blank]
    /\ live = [c \in Captures |-> Gone]
    /\ op = NoOp /\ stop = 0 /\ writes = {}
    /\ item = [d \in Downloads |-> [state |-> "none", near |-> {}]]
    /\ news = {} /\ file = [d \in Downloads |-> "absent"]
    /\ store = [index |-> NoDraft, disk |-> {}, mutex |-> 0]
    /\ taken = [gone |-> {}, dropped |-> {}]
    /\ image = [i \in Images |-> "none"]
    /\ faults = 0

Next ==
    \/ Waits \/ Operations \/ Commit \/ Listen \/ Timers
    \/ Import \/ Reconnect \/ Browser \/ Faulty
    \/ \E a \in Artifacts : RequestFetch(a) \/ Observe(a) \/ Remove(a)
    \/ \E k \in Fetches : ReadImage(k) \/ CancelFetch(k) \/ Recover(k)
    \/ \E d \in Downloads : Touch(d)

\* Every wait of the page has a timer, the queue of the tab runs what it has,
\* and a capture has its own timer.
Fairness == /\ WF_vars(Waits) /\ WF_vars(Operations) /\ WF_vars(Commit)
            /\ WF_vars(Listen) /\ WF_vars(Timers)
Spec == Init /\ [][Next]_vars /\ Fairness

-----------------------------------------------------------------------------
(* Properties *)

Indexed == {store.index[a] : a \in Artifacts} \ {NoContent}

\* What was removed from the Downloads folder, untouched since its download, is in
\* the store until a person deletes it or a new import replaces it; the index names
\* no missing file; an image is shown READY only for bytes that are in the index.
\* Interleaved are imports, edits of the file, failed writes and restarts of the
\* server (bridgeOperations.js, fileStore.js, browserDownloads.js).
StoredFirst ==
    /\ \A d \in taken.gone : \E copy \in Indexed \union taken.dropped :
          copy.form = "captured" /\ copy.item = d
    /\ Indexed \subseteq store.disk
    /\ \A i \in Images : image[i] = "ready" =>
         \/ Stored(i)
         \/ \E copy \in taken.dropped : copy.by # 0 /\ fetch[copy.by].of = i

\* A file is handed to the page, or a fetch answered with it, only when the
\* completion of the capture of that very fetch is durable: a restart of the
\* worker or of the page finds what was told.  And no download answers two fetches
\* of one artifact, the second of which was sent when the first had ended
\* (downloadCoordinator.js, standaloneCommandRecovery.js).
CommittedFirst ==
    /\ job.chrome = "file" => /\ record[job.capture].status = "completed"
                              /\ record[job.capture].of = job.of
    /\ job.stage \in {"adopting", "rejoining"} => record[job.capture].item # 0
    /\ \A k \in Fetches : fetch[k].item # 0 =>
         \E c \in Mine(k) : /\ record[c].status = "completed"
                           /\ record[c].item = fetch[k].item
    /\ \A k, j \in Fetches : /\ fetch[k].of = fetch[j].of
                             /\ fetch[k].item = fetch[j].item
         => k = j \/ fetch[k].item = 0

\* The artifact actions of a page wait for each other: none may wait for ever
\* (enqueueArtifactAction, materializeArtifactAction).
QueueMoves == job.stage # "idle" ~> job.stage = "idle"
=============================================================================
