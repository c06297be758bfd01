------------------------- MODULE MCContentExecution -------------------------
(***************************************************************************)
(* Instances of ContentExecution for TLC.                                  *)
(***************************************************************************)
EXTENDS ContentExecution

CONSTANTS r1, r2, hello, hint, wake

cmd(kind, request, text, after) ==
    [kind |-> kind, request |-> request, text |-> text, after |-> after,
     of |-> kind, retry |-> FALSE]
judge(of)  == [cmd("reconcile", r1, NoText, {}) EXCEPT !.of = of]
again(c)   == [c EXCEPT !.retry = TRUE]

\* A request and the prompt of a watcher want the same composer.
Contended ==
    "page"    :> cmd("page", r1, NoText, {})
 @@ "submit"  :> cmd("submit", r1, hello, {"page"})
 @@ "release" :> cmd("release", r1, NoText, {})
 @@ "repeat"  :> cmd("page", r1, NoText, {"submit"})
 @@ "passive" :> cmd("passive", r2, wake, {})

\* A request that is steered, cancelled, resumed and judged after a reload.
Steered ==
    "submit"    :> cmd("submit", r1, hello, {})
 @@ "steer"     :> cmd("steer", r1, hint, {"submit"})
 @@ "cancel"    :> cmd("cancel", r1, NoText, {"submit"})
 @@ "reconcile" :> judge("steer")

\* The steps before the prompt.
Prepared ==
    "session"   :> cmd("session", r1, NoText, {})
 @@ "model"     :> cmd("model", r1, NoText, {"session"})
 @@ "files"     :> cmd("files", r1, NoText, {"model"})
 @@ "submit"    :> cmd("submit", r1, hello, {"files"})
 @@ "resume"    :> cmd("resume", r1, NoText, {"submit"})
 @@ "reconcile" :> judge("submit")

\* A prompt that is sent again after ChatGPT answered with an error.
Retried ==
    "submit" :> cmd("submit", r1, hello, {})
 @@ "page"   :> again(cmd("page", r1, NoText, {"submit"}))
 @@ "second" :> cmd("submit", r1, hello, {"submit", "page"})
 @@ "release" :> again(cmd("release", r1, NoText, {}))

\* A steered request is released while handlers of it may still be at work, and
\* a watcher sends the text its prompt had.
Outlasted ==
    "submit"  :> cmd("submit", r1, hello, {})
 @@ "steer"   :> cmd("steer", r1, hint, {"submit"})
 @@ "release" :> cmd("release", r1, NoText, {})
 @@ "passive" :> cmd("passive", r2, hello, {})

Offered == {Contended, Steered, Prepared, Retried, Outlasted}
=============================================================================
