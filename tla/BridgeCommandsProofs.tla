------------------------ MODULE BridgeCommandsProofs ------------------------
(***************************************************************************)
(* Theorems about BridgeCommands, for any number of tabs, requests,        *)
(* passive prompts, repeated calls, lost sockets and restarts.             *)
(***************************************************************************)
EXTENDS BridgeCommands, SequenceTheorems, TLAPS

(* The release of a request is sent once, when it ends.                     *)
ReleasedAtEnd == \A r \in Requests : Registered(ReleaseOf(r)) => phase[r] = "ended"

(* A request that asks about, has or holds a tab names it.                  *)
Placed ==
  \A r \in Requests : phase[r] \in {"asking", "reserved", "bound", "cancelling"} => at[r] \in Tabs

(* What waits for a release waits; and no release waits for another.        *)
AwaitsOK ==
  /\ \A c \in Commands : /\ stage[c] = "waiting" <=> awaits[c] # None
                         /\ stage[c] = "waiting" => c \notin Releases
  /\ \A r \in Requests : awaits[r] # None => phase[r] = "waiting"

(* A message is in a sequence, and at one place of it.                      *)
Has(s, m)  == \E i \in 1 .. Len(s) : s[i] = m
Once(s, m) == \A i, j \in 1 .. Len(s) : s[i] = m /\ s[j] = m => i = j

(* The command of a passive prompt on its way to a tab, and its answers.    *)
Order(p)        == <<"command", PassiveOf(p)>>
Sent(p)         == \E t \in Tabs : Has(down[t], Order(p))
Answered(p, kind) == \E t \in Tabs : Has(up[t], <<kind, PassiveOf(p)>>)

(* Nothing of it is on its way or written, and nothing will be.             *)
Untouched(p) == written[p] = 0 /\ ~Sent(p)

(* One of its calls owns the attempt, and no second attempt is made.        *)
OneCall(p) ==
  /\ record[p] = "UNKNOWN" => /\ \A n \in 1 .. MaxCalls : calls[<<p, n>>] = "idle"
                              /\ stage[PassiveOf(p)] = "none"
  /\ \A m, n \in 1 .. MaxCalls :
       calls[<<p, m>>] \in {"created", "sent"} /\ calls[<<p, n>>] \in {"created", "sent"} => m = n
  /\ \A n \in 1 .. MaxCalls : calls[<<p, n>>] = "created" => stage[PassiveOf(p)] = "none"

(* It is in one place: not yet sent, on its way, or in the page; and the    *)
(* answers tell what happened to it there.                                  *)
WrittenOnce(p) ==
  /\ \A t \in Tabs : Once(down[t], Order(p))
  /\ \A t, u \in Tabs : Has(down[t], Order(p)) /\ Has(down[u], Order(p)) => t = u
  /\ written[p] <= 1
  /\ Sent(p) => written[p] = 0
  /\ Answered(p, "refused") => Untouched(p)
  /\ Answered(p, "done") => written[p] = 1
  /\ stage[PassiveOf(p)] \in {"none", "waiting"} =>
        Untouched(p) /\ ~Answered(p, "refused") /\ ~Answered(p, "done")

(* What is recorded and what was told is what happened.                     *)
RecordOK(p) ==
  /\ result[p] = "ok" => written[p] = 1
  /\ result[p] = "refused" \/ record[p] = "REJECTED" => Untouched(p) /\ stage[PassiveOf(p)] = "settled"
  /\ record[p] = "SUBMITTED" => written[p] = 1
  /\ \A n \in 1 .. MaxCalls : /\ told[<<p, n>>] = "rejected" => record[p] = "REJECTED"
                              /\ told[<<p, n>>] = "proof" => record[p] = "SUBMITTED"

PassiveOK == \A p \in Passives : OneCall(p) /\ WrittenOnce(p) /\ RecordOK(p)

IInv ==
  /\ TypeOK
  /\ Placed
  /\ OneRequestPerTab
  /\ BarrierHasRelease
  /\ ReleasedAtEnd
  /\ AwaitsOK
  /\ PassiveOK

-----------------------------------------------------------------------------
(* Messages are added at the end and taken from the front.                  *)
LEMMA AppendHas ==
  ASSUME NEW S, NEW s \in Seq(S), NEW x \in S, NEW m
  PROVE  /\ Append(s, x) \in Seq(S)
         /\ Has(Append(s, x), m) <=> Has(s, m) \/ x = m
         /\ Once(s, m) /\ (x = m => ~Has(s, m)) => Once(Append(s, x), m)
<1>1. /\ Append(s, x) \in Seq(S) /\ Len(s) \in Nat
      /\ Len(Append(s, x)) = Len(s) + 1
      /\ \A i \in 1 .. Len(s) : Append(s, x)[i] = s[i]
      /\ Append(s, x)[Len(s) + 1] = x
  BY AppendProperties, LenProperties
<1>2. \A i \in 1 .. Len(s) + 1 : i \in 1 .. Len(s) \/ i = Len(s) + 1
  BY <1>1
<1>3. 1 .. Len(s) \subseteq 1 .. Len(s) + 1 /\ Len(s) + 1 \in 1 .. Len(s) + 1
  BY <1>1
<1> QED
  BY <1>1, <1>2, <1>3 DEF Has, Once

LEMMA TailHas ==
  ASSUME NEW S, NEW s \in Seq(S), s # <<>>, NEW m
  PROVE  /\ Tail(s) \in Seq(S) /\ Head(s) \in S
         /\ Has(s, Head(s))
         /\ Has(Tail(s), m) => Has(s, m)
         /\ Once(s, m) => Once(Tail(s), m)
         /\ Once(s, m) /\ Head(s) = m => ~Has(Tail(s), m)
<1>1. /\ Tail(s) \in Seq(S) /\ Head(s) \in S
      /\ Len(s) \in Nat \ {0} /\ Len(Tail(s)) = Len(s) - 1
      /\ \A i \in 1 .. Len(Tail(s)) : Tail(s)[i] = s[i + 1]
  BY HeadTailProperties, EmptySeq
<1>2. Head(s) = s[1] /\ 1 \in 1 .. Len(s)
  BY <1>1
<1>3. \A i \in 1 .. Len(Tail(s)) : i + 1 \in 1 .. Len(s) /\ i + 1 # 1
  BY <1>1
<1>4. \A i, j \in 1 .. Len(Tail(s)) : i + 1 = j + 1 => i = j
  BY <1>1
<1> QED
  BY <1>1, <1>2, <1>3, <1>4 DEF Has, Once

LEMMA NothingInEmpty == \A m : ~Has(<<>>, m) /\ Once(<<>>, m)
BY EmptySeq DEF Has, Once

(* Kinds of command, and what a message can be.                             *)
LEMMA Names ==
  /\ CommandAssumption /\ NameAssumption
  /\ \A r \in Requests : /\ ReleaseOf(r) \in Releases /\ StaleOf(r) \in Releases
                         /\ CancelOf(r) \in Commands \ Releases
                         /\ ReleaseOf(r) # StaleOf(r)
                         /\ Of(ReleaseOf(r)) = r /\ Of(StaleOf(r)) = r
  /\ \A p \in Passives : PassiveOf(p) \in Commands \ Releases /\ Of(PassiveOf(p)) = p
  /\ \A r \in Requests, p \in Passives :
        /\ ReleaseOf(r) # PassiveOf(p) /\ StaleOf(r) # PassiveOf(p) /\ CancelOf(r) # PassiveOf(p)
  /\ \A c \in Commands : c[1] = "passive" => Of(c) \in Passives /\ c = PassiveOf(Of(c))
  /\ \A c \in Releases : c \in Commands /\ Of(c) \in Requests /\ c[1] # "passive"
  /\ \A c \in Commands : <<"command", c>> \in Messages
  /\ \A r \in Requests : <<"prompt", r>> \in Messages
  /\ \A p, q \in Passives : PassiveOf(p) = PassiveOf(q) => p = q
  /\ \A r, s \in Requests : ReleaseOf(r) = ReleaseOf(s) => r = s
BY CommandAssumption, NameAssumption DEF Releases, Commands, Of, ReleaseOf, StaleOf, CancelOf, PassiveOf, Messages

-----------------------------------------------------------------------------
(* Types                                                                    *)

Hows == {"ok", "refused", "failed"}

(* What the registry keeps of the commands, the barriers and the sockets.   *)
RegistryOK ==
  /\ stage \in [Commands -> {"none", "waiting", "open", "withdrawing", "settled"}]
  /\ where \in [Commands -> Tabs \cup {None}]
  /\ result \in [Passives -> {"none", "ok", "refused", "failed"}]
  /\ barrier \in [Tabs -> Releases \cup {None}]
  /\ down \in [Tabs -> Seq(Messages)]

LEMMA DispatchType ==
  ASSUME TypeOK, NEW c \in Commands, NEW t \in Tabs \cup {None}, Dispatch(c, t)
  PROVE  RegistryOK'
<1>0. RegistryOK /\ online \subseteq Tabs
  BY DEF TypeOK, RegistryOK
<1>1. barrier' \in [Tabs -> Releases \cup {None}]
  BY <1>0 DEF RegistryOK, Dispatch, BeginsBarrier
<1>2. stage' \in [Commands -> {"none", "waiting", "open", "withdrawing", "settled"}]
  BY <1>0 DEF RegistryOK, Dispatch
<1>3. where' \in [Commands -> Tabs \cup {None}]
  BY <1>0 DEF RegistryOK, Dispatch
<1>4. result' \in [Passives -> {"none", "ok", "refused", "failed"}]
  BY <1>0 DEF RegistryOK, Dispatch, Resulted
<1>5. down' \in [Tabs -> Seq(Messages)]
  <2>1. t \in online => Append(down[t], <<"command", c>>) \in Seq(Messages)
    BY <1>0, AppendHas, Names DEF RegistryOK
  <2> QED
    BY <1>0, <2>1 DEF RegistryOK, Dispatch
<1> QED
  BY <1>1, <1>2, <1>3, <1>4, <1>5 DEF RegistryOK

LEMMA SendType ==
  ASSUME TypeOK, NEW c \in Commands, NEW t \in Tabs, Send(c, t)
  PROVE  /\ RegistryOK'
         /\ awaits' \in [Requests \cup Commands -> Releases \cup {None}]
         /\ \A w \in Requests \cup Commands : awaits[w] # None => awaits'[w] # None
<1>0. /\ RegistryOK /\ barrier[t] \in Releases \cup {None}
      /\ awaits \in [Requests \cup Commands -> Releases \cup {None}]
  BY DEF TypeOK, RegistryOK
<1>1. CASE barrier[t] # None
  BY <1>0, <1>1 DEF RegistryOK, Send
<1>2. CASE barrier[t] = None
  BY <1>0, <1>2, DispatchType DEF Send
<1> QED
  BY <1>1, <1>2

LEMMA RemoveType ==
  ASSUME TypeOK, NEW c \in Commands, NEW how \in Hows, Remove(c, how), UNCHANGED down
  PROVE  /\ RegistryOK'
         /\ woken' \subseteq {w \in Requests \cup Commands : awaits[w] # None}
<1>0. RegistryOK
  BY DEF TypeOK, RegistryOK
<1>1. \A w \in Requests \cup Commands : awaits[w] = c => awaits[w] # None
  BY Names DEF NameAssumption
<1>2. woken' \subseteq {w \in Requests \cup Commands : awaits[w] # None}
  BY <1>1 DEF TypeOK, Remove, Waiting
<1>3. result' \in [Passives -> {"none", "ok", "refused", "failed"}]
  BY <1>0 DEF RegistryOK, Remove, Resulted, Hows
<1>4. barrier' \in [Tabs -> Releases \cup {None}]
  <2>1. \A t \in Tabs : (IF t \in Lifted(c) THEN None ELSE barrier[t]) \in Releases \cup {None}
    BY <1>0 DEF RegistryOK
  <2> QED
    BY <2>1 DEF Remove
<1>5. stage' \in [Commands -> {"none", "waiting", "open", "withdrawing", "settled"}]
  BY <1>0 DEF RegistryOK, Remove
<1>6. where' \in [Commands -> Tabs \cup {None}]
  BY <1>0 DEF RegistryOK, Remove
<1> QED
  BY <1>0, <1>2, <1>3, <1>4, <1>5, <1>6 DEF RegistryOK

LEMMA ChoiceType ==
  ASSUME TypeOK, NEW r \in Requests,
         \/ Submit(r) \/ ResolvePromptClient(r) \/ ReleaseWaitOver(r) \/ Confirm(r)
         \/ GiveUp(r) \/ SendPrompt(r) \/ ResumeActiveRequest(r)
  PROVE  TypeOK'
<1>1. CASE Submit(r)
  BY <1>1 DEF TypeOK, Submit, known, links, page, ledger
<1>2. CASE ResolvePromptClient(r)
  <2>1. CASE MayWait(r)
    <3>1. PICK t \in Tabs :
             /\ barrier[t] # None
             /\ phase' = [phase EXCEPT ![r] = "waiting"]
             /\ awaits' = [awaits EXCEPT ![r] = barrier[t]]
             /\ waited' = waited \cup {r} /\ UNCHANGED at
      BY <1>2, <2>1 DEF ResolvePromptClient, WaitForRelease, Releasing, Candidates, CommandAssumption, TypeOK
    <3>2. /\ awaits' \in [Requests \cup Commands -> Releases \cup {None}]
          /\ woken' \subseteq {w \in Requests \cup Commands : awaits'[w] # None}
      BY <1>2, <3>1 DEF ResolvePromptClient, TypeOK
    <3> QED
      BY <1>2, <3>1, <3>2 DEF ResolvePromptClient, TypeOK, known, links, page, ledger
  <2>2. CASE ~MayWait(r)
    <3>1. Candidates(r) \subseteq Tabs \cup {Any} /\ (Want[r] # Any => Want[r] \in Tabs)
      BY Names DEF CommandAssumption, Candidates
    <3>2. ASSUME NEW t \in Tabs, Reserve(r, t) \/ Ask(r, t)
          PROVE  /\ phase' \in [Requests -> {"new", "choosing", "waiting", "asking", "reserved",
                                            "bound", "cancelling", "ended", "lost"}]
                 /\ at' \in [Requests -> Tabs \cup {None}]
      <4>1. /\ phase \in [Requests -> {"new", "choosing", "waiting", "asking", "reserved",
                                       "bound", "cancelling", "ended", "lost"}]
            /\ at \in [Requests -> Tabs \cup {None}]
        BY DEF TypeOK
      <4>2. CASE Reserve(r, t)
        BY <4>1, <4>2 DEF Reserve
      <4>3. CASE Ask(r, t)
        BY <4>1, <4>3 DEF Ask
      <4> QED
        BY <3>2, <4>2, <4>3
    <3>3. \/ \E t \in Tabs : Reserve(r, t) \/ Ask(r, t)
          \/ phase' = [phase EXCEPT ![r] = "ended"] /\ UNCHANGED at
      BY <1>2, <2>2, <3>1 DEF ResolvePromptClient
    <3>4. /\ phase' \in [Requests -> {"new", "choosing", "waiting", "asking", "reserved",
                                      "bound", "cancelling", "ended", "lost"}]
          /\ at' \in [Requests -> Tabs \cup {None}]
      BY <3>2, <3>3 DEF TypeOK
    <3> QED
      BY <1>2, <2>2, <3>4 DEF ResolvePromptClient, TypeOK, known, links, page, ledger
  <2> QED
    BY <2>1, <2>2
<1>3. CASE ReleaseWaitOver(r)
  BY <1>3 DEF TypeOK, ReleaseWaitOver, known, links, page, ledger
<1>4. CASE Confirm(r)
  BY <1>4 DEF TypeOK, Confirm, Reserve, known, links, page, ledger
<1>5. CASE GiveUp(r)
  BY <1>5 DEF TypeOK, GiveUp, Drop, known, links, page, ledger
<1>6. CASE SendPrompt(r)
  <2>0. UNCHANGED <<waited, stage, where, result, barrier, held, quarantined, online, up,
                    lease, unproven, written, record, calls, told, faults>>
    BY <1>6 DEF SendPrompt, known, page, ledger
  <2>1. CASE at[r] \in online
    <3>1. at[r] \in Tabs /\ Append(down[at[r]], <<"prompt", r>>) \in Seq(Messages)
      BY <2>1, AppendHas, Names DEF TypeOK
    <3>2. /\ phase' = [phase EXCEPT ![r] = "bound"] /\ UNCHANGED <<at, awaits, woken>>
          /\ down' = [down EXCEPT ![at[r]] = Append(@, <<"prompt", r>>)]
      BY <1>6, <2>1 DEF SendPrompt
    <3>3. down' \in [Tabs -> Seq(Messages)]
      BY <3>1, <3>2 DEF TypeOK
    <3>4. phase' \in [Requests -> {"new", "choosing", "waiting", "asking", "reserved",
                                   "bound", "cancelling", "ended", "lost"}]
      BY <3>2 DEF TypeOK
    <3> QED
      BY <2>0, <3>2, <3>3, <3>4 DEF TypeOK
  <2>2. CASE at[r] \notin online
    <3>1. Drop(r) /\ UNCHANGED down
      BY <1>6, <2>2 DEF SendPrompt
    <3>2. /\ phase' \in [Requests -> {"new", "choosing", "waiting", "asking", "reserved",
                                      "bound", "cancelling", "ended", "lost"}]
          /\ at' \in [Requests -> Tabs \cup {None}]
      BY <3>1 DEF TypeOK, Drop
    <3>3. /\ awaits' \in [Requests \cup Commands -> Releases \cup {None}]
          /\ woken' \subseteq {w \in Requests \cup Commands : awaits'[w] # None}
      BY <3>1 DEF TypeOK, Drop
    <3> QED
      BY <2>0, <3>1, <3>2, <3>3 DEF TypeOK
  <2> QED
    BY <2>1, <2>2
<1>7. CASE ResumeActiveRequest(r)
  BY <1>7 DEF TypeOK, ResumeActiveRequest, known, links, page, ledger
<1> QED
  BY <1>1, <1>2, <1>3, <1>4, <1>5, <1>6, <1>7

LEMMA EndType ==
  ASSUME TypeOK, Placed, NEW r \in Requests,
         \/ Finish(r) \/ DeadlineExceeded(r) \/ CancelSettled(r)
         \/ \E t \in Tabs : ReleaseStaleLease(r, t)
  PROVE  TypeOK'
<1>1. CASE End(r)
  BY <1>1, DispatchType, Names DEF TypeOK, RegistryOK, End, known, page, ledger
<1>2. CASE DeadlineExceeded(r)
  <2>1. CancelOf(r) \in Commands /\ at[r] \in Tabs
    BY <1>2, Names DEF DeadlineExceeded, Placed
  <2> QED
    BY <1>2, <2>1, SendType DEF TypeOK, RegistryOK, DeadlineExceeded, known, page, ledger
<1>3. ASSUME NEW t \in Tabs, ReleaseStaleLease(r, t) PROVE TypeOK'
  BY <1>3, DispatchType, Names DEF TypeOK, RegistryOK, ReleaseStaleLease, known, page, ledger
<1> QED
  BY <1>1, <1>2, <1>3 DEF Finish, CancelSettled

LEMMA CommandType ==
  ASSUME TypeOK, AwaitsOK, NEW c \in Commands,
         BarrierOver(c) \/ BarrierLimit(c) \/ Timeout(c) \/ WithdrawalOver(c)
  PROVE  TypeOK'
<1>1. CASE BarrierOver(c)
  <2>1. where[c] \in Tabs \cup {None}
    BY DEF TypeOK
  <2> QED
    BY <1>1, <2>1, DispatchType DEF TypeOK, RegistryOK, BarrierOver, known, page, ledger
<1>2. CASE BarrierLimit(c)
  <2>1. woken = {} /\ Lifted(c) = {}
    BY <1>2, Names DEF BarrierLimit, Quiet, AwaitsOK, Lifted, TypeOK, NameAssumption
  <2> QED
    BY <1>2, <2>1, RemoveType DEF TypeOK, RegistryOK, BarrierLimit, Remove, Hows, known, links, page, ledger
<1>3. CASE Timeout(c) \/ WithdrawalOver(c)
  <2>1. UNCHANGED <<phase, at, waited, awaits, held, quarantined, online, down, up,
                    lease, unproven, written, record, calls, told, faults>>
    BY <1>3 DEF Timeout, WithdrawalOver, known, links, page, ledger
  <2>2. \/ Remove(c, "failed")
        \/ /\ stage' = [stage EXCEPT ![c] = "withdrawing"]
           /\ UNCHANGED <<where, result, barrier, woken>>
    BY <1>3 DEF Timeout, WithdrawalOver
  <2>3. /\ RegistryOK'
        /\ woken' \subseteq {w \in Requests \cup Commands : awaits[w] # None}
    <3>1. CASE Remove(c, "failed")
      <4>1. "failed" \in Hows /\ UNCHANGED down
        BY <2>1 DEF Hows
      <4> QED
        BY <3>1, <4>1, RemoveType
    <3>2. CASE /\ stage' = [stage EXCEPT ![c] = "withdrawing"]
               /\ UNCHANGED <<where, result, barrier, woken>>
      BY <2>1, <3>2 DEF TypeOK, RegistryOK
    <3> QED
      BY <2>2, <3>1, <3>2
  <2> QED
    BY <2>1, <2>3 DEF TypeOK, RegistryOK
<1> QED
  BY <1>1, <1>2, <1>3

(* What a tab takes and what it answers.                                    *)
LEMMA TakeType ==
  ASSUME TypeOK, NEW t \in Tabs, Take(t)
  PROVE  /\ down' \in [Tabs -> Seq(Messages)]
         /\ down[t] \in Seq(Messages) /\ down[t] # <<>> /\ t \in online
         /\ down' = [down EXCEPT ![t] = Tail(down[t])]
<1>1. down \in [Tabs -> Seq(Messages)]
  BY DEF TypeOK
<1>2. /\ down[t] \in Seq(Messages) /\ down[t] # <<>> /\ t \in online
      /\ down' = [down EXCEPT ![t] = Tail(down[t])]
  BY <1>1 DEF Take
<1>3. Tail(down[t]) \in Seq(Messages)
  BY <1>2, TailHas
<1> QED
  BY <1>1, <1>2, <1>3

LEMMA ReplyType ==
  ASSUME TypeOK, NEW t \in Tabs, NEW kind, NEW x, <<kind, x>> \in Answers, Reply(t, kind, x)
  PROVE  /\ up' \in [Tabs -> Seq(Answers)]
         /\ up[t] \in Seq(Answers)
         /\ up' = [up EXCEPT ![t] = Append(up[t], <<kind, x>>)]
<1>1. up \in [Tabs -> Seq(Answers)]
  BY DEF TypeOK
<1>2. Append(up[t], <<kind, x>>) \in Seq(Answers)
  BY <1>1, AppendHas
<1> QED
  BY <1>1, <1>2 DEF Reply

LEMMA ReceiveType ==
  ASSUME TypeOK, NEW t \in Tabs, Receive(t)
  PROVE  /\ up' \in [Tabs -> Seq(Answers)]
         /\ up[t] \in Seq(Answers) /\ up[t] # <<>> /\ t \in online
         /\ up' = [up EXCEPT ![t] = Tail(up[t])]
         /\ Head(up[t]) \in Answers
<1>1. up \in [Tabs -> Seq(Answers)]
  BY DEF TypeOK
<1>2. /\ up[t] \in Seq(Answers) /\ up[t] # <<>> /\ t \in online
      /\ up' = [up EXCEPT ![t] = Tail(up[t])]
  BY <1>1 DEF Receive
<1>3. Tail(up[t]) \in Seq(Answers) /\ Head(up[t]) \in Answers
  BY <1>2, TailHas
<1> QED
  BY <1>1, <1>2, <1>3

LEMMA AnswerNames ==
  /\ \A c \in Commands : \A kind \in {"released", "quarantined", "rejected", "done", "refused", "error"} :
        <<kind, c>> \in Answers
  /\ \A r \in Requests \cup {None} : <<"report", r>> \in Answers
  /\ \A a \in Answers : /\ a = <<a[1], a[2]>>
                        /\ a[1] # "report" => a[2] \in Commands
                        /\ a[1] = "report" => a[2] \in Requests \cup {None}
BY DEF Answers

LEMMA TabType ==
  ASSUME TypeOK, NEW t \in Tabs, Tab(t) \/ Report(t)
  PROVE  TypeOK'
<1>1. ASSUME NEW r \in Requests, TabPrompt(t, r) PROVE TypeOK'
  BY <1>1, TakeType, Names DEF TypeOK, TabPrompt, server, known, ledger, CommandAssumption
<1>2. ASSUME NEW c \in Commands, TabRelease(t, c) PROVE TypeOK'
  <2>1. down' \in [Tabs -> Seq(Messages)] /\ c \in Releases /\ Of(c) \in Requests /\ Of(c) # None
    BY <1>2, TakeType, Names DEF TabRelease, CommandAssumption
  <2>2. /\ lease' \in [Tabs -> Requests \cup {None}]
        /\ unproven' \subseteq {u \in Tabs : lease'[u] # None}
    BY <1>2, <2>1 DEF TabRelease, TypeOK
  <2>3. up' \in [Tabs -> Seq(Answers)]
    BY <1>2, ReplyType, AnswerNames DEF TabRelease
  <2> QED
    BY <1>2, <2>1, <2>2, <2>3 DEF TypeOK, TabRelease, server, known, ledger
<1>3. ASSUME NEW c \in Commands, TabCommand(t, c) PROVE TypeOK'
  <2>1. down' \in [Tabs -> Seq(Messages)]
    BY <1>3, TakeType DEF TabCommand
  <2>2. written' \in [Passives -> Nat]
    BY <1>3, Names DEF TabCommand, TypeOK
  <2>3. up' \in [Tabs -> Seq(Answers)]
    BY <1>3, ReplyType, AnswerNames DEF TabCommand
  <2> QED
    BY <1>3, <2>1, <2>2, <2>3 DEF TypeOK, TabCommand, server, known, ledger
<1>4. CASE Report(t)
  <2>1. up' \in [Tabs -> Seq(Answers)]
    BY <1>4, ReplyType, AnswerNames DEF Report, TypeOK
  <2> QED
    BY <1>4, <2>1 DEF TypeOK, Report, server, known, page, ledger
<1> QED
  BY <1>1, <1>2, <1>3, <1>4 DEF Tab

LEMMA MessageType ==
  ASSUME TypeOK, NEW t \in Tabs, HandleResponse(t) \/ Observe(t)
  PROVE  TypeOK'
<1>1. CASE HandleResponse(t)
  <2> DEFINE kind == Head(up[t])[1]
             c    == Head(up[t])[2]
  <2>1. up' \in [Tabs -> Seq(Answers)] /\ t \in online /\ kind # "report" /\ c \in Commands
    BY <1>1, ReceiveType, AnswerNames DEF HandleResponse
  <2>2. quarantined' \subseteq online /\ held' \in [Tabs -> Requests \cup {None}]
    BY <1>1, <2>1 DEF HandleResponse, Projected, TypeOK
  <2>3. /\ RegistryOK'
        /\ woken' \subseteq {w \in Requests \cup Commands : awaits[w] # None}
    <3>1. Outcome(kind) \in Hows
      BY DEF Outcome, Hows
    <3>2. down' = down
      BY <1>1 DEF HandleResponse
    <3>3. CASE Remove(c, Outcome(kind))
      BY <2>1, <3>1, <3>2, <3>3, RemoveType
    <3>4. CASE UNCHANGED <<stage, where, result, barrier, woken>>
      BY <3>2, <3>4 DEF TypeOK, RegistryOK
    <3> QED
      BY <1>1, <3>3, <3>4 DEF HandleResponse
  <2> QED
    BY <1>1, <2>1, <2>2, <2>3 DEF TypeOK, RegistryOK, HandleResponse, page, ledger
<1>2. CASE Observe(t)
  <2>1. up' \in [Tabs -> Seq(Answers)] /\ Head(up[t])[2] \in Requests \cup {None}
    BY <1>2, ReceiveType, AnswerNames DEF Observe
  <2> QED
    BY <1>2, <2>1 DEF TypeOK, Observe, server, page, ledger
<1> QED
  BY <1>1, <1>2

LEMMA PassiveType ==
  ASSUME TypeOK, NEW k \in Callers, Reservation(k) \/ SubmitPassive(k) \/ Record(k)
  PROVE  TypeOK'
<1>0. k[1] \in Passives /\ k \in Callers
  BY DEF Callers
<1>1. CASE Reservation(k)
  <2>0. /\ record \in [Passives -> {"UNKNOWN", "INFLIGHT", "SUBMITTED", "REJECTED"}]
        /\ calls \in [Callers -> {"idle", "created", "sent", "done"}]
        /\ told \in [Callers -> {"none", "proof", "rejected", "unsure"}]
    BY DEF TypeOK
  <2>1. record' \in [Passives -> {"UNKNOWN", "INFLIGHT", "SUBMITTED", "REJECTED"}]
    BY <1>0, <1>1, <2>0 DEF Reservation
  <2>2. calls' \in [Callers -> {"idle", "created", "sent", "done"}]
    BY <1>0, <1>1, <2>0 DEF Reservation, Tell
  <2>3. told' \in [Callers -> {"none", "proof", "rejected", "unsure"}]
    BY <1>0, <1>1, <2>0 DEF Reservation, Tell
  <2> QED
    BY <1>1, <2>1, <2>2, <2>3 DEF TypeOK, Reservation, server, known, links, page
<1>2. CASE SubmitPassive(k)
  <2>1. PICK t \in Tabs : Send(PassiveOf(k[1]), t)
    BY <1>0, <1>2, Names DEF SubmitPassive, Candidates, CommandAssumption
  <2>2. /\ RegistryOK' /\ awaits' \in [Requests \cup Commands -> Releases \cup {None}]
        /\ \A w \in Requests \cup Commands : awaits[w] # None => awaits'[w] # None
    BY <1>0, <2>1, SendType, Names
  <2>3. calls' \in [Callers -> {"idle", "created", "sent", "done"}]
    BY <1>2 DEF TypeOK, SubmitPassive
  <2> QED
    BY <1>2, <2>2, <2>3 DEF TypeOK, RegistryOK, SubmitPassive, known, page
<1>3. CASE Record(k)
  <2>1. Verdict(result[k[1]]) \in {"INFLIGHT", "SUBMITTED", "REJECTED"}
    BY DEF Verdict
  <2>2. /\ record' \in [Passives -> {"UNKNOWN", "INFLIGHT", "SUBMITTED", "REJECTED"}]
        /\ calls' \in [Callers -> {"idle", "created", "sent", "done"}]
        /\ told' \in [Callers -> {"none", "proof", "rejected", "unsure"}]
    BY <1>0, <1>3, <2>1 DEF TypeOK, Record, Tell
  <2> QED
    BY <1>3, <2>2 DEF TypeOK, Record, server, known, links, page
<1> QED
  BY <1>1, <1>2, <1>3

LEMMA FaultType ==
  ASSUME TypeOK, Restart \/ \E t \in Tabs : SocketLost(t) \/ Hello(t)
  PROVE  TypeOK'
<1>1. ASSUME NEW t \in Tabs, SocketLost(t) PROVE TypeOK'
  BY <1>1, EmptySeq, Names DEF TypeOK, SocketLost, server, page, ledger, CommandAssumption
<1>2. ASSUME NEW t \in Tabs, Hello(t) PROVE TypeOK'
  BY <1>2 DEF TypeOK, Hello, server, links, page, ledger
<1>3. CASE Restart
  <2>1. /\ phase' \in [Requests -> {"new", "choosing", "waiting", "asking", "reserved", "bound",
                                    "cancelling", "ended", "lost"}]
        /\ at' \in [Requests -> Tabs \cup {None}]
        /\ waited' \subseteq Requests /\ faults' \in 0..MaxFaults
    BY <1>3, Names DEF TypeOK, Restart, CommandAssumption
  <2>2. /\ stage' \in [Commands -> {"none", "waiting", "open", "withdrawing", "settled"}]
        /\ where' \in [Commands -> Tabs \cup {None}]
        /\ result' \in [Passives -> {"none", "ok", "refused", "failed"}]
        /\ barrier' \in [Tabs -> Releases \cup {None}]
        /\ awaits' \in [Requests \cup Commands -> Releases \cup {None}]
        /\ woken' \subseteq {w \in Requests \cup Commands : awaits'[w] # None}
    BY <1>3 DEF TypeOK, Restart
  <2>3. /\ down' \in [Tabs -> Seq(Messages)]
        /\ calls' \in [Callers -> {"idle", "created", "sent", "done"}]
    BY <1>3, EmptySeq DEF TypeOK, Restart
  <2> QED
    BY <1>3, <2>1, <2>2, <2>3 DEF TypeOK, Restart, page
<1> QED
  BY <1>1, <1>2, <1>3

LEMMA TypeKept ==
  ASSUME TypeOK, Placed, AwaitsOK, Next
  PROVE  TypeOK'
BY ChoiceType, EndType, CommandType, TabType, MessageType, PassiveType, FaultType
   DEF Next, Jobs

-----------------------------------------------------------------------------
(* Tabs, requests and releases                                              *)

TabsOK == Placed /\ OneRequestPerTab /\ BarrierHasRelease /\ ReleasedAtEnd /\ AwaitsOK

Using == {"reserved", "bound", "cancelling"}

(* Sending a command that is no release touches no barrier.                 *)
LEMMA DispatchOther ==
  ASSUME TypeOK, BarrierHasRelease, NEW c \in Commands \ Releases, NEW t, Dispatch(c, t)
  PROVE  /\ barrier' = barrier /\ BarrierHasRelease'
         /\ \A d \in Commands \ {c} : stage'[d] = stage[d]
         /\ stage'[c] \in {"open", "settled"}
<1>1. barrier' = barrier /\ \A u \in Tabs : barrier[u] # c
  BY Names DEF Dispatch, BeginsBarrier, TypeOK, NameAssumption
<1>2. /\ \A d \in Commands \ {c} : stage'[d] = stage[d] /\ where'[d] = where[d]
      /\ stage'[c] \in {"open", "settled"}
  BY DEF Dispatch, TypeOK
<1>3. \A u \in Tabs : barrier[u] # None => barrier[u] \in Commands \ {c}
  BY <1>1, Names DEF TypeOK
<1> QED
  BY <1>1, <1>2, <1>3 DEF BarrierHasRelease, Registered

(* A release that is not in the registry takes its tab, if it is there.     *)
LEMMA DispatchRelease ==
  ASSUME TypeOK, BarrierHasRelease, NEW c \in Releases, NEW t \in Tabs \cup {None},
         ~Registered(c), Dispatch(c, t)
  PROVE  /\ BarrierHasRelease'
         /\ \A u \in Tabs \ {t} : barrier'[u] = barrier[u]
         /\ \A d \in Commands \ {c} : stage'[d] = stage[d]
         /\ stage'[c] \in {"open", "settled"}
<1>1. \A u \in Tabs : barrier[u] # None => barrier[u] \in Commands \ {c}
  BY Names DEF TypeOK, BarrierHasRelease
<1>2. /\ \A d \in Commands \ {c} : stage'[d] = stage[d] /\ where'[d] = where[d]
      /\ stage'[c] \in {"open", "settled"}
      /\ t \in online => stage'[c] = "open" /\ where'[c] = t
  BY Names DEF Dispatch, TypeOK
<1>3. /\ \A u \in Tabs \ {t} : barrier'[u] = barrier[u]
      /\ t \in online => barrier'[t] = c
      /\ t \notin online => barrier' = barrier
  BY DEF Dispatch, BeginsBarrier, TypeOK
<1>4. ASSUME NEW u \in Tabs, barrier'[u] # None
      PROVE  stage'[barrier'[u]] \in {"open", "withdrawing"} /\ where'[barrier'[u]] = u
  <2>1. CASE u = t /\ t \in online
    BY <2>1, <1>2, <1>3
  <2>2. CASE ~(u = t /\ t \in online)
    BY <2>2, <1>1, <1>2, <1>3, <1>4 DEF BarrierHasRelease, Registered
  <2> QED
    BY <2>1, <2>2
<1> QED
  BY <1>2, <1>3, <1>4 DEF BarrierHasRelease, Registered

(* What leaves the registry takes its barrier with it.                      *)
LEMMA RemoveKeeps ==
  ASSUME TypeOK, BarrierHasRelease, NEW c \in Commands, NEW how, Remove(c, how)
  PROVE  /\ BarrierHasRelease'
         /\ \A u \in Tabs : barrier'[u] \in {None, barrier[u]}
         /\ \A d \in Commands \ {c} : stage'[d] = stage[d]
         /\ stage'[c] = "settled"
<1>1. \A u \in Tabs : /\ barrier'[u] \in {None, barrier[u]}
                      /\ barrier'[u] # c \/ c = None
  BY DEF Remove, Lifted
<1>2. /\ \A d \in Commands \ {c} : stage'[d] = stage[d] /\ where'[d] = where[d]
      /\ stage'[c] = "settled"
  BY DEF Remove, TypeOK
<1>3. \A u \in Tabs : barrier'[u] # None => barrier[u] \in Commands \ {c} /\ barrier'[u] = barrier[u]
  BY <1>1, Names DEF TypeOK
<1> QED
  BY <1>1, <1>2, <1>3 DEF BarrierHasRelease, Registered

(* A tab that is promised is idle, and nobody else has it.                  *)
LEMMA ReserveKeeps ==
  ASSUME TypeOK, TabsOK, NEW r \in Requests, NEW t \in Tabs, Reserve(r, t),
         phase[r] \in {"choosing", "asking"},
         UNCHANGED <<stage, where, barrier, awaits, online, quarantined>>
  PROVE  TabsOK'
<1>1. /\ \A s \in Requests \ {r} : phase'[s] = phase[s] /\ at'[s] = at[s]
      /\ phase'[r] \in {"reserved", "ended"}
      /\ phase'[r] = "reserved" => at'[r] = t /\ IsIdle(t, r)
  BY DEF Reserve, TypeOK
<1>2. Placed'
  BY <1>1 DEF TabsOK, Placed
<1>3. OneRequestPerTab'
  <2>1. ASSUME NEW s \in Requests \ {r}, phase'[r] \in Using, phase'[s] \in Using
        PROVE  at'[r] # at'[s]
    BY <1>1, <2>1 DEF IsIdle, UsedByOther, Using
  <2>2. \A s \in Requests : phase'[s] = "reserved" =>
           barrier'[at'[s]] = None /\ at'[s] \in (online \ quarantined)'
    BY <1>1 DEF IsIdle, TabsOK, OneRequestPerTab
  <2>3. ASSUME NEW q \in Requests, NEW s \in Requests, q # s, phase'[q] \in Using, phase'[s] \in Using
        PROVE  at'[q] # at'[s]
    BY <1>1, <2>1, <2>3 DEF TabsOK, OneRequestPerTab, Using
  <2> QED
    BY <2>2, <2>3 DEF OneRequestPerTab, Using
<1>4. BarrierHasRelease' /\ AwaitsOK'
  BY <1>1 DEF TabsOK, BarrierHasRelease, AwaitsOK, Registered
<1>5. ReleasedAtEnd'
  <2>1. \A s \in Requests : Registered(ReleaseOf(s))' => phase[s] = "ended"
    BY DEF TabsOK, ReleasedAtEnd, Registered
  <2> QED
    BY <1>1, <2>1 DEF ReleasedAtEnd
<1> QED
  BY <1>2, <1>3, <1>4, <1>5 DEF TabsOK

(* A request that takes no tab, or only asks about one, disturbs nobody.    *)
LEMMA LeaveKeeps ==
  ASSUME TypeOK, TabsOK, NEW r \in Requests, NEW to,
         phase' = [phase EXCEPT ![r] = to], to \notin Using, phase[r] # "ended" \/ to = "ended",
         at' = at \/ \E t \in Tabs \cup {None} : at' = [at EXCEPT ![r] = t],
         to = "asking" => at'[r] \in Tabs,
         \A w \in (Requests \cup Commands) \ {r} : awaits'[w] = awaits[w],
         awaits'[r] # None => to = "waiting",
         UNCHANGED <<stage, where, barrier, online, quarantined>>
  PROVE  TabsOK'
<1>1. /\ \A s \in Requests \ {r} : phase'[s] = phase[s] /\ at'[s] = at[s]
      /\ phase'[r] = to
  BY DEF TypeOK
<1>2. Placed' /\ OneRequestPerTab'
  BY <1>1 DEF TabsOK, Placed, OneRequestPerTab, Using
<1>3. BarrierHasRelease'
  BY DEF TabsOK, BarrierHasRelease, Registered
<1>5. AwaitsOK'
  <2>1. \A c \in Commands : c # r
    BY Names DEF NameAssumption
  <2> QED
    BY <1>1, <2>1 DEF TabsOK, AwaitsOK
<1>4. \A s \in Requests : Registered(ReleaseOf(s))' => phase[s] = "ended"
  BY DEF TabsOK, ReleasedAtEnd, Registered
<1> QED
  BY <1>1, <1>2, <1>3, <1>4, <1>5 DEF TabsOK, ReleasedAtEnd

(* A step that touches no request, barrier or stage, while no tab is        *)
(* promised.                                                                *)
LEMMA IdleKeeps ==
  ASSUME TypeOK, TabsOK,
         UNCHANGED <<phase, at, stage, where, barrier, awaits>>,
         Quiet \/ UNCHANGED <<online, quarantined>>
  PROVE  TabsOK'
<1>1. OneRequestPerTab'
  BY DEF TabsOK, OneRequestPerTab, Quiet
<1> QED
  BY <1>1 DEF TabsOK, Placed, BarrierHasRelease, ReleasedAtEnd, AwaitsOK, Registered

LEMMA ChoiceKeeps ==
  ASSUME TypeOK, TabsOK, NEW r \in Requests,
         \/ Submit(r) \/ ResolvePromptClient(r) \/ ReleaseWaitOver(r) \/ Confirm(r)
         \/ GiveUp(r) \/ SendPrompt(r) \/ ResumeActiveRequest(r)
  PROVE  TabsOK'
<1>0. \A w \in Requests \cup Commands : w \in Commands => w # r
  BY Names DEF NameAssumption
<1>1. CASE Submit(r)
  BY <1>1, LeaveKeeps DEF Submit, known, Using, TabsOK, AwaitsOK
<1>2. CASE ResolvePromptClient(r)
  <2>0. /\ phase[r] = "choosing" /\ awaits[r] = None
        /\ UNCHANGED <<stage, where, barrier, online, quarantined>>
    BY <1>2 DEF ResolvePromptClient, known, TabsOK, AwaitsOK
  <2>1. CASE MayWait(r)
    <3>1. /\ phase' = [phase EXCEPT ![r] = "waiting"] /\ at' = at
          /\ \A w \in (Requests \cup Commands) \ {r} : awaits'[w] = awaits[w]
      BY <1>0, <1>2, <2>1 DEF ResolvePromptClient, WaitForRelease, TypeOK
    <3> QED
      BY <2>0, <3>1, LeaveKeeps DEF Using
  <2>2. CASE ~MayWait(r)
    <3>1. /\ awaits' = awaits
          /\ \/ \E t \in Tabs : Reserve(r, t) \/ Ask(r, t)
             \/ phase' = [phase EXCEPT ![r] = "ended"] /\ at' = at
      BY <1>2, <2>2, Names DEF ResolvePromptClient, CommandAssumption
    <3>2. ASSUME NEW t \in Tabs, Reserve(r, t) PROVE TabsOK'
      BY <2>0, <3>1, <3>2, ReserveKeeps
    <3>3. ASSUME NEW t \in Tabs, Ask(r, t) PROVE TabsOK'
      <4>1. /\ phase' = [phase EXCEPT ![r] = "asking"]
            /\ at' = [at EXCEPT ![r] = t] /\ at'[r] \in Tabs
        BY <3>3 DEF Ask, TypeOK
      <4> QED
        BY <2>0, <3>1, <4>1, LeaveKeeps DEF Using
    <3>4. CASE phase' = [phase EXCEPT ![r] = "ended"] /\ at' = at
      BY <2>0, <3>1, <3>4, LeaveKeeps DEF Using
    <3> QED
      BY <3>1, <3>2, <3>3, <3>4
  <2> QED
    BY <2>1, <2>2
<1>3. CASE ReleaseWaitOver(r)
  <2>0. /\ phase' = [phase EXCEPT ![r] = "choosing"] /\ at' = at
        /\ \A w \in (Requests \cup Commands) \ {r} : awaits'[w] = awaits[w]
        /\ UNCHANGED <<stage, where, barrier, online, quarantined>>
    BY <1>0, <1>3 DEF ReleaseWaitOver, TypeOK, known
  <2>1. awaits[r] # None /\ phase[r] = "waiting" /\ awaits'[r] = None
    BY <1>3 DEF ReleaseWaitOver, TypeOK, TabsOK, AwaitsOK
  <2> QED
    BY <2>0, <2>1, LeaveKeeps DEF Using
<1>4. CASE Confirm(r)
  <2>1. at[r] \in Tabs /\ phase[r] = "asking"
    BY <1>4 DEF Confirm, TabsOK, Placed
  <2> QED
    BY <1>4, <2>1, ReserveKeeps DEF Confirm, known
<1>5. CASE GiveUp(r)
  <2>1. \A w \in (Requests \cup Commands) \ {r} : awaits'[w] = awaits[w]
    BY <1>0, <1>5 DEF GiveUp, Drop, TypeOK
  <2>2. awaits'[r] = None
    BY <1>5 DEF GiveUp, Drop, TypeOK
  <2> QED
    BY <1>5, <2>1, <2>2, LeaveKeeps DEF GiveUp, Drop, known, Using
<1>6. CASE SendPrompt(r)
  <2>1. CASE at[r] \in online
    <3>1. /\ \A s \in Requests \ {r} : phase'[s] = phase[s] /\ at'[s] = at[s]
          /\ phase[r] = "reserved" /\ phase'[r] = "bound" /\ at'[r] = at[r]
          /\ UNCHANGED <<stage, where, barrier, awaits, online, quarantined>>
      BY <1>6, <2>1 DEF SendPrompt, TypeOK, known
    <3>2. Placed' /\ OneRequestPerTab' /\ ReleasedAtEnd'
      BY <3>1 DEF TabsOK, Placed, OneRequestPerTab, ReleasedAtEnd, Registered
    <3> QED
      BY <3>1, <3>2 DEF TabsOK, BarrierHasRelease, AwaitsOK, Registered
  <2>2. CASE at[r] \notin online
    <3>1. /\ phase' = [phase EXCEPT ![r] = "ended"] /\ at' = [at EXCEPT ![r] = None]
          /\ \A w \in (Requests \cup Commands) \ {r} : awaits'[w] = awaits[w]
          /\ awaits'[r] = None /\ UNCHANGED <<stage, where, barrier, online, quarantined>>
      BY <1>0, <1>6, <2>2 DEF SendPrompt, Drop, TypeOK, known
    <3> QED
      BY <3>1, LeaveKeeps DEF Using
  <2> QED
    BY <2>1, <2>2
<1>7. CASE ResumeActiveRequest(r)
  <2>1. PICK t \in online : /\ ~UsedByOther(t, r)
                            /\ phase' = [phase EXCEPT ![r] = "bound"]
                            /\ at' = [at EXCEPT ![r] = t]
    BY <1>7 DEF ResumeActiveRequest
  <2>2. /\ \A s \in Requests \ {r} : phase'[s] = phase[s] /\ at'[s] = at[s]
        /\ phase[r] = "lost" /\ phase'[r] = "bound" /\ at'[r] = t /\ t \in Tabs
        /\ UNCHANGED <<stage, where, barrier, awaits, online, quarantined>>
    BY <1>7, <2>1 DEF ResumeActiveRequest, TypeOK, known
  <2>3. Placed' /\ ReleasedAtEnd'
    BY <2>2 DEF TabsOK, Placed, ReleasedAtEnd, Registered
  <2>5. BarrierHasRelease' /\ AwaitsOK'
    BY <2>2 DEF TabsOK, BarrierHasRelease, AwaitsOK, Registered
  <2>4. OneRequestPerTab'
    BY <2>1, <2>2 DEF TabsOK, OneRequestPerTab, UsedByOther
  <2> QED
    BY <2>3, <2>4, <2>5 DEF TabsOK
<1> QED
  BY <1>1, <1>2, <1>3, <1>4, <1>5, <1>6, <1>7

(* The end of a request gives up its tab and begins its release at once.    *)
LEMMA EndKeeps ==
  ASSUME TypeOK, TabsOK, NEW r \in Requests, phase[r] \in {"bound", "cancelling"}, End(r)
  PROVE  TabsOK'
<1> DEFINE c == ReleaseOf(r)
<1>1. /\ c \in Releases /\ c \in Commands /\ ~Registered(c) /\ at[r] \in Tabs
      /\ stage[c] # "waiting"
  BY Names DEF TabsOK, ReleasedAtEnd, AwaitsOK, Placed
<1>2. /\ BarrierHasRelease'
      /\ \A u \in Tabs \ {at[r]} : barrier'[u] = barrier[u]
      /\ \A d \in Commands \ {c} : stage'[d] = stage[d]
      /\ stage'[c] \in {"open", "settled"}
  BY <1>1, DispatchRelease DEF End, TabsOK
<1>3. /\ \A s \in Requests \ {r} : phase'[s] = phase[s]
      /\ phase'[r] = "ended" /\ UNCHANGED <<at, awaits, online, quarantined>>
  BY DEF End, TypeOK, known
<1>4. Placed' /\ OneRequestPerTab'
  BY <1>2, <1>3 DEF TabsOK, Placed, OneRequestPerTab
<1>5. ReleasedAtEnd'
  BY <1>2, <1>3, Names DEF TabsOK, ReleasedAtEnd, Registered
<1>6. AwaitsOK'
  BY <1>1, <1>2, <1>3 DEF TabsOK, AwaitsOK
<1> QED
  BY <1>2, <1>4, <1>5, <1>6 DEF TabsOK

(* Any command but a release that is sent waits for a barrier or goes out.  *)
LEMMA SendKeeps ==
  ASSUME TypeOK, TabsOK, NEW c \in Commands \ Releases, NEW t \in Tabs, Send(c, t),
         stage[c] # "waiting", UNCHANGED <<at, online, quarantined>>,
         phase' = phase \/ \E r \in Requests : /\ phase[r] = "bound"
                                               /\ phase' = [phase EXCEPT ![r] = "cancelling"]
  PROVE  TabsOK'
<1>1. /\ barrier' = barrier /\ BarrierHasRelease'
      /\ \A d \in Commands \ {c} : stage'[d] = stage[d] /\ awaits'[d] = awaits[d]
      /\ stage'[c] = "waiting" <=> awaits'[c] # None
      /\ \A r \in Requests : awaits'[r] = awaits[r]
  <2>0. c \notin Requests
    BY Names DEF NameAssumption
  <2>1. CASE barrier[t] # None
    <3>1. \A u \in Tabs : barrier[u] # None => barrier[u] \in Commands \ {c}
      BY Names DEF TypeOK
    <3> QED
      BY <2>0, <2>1, <3>1 DEF Send, TypeOK, TabsOK, BarrierHasRelease, Registered
  <2>2. CASE barrier[t] = None
    BY <2>2, DispatchOther DEF Send, TabsOK, AwaitsOK
  <2> QED
    BY <2>1, <2>2
<1>2. AwaitsOK'
  BY <1>1 DEF TabsOK, AwaitsOK, TypeOK
<1>3. Placed' /\ OneRequestPerTab'
  <2>1. \A r \in Requests : \/ phase'[r] = phase[r]
                            \/ phase[r] = "bound" /\ phase'[r] = "cancelling"
    BY DEF TypeOK
  <2>2. barrier' = barrier
    BY <1>1
  <2> QED
    BY <2>1, <2>2 DEF TabsOK, Placed, OneRequestPerTab
<1>4. ReleasedAtEnd'
  <2>1. \A s \in Requests : Registered(ReleaseOf(s))' => phase[s] = "ended"
    BY <1>1, Names DEF TabsOK, ReleasedAtEnd, Registered
  <2>2. \A s \in Requests : phase[s] = "ended" => phase'[s] = "ended"
    BY DEF TypeOK
  <2> QED
    BY <2>1, <2>2 DEF ReleasedAtEnd
<1> QED
  BY <1>1, <1>2, <1>3, <1>4 DEF TabsOK

LEMMA ReleaseKeeps ==
  ASSUME TypeOK, TabsOK, NEW r \in Requests,
         \/ Finish(r) \/ DeadlineExceeded(r) \/ CancelSettled(r)
         \/ \E t \in Tabs : ReleaseStaleLease(r, t)
  PROVE  TabsOK'
<1>1. CASE Finish(r) \/ CancelSettled(r)
  BY <1>1, EndKeeps DEF Finish, CancelSettled
<1>2. CASE DeadlineExceeded(r)
  <2>1. CancelOf(r) \in Commands \ Releases /\ at[r] \in Tabs
    BY <1>2, Names DEF DeadlineExceeded, TabsOK, Placed
  <2> QED
    BY <1>2, <2>1, SendKeeps DEF DeadlineExceeded, known
<1>3. ASSUME NEW t \in Tabs, ReleaseStaleLease(r, t) PROVE TabsOK'
  <2>1. /\ StaleOf(r) \in Releases /\ ~Registered(StaleOf(r)) /\ Dispatch(StaleOf(r), t)
        /\ stage[StaleOf(r)] = "none" /\ \A s \in Requests : phase[s] # "reserved"
        /\ UNCHANGED <<phase, at, awaits, online, quarantined>>
    BY <1>3, Names DEF ReleaseStaleLease, Quiet, Registered, known
  <2>2. /\ BarrierHasRelease'
        /\ \A d \in Commands \ {StaleOf(r)} : stage'[d] = stage[d]
        /\ stage'[StaleOf(r)] \in {"open", "settled"}
    BY <2>1, DispatchRelease DEF TabsOK
  <2>3. Placed' /\ OneRequestPerTab'
    BY <2>1 DEF TabsOK, Placed, OneRequestPerTab
  <2>4. ReleasedAtEnd'
    <3>1. \A s \in Requests : stage'[ReleaseOf(s)] = stage[ReleaseOf(s)]
      BY <2>2, Names DEF ReleaseOf, StaleOf
    <3> QED
      BY <2>1, <3>1 DEF TabsOK, ReleasedAtEnd, Registered
  <2>5. AwaitsOK'
    BY <2>1, <2>2 DEF TabsOK, AwaitsOK
  <2> QED
    BY <2>2, <2>3, <2>4, <2>5 DEF TabsOK
<1> QED
  BY <1>1, <1>2, <1>3

(* A command that leaves the registry, while no tab is promised.            *)
LEMMA SettleKeeps ==
  ASSUME TypeOK, TabsOK, NEW c \in Commands, NEW how, Remove(c, how), Quiet,
         UNCHANGED <<phase, at>>,
         \A w \in (Requests \cup Commands) \ {c} : awaits'[w] = awaits[w],
         awaits'[c] = None
  PROVE  TabsOK'
<1>0. /\ \A s \in Requests : phase[s] # "reserved"
      /\ \A w \in Requests : awaits'[w] = awaits[w]
  BY Names DEF Quiet, NameAssumption
<1>1. /\ BarrierHasRelease'
      /\ \A d \in Commands \ {c} : stage'[d] = stage[d]
      /\ stage'[c] = "settled"
  BY RemoveKeeps DEF TabsOK
<1>2. Placed' /\ OneRequestPerTab'
  BY <1>0 DEF TabsOK, Placed, OneRequestPerTab
<1>3. ReleasedAtEnd' /\ AwaitsOK'
  BY <1>0, <1>1, Names DEF TabsOK, ReleasedAtEnd, Registered, AwaitsOK
<1> QED
  BY <1>1, <1>2, <1>3 DEF TabsOK

LEMMA CommandKeeps ==
  ASSUME TypeOK, TabsOK, NEW c \in Commands,
         BarrierOver(c) \/ BarrierLimit(c) \/ Timeout(c) \/ WithdrawalOver(c)
  PROVE  TabsOK'
<1>1. CASE BarrierOver(c)
  <2>1. c \in Commands \ Releases /\ stage[c] = "waiting"
    BY <1>1 DEF BarrierOver, TypeOK, TabsOK, AwaitsOK
  <2>2. /\ barrier' = barrier /\ BarrierHasRelease'
        /\ \A d \in Commands \ {c} : stage'[d] = stage[d]
        /\ stage'[c] \in {"open", "settled"}
    BY <1>1, <2>1, DispatchOther DEF BarrierOver, TabsOK
  <2>3. /\ \A w \in (Requests \cup Commands) \ {c} : awaits'[w] = awaits[w]
        /\ awaits'[c] = None /\ UNCHANGED <<phase, at, online, quarantined>>
    BY <1>1 DEF BarrierOver, TypeOK, known
  <2>4. Placed' /\ OneRequestPerTab'
    BY <2>2, <2>3 DEF TabsOK, Placed, OneRequestPerTab
  <2>5. ReleasedAtEnd' /\ AwaitsOK'
    BY <2>1, <2>2, <2>3, Names DEF TabsOK, ReleasedAtEnd, Registered, AwaitsOK, NameAssumption
  <2> QED
    BY <2>2, <2>4, <2>5 DEF TabsOK
<1>2. CASE BarrierLimit(c)
  <2>1. /\ \A w \in (Requests \cup Commands) \ {c} : awaits'[w] = awaits[w]
        /\ awaits'[c] = None
    BY <1>2 DEF BarrierLimit, TypeOK
  <2> QED
    BY <1>2, <2>1, SettleKeeps DEF BarrierLimit
<1>3. CASE stage[c] \in {"open", "withdrawing"} /\ Remove(c, "failed") /\ Quiet /\ UNCHANGED <<phase, at, awaits>>
  BY <1>3, SettleKeeps DEF TabsOK, AwaitsOK
<1>4. CASE /\ stage[c] = "open" /\ stage' = [stage EXCEPT ![c] = "withdrawing"]
           /\ UNCHANGED <<phase, at, where, barrier, awaits, online, quarantined>>
  <2>1. /\ \A d \in Commands \ {c} : stage'[d] = stage[d]
        /\ stage'[c] = "withdrawing"
    BY <1>4 DEF TypeOK
  <2>2. Placed' /\ OneRequestPerTab'
    BY <1>4 DEF TabsOK, Placed, OneRequestPerTab
  <2>3. BarrierHasRelease'
    BY <1>4, <2>1, Names DEF TabsOK, BarrierHasRelease, Registered, TypeOK
  <2>4. ReleasedAtEnd' /\ AwaitsOK'
    BY <1>4, <2>1, Names DEF TabsOK, ReleasedAtEnd, AwaitsOK, Registered
  <2> QED
    BY <2>2, <2>3, <2>4 DEF TabsOK
<1> QED
  BY <1>1, <1>2, <1>3, <1>4 DEF Timeout, WithdrawalOver, known

LEMMA MessageKeeps ==
  ASSUME TypeOK, TabsOK, NEW t \in Tabs, Tab(t) \/ Report(t) \/ HandleResponse(t) \/ Observe(t)
  PROVE  TabsOK'
<1>1. CASE Tab(t) \/ Report(t)
  <2>1. UNCHANGED <<phase, at, stage, where, barrier, awaits, online, quarantined>>
    BY <1>1 DEF Tab, Report, TabPrompt, TabRelease, TabCommand, server, known
  <2> QED
    BY <2>1, IdleKeeps
<1>2. CASE Observe(t)
  BY <1>2, IdleKeeps DEF Observe, server
<1>3. CASE HandleResponse(t)
  <2> DEFINE kind == Head(up[t])[1]
             c    == Head(up[t])[2]
  <2>1. c \in Commands /\ Quiet /\ UNCHANGED <<phase, at, awaits>>
    BY <1>3, ReceiveType, AnswerNames DEF HandleResponse, Receive
  <2>2. CASE Settles(c, kind, t)
    <3>1. Remove(c, Outcome(kind)) /\ awaits[c] = None
      BY <1>3, <2>1, <2>2 DEF HandleResponse, Settles, Registered, TabsOK, AwaitsOK
    <3> HIDE DEF kind, c
    <3> QED
      BY <2>1, <3>1, SettleKeeps
  <2>3. CASE ~Settles(c, kind, t)
    BY <1>3, <2>1, <2>3, IdleKeeps DEF HandleResponse
  <2> QED
    BY <2>2, <2>3
<1> QED
  BY <1>1, <1>2, <1>3

LEMMA PassiveKeeps ==
  ASSUME TypeOK, TabsOK, PassiveOK, NEW k \in Callers, Reservation(k) \/ SubmitPassive(k) \/ Record(k)
  PROVE  TabsOK'
<1>1. CASE Reservation(k) \/ Record(k)
  BY <1>1, IdleKeeps DEF Reservation, Record, server
<1>2. CASE SubmitPassive(k)
  <2>1. k[1] \in Passives /\ k[2] \in 1 .. MaxCalls /\ k = <<k[1], k[2]>>
    BY DEF Callers
  <2>2. stage[PassiveOf(k[1])] = "none"
    BY <1>2, <2>1 DEF SubmitPassive, PassiveOK, OneCall
  <2>3. PICK t \in Tabs : Send(PassiveOf(k[1]), t)
    BY <1>2, <2>1, Names DEF SubmitPassive, Candidates, CommandAssumption
  <2> QED
    BY <1>2, <2>1, <2>2, <2>3, SendKeeps, Names DEF SubmitPassive, known
<1> QED
  BY <1>1, <1>2

LEMMA FaultKeeps ==
  ASSUME TypeOK, TabsOK, Restart \/ \E t \in Tabs : SocketLost(t) \/ Hello(t)
  PROVE  TabsOK'
<1>1. ASSUME NEW t \in Tabs, SocketLost(t) \/ Hello(t) PROVE TabsOK'
  BY <1>1, IdleKeeps DEF SocketLost, Hello, server
<1>2. CASE Restart
  <2>1. /\ \A r \in Requests : phase'[r] \notin {"asking", "waiting"} \cup Using
        /\ \A t \in Tabs : barrier'[t] = None
        /\ \A c \in Commands : stage'[c] \in {"none", "settled"} /\ awaits'[c] = None
        /\ \A r \in Requests : awaits'[r] = None
    BY <1>2 DEF Restart, Using, Pending, TypeOK
  <2>2. Placed' /\ OneRequestPerTab' /\ BarrierHasRelease'
    BY <2>1 DEF Placed, OneRequestPerTab, BarrierHasRelease, Using
  <2>3. ReleasedAtEnd' /\ AwaitsOK'
    BY <2>1, Names DEF ReleasedAtEnd, AwaitsOK, Registered
  <2> QED
    BY <2>2, <2>3 DEF TabsOK
<1> QED
  BY <1>1, <1>2

LEMMA TabsKept ==
  ASSUME TypeOK, TabsOK, PassiveOK, Next
  PROVE  TabsOK'
BY ChoiceKeeps, ReleaseKeeps, CommandKeeps, MessageKeeps, PassiveKeeps, FaultKeeps
   DEF Next, Jobs

-----------------------------------------------------------------------------
(* Passive prompts                                                          *)

One(p) == OneCall(p) /\ WrittenOnce(p) /\ RecordOK(p)

(* No message about the prompt is added.                                    *)
DownSame(p) ==
  \A t \in Tabs : /\ Has(down'[t], Order(p)) => Has(down[t], Order(p))
                  /\ Once(down[t], Order(p)) => Once(down'[t], Order(p))

UpSame(p) ==
  \A t \in Tabs : \A kind \in {"refused", "done"} :
     Has(up'[t], <<kind, PassiveOf(p)>>) => Has(up[t], <<kind, PassiveOf(p)>>)

LEMMA DownAppend ==
  ASSUME TypeOK, NEW p \in Passives, NEW t \in Tabs, NEW m \in Messages, m # Order(p),
         down' = [down EXCEPT ![t] = Append(@, m)]
  PROVE  DownSame(p)
<1>1. down \in [Tabs -> Seq(Messages)]
  BY DEF TypeOK
<1>2. /\ down'[t] = Append(down[t], m)
      /\ \A u \in Tabs : u # t => down'[u] = down[u]
  BY <1>1
<1>3. /\ Has(Append(down[t], m), Order(p)) => Has(down[t], Order(p))
      /\ Once(down[t], Order(p)) => Once(Append(down[t], m), Order(p))
  <2> DEFINE o == Order(p)
  <2>1. m # o /\ down[t] \in Seq(Messages)
    BY <1>1
  <2> HIDE DEF o
  <2>2. /\ Has(Append(down[t], m), o) => Has(down[t], o)
        /\ Once(down[t], o) => Once(Append(down[t], m), o)
    BY <2>1, AppendHas
  <2> QED
    BY <2>2 DEF o
<1>4. ASSUME NEW u \in Tabs
      PROVE  /\ Has(down'[u], Order(p)) => Has(down[u], Order(p))
             /\ Once(down[u], Order(p)) => Once(down'[u], Order(p))
  <2>1. CASE u = t
    BY <2>1, <1>2, <1>3
  <2>2. CASE u # t
    BY <2>2, <1>2
  <2> QED
    BY <2>1, <2>2
<1> QED
  BY <1>4 DEF DownSame

LEMMA DownTail ==
  ASSUME TypeOK, NEW p \in Passives, NEW t \in Tabs, Take(t)
  PROVE  DownSame(p)
<1>1. /\ down \in [Tabs -> Seq(Messages)] /\ down[t] # <<>>
      /\ down'[t] = Tail(down[t])
      /\ \A u \in Tabs : u # t => down'[u] = down[u]
  BY TakeType DEF TypeOK
<1> DEFINE o == Order(p)
<1> HIDE DEF o
<1>2. /\ Has(Tail(down[t]), o) => Has(down[t], o)
      /\ Once(down[t], o) => Once(Tail(down[t]), o)
  BY <1>1, TailHas
<1>3. ASSUME NEW u \in Tabs
      PROVE  /\ Has(down'[u], o) => Has(down[u], o)
             /\ Once(down[u], o) => Once(down'[u], o)
  <2>1. CASE u = t
    BY <2>1, <1>1, <1>2
  <2>2. CASE u # t
    BY <2>2, <1>1
  <2> QED
    BY <2>1, <2>2
<1> QED
  BY <1>3 DEF DownSame, o

LEMMA DownLost ==
  ASSUME NEW p \in Passives, \A t \in Tabs : down'[t] = <<>> \/ down'[t] = down[t]
  PROVE  DownSame(p)
BY NothingInEmpty DEF DownSame

LEMMA UpTail ==
  ASSUME TypeOK, NEW p \in Passives, NEW t \in Tabs, Receive(t)
  PROVE  UpSame(p)
<1>1. /\ up[t] \in Seq(Answers) /\ up[t] # <<>>
      /\ up'[t] = Tail(up[t])
      /\ \A u \in Tabs : u # t => up'[u] = up[u]
  BY ReceiveType DEF TypeOK
<1> QED
  BY <1>1, TailHas DEF UpSame

LEMMA UpAppend ==
  ASSUME TypeOK, NEW p \in Passives, NEW t \in Tabs, NEW kind, NEW x,
         <<kind, x>> \in Answers, kind \notin {"refused", "done"} \/ x # PassiveOf(p),
         Reply(t, kind, x)
  PROVE  UpSame(p)
<1>1. /\ up[t] \in Seq(Answers)
      /\ up'[t] = Append(up[t], <<kind, x>>)
      /\ \A u \in Tabs : u # t => up'[u] = up[u]
  BY ReplyType DEF TypeOK
<1>2. ASSUME NEW k \in {"refused", "done"}
      PROVE  Has(Append(up[t], <<kind, x>>), <<k, PassiveOf(p)>>) => Has(up[t], <<k, PassiveOf(p)>>)
  <2> DEFINE o == <<k, PassiveOf(p)>>
             m == <<kind, x>>
  <2>1. m # o /\ m \in Answers
    OBVIOUS
  <2> HIDE DEF o, m
  <2>2. Has(Append(up[t], m), o) => Has(up[t], o)
    BY <1>1, <2>1, AppendHas
  <2> QED
    BY <2>2 DEF o, m
<1> QED
  BY <1>1, <1>2 DEF UpSame

(* Its command may settle as a failure, and nothing else happens to it.     *)
LEMMA PassiveFrame ==
  ASSUME TypeOK, NEW p \in Passives, One(p), DownSame(p), UpSame(p),
         written'[p] = written[p], record'[p] = record[p],
         result'[p] \in {result[p], "failed"},
         \/ stage'[PassiveOf(p)] = stage[PassiveOf(p)]
         \/ /\ stage[PassiveOf(p)] \notin {"none", "settled"}
            /\ stage'[PassiveOf(p)] \in {"open", "withdrawing", "settled"},
         \A n \in 1 .. MaxCalls : calls'[<<p, n>>] = calls[<<p, n>>] /\ told'[<<p, n>>] = told[<<p, n>>]
  PROVE  One(p)'
<1>1. /\ Sent(p)' => Sent(p)
      /\ \A kind \in {"refused", "done"} : Answered(p, kind)' => Answered(p, kind)
  BY DEF Sent, Answered, DownSame, UpSame
<1>2. /\ Untouched(p) => Untouched(p)'
  BY <1>1 DEF Untouched
<1>3. OneCall(p)'
  BY DEF One, OneCall
<1>4. WrittenOnce(p)'
  BY <1>1, <1>2 DEF One, WrittenOnce, DownSame
<1>5. RecordOK(p)'
  BY <1>2 DEF One, RecordOK
<1> QED
  BY <1>3, <1>4, <1>5 DEF One

(* A command that is sent for the first time.                               *)
LEMMA PassiveDispatch ==
  ASSUME TypeOK, NEW p \in Passives, One(p), NEW t \in Tabs \cup {None},
         Dispatch(PassiveOf(p), t), UNCHANGED <<up, written, record, told>>,
         stage[PassiveOf(p)] \in {"none", "waiting"}, record[p] # "UNKNOWN",
         \A n \in 1 .. MaxCalls : calls'[<<p, n>>] # "created",
         \A m, n \in 1 .. MaxCalls : calls'[<<p, m>>] = "sent" /\ calls'[<<p, n>>] = "sent" => m = n
  PROVE  One(p)'
<1> DEFINE c == PassiveOf(p)
<1>1. /\ Untouched(p) /\ ~Answered(p, "refused") /\ ~Answered(p, "done")
      /\ c \in Commands /\ Order(p) \in Messages
      /\ result[p] \notin {"ok", "refused"} /\ record[p] \notin {"SUBMITTED", "REJECTED"}
  BY Names DEF One, WrittenOnce, RecordOK, Untouched, Order
<1>2. /\ stage'[c] \in {"open", "settled"} /\ result'[p] \notin {"ok", "refused"}
  BY <1>1, Names DEF Dispatch, TypeOK, Resulted
<1>3. OneCall(p)'
  BY DEF OneCall
<1>4. RecordOK(p)'
  BY <1>1, <1>2 DEF One, RecordOK
<1>5. WrittenOnce(p)'
  <2>0. down \in [Tabs -> Seq(Messages)] /\ online \subseteq Tabs
    BY DEF TypeOK
  <2>1. \A u \in Tabs : ~Has(down[u], Order(p)) /\ Once(down[u], Order(p))
    BY <1>1 DEF Untouched, Sent, One, WrittenOnce
  <2>2. /\ \A u \in Tabs : Once(down'[u], Order(p))
        /\ \A u \in Tabs : Has(down'[u], Order(p)) => u = t
    <3>1. CASE t \in online
      <4>1. /\ down'[t] = Append(down[t], Order(p))
            /\ \A u \in Tabs : u # t => down'[u] = down[u]
        BY <2>0, <3>1 DEF Dispatch, Order
      <4>2. Once(Append(down[t], Order(p)), Order(p))
        <5> DEFINE o == Order(p)
        <5>1. o \in Messages /\ down[t] \in Seq(Messages) /\ ~Has(down[t], o) /\ Once(down[t], o)
          BY <1>1, <2>0, <2>1, <3>1
        <5> HIDE DEF o
        <5>2. Once(Append(down[t], o), o)
          BY <5>1, AppendHas
        <5> QED
          BY <5>2 DEF o
      <4> QED
        BY <2>1, <4>1, <4>2
    <3>2. CASE t \notin online
      BY <2>1, <3>2 DEF Dispatch
    <3> QED
      BY <3>1, <3>2
  <2>3. /\ ~Answered(p, "refused")' /\ ~Answered(p, "done")' /\ written'[p] = 0
    BY <1>1 DEF Answered, Untouched
  <2> QED
    BY <1>2, <2>2, <2>3 DEF WrittenOnce
<1> QED
  BY <1>3, <1>4, <1>5 DEF One

(* A tab that takes the command writes the prompt or refuses it, and says   *)
(* which.                                                                   *)
LEMMA PassiveWritten ==
  ASSUME TypeOK, NEW p \in Passives, One(p), NEW t \in Tabs, TabCommand(t, PassiveOf(p))
  PROVE  One(p)'
<1> DEFINE o == Order(p)
<1>1. /\ down \in [Tabs -> Seq(Messages)] /\ down[t] # <<>> /\ Head(down[t]) = o
      /\ down'[t] = Tail(down[t])
      /\ \A u \in Tabs : u # t => down'[u] = down[u]
  <2>1. down \in [Tabs -> Seq(Messages)]
    BY DEF TypeOK
  <2>2. Take(t) /\ Head(down[t]) = o
    BY DEF TabCommand, Order
  <2> HIDE DEF o
  <2> QED
    BY <2>1, <2>2, TakeType
<1> HIDE DEF o
<1>2. /\ Has(down[t], o) /\ Once(down[t], o)
      /\ \A u \in Tabs : Has(down[u], o) => u = t
  <2>1. Has(down[t], o)
    BY <1>1, TailHas
  <2> QED
    BY <2>1 DEF One, WrittenOnce, o
<1>3. \A u \in Tabs : ~Has(down'[u], o) /\ Once(down'[u], o)
  <2>1. ~Has(Tail(down[t]), o)
    BY <1>1, <1>2, TailHas
  <2> QED
    BY <1>1, <1>2, <2>1 DEF Has, Once
<1>4. /\ Sent(p) /\ written[p] = 0 /\ stage[PassiveOf(p)] \notin {"none", "waiting"}
      /\ ~Answered(p, "done") /\ result[p] # "ok" /\ result[p] # "refused"
      /\ record[p] # "SUBMITTED" /\ record[p] # "REJECTED"
  BY <1>2 DEF One, WrittenOnce, RecordOK, Untouched, Sent, o
<1>5. ~Answered(p, "refused")
  BY <1>4 DEF One, WrittenOnce, Untouched
<1>6. ~Sent(p)'
  BY <1>3 DEF Sent, o
<1>7. PICK kind \in {"done", "refused", "error"} :
         /\ Reply(t, kind, PassiveOf(p))
         /\ \/ kind \in {"done", "error"} /\ written' = [written EXCEPT ![p] = @ + 1]
            \/ kind \in {"refused", "error"} /\ written' = written
  <2>1. PassiveOf(p)[1] = "passive" /\ Of(PassiveOf(p)) = p
    BY DEF PassiveOf, Of
  <2> QED
    BY <2>1 DEF TabCommand
<1>8. /\ up[t] \in Seq(Answers) /\ <<kind, PassiveOf(p)>> \in Answers
      /\ up'[t] = Append(up[t], <<kind, PassiveOf(p)>>)
      /\ \A u \in Tabs : u # t => up'[u] = up[u]
  <2>1. PassiveOf(p) \in Commands
    BY Names
  <2>2. <<kind, PassiveOf(p)>> \in Answers
    BY <2>1 DEF Answers
  <2>3. up \in [Tabs -> Seq(Answers)]
    BY DEF TypeOK
  <2> QED
    BY <1>7, <2>2, <2>3 DEF Reply
<1>9. \A k \in {"refused", "done"} : Answered(p, k)' => k = kind
  <2> SUFFICES ASSUME NEW k \in {"refused", "done"}, Answered(p, k)' PROVE k = kind
    OBVIOUS
  <2> DEFINE a == <<k, PassiveOf(p)>>
             b == <<kind, PassiveOf(p)>>
  <2>1. a = b => k = kind
    OBVIOUS
  <2>2. PICK u \in Tabs : Has(up'[u], a)
    BY DEF Answered
  <2>3. ~Has(up[u], a)
    BY <1>4, <1>5 DEF Answered
  <2>4. up'[t] = Append(up[t], b) /\ b \in Answers
    BY <1>8
  <2> HIDE DEF a, b
  <2>5. u = t
    BY <2>2, <2>3, <1>8
  <2>6. Has(Append(up[t], b), a)
    BY <2>2, <2>4, <2>5
  <2>7. Has(up[t], a) \/ b = a
    <3> DEFINE q == up[t]
    <3>1. q \in Seq(Answers) /\ b \in Answers /\ Has(Append(q, b), a)
      BY <1>8, <2>4, <2>6
    <3> HIDE DEF q
    <3>2. Has(q, a) \/ b = a
      BY <3>1, AppendHas
    <3> QED
      BY <3>2 DEF q
  <2> QED
    BY <2>1, <2>3, <2>5, <2>7
<1>10. /\ written[p] \in Nat
       /\ written'[p] \in {0, 1}
       /\ kind = "done" => written'[p] = 1
       /\ kind = "refused" => written'[p] = 0
  BY <1>4, <1>7 DEF TypeOK
<1>11. UNCHANGED <<stage, record, calls, told, result>>
  BY DEF TabCommand, server, ledger
<1>12. WrittenOnce(p)'
  BY <1>3, <1>4, <1>6, <1>9, <1>10, <1>11 DEF WrittenOnce, Untouched, o
<1>13. OneCall(p)' /\ RecordOK(p)'
  BY <1>4, <1>11 DEF One, OneCall, RecordOK
<1> QED
  BY <1>12, <1>13 DEF One

(* The verdict that the registry takes is the answer of the tab.            *)
LEMMA PassiveAnswered ==
  ASSUME TypeOK, NEW p \in Passives, One(p), NEW t \in Tabs, HandleResponse(t)
  PROVE  One(p)'
<1> DEFINE kind == Head(up[t])[1]
           c    == Head(up[t])[2]
<1>1. /\ up[t] \in Seq(Answers) /\ up[t] # <<>> /\ Head(up[t]) = <<kind, c>>
      /\ c \in Commands /\ Head(up[t]) \in Answers
  BY ReceiveType, AnswerNames DEF HandleResponse
<1>2. c = PassiveOf(p) /\ kind \in {"refused", "done"} => Answered(p, kind)
  BY <1>1, TailHas DEF Answered
<1>3. DownSame(p) /\ UpSame(p)
  BY DownLost, UpTail DEF HandleResponse
<1>4. UNCHANGED <<down, written, record, calls, told>>
  BY DEF HandleResponse, page, ledger
<1>5. CASE Settles(c, kind, t) /\ c = PassiveOf(p)
  <2>1. /\ kind \in {"done", "refused", "error"}
        /\ stage[c] \in {"open", "withdrawing"}
    BY <1>5, Names DEF Settles, Registered
  <2>2. /\ stage'[c] = "settled" /\ result'[p] = Outcome(kind)
    BY <1>1, <1>5, Names DEF HandleResponse, Remove, Resulted, TypeOK, PassiveOf, Of
  <2>3. CASE kind = "error"
    <3>1. result'[p] = "failed"
      BY <2>2, <2>3 DEF Outcome
    <3> HIDE DEF kind, c
    <3> QED
      BY <1>3, <1>4, <1>5, <2>1, <2>2, <3>1, PassiveFrame
  <2>4. CASE kind \in {"done", "refused"}
    <3>1. /\ kind = "done" => written[p] = 1 /\ result'[p] = "ok"
          /\ kind = "refused" => Untouched(p) /\ result'[p] = "refused"
      BY <1>2, <1>5, <2>2, <2>4 DEF One, WrittenOnce, Outcome
    <3> HIDE DEF kind, c
    <3>2. /\ Sent(p)' => Sent(p)
          /\ \A k \in {"refused", "done"} : Answered(p, k)' => Answered(p, k)
      BY <1>3 DEF Sent, Answered, DownSame, UpSame
    <3>3. Untouched(p) => Untouched(p)'
      BY <1>4, <3>2 DEF Untouched
    <3>4. OneCall(p)'
      BY <1>4, <1>5, <2>1 DEF One, OneCall
    <3>5. WrittenOnce(p)'
      BY <1>3, <1>4, <1>5, <2>2, <3>2, <3>3 DEF One, WrittenOnce, DownSame
    <3>6. RecordOK(p)'
      BY <1>4, <1>5, <2>2, <2>4, <3>1, <3>3 DEF One, RecordOK
    <3> QED
      BY <3>4, <3>5, <3>6 DEF One
  <2> QED
    BY <2>1, <2>3, <2>4
<1>6. CASE ~(Settles(c, kind, t) /\ c = PassiveOf(p))
  <2>1. stage'[PassiveOf(p)] = stage[PassiveOf(p)] /\ result'[p] = result[p]
    BY <1>1, <1>6, Names DEF HandleResponse, Remove, Resulted, TypeOK
  <2> QED
    BY <1>3, <1>4, <2>1, PassiveFrame
<1> QED
  BY <1>5, <1>6

(* Another command is sent, or a command is over.                           *)
LEMMA OtherSent ==
  ASSUME TypeOK, NEW p \in Passives, NEW c \in Commands, c # PassiveOf(p),
         NEW t \in Tabs \cup {None}, Dispatch(c, t) \/ (t \in Tabs /\ Send(c, t))
  PROVE  DownSame(p) /\ stage'[PassiveOf(p)] = stage[PassiveOf(p)] /\ result'[p] = result[p]
<1>1. ASSUME Dispatch(c, t)
      PROVE  DownSame(p) /\ stage'[PassiveOf(p)] = stage[PassiveOf(p)] /\ result'[p] = result[p]
  <2>1. stage'[PassiveOf(p)] = stage[PassiveOf(p)]
    BY <1>1, Names DEF Dispatch, TypeOK
  <2>2. result'[p] = result[p]
    BY <1>1, Names DEF Dispatch, Resulted, TypeOK
  <2>3. CASE t \in online
    <3>1. <<"command", c>> \in Messages /\ <<"command", c>> # Order(p) /\ t \in Tabs
      BY <2>3, Names DEF Order, TypeOK
    <3>2. down' = [down EXCEPT ![t] = Append(@, <<"command", c>>)]
      BY <1>1, <2>3 DEF Dispatch
    <3> QED
      BY <2>1, <2>2, <3>1, <3>2, DownAppend
  <2>4. CASE t \notin online
    BY <1>1, <2>1, <2>2, <2>4, DownLost DEF Dispatch
  <2> QED
    BY <2>3, <2>4
<1>2. CASE t \in Tabs /\ Send(c, t)
  <2>1. CASE barrier[t] # None
    <3>1. /\ stage'[PassiveOf(p)] = stage[PassiveOf(p)]
          /\ UNCHANGED <<result, down>>
      BY <1>2, <2>1, Names DEF Send, TypeOK
    <3> QED
      BY <3>1, DownLost
  <2>2. CASE barrier[t] = None
    BY <1>1, <1>2, <2>2 DEF Send
  <2> QED
    BY <2>1, <2>2
<1> QED
  BY <1>1, <1>2

LEMMA CommandOver ==
  ASSUME TypeOK, NEW p \in Passives, NEW c \in Commands, stage[c] \notin {"none", "settled"},
         Remove(c, "failed")
  PROVE  /\ result'[p] \in {result[p], "failed"}
         /\ \/ stage'[PassiveOf(p)] = stage[PassiveOf(p)]
            \/ stage[PassiveOf(p)] \notin {"none", "settled"} /\ stage'[PassiveOf(p)] = "settled"
<1>1. result'[p] \in {result[p], "failed"}
  BY Names DEF Remove, Resulted, TypeOK
<1>2. \/ stage'[PassiveOf(p)] = stage[PassiveOf(p)]
      \/ stage[PassiveOf(p)] \notin {"none", "settled"} /\ stage'[PassiveOf(p)] = "settled"
  BY Names DEF Remove, TypeOK
<1> QED
  BY <1>1, <1>2

(* Steps that leave the ledger and the page alone.                          *)
LEMMA ServerFrame ==
  ASSUME TypeOK, NEW p \in Passives, One(p), DownSame(p), UNCHANGED <<up, written, record, calls, told>>,
         result'[p] \in {result[p], "failed"},
         \/ stage'[PassiveOf(p)] = stage[PassiveOf(p)]
         \/ /\ stage[PassiveOf(p)] \notin {"none", "settled"}
            /\ stage'[PassiveOf(p)] \in {"open", "withdrawing", "settled"}
  PROVE  One(p)'
<1>1. UpSame(p)
  BY DEF UpSame
<1> QED
  BY <1>1, PassiveFrame

LEMMA PassiveRequests ==
  ASSUME TypeOK, Placed, NEW p \in Passives, One(p), NEW r \in Requests,
         \/ Submit(r) \/ ResolvePromptClient(r) \/ ReleaseWaitOver(r) \/ Confirm(r)
         \/ GiveUp(r) \/ SendPrompt(r) \/ ResumeActiveRequest(r)
         \/ Finish(r) \/ DeadlineExceeded(r) \/ CancelSettled(r)
         \/ \E t \in Tabs : ReleaseStaleLease(r, t)
  PROVE  One(p)'
<1>1. CASE \/ Submit(r) \/ ResolvePromptClient(r) \/ ReleaseWaitOver(r) \/ Confirm(r)
           \/ GiveUp(r) \/ ResumeActiveRequest(r)
  <2>1. UNCHANGED <<stage, result, down, up, written, record, calls, told>>
    BY <1>1 DEF Submit, ResolvePromptClient, ReleaseWaitOver, Confirm, GiveUp, ResumeActiveRequest,
                links, page, ledger
  <2> QED
    BY <2>1, DownLost, ServerFrame
<1>2. CASE SendPrompt(r)
  <2>1. UNCHANGED <<stage, result, up, written, record, calls, told>>
    BY <1>2 DEF SendPrompt, page, ledger
  <2>2. CASE at[r] \in online
    <3>1. /\ at[r] \in Tabs /\ down' = [down EXCEPT ![at[r]] = Append(@, <<"prompt", r>>)]
          /\ <<"prompt", r>> \in Messages /\ <<"prompt", r>> # Order(p)
      BY <1>2, <2>2, Names DEF SendPrompt, TypeOK, Order
    <3> QED
      BY <2>1, <3>1, DownAppend, ServerFrame
  <2>3. CASE at[r] \notin online
    BY <1>2, <2>1, <2>3, DownLost, ServerFrame DEF SendPrompt
  <2> QED
    BY <2>2, <2>3
<1>3. CASE End(r)
  <2>1. /\ ReleaseOf(r) \in Commands /\ ReleaseOf(r) # PassiveOf(p) /\ at[r] \in Tabs \cup {None}
        /\ Dispatch(ReleaseOf(r), at[r]) /\ UNCHANGED <<up, written, record, calls, told>>
    BY <1>3, Names DEF End, TypeOK, page, ledger
  <2> QED
    BY <2>1, OtherSent, ServerFrame
<1>4. CASE DeadlineExceeded(r)
  <2>1. /\ CancelOf(r) \in Commands /\ CancelOf(r) # PassiveOf(p) /\ at[r] \in Tabs
        /\ Send(CancelOf(r), at[r]) /\ UNCHANGED <<up, written, record, calls, told>>
    BY <1>4, Names DEF DeadlineExceeded, Placed, page, ledger
  <2> QED
    BY <2>1, OtherSent, ServerFrame
<1>5. ASSUME NEW t \in Tabs, ReleaseStaleLease(r, t) PROVE One(p)'
  <2>1. /\ StaleOf(r) \in Commands /\ StaleOf(r) # PassiveOf(p)
        /\ Dispatch(StaleOf(r), t) /\ UNCHANGED <<up, written, record, calls, told>>
    BY <1>5, Names DEF ReleaseStaleLease, page, ledger
  <2> QED
    BY <2>1, OtherSent, ServerFrame
<1> QED
  BY <1>1, <1>2, <1>3, <1>4, <1>5 DEF Finish, CancelSettled

LEMMA PassiveCommands ==
  ASSUME TypeOK, AwaitsOK, NEW p \in Passives, One(p), NEW c \in Commands,
         BarrierOver(c) \/ BarrierLimit(c) \/ Timeout(c) \/ WithdrawalOver(c)
  PROVE  One(p)'
<1>0. UNCHANGED <<up, written, record, calls, told>>
  BY DEF BarrierOver, BarrierLimit, Timeout, WithdrawalOver, links, page, ledger
<1>1. CASE BarrierOver(c) /\ c # PassiveOf(p)
  <2>1. where[c] \in Tabs \cup {None} /\ Dispatch(c, where[c])
    BY <1>1 DEF BarrierOver, TypeOK
  <2> QED
    BY <1>0, <1>1, <2>1, OtherSent, ServerFrame
<1>2. CASE BarrierOver(c) /\ c = PassiveOf(p)
  <2>1. where[c] \in Tabs \cup {None} /\ Dispatch(c, where[c]) /\ stage[c] = "waiting"
    BY <1>2 DEF BarrierOver, TypeOK, AwaitsOK
  <2>2. /\ record[p] # "UNKNOWN"
        /\ \A n \in 1 .. MaxCalls : calls[<<p, n>>] # "created"
        /\ \A m, n \in 1 .. MaxCalls : calls[<<p, m>>] = "sent" /\ calls[<<p, n>>] = "sent" => m = n
    BY <1>2, <2>1 DEF One, OneCall
  <2> QED
    BY <1>0, <1>2, <2>1, <2>2, PassiveDispatch
<1>3. CASE stage[c] \notin {"none", "settled"} /\ Remove(c, "failed") /\ UNCHANGED down
  BY <1>0, <1>3, CommandOver, DownLost, ServerFrame
<1>4. CASE stage[c] = "open" /\ stage' = [stage EXCEPT ![c] = "withdrawing"] /\ UNCHANGED <<result, down>>
  <2>1. \/ stage'[PassiveOf(p)] = stage[PassiveOf(p)]
        \/ stage[PassiveOf(p)] = "open" /\ stage'[PassiveOf(p)] = "withdrawing"
    BY <1>4, Names DEF TypeOK
  <2> QED
    BY <1>0, <1>4, <2>1, DownLost, ServerFrame
<1> QED
  BY <1>1, <1>2, <1>3, <1>4 DEF BarrierLimit, Timeout, WithdrawalOver, links

LEMMA PassiveMessages ==
  ASSUME TypeOK, NEW p \in Passives, One(p), NEW t \in Tabs,
         Tab(t) \/ Report(t) \/ HandleResponse(t) \/ Observe(t)
  PROVE  One(p)'
<1>1. ASSUME NEW r \in Requests, TabPrompt(t, r) PROVE One(p)'
  BY <1>1, DownTail, ServerFrame DEF TabPrompt, server, ledger
<1>2. ASSUME NEW c \in Commands, TabRelease(t, c) PROVE One(p)'
  <2>1. /\ c # PassiveOf(p) /\ Take(t)
        /\ UNCHANGED <<stage, result, written, record, calls, told>>
        /\ \E kind \in {"released", "quarantined", "rejected"} : Reply(t, kind, c)
    BY <1>2, Names DEF TabRelease, server, ledger
  <2>2. UpSame(p)
    BY <2>1, UpAppend DEF Answers
  <2> QED
    BY <2>1, <2>2, DownTail, PassiveFrame
<1>3. ASSUME NEW c \in Commands, TabCommand(t, c) PROVE One(p)'
  <2>1. CASE c = PassiveOf(p)
    BY <1>3, <2>1, PassiveWritten
  <2>2. CASE c # PassiveOf(p)
    <3>1. /\ Take(t) /\ UNCHANGED <<stage, result, record, calls, told>>
          /\ \E kind \in {"done", "refused", "error"} : Reply(t, kind, c)
      BY <1>3 DEF TabCommand, server, ledger
    <3>2. UpSame(p)
      BY <2>2, <3>1, UpAppend DEF Answers
    <3>3. written'[p] = written[p]
      BY <1>3, <2>2, Names DEF TabCommand, TypeOK
    <3> QED
      BY <3>1, <3>2, <3>3, DownTail, PassiveFrame
  <2> QED
    BY <2>1, <2>2
<1>4. CASE Report(t)
  <2>1. /\ Reply(t, "report", lease[t]) /\ <<"report", lease[t]>> \in Answers
        /\ UNCHANGED <<stage, result, down, written, record, calls, told>>
    BY <1>4 DEF Report, TypeOK, Answers, server, page, ledger
  <2> QED
    BY <2>1, UpAppend, DownLost, PassiveFrame
<1>5. CASE HandleResponse(t)
  BY <1>5, PassiveAnswered
<1>6. CASE Observe(t)
  <2>1. Receive(t) /\ UNCHANGED <<stage, result, down, written, record, calls, told>>
    BY <1>6 DEF Observe, server, page, ledger
  <2> QED
    BY <2>1, UpTail, DownLost, PassiveFrame
<1> QED
  BY <1>1, <1>2, <1>3, <1>4, <1>5, <1>6 DEF Tab

LEMMA PassiveCalls ==
  ASSUME TypeOK, NEW p \in Passives, One(p), NEW k \in Callers,
         Reservation(k) \/ SubmitPassive(k) \/ Record(k)
  PROVE  One(p)'
<1> DEFINE q == k[1]
<1>0. /\ q \in Passives /\ k[2] \in 1 .. MaxCalls /\ k = <<q, k[2]>>
      /\ \A n \in 1 .. MaxCalls : <<p, n>> \in Callers
      /\ \A n \in 1 .. MaxCalls : k = <<p, n>> => p = q /\ n = k[2]
      /\ \A n \in 1 .. MaxCalls : p # q => <<p, n>> # k
  BY DEF Callers
<1>1. /\ calls \in [Callers -> {"idle", "created", "sent", "done"}]
      /\ told \in [Callers -> {"none", "proof", "rejected", "unsure"}]
      /\ record \in [Passives -> {"UNKNOWN", "INFLIGHT", "SUBMITTED", "REJECTED"}]
  BY DEF TypeOK
<1> HIDE DEF q
<1>2. CASE Reservation(k) \/ Record(k)
  <2>1. UNCHANGED <<stage, result, down, up, written>>
    BY <1>2 DEF Reservation, Record, server, links, page
  <2>2. DownSame(p) /\ UpSame(p)
    BY <2>1, DownLost DEF UpSame
  <2>3. CASE q # p
    <3>1. /\ record'[p] = record[p]
          /\ \A n \in 1 .. MaxCalls : calls'[<<p, n>>] = calls[<<p, n>>] /\ told'[<<p, n>>] = told[<<p, n>>]
      BY <1>0, <1>1, <1>2, <2>3 DEF Reservation, Record, Tell, q
    <3> QED
      BY <2>1, <2>2, <3>1, PassiveFrame
  <2>4. CASE q = p
    <3>1. WrittenOnce(p)' /\ (Untouched(p) => Untouched(p)')
      BY <2>1 DEF One, WrittenOnce, Sent, Answered, Untouched
    <3>2. CASE Reservation(k) /\ record[p] = "UNKNOWN"
      <4>1. /\ record'[p] = "INFLIGHT" /\ calls' = [calls EXCEPT ![k] = "created"] /\ told' = told
        BY <1>0, <1>1, <2>4, <3>2 DEF Reservation, q
      <4>2. OneCall(p)'
        BY <1>0, <1>1, <2>1, <2>4, <3>2, <4>1 DEF One, OneCall
      <4>3. RecordOK(p)'
        BY <2>1, <3>1, <3>2, <4>1 DEF One, RecordOK
      <4> QED
        BY <3>1, <4>2, <4>3 DEF One
    <3>3. CASE Reservation(k) /\ record[p] # "UNKNOWN"
      <4>1. /\ record' = record /\ calls' = [calls EXCEPT ![k] = "done"]
            /\ \E what \in {"proof", "rejected", "unsure"} :
                  /\ told' = [told EXCEPT ![k] = what]
                  /\ what = "proof" => record[p] = "SUBMITTED"
                  /\ what = "rejected" => record[p] = "REJECTED"
        BY <1>0, <2>4, <3>3 DEF Reservation, Tell, q
      <4>2. OneCall(p)'
        BY <1>0, <1>1, <2>1, <2>4, <3>3, <4>1 DEF One, OneCall
      <4>3. \A n \in 1 .. MaxCalls : /\ told'[<<p, n>>] = "rejected" => record'[p] = "REJECTED"
                                     /\ told'[<<p, n>>] = "proof" => record'[p] = "SUBMITTED"
        BY <1>0, <1>1, <4>1 DEF One, RecordOK
      <4>4. RecordOK(p)'
        BY <2>1, <3>1, <4>1, <4>3 DEF One, RecordOK
      <4> QED
        BY <3>1, <4>2, <4>4 DEF One
    <3>4. CASE Record(k)
      <4>1. /\ stage[PassiveOf(p)] = "settled" /\ record[p] = "INFLIGHT"
            /\ calls' = [calls EXCEPT ![k] = "done"]
            /\ \A r \in Passives \ {p} : record'[r] = record[r]
            /\ record'[p] = Verdict(result[p])
            /\ \E what \in {"proof", "rejected", "unsure"} :
                  /\ told' = [told EXCEPT ![k] = what]
                  /\ what = "proof" => record'[p] = "SUBMITTED"
                  /\ what = "rejected" => record'[p] = "REJECTED"
        BY <1>0, <1>1, <2>4, <3>4 DEF Record, Tell, q, Verdict
      <4>2. /\ record'[p] = "SUBMITTED" => result[p] = "ok"
            /\ record'[p] = "REJECTED" => result[p] = "refused"
            /\ record'[p] # "UNKNOWN"
        BY <4>1 DEF Verdict
      <4>3. OneCall(p)'
        BY <1>0, <1>1, <2>1, <2>4, <4>1, <4>2 DEF One, OneCall
      <4>4. \A n \in 1 .. MaxCalls : /\ told'[<<p, n>>] = "rejected" => record'[p] = "REJECTED"
                                     /\ told'[<<p, n>>] = "proof" => record'[p] = "SUBMITTED"
        BY <1>0, <1>1, <4>1 DEF One, RecordOK
      <4>5. RecordOK(p)'
        BY <2>1, <3>1, <4>1, <4>2, <4>4 DEF One, RecordOK
      <4> QED
        BY <3>1, <4>3, <4>5 DEF One
    <3> QED
      BY <1>2, <3>2, <3>3, <3>4
  <2> QED
    BY <2>3, <2>4
<1>3. CASE SubmitPassive(k)
  <2>1. /\ UNCHANGED <<up, written, record, told>> /\ calls[k] = "created"
        /\ calls' = [calls EXCEPT ![k] = "sent"]
        /\ \E t \in Tabs : Send(PassiveOf(q), t)
    BY <1>0, <1>3, Names DEF SubmitPassive, Candidates, CommandAssumption, page, q
  <2>2. PICK t \in Tabs : Send(PassiveOf(q), t)
    BY <2>1
  <2>3. CASE q # p
    <3>1. /\ \A n \in 1 .. MaxCalls : calls'[<<p, n>>] = calls[<<p, n>>] /\ told'[<<p, n>>] = told[<<p, n>>]
          /\ PassiveOf(q) \in Commands /\ PassiveOf(q) # PassiveOf(p) /\ UpSame(p)
      BY <1>0, <1>1, <2>1, <2>3, Names DEF UpSame
    <3> QED
      BY <2>1, <2>2, <3>1, OtherSent, PassiveFrame
  <2>4. CASE q = p
    <3>1. /\ stage[PassiveOf(p)] = "none" /\ record[p] # "UNKNOWN"
          /\ \A n \in 1 .. MaxCalls : <<p, n>> # k => calls[<<p, n>>] \notin {"created", "sent"}
      BY <1>0, <2>1, <2>4 DEF One, OneCall
    <3>2. /\ \A n \in 1 .. MaxCalls : calls'[<<p, n>>] # "created"
          /\ \A m, n \in 1 .. MaxCalls : calls'[<<p, m>>] = "sent" /\ calls'[<<p, n>>] = "sent" => m = n
      BY <1>0, <1>1, <2>1, <3>1
    <3>3. CASE barrier[t] = None
      <4>1. Dispatch(PassiveOf(p), t)
        BY <2>2, <2>4, <3>3 DEF Send
      <4> QED
        BY <2>1, <3>1, <3>2, <4>1, PassiveDispatch
    <3>4. CASE barrier[t] # None
      <4>1. /\ stage'[PassiveOf(p)] = "waiting" /\ UNCHANGED <<result, down>>
        BY <2>2, <2>4, <3>4, Names DEF Send, TypeOK
      <4>2. OneCall(p)'
        BY <2>1, <3>1, <3>2, <4>1 DEF OneCall
      <4>3. WrittenOnce(p)'
        BY <2>1, <3>1, <4>1 DEF One, WrittenOnce, Sent, Answered, Untouched
      <4>4. RecordOK(p)'
        BY <2>1, <3>1, <4>1 DEF One, RecordOK
      <4> QED
        BY <4>2, <4>3, <4>4 DEF One
    <3> QED
      BY <3>3, <3>4
  <2> QED
    BY <2>3, <2>4
<1> QED
  BY <1>2, <1>3

LEMMA PassiveFaults ==
  ASSUME TypeOK, NEW p \in Passives, One(p), Restart \/ \E t \in Tabs : SocketLost(t) \/ Hello(t)
  PROVE  One(p)'
<1>1. ASSUME NEW t \in Tabs, SocketLost(t) PROVE One(p)'
  <2>1. \A u \in Tabs : down'[u] = <<>> \/ down'[u] = down[u]
    BY <1>1 DEF SocketLost, TypeOK
  <2>2. UNCHANGED <<stage, result, up, written, record, calls, told>>
    BY <1>1 DEF SocketLost, server, page, ledger
  <2> QED
    BY <2>1, <2>2, DownLost, ServerFrame
<1>2. ASSUME NEW t \in Tabs, Hello(t) PROVE One(p)'
  BY <1>2, DownLost, ServerFrame DEF Hello, server, links, page, ledger
<1>3. CASE Restart
  <2>0. PassiveOf(p) \in Commands /\ \A n \in 1 .. MaxCalls : <<p, n>> \in Callers
    BY Names DEF Callers
  <2>1. /\ UNCHANGED <<up, written, record, told>>
        /\ \A t \in Tabs : down'[t] = <<>>
        /\ \A n \in 1 .. MaxCalls : calls'[<<p, n>>] = IF calls[<<p, n>>] = "idle" THEN "idle" ELSE "done"
    BY <1>3, <2>0 DEF Restart, page
  <2>2. /\ stage'[PassiveOf(p)] = IF stage[PassiveOf(p)] = "none" THEN "none" ELSE "settled"
        /\ result'[p] \in {result[p], "failed"}
    BY <1>3, <2>0 DEF Restart
  <2>3. /\ ~Sent(p)' /\ (Untouched(p) => Untouched(p)')
        /\ \A kind \in {"refused", "done"} : Answered(p, kind)' <=> Answered(p, kind)
        /\ \A t \in Tabs : Once(down'[t], Order(p)) /\ ~Has(down'[t], Order(p))
    BY <2>1, NothingInEmpty DEF Sent, Untouched, Answered
  <2>4. OneCall(p)'
    BY <2>1, <2>2 DEF One, OneCall
  <2>5. WrittenOnce(p)'
    BY <2>1, <2>2, <2>3 DEF One, WrittenOnce
  <2>6. RecordOK(p)'
    BY <2>1, <2>2, <2>3 DEF One, RecordOK
  <2> QED
    BY <2>4, <2>5, <2>6 DEF One
<1> QED
  BY <1>1, <1>2, <1>3

LEMMA PassiveKept ==
  ASSUME TypeOK, Placed, AwaitsOK, PassiveOK, Next
  PROVE  PassiveOK'
<1> SUFFICES ASSUME NEW p \in Passives PROVE One(p)'
  BY DEF PassiveOK, One
<1>1. One(p)
  BY DEF PassiveOK, One
<1> QED
  BY <1>1, PassiveRequests, PassiveCommands, PassiveMessages, PassiveCalls, PassiveFaults DEF Next, Jobs

-----------------------------------------------------------------------------
(* The inductive invariant                                                  *)

LEMMA InitInv == Init => IInv
<1> SUFFICES ASSUME Init PROVE IInv
  OBVIOUS
<1>1. TypeOK
  BY Names, EmptySeq DEF Init, TypeOK, CommandAssumption
<1>2. Placed /\ OneRequestPerTab /\ BarrierHasRelease /\ ReleasedAtEnd /\ AwaitsOK
  BY Names DEF Init, Placed, OneRequestPerTab, BarrierHasRelease, ReleasedAtEnd, AwaitsOK, Registered
<1>3. ASSUME NEW p \in Passives PROVE OneCall(p) /\ WrittenOnce(p) /\ RecordOK(p)
  <2>1. /\ \A t \in Tabs : ~Has(down[t], Order(p)) /\ Once(down[t], Order(p))
        /\ ~Answered(p, "refused") /\ ~Answered(p, "done")
        /\ written[p] = 0
    BY NothingInEmpty DEF Init, Answered
  <2>2. /\ \A n \in 1 .. MaxCalls : calls[<<p, n>>] = "idle" /\ told[<<p, n>>] = "none"
        /\ stage[PassiveOf(p)] = "none" /\ record[p] = "UNKNOWN" /\ result[p] = "none"
    BY Names DEF Init, Callers
  <2> QED
    BY <2>1, <2>2 DEF OneCall, WrittenOnce, RecordOK, Sent, Untouched
<1> QED
  BY <1>1, <1>2, <1>3 DEF IInv, PassiveOK

LEMMA NextKeeps == IInv /\ [Next]_vars => IInv'
<1>1. ASSUME IInv, Next PROVE IInv'
  BY <1>1, TypeKept, TabsKept, PassiveKept DEF IInv, TabsOK
<1>2. ASSUME IInv, UNCHANGED vars PROVE IInv'
  <2>1. TypeOK'
    BY <1>2 DEF vars, server, known, links, page, ledger, IInv, TypeOK
  <2>2. TabsOK'
    BY <1>2, IdleKeeps DEF vars, server, known, IInv, TabsOK
  <2>3. ASSUME NEW p \in Passives PROVE One(p)'
    BY <1>2, DownLost, ServerFrame DEF vars, server, links, page, ledger, IInv, PassiveOK, One
  <2> QED
    BY <2>1, <2>2, <2>3 DEF IInv, TabsOK, PassiveOK, One
<1> QED
  BY <1>1, <1>2

(* Every state of the registry, of the ledger and of the links satisfies    *)
(* the inductive invariant.                                                 *)
THEOREM Inductive == Spec => []IInv
BY InitInv, NextKeeps, PTL DEF Spec

(* The variables keep their types, for any number of tabs and requests.     *)
THEOREM TypeCorrect == Spec => []TypeOK
<1>1. IInv => TypeOK
  BY DEF IInv
<1> QED
  BY <1>1, Inductive, PTL

(* A tab is reserved for one request at a time, and a reserved tab is       *)
(* neither releasing nor quarantined (browserClientCoordinator.js:54-71).   *)
THEOREM OneRequest == Spec => []OneRequestPerTab
<1>1. IInv => OneRequestPerTab
  BY DEF IInv
<1> QED
  BY <1>1, Inductive, PTL

(* Every barrier belongs to a release that was sent to that tab and has not *)
(* settled (bridgeCommandRegistry.js:393-407).                              *)
THEOREM BarrierReleased == Spec => []BarrierHasRelease
<1>1. IInv => BarrierHasRelease
  BY DEF IInv
<1> QED
  BY <1>1, Inductive, PTL

(* A passive prompt is written in the page at most once, and what its       *)
(* callers were told of it is true (passivePromptLedger.js:157-200).        *)
THEOREM WrittenAtMostOnce == Spec => []SubmittedOnce
<1>1. IInv => SubmittedOnce
  BY DEF IInv, PassiveOK, WrittenOnce, RecordOK, Untouched, SubmittedOnce, CanRetry
<1> QED
  BY <1>1, Inductive, PTL
=============================================================================
