------------------------- MODULE SendOnceProbeProofs -------------------------
(***************************************************************************)
(* TLAPS proofs about SendOnceProbe, for any number of failing kernel      *)
(* calls and killed processes, and however parent and child interleave.    *)
(***************************************************************************)
EXTENDS SendOnceProbe, SequenceTheorems, TLAPS

-----------------------------------------------------------------------------
(* The inductive invariant.                                                *)

\* Before the child has sent the descriptor, and while it still waits for messages.
Early == {"none", "begin", "make", "before", "send"}
Listening == Early \cup {"after", "first"}
Waiting == Listening \cup {"second"}

\* Before the parent has used the delivered right.
Before == {"setup", "fork", "restore", "receive", "look", "first"}

\* The parent's copy of the status is cleared, or is what the child wrote last.
StatusInv ==
  /\ pipe.full => cp \in {"exit", "exited", "reaped"}
  /\ ~par.statusRead => child = ClearedStatus
  /\ par.statusRead => pipe.full /\ child = st

\* Where the child is at each control point of the parent, and the descriptor.
ReapInv ==
  /\ pp \in {"setup", "fork"} => cp = "none" /\ ~par.forked
  /\ pp \in {"receive", "look", "first", "again", "second", "read", "wait"} => par.forked
  /\ pp \in {"restore", "receive", "look", "first", "again", "second", "read", "wait"} =>
       IF par.forked THEN cp \notin {"none", "reaped"} ELSE cp = "none"
  /\ pp \in {"cleanup", "judge", "done"} => cp = IF par.forked THEN "reaped" ELSE "none"
  /\ cp = "none" => ~par.forked
  /\ sent \/ pp \in {"look", "first", "again", "second"} => cp \notin Early

\* What the child holds at each of its control points.
RightInv ==
  /\ cp \in {"none", "begin", "make", "exited", "reaped"} => ~cargo /\ once = Nothing
  /\ cp \in {"before", "send", "after", "first", "second", "verified"} => cargo
  /\ cp \in {"before", "send"} =>
       once = Hold(IF fault = "made_send" THEN "send" ELSE "once", 1)
  /\ cp = "after" => once = IF fault = "kept" THEN Hold("once", 1) ELSE Spent

\* What the child saw tells these deviations apart from a conforming kernel.
SeenInv ==
  /\ st.ctype = "receive" => fault # "fresh_send"
  /\ st.before.kind = "once" => fault # "made_send"
  /\ fault = "kept" => ~ZeroOrAbsent(st.after)

\* The right as it is delivered.
Fresh == Hold("once", IF fault = "two_refs" THEN 2 ELSE 1)

\* What the parent holds and saw under the delivered name.
DelivInv ==
  /\ par.named => fault # "null"
  /\ pp \in {"setup", "fork", "restore", "receive", "look"} => par.look = NoLook
  /\ pp \in Before => par.first = "err"
  /\ pp = "look" /\ deliv.kind = "once" => fault # "as_send" /\ deliv = Fresh
  /\ par.look.kind = "once" => fault # "as_send"
  /\ pp = "first" => deliv = Fresh
  /\ pp \in {"again", "second"} /\ par.first = "ok" => deliv = Used(Fresh)

\* With the cargo port still there, a right that survived its use was seen.
LateInv ==
  /\ pp \in Before \cup {"again", "second"} => ~par.prompt
  /\ /\ fault \in {"two_refs", "reusable"} /\ par.first = "ok"
     /\ par.prompt \/ (pp = "second" /\ cargo)
     => ~ZeroOrAbsent(par.again)
  /\ fault = "phantom" /\ par.prompt /\ par.answered => par.second = "ok"

\* The messages at the cargo port while the child waits for them and the parent lives.
InboxInv ==
  pp # "killed" =>
    /\ pp \in Before /\ cp \in Waiting => inbox = <<>>
    /\ cp \in Waiting => st.second = "err"
    /\ fault = "deaf" => (cp \in Waiting => inbox = <<>>) /\ st.first # "ok"
    /\ fault = "notifies" => /\ cp \in Listening => inbox = <<>> \/ Head(inbox) # "first"
                             /\ st.id # "first"
    /\ fault = "echo" => /\ cp \in Listening => inbox = <<>> \/ Len(inbox) >= 2
                         /\ cp = "second" /\ st.first = "ok" => inbox # <<>>
                         /\ st.second = "timeout" => st.first # "ok"

\* The service port, the bootstrap port and the parent's final comparison.
CleanInv ==
  /\ pp = "setup" => par.setup = "none"
  /\ par.setup = "ok" /\ pp \in Before \cup {"again", "second", "read", "wait", "cleanup"} => svc
  /\ par.setup = "ok" /\ pp \in {"judge", "done"} /\ fault = "name_stays" => svc
  /\ par.cleanup /\ names = "ok" /\ pp \in {"judge", "done"} => deliv = Nothing /\ ~svc
  /\ par.restored = "ok" => boot = "original"
  /\ pp \in {"setup", "fork", "restore"} => par.restored = "err"

\* The exit code of the child means what it says.
ExitInv ==
  /\ cp \in Waiting \cup {"verified", "clean"} => st.exit = 1 /\ ~st.cleanup
  /\ st.exit = 0 <=> AllCallsOk(st)

\* A verdict is the one the chain of tests gives, and it is the last step.
VerdictInv ==
  verdict # NoVerdict => pp = "done" /\ verdict = Verdict(par, child)

\* No call has failed, the kernel does what the probe looks at, and the parent lives.
Quiet == fails = MaxFails /\ fault \in {"none", "dead_stays"} /\ pp # "killed"

\* In a quiet run the parent sees one right, uses it up, and cleans up.
QuietParentInv ==
  Quiet =>
    /\ pp # "setup" => par.base = names /\ par.setup = "ok"
    /\ deliv.refs <= 1
    /\ pp = "first" \/ par.first = "ok" =>
         par.look.tkr = "ok" /\ par.look.kind = "once" /\ OneRef(par.look)
    /\ pp \in {"again", "second"} /\ par.first # "ok" => ~cargo
    /\ par.first = "ok" /\ pp # "again" => Consumed(par.again)
    /\ par.second # "ok"
    /\ pp \in {"judge", "done"} => par.cleanup

\* One message comes, the first one, and only if the parent's send said so.
QuietInboxInv ==
  Quiet =>
    /\ cp \in Waiting => inbox \in {<<>>, <<"first">>}
    /\ cp \in Waiting /\ inbox # <<>> => par.first = "ok"
    /\ st.first = "ok" => par.first = "ok" /\ st.id = "first"
    /\ st.first = "ok" /\ cp = "second" => inbox = <<>>
    /\ st.first = "ok" => st.second # "ok"

\* The child has come past the points before these, as far as it can still matter.
Past(points) == cp \in points \/ pipe.full

\* In a quiet run the child skips no call.
QuietChildInv ==
  Quiet =>
    /\ Past(ChildPoints \ {"begin"}) => st.base = names /\ st.boot = "ok"
    /\ Past(ChildPoints \ {"begin", "make"}) =>
         /\ cp \notin {"exit", "write", "exited", "reaped"} => cargo
         /\ st.alloc = "ok" /\ st.ckr = "ok" /\ st.ctype = "receive" /\ st.extract = "ok"
    /\ Past(ChildPoints \ {"begin", "make", "before"}) =>
         st.before.tkr = "ok" /\ st.before.kind = "once" /\ OneRef(st.before)
    /\ Past(ChildPoints \ Early) => st.send = "ok"
    /\ Past(ChildPoints \ (Early \cup {"after"})) => Consumed(st.after)
    /\ Past(ChildPoints \ Listening) => st.first \in {"ok", "timeout"}
    /\ Past(ChildPoints \ Waiting) => st.second \in {"ok", "timeout"}
    /\ Past({"clean", "write", "exit"}) => st.verified = "ok"
    /\ Past({"write", "exit"}) => st.destroy = "ok" /\ st.baseAfter = names /\ st.cleanup

\* The inductive invariant.
IInv ==
  /\ TypeOK /\ StatusInv /\ ReapInv /\ RightInv /\ SeenInv /\ DelivInv /\ LateInv
  /\ InboxInv /\ CleanInv /\ ExitInv /\ VerdictInv
  /\ QuietParentInv /\ QuietInboxInv /\ QuietChildInv

-----------------------------------------------------------------------------
(* Type correctness.                                                       *)

USE BoundsAssumption

\* A kernel call that may fail returns success or an error.
LEMMA OutcomesType == Outcomes \subseteq {"ok", "err"} /\ Outcomes \subseteq KR /\ Outcomes \subseteq MR
  BY DEF Outcomes, KR, MR

\* The cost of a return code is zero or one, and a call without cost succeeded.
LEMMA CostType ==
  /\ \A kr : Cost(kr) \in {0, 1}
  /\ \A kr \in Outcomes : Cost(kr) = 0 => kr = "ok"
  BY DEF Cost, Outcomes

\* So is the cost of a look.
LEMMA LookCostType == \A t, r, h : LookCost(t, r, h) \in 0..2
  BY CostType DEF LookCost

\* What is spent stays within the budget.
LEMMA SpendType ==
  ASSUME TypeOK, NEW c \in Nat, Spend(c)
  PROVE  fails' \in 0..MaxFails
  BY DEF TypeOK, Spend

\* A captured baseline is valid, the gap, or failed.
LEMMA CaptureType == ASSUME TypeOK PROVE \A kr : Capture(kr) \in Baseline
  BY DEF TypeOK, Capture, Baseline

\* A pair of a kind and a count is a right.
LEMMA HoldType ==
  ASSUME NEW k \in Kinds, NEW n \in Nat
  PROVE  Hold(k, n) \in Right /\ Hold(k, n).kind = k /\ Hold(k, n).refs = n
  BY DEF Hold, Right

\* Nothing, and what is left of a spent right, are rights.
LEMMA SpentType == Nothing \in Right /\ Spent \in Right
  BY HoldType DEF Nothing, Spent, Kinds

\* What one sees of a right, or leaves of it by a use, is a right.
LEMMA UsedType == ASSUME NEW h \in Right PROVE Seen(h) \in Right /\ Used(h) \in Right
<1>1. h.kind \in Kinds /\ h.refs \in Nat
  BY DEF Right
<1>2. Seen(h) \in Right
  BY <1>1, HoldType DEF Seen, Kinds
<1>3. h.refs > 1 => Hold(h.kind, h.refs - 1) \in Right
  BY <1>1, HoldType
<1>4. Used(h) \in Right
  BY <1>3, SpentType DEF Used
<1> QED
  BY <1>2, <1>4

\* A look at a right is a well-formed observation.
LEMMA LookType ==
  ASSUME NEW t \in Outcomes, NEW r \in Outcomes, NEW h \in Right
  PROVE  LookAt(t, r, h) \in Look
<1>1. Answer(t, h) \in KR /\ Answer(r, h) \in KR
  BY OutcomesType DEF Answer, KR
<1>2. (IF t = "ok" THEN h.kind ELSE "none") \in Kinds
  BY DEF Right, Kinds
<1>3. (IF r = "ok" /\ h.kind = "once" THEN h.refs ELSE 0) \in Nat
  BY DEF Right
<1> QED
  BY <1>1, <1>2, <1>3 DEF LookAt, Look

\* What is posted is a sequence of messages, and so is what it is appended to.
LEMMA PostedType ==
  ASSUME NEW m \in Messages
  PROVE  Posted(m) \in Seq(Messages)
<1>1. "notify" \in Messages
  BY DEF Messages
<1>2. <<>> \in Seq(Messages) /\ <<m>> \in Seq(Messages)
  OBVIOUS
<1>3. <<m, m>> \in Seq(Messages)
  OBVIOUS
<1>4. <<"notify", m>> \in Seq(Messages)
  BY <1>1
<1> QED
  BY <1>2, <1>3, <1>4, Zenon DEF Posted

\* So is the notification of an unused right.
LEMMA NoticeType == \A u : Notice(u) \in Seq(Messages)
<1>1. "notify" \in Messages
  BY DEF Messages
<1>2. <<>> \in Seq(Messages) /\ <<"notify">> \in Seq(Messages)
  BY <1>1
<1> QED
  BY <1>2, Zenon DEF Notice

\* The parent's steps keep every variable in its type.
LEMMA ParentTypeStep == TypeOK /\ ParentStep => TypeOK'
<1> SUFFICES ASSUME TypeOK, ParentStep PROVE TypeOK'
  OBVIOUS
<1>0. /\ \A kr : Cost(kr) \in {0, 1}
      /\ \A t, r, h : LookCost(t, r, h) \in 0..2
  BY CostType, LookCostType
<1>1. CASE Setup
  <2>1. PICK b, p \in Outcomes, s \in {"get", "alloc", "insert", "set", "ok"} :
          Setup!2!(b, p, s)
    BY <1>1 DEF Setup
  <2>2. fails' \in 0..MaxFails
    BY <2>1, <1>0 DEF TypeOK, Spend
  <2>3. par' \in Parent
    BY <2>1, CaptureType DEF TypeOK, Parent
  <2>4. pipe' \in [full: BOOLEAN, writers: SUBSET {"parent", "child"}]
    BY <2>1 DEF TypeOK
  <2>5. svc' \in BOOLEAN /\ boot' \in {"original", "service"}
    BY <2>1 DEF TypeOK
  <2> QED
    BY <1>1, <2>2, <2>3, <2>4, <2>5 DEF TypeOK, Setup, ParentUnchanged
<1>2. CASE Fork
  <2>1. CASE par.setup = "ok" /\ par.pipe
    <3>1. PICK kr \in Outcomes :
            /\ Spend(Cost(kr))
            /\ cp' = IF kr = "ok" THEN "begin" ELSE cp
            /\ par' = [par EXCEPT !.forked = (kr = "ok")]
            /\ pipe' = [pipe EXCEPT !.writers = IF kr = "ok" THEN {"child"} ELSE {}]
      BY <1>2, <2>1 DEF Fork
    <3>2. fails' \in 0..MaxFails
      BY <3>1, <1>0 DEF TypeOK, Spend
    <3>3. par' \in Parent
      BY <3>1 DEF TypeOK, Parent
    <3>4. pipe' \in [full: BOOLEAN, writers: SUBSET {"parent", "child"}]
      BY <3>1 DEF TypeOK
    <3>5. cp' \in ChildPoints \cup {"none", "exited", "reaped"}
      BY <3>1 DEF TypeOK, ChildPoints
    <3> QED
      BY <1>2, <3>2, <3>3, <3>4, <3>5 DEF TypeOK, Fork, ParentUnchanged
  <2>2. CASE ~(par.setup = "ok" /\ par.pipe)
    BY <1>2, <2>2 DEF TypeOK, Fork, ParentUnchanged
  <2> QED
    BY <2>1, <2>2
<1>3. CASE Restore
  <2>1. CASE par.setup = "ok"
    <3>1. PICK kr \in Outcomes :
            /\ Spend(Cost(kr))
            /\ par' = [par EXCEPT !.restored = kr]
            /\ boot' = IF kr = "ok" THEN "original" ELSE boot
      BY <1>3, <2>1 DEF Restore
    <3>2. fails' \in 0..MaxFails
      BY <3>1, <1>0 DEF TypeOK, Spend
    <3>3. par' \in Parent
      BY <3>1, OutcomesType DEF TypeOK, Parent
    <3> QED
      BY <1>3, <3>1, <3>2, <3>3 DEF TypeOK, Restore, ParentUnchanged
  <2>2. CASE par.setup # "ok"
    BY <1>3, <2>2 DEF TypeOK, Restore, ParentUnchanged
  <2> QED
    BY <2>1, <2>2
<1>4. CASE ReceiveDescriptor
  <2>1. par' \in Parent
    BY <1>4 DEF TypeOK, ReceiveDescriptor, Parent, MR
  <2>2. Delivered \in Right
    BY HoldType, SpentType DEF Delivered, Kinds
  <2>3. sent' \in BOOLEAN
    BY <1>4, Zenon DEF ReceiveDescriptor
  <2>4. pp' = "look" /\ deliv' = Delivered
        /\ UNCHANGED <<fault, names, fails, deaths, cp, st, child, pipe, boot, svc, inbox,
                       cargo, once, verdict>>
    BY <1>4 DEF ReceiveDescriptor, ParentUnchanged
  <2> QED
    BY <2>1, <2>2, <2>3, <2>4 DEF TypeOK
<1>5. CASE ReceiveFails
  <2>1. par' \in Parent
    BY <1>5 DEF TypeOK, ReceiveFails, Parent, MR
  <2>2. fails' \in 0..MaxFails
    BY <1>5, <1>0 DEF TypeOK, ReceiveFails, Spend
  <2> QED
    BY <1>5, <2>1, <2>2 DEF TypeOK, ReceiveFails, ParentUnchanged
<1>6. CASE LookDelivered \/ LookAfterFirst
  <2>1. PICK t, r \in Outcomes :
          /\ Spend(LookCost(t, r, Seen(deliv)))
          /\ \/ par' = [par EXCEPT !.look = LookAt(t, r, Seen(deliv))]
             \/ par' = [par EXCEPT !.again = LookAt(t, r, Seen(deliv))]
    BY <1>6 DEF LookDelivered, LookAfterFirst
  <2>2. fails' \in 0..MaxFails
    BY <2>1, <1>0 DEF TypeOK, Spend
  <2>3. LookAt(t, r, Seen(deliv)) \in Look
    BY LookType, UsedType DEF TypeOK
  <2>4. par' \in Parent
    BY <2>1, <2>3 DEF TypeOK, Parent
  <2> QED
    BY <1>6, <2>2, <2>4 DEF TypeOK, LookDelivered, LookAfterFirst, ParentUnchanged
<1>7. CASE VerifyFirst
  <2>1. PICK kr \in Outcomes : VerifyFirst!2!(kr)
    BY <1>7 DEF VerifyFirst
  <2>2. fails' \in 0..MaxFails
    BY <2>1, <1>0 DEF TypeOK, Spend
  <2>3. par' \in Parent
    BY <2>1 DEF TypeOK, Parent, MR
  <2>4. inbox' \in Seq(Messages)
    <3>1. Posted("first") \in Seq(Messages)
      BY PostedType DEF Messages
    <3>2. inbox \in Seq(Messages) /\ inbox \o Posted("first") \in Seq(Messages)
      BY <3>1, ConcatProperties DEF TypeOK
    <3> QED
      BY <2>1, <3>2
  <2>5. deliv' \in Right
    BY <2>1, UsedType DEF TypeOK
  <2> QED
    BY <1>7, <2>2, <2>3, <2>4, <2>5 DEF TypeOK, VerifyFirst, ParentUnchanged
<1>8. CASE VerifySecond
  <2>0. PICK kr \in Outcomes : VerifySecond!2!(kr)
    BY <1>8 DEF VerifySecond
  <2>1. par' \in Parent
    <3>1. PICK q \in MR, c \in BOOLEAN, a \in BOOLEAN :
            par' = [par EXCEPT !.second = q, !.prompt = c, !.answered = a]
      <4> DEFINE through == kr = "ok" /\ cargo /\ (deliv.kind = "once" \/ fault = "phantom")
                 q == IF through THEN "ok" ELSE "err"
                 a == (kr = "ok")
      <4>1. par' = [par EXCEPT !.second = q, !.prompt = cargo, !.answered = a]
        BY <2>0
      <4>2. q \in MR /\ a \in BOOLEAN /\ cargo \in BOOLEAN
        BY Zenon DEF TypeOK, MR
      <4> HIDE DEF q, a
      <4> QED
        BY <4>1, <4>2, Zenon
    <3> QED
      BY <3>1 DEF TypeOK, Parent
  <2>2. inbox' \in Seq(Messages)
    <3>1. Posted("second") \in Seq(Messages)
      BY PostedType DEF Messages
    <3>2. inbox \in Seq(Messages) /\ inbox \o Posted("second") \in Seq(Messages)
      BY <3>1, ConcatProperties DEF TypeOK
    <3> QED
      BY <2>0, <3>2
  <2>3. deliv' \in Right
    BY <2>0, UsedType DEF TypeOK
  <2>4. fails' \in 0..MaxFails
    BY <2>0, <1>0 DEF TypeOK, Spend
  <2> QED
    BY <1>8, <2>4, <2>1, <2>2, <2>3 DEF TypeOK, VerifySecond, ParentUnchanged
<1>9. CASE ReadStatus
  <2>1. par' \in Parent /\ child' \in Status
    BY <1>9 DEF TypeOK, ReadStatus, Parent
  <2> QED
    BY <1>9, <2>1 DEF TypeOK, ReadStatus, ParentUnchanged
<1>10. CASE Wait
  <2>1. par' \in Parent
    BY <1>10 DEF TypeOK, Wait, Parent
  <2> QED
    BY <1>10, <2>1 DEF TypeOK, Wait, ParentUnchanged
<1>11. CASE Cleanup
  <2>1. PICK d, s, b \in Outcomes : Cleanup!2!(d, s, b)
    BY <1>11 DEF Cleanup
  <2>2. fails' \in 0..MaxFails
    BY <2>1, <1>0 DEF TypeOK, Spend
  <2>3. deliv' \in Right
    <3>1. deliv.kind \in Kinds /\ deliv.refs \in Nat
      BY DEF TypeOK, Right
    <3>2. deliv.refs > 1 => Hold(deliv.kind, deliv.refs - 1) \in Right
      BY <3>1, HoldType
    <3> QED
      BY <2>1, <3>2, SpentType DEF TypeOK
  <2>4. svc' \in BOOLEAN /\ sent' \in BOOLEAN
    BY <2>1
  <2>5. par' \in Parent
    <3>1. \A x, y, z : BaselineCompare(x, y, z) \in BOOLEAN
      BY DEF BaselineCompare
    <3>2. PICK y \in KR, z \in Baseline, c \in BOOLEAN :
            par' = [par EXCEPT !.destroy = y, !.baseAfter = z, !.cleanup = c]
      BY <2>1, <3>1, CaptureType, OutcomesType DEF KR
    <3> QED
      BY <3>2 DEF TypeOK, Parent
  <2> QED
    BY <1>11, <2>2, <2>3, <2>4, <2>5 DEF TypeOK, Cleanup, ParentUnchanged
<1>12. CASE Report
  <2>1. verdict' \in {NoVerdict, ProbeFailure, Accuse, Unclean, Pass}
    BY <1>12 DEF Report, Verdict
  <2> QED
    BY <1>12, <2>1 DEF TypeOK, Report, ParentUnchanged
<1> QED
  BY <1>1, <1>2, <1>3, <1>4, <1>5, <1>6, <1>7, <1>8, <1>9, <1>10, <1>11, <1>12 DEF ParentStep

\* So do the child's steps.
LEMMA ChildTypeStep == TypeOK /\ ChildStep => TypeOK'
<1> SUFFICES ASSUME TypeOK, ChildStep PROVE TypeOK'
  OBVIOUS
<1>0. /\ \A kr : Cost(kr) \in {0, 1}
      /\ \A t, r, h : LookCost(t, r, h) \in 0..2
  BY CostType, LookCostType
<1>1. CASE ChildBegin
  <2>1. PICK g, b \in Outcomes : ChildBegin!2!(g, b)
    BY <1>1 DEF ChildBegin
  <2>2. fails' \in 0..MaxFails
    BY <2>1, <1>0 DEF TypeOK, Spend
  <2>3. st' \in Status
    BY <2>1, CaptureType, OutcomesType DEF TypeOK, Status
  <2> QED
    BY <1>1, <2>1, <2>2, <2>3 DEF TypeOK, ChildBegin, ChildUnchanged, ChildPoints
<1>2. CASE ChildMake
  <2>1. PICK a, t, x \in Outcomes : ChildMake!2!(a, t, x)
    BY <1>2 DEF ChildMake
  <2>2. fails' \in 0..MaxFails
    BY <2>1, <1>0 DEF TypeOK, Spend
  <2>3. st' \in Status
    <3> DEFINE c == IF a = "ok" /\ t = "ok" THEN "ok" ELSE "err"
               y == CASE ~(a = "ok" /\ t = "ok") -> "zero"
                      [] fault = "fresh_send" -> "both"
                      [] OTHER -> "receive"
               e == IF (a = "ok" /\ t = "ok") /\ x = "ok" THEN "ok" ELSE "err"
    <3>1. st' = [st EXCEPT !.alloc = a, !.ckr = c, !.ctype = y, !.extract = e]
      BY <2>1
    <3>2. a \in KR /\ c \in KR /\ e \in KR /\ y \in {"zero", "receive", "both"}
      BY OutcomesType DEF KR
    <3> HIDE DEF c, y, e
    <3> QED
      BY <3>1, <3>2 DEF TypeOK, Status
  <2>4. cargo' \in BOOLEAN
    BY <2>1
  <2>5. once' \in Right
    BY <2>1, HoldType, SpentType DEF Kinds
  <2>6. cp' \in ChildPoints
    BY <2>1 DEF ChildPoints
  <2> QED
    BY <1>2, <2>2, <2>3, <2>4, <2>5, <2>6 DEF TypeOK, ChildMake, ChildUnchanged
<1>3. CASE ChildLookBefore
  <2>1. PICK t, r \in Outcomes : ChildLookBefore!2!(t, r)
    BY <1>3 DEF ChildLookBefore
  <2>2. fails' \in 0..MaxFails
    BY <2>1, <1>0 DEF TypeOK, Spend
  <2>3. LookAt(t, r, once) \in Look
    BY LookType DEF TypeOK
  <2>4. st' \in Status
    BY <2>1, <2>3 DEF TypeOK, Status
  <2> QED
    BY <1>3, <2>1, <2>2, <2>4 DEF TypeOK, ChildLookBefore, ChildUnchanged, ChildPoints
<1>4. CASE ChildSend
  <2>1. PICK kr \in Outcomes : ChildSend!2!(kr)
    BY <1>4 DEF ChildSend
  <2>2. fails' \in 0..MaxFails
    BY <2>1, <1>0 DEF TypeOK, Spend
  <2>3. st' \in Status
    BY <2>1 DEF TypeOK, Status, MR
  <2>4. once' \in Right
    BY <2>1, SpentType DEF TypeOK
  <2>5. sent' \in BOOLEAN
    BY <2>1
  <2> QED
    BY <1>4, <2>1, <2>2, <2>3, <2>4, <2>5 DEF TypeOK, ChildSend, ChildUnchanged, ChildPoints
<1>5. CASE ChildLookAfter
  <2>1. PICK t, r \in Outcomes : ChildLookAfter!2!(t, r)
    BY <1>5 DEF ChildLookAfter
  <2>2. fails' \in 0..MaxFails
    BY <2>1, <1>0 DEF TypeOK, Spend
  <2>3. LookAt(t, r, once) \in Look
    BY LookType DEF TypeOK
  <2>4. st' \in Status
    BY <2>1, <2>3 DEF TypeOK, Status
  <2> QED
    BY <1>5, <2>2, <2>4 DEF TypeOK, ChildLookAfter, ChildUnchanged, ChildPoints
<1>6. CASE ChildReceiveFirst \/ ChildReceiveSecond
  <2>1. fails' \in 0..MaxFails
    BY <1>6 DEF ChildReceiveFirst, ChildReceiveSecond, TypeOK, Spend
  <2>2. inbox # <<>> => Head(inbox) \in Messages /\ Tail(inbox) \in Seq(Messages)
    BY HeadTailProperties DEF TypeOK
  <2>3. inbox' \in Seq(Messages)
    BY <1>6, <2>2 DEF ChildReceiveFirst, ChildReceiveSecond, TypeOK
  <2>4. \/ st' = [st EXCEPT !.first = "err"] \/ st' = [st EXCEPT !.second = "err"]
        \/ st' = [st EXCEPT !.first = "timeout"] \/ st' = [st EXCEPT !.second = "timeout"]
        \/ st' = [st EXCEPT !.second = "ok"]
        \/ inbox # <<>> /\ st' = [st EXCEPT !.first = "ok", !.id = Head(inbox)]
    BY <1>6, Zenon DEF ChildReceiveFirst, ChildReceiveSecond
  <2>5. st' \in Status
    <3>1. CASE inbox # <<>> /\ st' = [st EXCEPT !.first = "ok", !.id = Head(inbox)]
      <4> DEFINE h == Head(inbox)
      <4>1. h \in Messages \cup {"none"} /\ "ok" \in MR /\ st \in Status
        BY <2>2, <3>1 DEF TypeOK, MR
      <4>2. st' = [st EXCEPT !.first = "ok", !.id = h]
        BY <3>1
      <4> HIDE DEF h
      <4> QED
        BY <4>1, <4>2 DEF Status
    <3> QED
      BY <2>4, <3>1 DEF TypeOK, Status, MR
  <2> QED
    BY <1>6, <2>1, <2>3, <2>5
       DEF TypeOK, ChildReceiveFirst, ChildReceiveSecond, ChildUnchanged, ChildPoints
<1>7. CASE ChildLookVerified
  <2>1. PICK t \in Outcomes : Spend(Cost(t)) /\ st' = [st EXCEPT !.verified = t]
    BY <1>7 DEF ChildLookVerified
  <2>2. fails' \in 0..MaxFails
    BY <2>1, <1>0 DEF TypeOK, Spend
  <2>3. st' \in Status
    BY <2>1, OutcomesType DEF TypeOK, Status
  <2> QED
    BY <1>7, <2>2, <2>3 DEF TypeOK, ChildLookVerified, ChildUnchanged, ChildPoints
<1>8. CASE ChildCleanup
  <2>1. PICK o, d, b \in Outcomes : ChildCleanup!2!(o, d, b)
    BY <1>8 DEF ChildCleanup
  <2>2. fails' \in 0..MaxFails
    BY <2>1, <1>0 DEF TypeOK, Spend
  <2>3. once' \in Right
    BY <2>1, SpentType DEF TypeOK
  <2>4. cargo' \in BOOLEAN
    BY <2>1
  <2>5. inbox' \in Seq(Messages)
    <3> DEFINE n == Notice(o = "ok" /\ once.kind = "once")
    <3>1. n \in Seq(Messages) /\ inbox \in Seq(Messages)
      BY NoticeType DEF TypeOK
    <3> HIDE DEF n
    <3>2. inbox \o n \in Seq(Messages)
      BY <3>1, ConcatProperties
    <3> QED
      BY <2>1, <3>2 DEF n
  <2> DEFINE x == IF cargo THEN d ELSE "err"
             c == BaselineCompare(st.base, Capture(b),
                    (IF o = "ok" THEN Nothing ELSE once) = Nothing /\ (cargo => d = "ok"))
             s == [st EXCEPT !.destroy = x, !.baseAfter = Capture(b), !.cleanup = c]
             e == IF AllCallsOk(s) THEN 0 ELSE 1
  <2>6. st' = [s EXCEPT !.exit = e]
    BY <2>1
  <2>7. x \in KR /\ Capture(b) \in Baseline /\ c \in BOOLEAN /\ e \in {0, 1}
    BY CaptureType, OutcomesType DEF KR, BaselineCompare
  <2> HIDE DEF x, c, e
  <2>8. s \in Status
    BY <2>7 DEF TypeOK, Status
  <2> HIDE DEF s
  <2>9. st' \in Status
    BY <2>6, <2>7, <2>8 DEF Status
  <2> QED
    BY <1>8, <2>2, <2>3, <2>4, <2>5, <2>9 DEF TypeOK, ChildCleanup, ChildUnchanged, ChildPoints
<1>9. CASE ChildWrite
  BY <1>9 DEF TypeOK, ChildWrite, ChildUnchanged, ChildPoints
<1>10. CASE ChildExit
  <2>1. cargo' \in BOOLEAN
    BY <1>10, Zenon DEF ChildExit, ChildGone
  <2>2. /\ cp' = "exited" /\ once' = Nothing /\ inbox' = <<>>
        /\ pipe' = [pipe EXCEPT !.writers = pipe.writers \ {"child"}]
        /\ UNCHANGED <<fault, names, fails, pp, par, st, child, boot, svc, sent, deliv, verdict, deaths>>
    BY <1>10 DEF ChildExit, ChildGone
  <2> QED
    BY <2>1, <2>2, SpentType DEF TypeOK
<1> QED
  BY <1>1, <1>2, <1>3, <1>4, <1>5, <1>6, <1>7, <1>8, <1>9, <1>10 DEF ChildStep

\* Killing either process keeps the types, and so does every step.
LEMMA TypeStep == TypeOK /\ [Next]_vars => TypeOK'
<1> SUFFICES ASSUME TypeOK, [Next]_vars PROVE TypeOK'
  OBVIOUS
<1>1. CASE ChildKilled
  <2>1. cargo' \in BOOLEAN
    BY <1>1, Zenon DEF ChildKilled, ChildGone
  <2>2. /\ cp' = "exited" /\ once' = Nothing /\ inbox' = <<>>
        /\ pipe' = [pipe EXCEPT !.writers = pipe.writers \ {"child"}]
        /\ UNCHANGED <<fault, names, fails, pp, par, st, child, boot, svc, sent, deliv, verdict>>
        /\ deaths > 0 /\ deaths' = deaths - 1
    BY <1>1 DEF ChildKilled, ChildGone
  <2> QED
    BY <2>1, <2>2, SpentType DEF TypeOK
<1>2. CASE ParentKilled
  <2>1. svc' \in BOOLEAN /\ sent' \in BOOLEAN
    BY <1>2, Zenon DEF ParentKilled
  <2>2. /\ pp' = "killed" /\ deliv' = Nothing
        /\ inbox' = inbox \o Notice(sent \/ deliv.kind = "once")
        /\ pipe' = [pipe EXCEPT !.writers = pipe.writers \ {"parent"}]
        /\ UNCHANGED <<fault, names, fails, cp, par, st, child, boot, cargo, once, verdict>>
        /\ deaths > 0 /\ deaths' = deaths - 1
    BY <1>2 DEF ParentKilled
  <2>3. inbox' \in Seq(Messages)
    <3> DEFINE n == Notice(sent \/ deliv.kind = "once")
    <3>1. n \in Seq(Messages) /\ inbox \in Seq(Messages)
      BY NoticeType DEF TypeOK
    <3> HIDE DEF n
    <3>2. inbox \o n \in Seq(Messages)
      BY <3>1, ConcatProperties
    <3> QED
      BY <2>2, <3>2 DEF n
  <2>4. pipe' \in [full: BOOLEAN, writers: SUBSET {"parent", "child"}]
    BY <2>2 DEF TypeOK
  <2>5. deaths' \in 0..MaxDeaths /\ deliv' \in Right
    BY <2>2, SpentType DEF TypeOK
  <2>6. pp' = "killed"
        /\ UNCHANGED <<fault, names, fails, cp, par, st, child, boot, cargo, once, verdict>>
    BY <2>2
  <2> QED
    BY <2>1, <2>3, <2>4, <2>5, <2>6 DEF TypeOK
<1>3. CASE UNCHANGED vars
  BY <1>3 DEF TypeOK, vars
<1> QED
  BY <1>1, <1>2, <1>3, ParentTypeStep, ChildTypeStep DEF Next, Over

\* The initial values of the structs are of their types.
LEMMA InitialTypes ==
  InitialParent \in Parent /\ PresetStatus \in Status /\ ClearedStatus \in Status
<1>1. NoLook \in Look /\ ZeroLook \in Look
  BY DEF NoLook, ZeroLook, Look, KR, Kinds
<1>2. InitialParent \in Parent
  BY <1>1 DEF InitialParent, Parent, Baseline, KR, MR
<1>3. PresetStatus \in Status
  BY <1>1 DEF PresetStatus, Status, Baseline, KR, MR
<1>4. ClearedStatus \in Status
  BY <1>1 DEF ClearedStatus, Status, Baseline, KR, MR
<1> QED
  BY <1>2, <1>3, <1>4

\* The initial state is well typed.
LEMMA InitTypeOK == Init => TypeOK
<1> SUFFICES ASSUME Init PROVE TypeOK
  OBVIOUS
<1>1. par \in Parent /\ st \in Status /\ child \in Status
  BY InitialTypes DEF Init
<1>2. fails \in 0..MaxFails /\ deaths \in 0..MaxDeaths
  BY DEF Init
<1>3. pipe \in [full: BOOLEAN, writers: SUBSET {"parent", "child"}]
  BY DEF Init
<1>4. svc \in BOOLEAN /\ sent \in BOOLEAN /\ cargo \in BOOLEAN
  BY Zenon DEF Init
<1>5. /\ pp = "setup" /\ cp = "none" /\ verdict = NoVerdict /\ fault \in Faults
      /\ names \in {"ok", "gap"} /\ boot = "original" /\ inbox = <<>>
      /\ once = Nothing /\ deliv = Nothing
  BY DEF Init
<1> QED
  BY <1>1, <1>2, <1>3, <1>4, <1>5, SpentType DEF TypeOK

\* Type correctness: no step of parent, child or watchdog takes a variable out of its
\* type; in particular no right is ever held fewer than zero times.
THEOREM TypeCorrect == Spec => []TypeOK
  BY InitTypeOK, TypeStep, PTL DEF Spec

-----------------------------------------------------------------------------
(* What each process leaves alone.                                         *)

\* The parent touches nothing of the child but its fork and its reaping.
LEMMA ParentFrame ==
  ParentStep =>
    /\ UNCHANGED <<fault, names, st, once, cargo>>
    /\ \/ cp' = cp
       \/ pp = "fork" /\ pp' = "restore" /\ cp' = "begin"
       \/ cp = "exited" /\ cp' = "reaped"
    /\ pp \notin {"done", "killed"} /\ pp' # "killed"
<1> USE DEF ParentUnchanged
<1>1. CASE Setup \/ Fork
  BY <1>1 DEF Setup, Fork
<1>2. CASE Restore \/ ReceiveDescriptor \/ ReceiveFails
  BY <1>2 DEF Restore, ReceiveDescriptor, ReceiveFails
<1>3. CASE LookDelivered \/ LookAfterFirst
  BY <1>3 DEF LookDelivered, LookAfterFirst
<1>4. CASE VerifyFirst \/ VerifySecond
  BY <1>4 DEF VerifyFirst, VerifySecond
<1>5. CASE ReadStatus \/ Wait \/ Report
  BY <1>5 DEF ReadStatus, Wait, Report
<1>6. CASE Cleanup
  BY <1>6 DEF Cleanup
<1> QED
  BY <1>1, <1>2, <1>3, <1>4, <1>5, <1>6 DEF ParentStep

\* The child, alive or killed, touches nothing of the parent.
LEMMA ChildFrame ==
  ChildStep \/ ChildKilled =>
    UNCHANGED <<fault, names, pp, par, child, boot, svc, deliv, verdict>>
<1> USE DEF ChildUnchanged
<1>1. CASE ChildBegin \/ ChildMake \/ ChildLookBefore \/ ChildSend
  BY <1>1 DEF ChildBegin, ChildMake, ChildLookBefore, ChildSend
<1>2. CASE ChildLookAfter \/ ChildReceiveFirst \/ ChildReceiveSecond \/ ChildLookVerified
  BY <1>2 DEF ChildLookAfter, ChildReceiveFirst, ChildReceiveSecond, ChildLookVerified
<1>3. CASE ChildCleanup \/ ChildWrite \/ ChildExit \/ ChildKilled
  BY <1>3 DEF ChildCleanup, ChildWrite, ChildExit, ChildKilled, ChildGone
<1> QED
  BY <1>1, <1>2, <1>3 DEF ChildStep

\* The child goes forward; it sends, and makes its cargo port, early.
LEMMA ChildMoves ==
  ChildStep \/ ChildKilled =>
    /\ cp \in ChildPoints /\ cp' \in ChildPoints \cup {"exited"}
    /\ cp' \in Early => cp \in Early /\ sent' = sent
    /\ cp' \in Listening => cp \in Listening
    /\ cp' \in Waiting => cp \in Waiting
    /\ cp \notin Early => (cargo' => cargo)
<1> USE DEF ChildPoints, Early, Listening, Waiting
<1>1. CASE ChildBegin \/ ChildMake \/ ChildLookBefore
  BY <1>1 DEF ChildBegin, ChildMake, ChildLookBefore
<1>2. CASE ChildSend
  BY <1>2 DEF ChildSend
<1>3. CASE ChildLookAfter \/ ChildReceiveFirst \/ ChildReceiveSecond \/ ChildLookVerified
  BY <1>3 DEF ChildLookAfter, ChildReceiveFirst, ChildReceiveSecond, ChildLookVerified
<1>4. CASE ChildCleanup \/ ChildWrite
  BY <1>4 DEF ChildCleanup, ChildWrite
<1>5. CASE ChildExit \/ ChildKilled
  BY <1>5 DEF ChildExit, ChildKilled, ChildGone
<1> QED
  BY <1>1, <1>2, <1>3, <1>4, <1>5 DEF ChildStep

\* A killed parent changes nothing the child has or the parent remembers.
LEMMA KillFrame ==
  ParentKilled =>
    /\ pp' = "killed"
    /\ UNCHANGED <<fault, names, cp, par, st, child, boot, cargo, once, verdict>>
  BY DEF ParentKilled

-----------------------------------------------------------------------------
(* Each part of the invariant is preserved.                                *)

\* Where the child is at each control point of the parent.
LEMMA ReapStep == IInv /\ [Next]_vars => ReapInv'
<1> SUFFICES ASSUME TypeOK, ReapInv, [Next]_vars PROVE ReapInv'
  BY DEF IInv
<1> USE DEF TypeOK, ReapInv, Parent, ParentUnchanged, Early
<1>1. CASE Setup
  BY <1>1 DEF Setup
<1>2. CASE Fork
  BY <1>2 DEF Fork
<1>3. CASE Restore
  BY <1>3 DEF Restore
<1>4. CASE ReceiveDescriptor \/ ReceiveFails
  <2>1. /\ pp = "receive" /\ pp' \in {"look", "read"} /\ cp' = cp /\ par'.forked = par.forked
        /\ pp' = "look" => sent
    BY <1>4 DEF ReceiveDescriptor, ReceiveFails
  <2>2. sent' => sent
    BY <1>4, Zenon DEF ReceiveDescriptor, ReceiveFails
  <2> QED
    BY <2>1, <2>2
<1>5. CASE LookDelivered \/ LookAfterFirst
  BY <1>5 DEF LookDelivered, LookAfterFirst
<1>6. CASE VerifyFirst \/ VerifySecond
  BY <1>6 DEF VerifyFirst, VerifySecond
<1>7. CASE ReadStatus \/ Wait \/ Report
  BY <1>7 DEF ReadStatus, Wait, Report
<1>8. CASE Cleanup
  BY <1>8 DEF Cleanup
<1>9. CASE ChildStep \/ ChildKilled
  BY <1>9, ChildFrame, ChildMoves DEF ChildPoints
<1>10. CASE ParentKilled
  BY <1>10 DEF ParentKilled
<1>11. CASE UNCHANGED vars
  BY <1>11 DEF vars
<1> QED
  BY <1>1, <1>2, <1>3, <1>4, <1>5, <1>6, <1>7, <1>8, <1>9, <1>10, <1>11
     DEF Next, ParentStep, Over

\* The child writes last, and the parent copies what it wrote.
LEMMA StatusStep == IInv /\ [Next]_vars => StatusInv'
<1> SUFFICES ASSUME TypeOK, ReapInv, StatusInv, [Next]_vars PROVE StatusInv'
  BY DEF IInv
<1> USE DEF TypeOK, StatusInv, Parent, ParentUnchanged
<1>1. CASE Setup
  BY <1>1 DEF Setup
<1>2. CASE Fork
  BY <1>2 DEF Fork, ReapInv
<1>3. CASE Restore
  BY <1>3 DEF Restore
<1>4. CASE ReceiveDescriptor \/ ReceiveFails
  BY <1>4 DEF ReceiveDescriptor, ReceiveFails
<1>5. CASE LookDelivered \/ LookAfterFirst
  BY <1>5 DEF LookDelivered, LookAfterFirst
<1>6. CASE VerifyFirst \/ VerifySecond
  <2>1. CASE VerifyFirst
    BY <2>1 DEF VerifyFirst
  <2>2. CASE VerifySecond
    BY <2>2 DEF VerifySecond
  <2> QED
    BY <1>6, <2>1, <2>2
<1>7. CASE ReadStatus
  BY <1>7 DEF ReadStatus
<1>8. CASE Wait \/ Report
  BY <1>8 DEF Wait, Report
<1>9. CASE Cleanup
  BY <1>9 DEF Cleanup
<1>10. CASE ChildStep /\ ~ChildWrite /\ ~ChildExit
  <2>1. ~pipe.full /\ pipe' = pipe
    BY <1>10 DEF ChildStep, ChildBegin, ChildMake, ChildLookBefore, ChildSend,
       ChildLookAfter, ChildReceiveFirst, ChildReceiveSecond, ChildLookVerified, ChildCleanup
  <2> QED
    BY <1>10, <2>1, ChildFrame
<1>11. CASE ChildWrite
  BY <1>11 DEF ChildWrite, ChildUnchanged
<1>12. CASE ChildExit \/ ChildKilled
  BY <1>12 DEF ChildExit, ChildKilled, ChildGone
<1>13. CASE ParentKilled
  BY <1>13 DEF ParentKilled
<1>14. CASE UNCHANGED vars
  BY <1>14 DEF vars
<1> QED
  BY <1>1, <1>2, <1>3, <1>4, <1>5, <1>6, <1>7, <1>8, <1>9, <1>10, <1>11, <1>12, <1>13,
     <1>14 DEF Next, ParentStep, Over

\* What the child holds follows its control point.
LEMMA RightStep == IInv /\ [Next]_vars => RightInv'
<1> SUFFICES ASSUME TypeOK, ReapInv, RightInv, [Next]_vars PROVE RightInv'
  BY DEF IInv
<1> USE DEF TypeOK, RightInv, Nothing, Hold, Spent, ChildUnchanged
<1>1. CASE ParentStep
  BY <1>1, ParentFrame DEF ReapInv
<1>2. CASE ChildBegin
  BY <1>2 DEF ChildBegin
<1>3. CASE ChildMake
  BY <1>3 DEF ChildMake
<1>4. CASE ChildLookBefore
  BY <1>4 DEF ChildLookBefore
<1>5. CASE ChildSend
  BY <1>5 DEF ChildSend
<1>6. CASE ChildLookAfter \/ ChildReceiveFirst \/ ChildReceiveSecond \/ ChildLookVerified
  BY <1>6 DEF ChildLookAfter, ChildReceiveFirst, ChildReceiveSecond, ChildLookVerified
<1>7. CASE ChildCleanup \/ ChildWrite
  BY <1>7 DEF ChildCleanup, ChildWrite
<1>8. CASE ChildExit \/ ChildKilled
  BY <1>8 DEF ChildExit, ChildKilled, ChildGone
<1>9. CASE ParentKilled
  BY <1>9, KillFrame
<1>10. CASE UNCHANGED vars
  BY <1>10 DEF vars
<1> QED
  BY <1>1, <1>2, <1>3, <1>4, <1>5, <1>6, <1>7, <1>8, <1>9, <1>10 DEF Next, ChildStep, Over

\* The child's looks tell the deviations of the sender's side apart.
LEMMA SeenStep == IInv /\ [Next]_vars => SeenInv'
<1> SUFFICES ASSUME TypeOK, RightInv, SeenInv, [Next]_vars PROVE SeenInv'
  BY DEF IInv
<1>0. ASSUME st'.ctype = st.ctype, st'.before = st.before, st'.after = st.after,
             fault' = fault
      PROVE  SeenInv'
  BY <1>0 DEF SeenInv, ZeroOrAbsent
<1> USE DEF TypeOK, Status, ChildUnchanged
<1>1. CASE ParentStep
  BY <1>0, <1>1, ParentFrame
<1>2. CASE ChildBegin
  BY <1>0, <1>2 DEF ChildBegin
<1>3. CASE ChildMake
  <2>1. st'.before = st.before /\ st'.after = st.after /\ fault' = fault
    BY <1>3 DEF ChildMake
  <2>2. st'.ctype = "receive" => fault # "fresh_send"
    BY <1>3 DEF ChildMake
  <2> QED
    BY <2>1, <2>2 DEF SeenInv, ZeroOrAbsent
<1>4. CASE ChildLookBefore
  <2>1. PICK t, r \in Outcomes : st' = [st EXCEPT !.before = LookAt(t, r, once)]
    BY <1>4 DEF ChildLookBefore
  <2>2. /\ st'.before = LookAt(t, r, once) /\ st'.ctype = st.ctype /\ st'.after = st.after
        /\ fault' = fault
    BY <1>4, <2>1 DEF ChildLookBefore
  <2>3. LookAt(t, r, once).kind = "once" => fault # "made_send"
    BY <1>4 DEF ChildLookBefore, LookAt, RightInv, Hold
  <2> QED
    BY <2>2, <2>3 DEF SeenInv, ZeroOrAbsent
<1>5. CASE ChildSend
  BY <1>0, <1>5 DEF ChildSend
<1>6. CASE ChildLookAfter
  <2>1. PICK t, r \in Outcomes : st' = [st EXCEPT !.after = LookAt(t, r, once)]
    BY <1>6 DEF ChildLookAfter
  <2>2. /\ st'.after = LookAt(t, r, once) /\ st'.ctype = st.ctype /\ st'.before = st.before
        /\ fault' = fault
    BY <1>6, <2>1 DEF ChildLookAfter
  <2>3. fault = "kept" => ~ZeroOrAbsent(LookAt(t, r, once))
    BY <1>6 DEF ChildLookAfter, LookAt, Answer, RightInv, Hold, Nothing, ZeroOrAbsent, Outcomes
  <2> QED
    BY <2>2, <2>3 DEF SeenInv, ZeroOrAbsent
<1>7. CASE ChildReceiveFirst \/ ChildReceiveSecond
  BY <1>0, <1>7 DEF ChildReceiveFirst, ChildReceiveSecond
<1>8. CASE ChildLookVerified
  BY <1>0, <1>8 DEF ChildLookVerified
<1>9. CASE ChildCleanup
  BY <1>0, <1>9 DEF ChildCleanup
<1>10. CASE ChildWrite \/ ChildExit \/ ChildKilled
  BY <1>0, <1>10 DEF ChildWrite, ChildExit, ChildKilled, ChildGone
<1>11. CASE ParentKilled
  BY <1>0, <1>11, KillFrame
<1>12. CASE UNCHANGED vars
  BY <1>0, <1>12 DEF vars
<1> QED
  BY <1>1, <1>2, <1>3, <1>4, <1>5, <1>6, <1>7, <1>8, <1>9, <1>10, <1>11, <1>12
     DEF Next, ChildStep, Over

\* What the parent holds under the delivered name, and saw of it.
LEMMA DelivStep == IInv /\ [Next]_vars => DelivInv'
<1> SUFFICES ASSUME TypeOK, DelivInv, [Next]_vars PROVE DelivInv'
  BY DEF IInv
<1>0. ASSUME UNCHANGED <<fault, deliv>>, par'.named = par.named, par'.look = par.look,
             par'.first = par.first,
             \/ pp' = pp
             \/ pp \in {"setup", "fork", "restore", "receive"} /\ pp' \in {"fork", "restore", "receive"}
             \/ pp = "again" /\ pp' = "second"
             \/ pp' \in {"read", "wait", "cleanup", "judge", "done", "killed"}
      PROVE  DelivInv'
  BY <1>0 DEF DelivInv, Before, Fresh, Used, Hold, Spent, Nothing
<1> USE DEF TypeOK, Parent, ParentUnchanged
<1>1. CASE Setup
  BY <1>0, <1>1 DEF Setup
<1>2. CASE Fork
  BY <1>0, <1>2 DEF Fork
<1>3. CASE Restore
  BY <1>0, <1>3 DEF Restore
<1>4. CASE ReceiveDescriptor
  <2>1. /\ pp = "receive" /\ pp' = "look" /\ fault' = fault /\ deliv' = Delivered
        /\ par'.look = par.look /\ par'.first = par.first
    BY <1>4 DEF ReceiveDescriptor
  <2>2. par'.named => fault # "null"
    BY <1>4 DEF ReceiveDescriptor
  <2>3. Delivered.kind = "once" => fault # "as_send" /\ Delivered = Fresh
    BY DEF Delivered, Fresh, Hold, Nothing
  <2> QED
    BY <2>1, <2>2, <2>3 DEF DelivInv, Before, Fresh, Hold, NoLook
<1>5. CASE ReceiveFails
  BY <1>0, <1>5 DEF ReceiveFails
<1>6. CASE LookDelivered
  <2>1. PICK t, r \in Outcomes : LookDelivered!2!(t, r)
    BY <1>6 DEF LookDelivered
  <2>2. /\ pp = "look" /\ pp' \in {"first", "read"} /\ UNCHANGED <<fault, deliv>>
        /\ par'.named = par.named /\ par'.first = par.first
        /\ par'.look = LookAt(t, r, Seen(deliv))
    BY <1>6, <2>1 DEF LookDelivered
  <2>3. Seen(deliv).kind = "once" => deliv.kind = "once"
    BY DEF Seen, Hold
  <2>4. pp' = "first" \/ par'.look.kind = "once" => deliv.kind = "once"
    BY <2>1, <2>2, <2>3 DEF LookAt
  <2> QED
    BY <2>2, <2>4 DEF DelivInv, Before, Fresh, Hold
<1>7. CASE VerifyFirst
  <2>1. /\ pp = "first" /\ pp' = "again" /\ fault' = fault
        /\ par'.named = par.named /\ par'.look = par.look
    BY <1>7 DEF VerifyFirst
  <2>2. par'.first = "ok" => deliv' = Used(deliv)
    BY <1>7 DEF VerifyFirst
  <2> QED
    BY <2>1, <2>2 DEF DelivInv, Before, Fresh, Used, Hold, Spent, Nothing
<1>8. CASE LookAfterFirst
  BY <1>0, <1>8 DEF LookAfterFirst
<1>9. CASE VerifySecond
  <2>1. /\ pp' = "read" /\ fault' = fault
        /\ par'.named = par.named /\ par'.look = par.look
    BY <1>9 DEF VerifySecond
  <2> QED
    BY <2>1 DEF DelivInv, Before
<1>10. CASE ReadStatus \/ Wait \/ Report
  BY <1>0, <1>10 DEF ReadStatus, Wait, Report
<1>11. CASE Cleanup \/ ParentKilled
  <2>1. /\ pp' \in {"judge", "killed"} /\ fault' = fault
        /\ par'.named = par.named /\ par'.look = par.look
    BY <1>11 DEF Cleanup, ParentKilled
  <2> QED
    BY <2>1 DEF DelivInv, Before
<1>12. CASE ChildStep \/ ChildKilled
  BY <1>0, <1>12, ChildFrame
<1>13. CASE UNCHANGED vars
  BY <1>0, <1>13 DEF vars
<1> QED
  BY <1>1, <1>2, <1>3, <1>4, <1>5, <1>6, <1>7, <1>8, <1>9, <1>10, <1>11, <1>12, <1>13
     DEF Next, ParentStep, Over

\* A right that survived its use is seen while the cargo port is there.
LEMMA LateStep == IInv /\ [Next]_vars => LateInv'
<1> SUFFICES ASSUME TypeOK, ReapInv, DelivInv, LateInv, [Next]_vars PROVE LateInv'
  BY DEF IInv
<1>0. ASSUME fault' = fault, par'.prompt = par.prompt, par'.answered = par.answered,
             par'.first = par.first,
             par'.again = par.again, par'.second = par.second,
             pp' = "second" => pp = "second" /\ (cargo' => cargo),
             \/ pp' = pp
             \/ pp \in Before
             \/ pp' \in {"read", "wait", "cleanup", "judge", "done", "killed"}
      PROVE  LateInv'
  BY <1>0 DEF LateInv, Before, ZeroOrAbsent
<1> USE DEF TypeOK, Parent, ParentUnchanged
<1>1. CASE Setup
  BY <1>0, <1>1 DEF Setup, Before
<1>2. CASE Fork
  BY <1>0, <1>2 DEF Fork, Before
<1>3. CASE Restore
  BY <1>0, <1>3 DEF Restore, Before
<1>4. CASE ReceiveDescriptor \/ ReceiveFails
  BY <1>0, <1>4 DEF ReceiveDescriptor, ReceiveFails, Before
<1>5. CASE LookDelivered
  BY <1>0, <1>5 DEF LookDelivered, Before
<1>6. CASE VerifyFirst
  <2>1. /\ pp = "first" /\ pp' = "again" /\ fault' = fault
        /\ par'.prompt = par.prompt
    BY <1>6 DEF VerifyFirst
  <2> QED
    BY <2>1 DEF LateInv, Before
<1>7. CASE LookAfterFirst
  <2>1. PICK t, r \in Outcomes : par' = [par EXCEPT !.again = LookAt(t, r, Seen(deliv))]
    BY <1>7 DEF LookAfterFirst
  <2>2. /\ pp = "again" /\ pp' = "second" /\ fault' = fault /\ cargo' = cargo
        /\ par'.prompt = par.prompt /\ par'.first = par.first
        /\ par'.again = LookAt(t, r, Seen(deliv))
    BY <1>7, <2>1 DEF LookAfterFirst
  <2>3. ASSUME fault \in {"two_refs", "reusable"}, par.first = "ok", cargo
        PROVE  ~ZeroOrAbsent(LookAt(t, r, Seen(deliv)))
    <3>1. deliv = Used(Fresh)
      BY <2>2, <2>3 DEF DelivInv
    <3>2. Used(Fresh) = Hold("once", 1)
      BY <2>3 DEF Used, Fresh, Hold
    <3>3. Seen(deliv) = Hold("once", 1)
      BY <2>3, <3>1, <3>2 DEF Seen, Hold
    <3> QED
      BY <3>3 DEF LookAt, Answer, Hold, Nothing, ZeroOrAbsent, Outcomes
  <2> QED
    BY <2>2, <2>3 DEF LateInv, Before, ZeroOrAbsent
<1>8. CASE VerifySecond
  <2>1. /\ pp = "second" /\ pp' = "read" /\ fault' = fault
        /\ par'.first = par.first /\ par'.again = par.again /\ (par'.prompt <=> cargo)
    BY <1>8 DEF VerifySecond
  <2>2. fault = "phantom" /\ cargo /\ par'.answered => par'.second = "ok"
    BY <1>8 DEF VerifySecond
  <2> QED
    BY <2>1, <2>2 DEF LateInv, Before, ZeroOrAbsent
<1>9. CASE ReadStatus \/ Wait \/ Report
  BY <1>0, <1>9 DEF ReadStatus, Wait, Report
<1>10. CASE Cleanup
  BY <1>0, <1>10 DEF Cleanup
<1>11. CASE ChildStep \/ ChildKilled
  BY <1>0, <1>11, ChildFrame, ChildMoves DEF ReapInv
<1>12. CASE ParentKilled
  BY <1>0, <1>12, KillFrame
<1>13. CASE UNCHANGED vars
  BY <1>0, <1>13 DEF vars
<1> QED
  BY <1>1, <1>2, <1>3, <1>4, <1>5, <1>6, <1>7, <1>8, <1>9, <1>10, <1>11, <1>12, <1>13
     DEF Next, ParentStep, Over

\* The service port, the bootstrap port and the parent's final comparison.
LEMMA CleanStep == IInv /\ [Next]_vars => CleanInv'
<1> SUFFICES ASSUME TypeOK, CleanInv, [Next]_vars PROVE CleanInv'
  BY DEF IInv
<1> USE DEF TypeOK, Parent, CleanInv, ParentUnchanged, Before
<1>1. CASE Setup
  <2>1. PICK b, p \in Outcomes, s \in {"get", "alloc", "insert", "set", "ok"} :
          Setup!2!(b, p, s)
    BY <1>1 DEF Setup
  <2>2. /\ par'.restored = par.restored /\ pp = "setup" /\ pp' = "fork" /\ names' = names
        /\ par'.setup = s
    BY <1>1, <2>1 DEF Setup
  <2>3. s = "ok" => svc'
    BY <2>1
  <2> QED
    BY <2>2, <2>3
<1>2. CASE Fork
  BY <1>2 DEF Fork
<1>3. CASE Restore
  BY <1>3 DEF Restore
<1>4. CASE ReceiveDescriptor \/ ReceiveFails
  BY <1>4 DEF ReceiveDescriptor, ReceiveFails
<1>5. CASE LookDelivered \/ LookAfterFirst
  BY <1>5 DEF LookDelivered, LookAfterFirst
<1>6. CASE VerifyFirst \/ VerifySecond
  BY <1>6 DEF VerifyFirst, VerifySecond
<1>7. CASE ReadStatus \/ Wait \/ Report
  BY <1>7 DEF ReadStatus, Wait, Report
<1>8. CASE Cleanup
  <2>1. PICK d, s, b \in Outcomes : Cleanup!2!(d, s, b)
    BY <1>8 DEF Cleanup
  <2>2. par'.setup = par.setup /\ par'.restored = par.restored
    BY <2>1
  <2>3. par'.cleanup = BaselineCompare(par.base, Capture(b), deliv' = Nothing /\ ~svc')
    BY <2>1
  <2>4. par'.cleanup /\ names = "ok" => deliv' = Nothing /\ ~svc'
    BY <2>3 DEF BaselineCompare, Capture
  <2>5. svc /\ fault = "name_stays" => svc'
    BY <2>1
  <2>6. pp = "cleanup" /\ pp' = "judge" /\ UNCHANGED <<fault, names, boot>>
    BY <1>8 DEF Cleanup
  <2> QED
    BY <2>2, <2>4, <2>5, <2>6
<1>9. CASE ChildStep \/ ChildKilled
  BY <1>9, ChildFrame
<1>10. CASE ParentKilled
  BY <1>10, KillFrame
<1>11. CASE UNCHANGED vars
  BY <1>11 DEF vars
<1> QED
  BY <1>1, <1>2, <1>3, <1>4, <1>5, <1>6, <1>7, <1>8, <1>9, <1>10, <1>11
     DEF Next, ParentStep, Over

\* The child's exit code stays true.
LEMMA ExitStep == IInv /\ [Next]_vars => ExitInv'
<1> SUFFICES ASSUME TypeOK, ReapInv, ExitInv, [Next]_vars PROVE ExitInv'
  BY DEF IInv
<1> USE DEF Early, Listening, Waiting
<1>1. CASE ParentStep
  BY <1>1, ParentFrame DEF ExitInv, ReapInv, AllCallsOk, Blocks
<1>2. CASE ChildStep /\ ~ChildCleanup /\ ~ChildWrite /\ ~ChildExit
  <2>1. st'.exit = st.exit /\ st'.cleanup = st.cleanup /\ st.exit = 1 /\ ~st.cleanup
    <3>1. CASE ChildBegin \/ ChildMake
      BY <3>1 DEF ChildBegin, ChildMake, TypeOK, Status, ExitInv
    <3>2. CASE ChildLookBefore \/ ChildLookAfter \/ ChildLookVerified
      BY <3>2 DEF ChildLookBefore, ChildLookAfter, ChildLookVerified, TypeOK, Status, ExitInv
    <3>3. CASE ChildSend
      BY <3>3 DEF ChildSend, TypeOK, Status, ExitInv
    <3>4. CASE ChildReceiveFirst \/ ChildReceiveSecond
      BY <3>4 DEF ChildReceiveFirst, ChildReceiveSecond, TypeOK, Status, ExitInv
    <3> QED
      BY <1>2, <3>1, <3>2, <3>3, <3>4 DEF ChildStep
  <2>2. ~AllCallsOk(st')
    BY <2>1 DEF AllCallsOk
  <2> QED
    BY <2>1, <2>2 DEF ExitInv, AllCallsOk
<1>3. CASE ChildCleanup
  <2>1. PICK o, d, b \in Outcomes : ChildCleanup!2!(o, d, b)
    BY <1>3 DEF ChildCleanup
  <2> DEFINE x == IF cargo THEN d ELSE "err"
             c == BaselineCompare(st.base, Capture(b),
                    (IF o = "ok" THEN Nothing ELSE once) = Nothing /\ (cargo => d = "ok"))
             s == [st EXCEPT !.destroy = x, !.baseAfter = Capture(b), !.cleanup = c]
  <2>2. st' = [s EXCEPT !.exit = IF AllCallsOk(s) THEN 0 ELSE 1]
    BY <2>1
  <2> HIDE DEF x, c
  <2>3. st'.exit = 0 <=> AllCallsOk(s)
    BY <2>2 DEF TypeOK, Status
  <2>4. AllCallsOk(s) <=> AllCallsOk(st')
    BY <2>2 DEF TypeOK, Status, AllCallsOk, Blocks
  <2>5. cp' = "write"
    BY <1>3 DEF ChildCleanup
  <2> QED
    BY <2>3, <2>4, <2>5 DEF ExitInv, AllCallsOk, Blocks
<1>4. CASE ChildWrite
  BY <1>4 DEF ChildWrite, ExitInv, AllCallsOk, Blocks
<1>5. CASE ChildExit \/ ChildKilled
  BY <1>5 DEF ChildExit, ChildKilled, ChildGone, ExitInv, AllCallsOk, Blocks
<1>6. CASE ParentKilled
  BY <1>6, KillFrame DEF ExitInv, AllCallsOk, Blocks
<1>7. CASE UNCHANGED vars
  BY <1>7 DEF vars, ExitInv, AllCallsOk, Blocks
<1> QED
  BY <1>1, <1>2, <1>3, <1>4, <1>5, <1>6, <1>7 DEF Next, Over

\* A verdict is final and is the one the chain of tests gives.
LEMMA VerdictStep == IInv /\ [Next]_vars => VerdictInv'
<1> SUFFICES ASSUME VerdictInv, [Next]_vars PROVE VerdictInv'
  BY DEF IInv
<1> USE DEF VerdictInv, ParentUnchanged
<1>1. CASE ParentStep /\ ~Report
  <2>1. verdict' = verdict
    BY <1>1 DEF ParentStep, Setup, Fork, Restore, ReceiveDescriptor, ReceiveFails,
                LookDelivered, VerifyFirst, LookAfterFirst, VerifySecond, ReadStatus, Wait,
                Cleanup
  <2> QED
    BY <1>1, <2>1, ParentFrame
<1>2. CASE Report
  <2>1. pp' = "done" /\ par' = par /\ child' = child /\ verdict' = Verdict(par, child)
    BY <1>2 DEF Report
  <2>2. verdict' = Verdict(par', child')
    BY <2>1
  <2> QED
    BY <2>1, <2>2
<1>3. CASE ChildStep \/ ChildKilled \/ UNCHANGED vars
  <2>1. UNCHANGED <<pp, par, child, verdict>>
    BY <1>3, ChildFrame DEF vars
  <2>2. Verdict(par, child) = Verdict(par', child')
    BY <2>1
  <2> QED
    BY <2>1, <2>2
<1>4. CASE ParentKilled
  BY <1>4 DEF ParentKilled
<1> QED
  BY <1>1, <1>2, <1>3, <1>4 DEF Next, Over

\* What appending does to the length and the head of a queue.
LEMMA AppendFacts ==
  ASSUME NEW s \in Seq(Messages), NEW t \in Seq(Messages)
  PROVE  /\ Len(s \o t) = Len(s) + Len(t)
         /\ s = <<>> => s \o t = t
         /\ t = <<>> => s \o t = s
         /\ s # <<>> => s \o t # <<>> /\ Head(s \o t) = Head(s)
<1>1. /\ s \o t \in Seq(Messages) /\ Len(s \o t) = Len(s) + Len(t)
      /\ \A i \in 1..Len(s) : (s \o t)[i] = s[i]
  BY ConcatProperties
<1>2. (s = <<>> => s \o t = t) /\ (t = <<>> => s \o t = s)
  BY ConcatEmptySeq
<1>3. ASSUME s # <<>> PROVE s \o t # <<>> /\ Head(s \o t) = Head(s)
  <2>1. Len(s) \in Nat /\ Len(t) \in Nat /\ Len(s) > 0
    BY <1>3, EmptySeq, LenProperties
  <2>2. Len(s \o t) > 0
    BY <1>1, <2>1
  <2>3. s \o t # <<>>
    BY <1>1, <2>2, EmptySeq
  <2>4. Head(s) = s[1] /\ Head(s \o t) = (s \o t)[1]
    BY <1>1, <1>3, <2>3
  <2> QED
    BY <1>1, <2>1, <2>3, <2>4
<1> QED
  BY <1>1, <1>2, <1>3

\* What a message through the right puts into the inbox, deviation by deviation.
LEMMA PostedFacts ==
  ASSUME NEW m \in Messages
  PROVE  /\ fault = "deaf" => Posted(m) = <<>>
         /\ fault = "echo" => Len(Posted(m)) = 2
         /\ fault = "notifies" => Posted(m) # <<>> /\ Head(Posted(m)) = "notify"
         /\ fault \in {"none", "dead_stays"} => Posted(m) = <<m>>
<1>1. fault = "deaf" => Posted(m) = <<>>
  BY DEF Posted
<1>2. fault = "echo" => Posted(m) = <<m, m>>
  BY DEF Posted
<1>3. fault = "notifies" => Posted(m) = <<"notify", m>>
  BY DEF Posted
<1>4. fault \in {"none", "dead_stays"} => Posted(m) = <<m>>
  BY DEF Posted
<1>5. Len(<<m, m>>) = 2
  OBVIOUS
<1>6. <<"notify", m>> # <<>> /\ Head(<<"notify", m>>) = "notify"
  OBVIOUS
<1> QED
  BY <1>1, <1>2, <1>3, <1>4, <1>5, <1>6

\* Taking the head of a queue leaves one message fewer.
LEMMA TailFacts ==
  ASSUME NEW s \in Seq(Messages), s # <<>>
  PROVE  /\ Tail(s) \in Seq(Messages)
         /\ Len(s) >= 2 => Tail(s) # <<>>
         /\ \A m : s = <<m>> => Head(s) = m /\ Tail(s) = <<>>
<1>1. Tail(s) \in Seq(Messages) /\ Len(Tail(s)) = Len(s) - 1
  BY HeadTailProperties
<1>2. Len(s) \in Nat
  BY LenProperties
<1>3. Len(s) >= 2 => Tail(s) # <<>>
  <2>1. Tail(s) = <<>> => Len(Tail(s)) = 0
    BY <1>1, EmptySeq
  <2> QED
    BY <1>1, <1>2, <2>1, Z3
<1>4. \A m : s = <<m>> => Head(s) = m /\ Tail(s) = <<>>
  <2> TAKE m
  <2> HAVE s = <<m>>
  <2>1. Head(s) = m /\ Len(s) = 1
    OBVIOUS
  <2>2. Tail(s) = <<>>
    BY <1>1, <2>1, EmptySeq
  <2> QED
    BY <2>1, <2>2
<1> QED
  BY <1>1, <1>3, <1>4

\* What the two verify messages do to the inbox of a child that still waits.
LEMMA PostStep ==
  ASSUME TypeOK, InboxInv, VerifyFirst \/ VerifySecond, cp \in Waiting
  PROVE  /\ fault = "deaf" => inbox' = inbox
         /\ fault = "echo" => inbox' = inbox \/ Len(inbox') >= 2
         /\ fault = "notifies" => \/ inbox' = inbox
                                  \/ inbox' # <<>> /\ (inbox = <<>> \/ Head(inbox') = Head(inbox))
                                                   /\ (inbox = <<>> => Head(inbox') = "notify")
         /\ inbox # <<>> => inbox' # <<>>
         /\ VerifyFirst /\ fault \in {"none", "dead_stays"} => inbox' \in {<<>>, <<"first">>}
<1>1. PICK m \in Messages : (VerifyFirst => m = "first") /\ (inbox' = inbox \/ inbox' = inbox \o Posted(m))
  BY DEF VerifyFirst, VerifySecond, Messages
<1> DEFINE p == Posted(m)
<1>2. inbox \in Seq(Messages) /\ p \in Seq(Messages)
  BY PostedType DEF TypeOK
<1>3. /\ fault = "deaf" => p = <<>>
      /\ fault = "echo" => Len(p) = 2
      /\ fault = "notifies" => p # <<>> /\ Head(p) = "notify"
      /\ fault \in {"none", "dead_stays"} => p = <<m>>
  BY PostedFacts
<1>4. inbox' = inbox \/ inbox' = inbox \o p
  BY <1>1
<1>5. VerifyFirst => inbox = <<>>
  BY DEF VerifyFirst, InboxInv, Before
<1>6. Len(inbox) \in Nat
  BY <1>2, LenProperties
<1> HIDE DEF p
<1>7. /\ Len(inbox \o p) = Len(inbox) + Len(p)
      /\ inbox = <<>> => inbox \o p = p
      /\ p = <<>> => inbox \o p = inbox
      /\ inbox # <<>> => inbox \o p # <<>> /\ Head(inbox \o p) = Head(inbox)
  BY <1>2, AppendFacts
<1>8. fault = "echo" => inbox' = inbox \/ Len(inbox') >= 2
  BY <1>3, <1>4, <1>6, <1>7
<1>9. VerifyFirst /\ fault \in {"none", "dead_stays"} => inbox' \in {<<>>, <<"first">>}
  BY <1>1, <1>3, <1>4, <1>5, <1>7
<1> QED
  BY <1>3, <1>4, <1>7, <1>8, <1>9

\* The messages at the cargo port tell the deviations of the port apart.
LEMMA InboxStep == IInv /\ [Next]_vars => InboxInv'
<1> SUFFICES ASSUME TypeOK, ReapInv, InboxInv, [Next]_vars, pp' # "killed" PROVE InboxInv'
  BY DEF IInv, InboxInv
<1>0. ASSUME UNCHANGED fault, pp # "killed",
             st'.first = st.first, st'.second = st.second, st'.id = st.id,
             cp' \in Waiting => inbox' = inbox,
             cp' \in Waiting => cp \in Waiting, cp' \in Listening => cp \in Listening,
             cp' = "second" => cp = "second",
             pp' \in Before => pp \in Before
      PROVE  InboxInv'
  <2>1. cp' \in Listening \/ cp' = "second" => cp' \in Waiting
    BY DEF Listening, Waiting
  <2> QED
    BY <1>0, <2>1 DEF InboxInv
<1> USE DEF TypeOK, ParentUnchanged
<1>1. CASE ParentStep /\ ~VerifyFirst /\ ~VerifySecond
  <2>1. inbox' = inbox /\ (pp' \in Before => pp \in Before)
    BY <1>1 DEF ParentStep, Setup, Fork, Restore, ReceiveDescriptor, ReceiveFails,
       LookDelivered, LookAfterFirst, ReadStatus, Wait, Cleanup, Report, Before
  <2> QED
    BY <1>0, <1>1, <2>1, ParentFrame DEF ReapInv, Early, Listening, Waiting
<1>2. CASE VerifyFirst \/ VerifySecond
  <2>1. pp # "killed" /\ pp' \notin Before /\ UNCHANGED <<fault, st, cp>>
    BY <1>2 DEF VerifyFirst, VerifySecond, Before
  <2>2. CASE cp \in Waiting
    BY <1>2, <2>1, <2>2, PostStep DEF InboxInv
  <2>3. CASE cp \notin Waiting
    BY <2>1, <2>3 DEF InboxInv, Waiting, Listening
  <2> QED
    BY <2>2, <2>3
<1>3. CASE ChildStep \/ ChildKilled
  <2>0. UNCHANGED <<fault, pp>> /\ (cp' \in Waiting => cp \in Waiting)
        /\ (cp' \in Listening => cp \in Listening)
    BY <1>3, ChildFrame, ChildMoves
  <2>1. CASE ChildBegin \/ ChildMake \/ ChildSend
    BY <1>0, <2>0, <2>1 DEF ChildBegin, ChildMake, ChildSend, Status
  <2>2. CASE ChildLookBefore \/ ChildLookAfter \/ ChildLookVerified
    BY <1>0, <2>0, <2>2 DEF ChildLookBefore, ChildLookAfter, ChildLookVerified, Status
  <2>3. CASE ChildReceiveFirst
    <3>1. cp = "first" /\ cp' = "second" /\ cp \in Listening /\ cp \in Waiting
          /\ cp' \notin Listening
      BY <2>3 DEF ChildReceiveFirst, Early, Listening, Waiting
    <3>2. CASE \E x \in {"timeout", "err"} : st' = [st EXCEPT !.first = x] /\ inbox' = inbox
      <4>1. /\ st'.first # "ok" /\ st'.second = st.second /\ st'.id = st.id
            /\ inbox' = inbox
        BY <3>2 DEF Status
      <4> QED
        BY <2>0, <3>1, <3>2, <4>1 DEF InboxInv
    <3>3. CASE /\ inbox # <<>> /\ st' = [st EXCEPT !.first = "ok", !.id = Head(inbox)]
               /\ inbox' = Tail(inbox)
      <4>1. /\ st'.first = "ok" /\ st'.second = st.second /\ st'.id = Head(inbox)
            /\ inbox' = Tail(inbox)
        BY <3>3 DEF Status
      <4>2. Len(inbox) >= 2 => Tail(inbox) # <<>>
        BY <3>3, TailFacts
      <4>3. pp \in Before => inbox = <<>>
        BY <2>0, <3>1 DEF InboxInv
      <4> QED
        BY <2>0, <3>1, <3>3, <4>1, <4>2, <4>3 DEF InboxInv
    <3> QED
      BY <2>3, <3>2, <3>3 DEF ChildReceiveFirst
  <2>4. CASE ChildReceiveSecond
    <3>1. cp = "second" /\ cp' = "verified" /\ cp' \notin Waiting /\ cp' \notin Listening
      BY <2>4 DEF ChildReceiveSecond, Early, Listening, Waiting
    <3>2. /\ st'.first = st.first /\ st'.id = st.id
          /\ st'.second = "timeout" => inbox = <<>>
      BY <2>0, <2>4 DEF ChildReceiveSecond, Status, InboxInv, Waiting
    <3> QED
      BY <2>0, <3>1, <3>2 DEF InboxInv
  <2>5. CASE ChildCleanup
    <3>1. st'.first = st.first /\ st'.second = st.second /\ st'.id = st.id /\ cp' = "write"
      BY <2>5 DEF ChildCleanup, Status
    <3> QED
      BY <1>0, <2>0, <3>1 DEF Early, Listening, Waiting
  <2>6. CASE ChildWrite \/ ChildExit \/ ChildKilled
    <3>1. st' = st /\ cp' \in {"exit", "exited"}
      BY <2>6 DEF ChildWrite, ChildExit, ChildKilled, ChildGone
    <3> QED
      BY <1>0, <2>0, <3>1 DEF Early, Listening, Waiting
  <2> QED
    BY <1>3, <2>1, <2>2, <2>3, <2>4, <2>5, <2>6 DEF ChildStep
<1>4. CASE ParentKilled
  BY <1>4, KillFrame
<1>5. CASE UNCHANGED vars
  BY <1>0, <1>5 DEF vars
<1> QED
  BY <1>1, <1>2, <1>3, <1>4, <1>5 DEF Next, ParentStep, Over

\* A call that fails is paid for, so failures are never forgotten.
LEMMA FailsFall == TypeOK /\ [Next]_vars => fails' <= fails
<1> SUFFICES ASSUME TypeOK, [Next]_vars PROVE fails' <= fails
  OBVIOUS
<1>0. /\ \A kr : Cost(kr) \in {0, 1}
      /\ \A t, r, h : LookCost(t, r, h) \in 0..2
      /\ fails \in Nat
  BY CostType, LookCostType DEF TypeOK
<1> USE DEF Spend
<1>1. CASE Setup
  BY <1>1, <1>0 DEF Setup
<1>2. CASE Fork \/ Restore
  BY <1>2, <1>0 DEF Fork, Restore
<1>3. CASE ReceiveDescriptor \/ ReadStatus \/ Wait \/ Report
  BY <1>3, <1>0 DEF ReceiveDescriptor, ReadStatus, Wait, Report
<1>3a. CASE ReceiveFails
  BY <1>3a, <1>0 DEF ReceiveFails
<1>3b. CASE VerifySecond
  BY <1>3b, <1>0 DEF VerifySecond
<1>4. CASE LookDelivered \/ LookAfterFirst
  BY <1>4, <1>0 DEF LookDelivered, LookAfterFirst
<1>5. CASE VerifyFirst
  BY <1>5, <1>0 DEF VerifyFirst
<1>6. CASE Cleanup
  BY <1>6, <1>0 DEF Cleanup
<1>7. CASE ChildBegin
  BY <1>7, <1>0 DEF ChildBegin
<1>8. CASE ChildMake
  <2>1. PICK a, t, x \in Outcomes : Spend(IF a = "err" THEN 1 ELSE IF t = "err" THEN 1 ELSE Cost(x))
    BY <1>8 DEF ChildMake
  <2> QED
    BY <2>1, <1>0
<1>9. CASE ChildLookBefore \/ ChildLookAfter \/ ChildLookVerified
  BY <1>9, <1>0 DEF ChildLookBefore, ChildLookAfter, ChildLookVerified
<1>10. CASE ChildSend
  BY <1>10, <1>0 DEF ChildSend
<1>11. CASE ChildReceiveFirst \/ ChildReceiveSecond \/ ChildWrite \/ ChildExit \/ ChildKilled
  BY <1>11, <1>0 DEF ChildReceiveFirst, ChildReceiveSecond, ChildWrite, ChildExit, ChildKilled,
     ChildGone
<1>12. CASE ChildCleanup
  BY <1>12, <1>0 DEF ChildCleanup
<1>13. CASE ParentKilled \/ UNCHANGED vars
  BY <1>13, <1>0 DEF ParentKilled, vars
<1> QED
  BY <1>1, <1>2, <1>3, <1>3a, <1>3b, <1>4, <1>5, <1>6, <1>7, <1>8, <1>9, <1>10, <1>11, <1>12, <1>13
     DEF Next, ParentStep, ChildStep, Over

\* A quiet run was quiet before the step, and its kernel is the same.
LEMMA QuietBefore ==
  TypeOK /\ [Next]_vars /\ Quiet' => Quiet /\ fails' = fails /\ fault' = fault
<1> SUFFICES ASSUME TypeOK, [Next]_vars, Quiet'
             PROVE  Quiet /\ fails' = fails /\ fault' = fault
  OBVIOUS
<1>1. UNCHANGED fault /\ pp # "killed"
  BY ParentFrame, ChildFrame, KillFrame DEF Next, Over, vars, Quiet
<1>2. fails' = MaxFails /\ fails <= MaxFails /\ fails \in Nat /\ fails' <= fails
  BY FailsFall DEF Quiet, TypeOK
<1> QED
  BY <1>1, <1>2 DEF Quiet

\* In a quiet run the delivered right, used once, is gone or its name is dead.
LEMMA QuietUsed ==
  ASSUME Quiet
  PROVE  /\ Fresh = Hold("once", 1) /\ Used(Fresh) = Spent
         /\ Spent \in {Nothing, Hold("dead", 1)}
         /\ Seen(Spent) = Spent
  BY DEF Quiet, Fresh, Used, Spent, Hold, Nothing, Seen

\* A look, none of whose calls failed, at what is left of a used right finds it consumed.
LEMMA LookSpent ==
  ASSUME Quiet, NEW t \in Outcomes, NEW r \in Outcomes, LookCost(t, r, Spent) = 0
  PROVE  Consumed(LookAt(t, r, Spent))
<1>1. Cost(t) \in {0, 1} /\ Cost(r) \in {0, 1} /\ (Cost(t) = 0 => t = "ok") /\ (Cost(r) = 0 => r = "ok")
  BY CostType
<1>2. CASE Spent = Nothing
  BY <1>2 DEF LookAt, Answer, Nothing, Hold, Consumed, ZeroOrAbsent
<1>3. CASE Spent = Hold("dead", 1)
  <2>1. Spent # Nothing /\ Spent.kind = "dead"
    BY <1>3 DEF Nothing, Hold
  <2>2. t = "ok" /\ r = "ok"
    BY <1>1, <2>1 DEF LookCost
  <2> QED
    BY <2>1, <2>2 DEF LookAt, Answer, Consumed, ZeroOrAbsent
<1> QED
  BY <1>2, <1>3, QuietUsed

\* A look, none of whose calls failed, at an unused right shows it.
LEMMA LookOnce ==
  ASSUME NEW t \in Outcomes, NEW r \in Outcomes, LookCost(t, r, Hold("once", 1)) = 0
  PROVE  LET k == LookAt(t, r, Hold("once", 1)) IN
         t = "ok" /\ k.tkr = "ok" /\ k.kind = "once" /\ OneRef(k)
<1> DEFINE h == Hold("once", 1)
<1>1. Cost(t) \in {0, 1} /\ Cost(r) \in {0, 1} /\ (Cost(t) = 0 => t = "ok") /\ (Cost(r) = 0 => r = "ok")
  BY CostType
<1>2. h # Nothing /\ h.kind = "once" /\ h.refs = 1
  BY DEF Nothing, Hold
<1> HIDE DEF h
<1>3. t = "ok" /\ r = "ok"
  BY <1>1, <1>2 DEF LookCost, h
<1> QED
  BY <1>2, <1>3 DEF LookAt, Answer, OneRef, h

\* In a quiet run the parent sees one right, uses it up, and cleans up.
LEMMA QuietParentStep == IInv /\ [Next]_vars => QuietParentInv'
<1> SUFFICES ASSUME TypeOK, ReapInv, DelivInv, QuietParentInv, [Next]_vars, Quiet'
             PROVE  QuietParentInv'
  BY DEF IInv, QuietParentInv
<1>0. Quiet /\ fails' = fails /\ fails \in Nat /\ fault \in {"none", "dead_stays"}
  BY QuietBefore DEF Quiet, TypeOK
<1>c. \A kr \in Outcomes : Cost(kr) = 0 => kr = "ok"
  BY CostType
<1>d. /\ \A kr : Cost(kr) \in {0, 1}
      /\ \A t, r, h : LookCost(t, r, h) \in 0..2
  BY CostType, LookCostType
<1>f. ASSUME pp # "setup", UNCHANGED names,
             deliv' = deliv, par'.base = par.base, par'.setup = par.setup,
             par'.first = par.first, par'.look = par.look, par'.again = par.again,
             par'.second = par.second, par'.cleanup = par.cleanup,
             pp' = "first" => pp = "first",
             pp' \in {"again", "second"} => pp' = pp /\ (cargo' => cargo),
             pp # "again" \/ pp' = "again",
             pp' \in {"judge", "done"} => pp \in {"judge", "done"}
      PROVE  QuietParentInv'
  BY <1>0, <1>f DEF QuietParentInv, OneRef, Consumed, ZeroOrAbsent
<1> USE DEF TypeOK, Parent, ParentUnchanged
<1>1. CASE Setup
  <2>1. PICK b, p \in Outcomes, s \in {"get", "alloc", "insert", "set", "ok"} :
          Setup!2!(b, p, s)
    BY <1>1 DEF Setup
  <2>2. Cost(b) = 0 /\ s = "ok"
    BY <2>1, <1>0, <1>d DEF Spend
  <2>3. /\ par'.base = names /\ par'.setup = "ok" /\ par'.first = par.first
        /\ par'.second = par.second
    BY <2>1, <2>2, <1>c DEF Capture
  <2>4. pp = "setup" /\ pp' = "fork" /\ UNCHANGED <<names, deliv>>
    BY <1>1 DEF Setup
  <2>5. par.first = "err"
    BY <2>4 DEF DelivInv, Before
  <2> QED
    BY <1>0, <2>3, <2>4, <2>5 DEF QuietParentInv
<1>2. CASE Fork
  BY <1>f, <1>2 DEF Fork
<1>3. CASE Restore
  BY <1>f, <1>3 DEF Restore
<1>4. CASE ReceiveDescriptor
  <2>1. /\ pp = "receive" /\ pp' = "look" /\ names' = names /\ deliv' = Delivered
        /\ par'.base = par.base /\ par'.setup = par.setup /\ par'.first = par.first
        /\ par'.second = par.second
    BY <1>4 DEF ReceiveDescriptor
  <2>2. Delivered.refs <= 1
    BY <1>0 DEF Delivered, Hold, Nothing
  <2>3. par.first = "err"
    BY <2>1 DEF DelivInv, Before
  <2> QED
    BY <1>0, <2>1, <2>2, <2>3 DEF QuietParentInv
<1>5. CASE ReceiveFails
  BY <1>f, <1>5 DEF ReceiveFails
<1>6. CASE LookDelivered
  <2>1. PICK t, r \in Outcomes : LookDelivered!2!(t, r)
    BY <1>6 DEF LookDelivered
  <2>2. /\ pp = "look" /\ pp' \in {"first", "read"} /\ names' = names /\ deliv' = deliv
        /\ par'.base = par.base /\ par'.setup = par.setup /\ par'.first = par.first
        /\ par'.second = par.second /\ par'.look = LookAt(t, r, Seen(deliv))
    BY <1>6, <2>1 DEF LookDelivered
  <2>3. par.first = "err"
    BY <2>2 DEF DelivInv, Before
  <2>4. ASSUME pp' = "first"
        PROVE  par'.look.tkr = "ok" /\ par'.look.kind = "once" /\ OneRef(par'.look)
    <3>1. Seen(deliv).kind = "once"
      BY <2>1, <2>4
    <3>2. deliv.kind = "once" /\ Seen(deliv) = deliv
      BY <3>1 DEF Seen, Hold
    <3>3. Seen(deliv) = Hold("once", 1)
      BY <1>0, <2>2, <3>2, QuietUsed DEF DelivInv
    <3>4. LookCost(t, r, Hold("once", 1)) = 0
      BY <1>0, <1>d, <2>1, <3>3 DEF Spend
    <3> QED
      BY <2>2, <3>3, <3>4, LookOnce
  <2> QED
    BY <1>0, <2>2, <2>3, <2>4 DEF QuietParentInv, OneRef
<1>7. CASE VerifyFirst
  <2>1. PICK kr \in Outcomes : VerifyFirst!2!(kr)
    BY <1>7 DEF VerifyFirst
  <2>2. /\ pp = "first" /\ pp' = "again" /\ UNCHANGED <<names, cargo>>
        /\ par'.base = par.base /\ par'.setup = par.setup
        /\ par'.second = par.second /\ par'.look = par.look
    BY <1>7, <2>1 DEF VerifyFirst
  <2>3. cargo => par'.first = "ok"
    BY <1>0, <1>c, <1>d, <2>1 DEF Spend
  <2>4. deliv'.refs <= 1
    <3>1. deliv = Fresh /\ deliv' \in {deliv, Used(deliv)} /\ deliv.refs <= 1
      BY <1>0, <2>1, <2>2 DEF DelivInv, QuietParentInv
    <3>2. Spent.refs <= 1
      BY DEF Spent, Nothing, Hold
    <3> QED
      BY <1>0, <3>1, <3>2, QuietUsed
  <2> QED
    BY <1>0, <2>2, <2>3, <2>4 DEF QuietParentInv, OneRef
<1>8. CASE LookAfterFirst
  <2>1. PICK t, r \in Outcomes : LookAfterFirst!2!(t, r)
    BY <1>8 DEF LookAfterFirst
  <2>2. /\ pp = "again" /\ pp' = "second" /\ UNCHANGED <<names, cargo, deliv>>
        /\ par'.base = par.base /\ par'.setup = par.setup /\ par'.first = par.first
        /\ par'.second = par.second /\ par'.look = par.look
        /\ par'.again = LookAt(t, r, Seen(deliv))
    BY <1>8, <2>1 DEF LookAfterFirst
  <2>3. ASSUME par.first = "ok" PROVE Consumed(par'.again)
    <3>1. Seen(deliv) = Spent
      BY <1>0, <2>2, <2>3, QuietUsed DEF DelivInv
    <3>2. LookCost(t, r, Spent) = 0
      BY <1>0, <1>d, <2>1, <3>1 DEF Spend
    <3> QED
      BY <1>0, <2>2, <3>1, <3>2, LookSpent
  <2> QED
    BY <1>0, <2>2, <2>3 DEF QuietParentInv, OneRef, Consumed, ZeroOrAbsent
<1>9. CASE VerifySecond
  <2>1. /\ pp = "second" /\ pp' = "read" /\ UNCHANGED names
        /\ par'.base = par.base /\ par'.setup = par.setup /\ par'.first = par.first
        /\ par'.look = par.look /\ par'.again = par.again
    BY <1>9 DEF VerifySecond
  <2>2. ~(cargo /\ deliv.kind = "once")
    <3>1. CASE par.first = "ok"
      <4>1. deliv = Spent
        BY <1>0, <2>1, <3>1, QuietUsed DEF DelivInv
      <4> QED
        BY <4>1 DEF Spent, Nothing, Hold
    <3>2. CASE par.first # "ok"
      BY <1>0, <2>1, <3>2 DEF QuietParentInv
    <3> QED
      BY <3>1, <3>2
  <2>3. par'.second # "ok" /\ deliv' = deliv
    BY <1>0, <1>9, <2>2 DEF VerifySecond
  <2> QED
    BY <1>0, <2>1, <2>3 DEF QuietParentInv, OneRef, Consumed, ZeroOrAbsent
<1>10. CASE ReadStatus \/ Wait \/ Report
  BY <1>f, <1>10 DEF ReadStatus, Wait, Report
<1>11. CASE Cleanup
  <2>1. PICK d, s, b \in Outcomes : Cleanup!2!(d, s, b)
    BY <1>11 DEF Cleanup
  <2>2. Cost(b) = 0 /\ (deliv # Nothing => Cost(d) = 0) /\ (svc => Cost(s) = 0)
    BY <2>1, <1>0, <1>d DEF Spend
  <2>3. pp = "cleanup" /\ pp' = "judge" /\ UNCHANGED names
    BY <1>11 DEF Cleanup
  <2>4. deliv.refs <= 1 /\ par.base = names /\ deliv.refs \in Nat
    BY <1>0, <2>3 DEF QuietParentInv, Right
  <2>5. deliv' = Nothing
    BY <2>1, <2>2, <2>4, <1>c
  <2>6. ~svc'
    BY <2>1, <2>2, <1>0, <1>c
  <2>7. /\ par'.cleanup = BaselineCompare(par.base, Capture(b), deliv' = Nothing /\ ~svc')
        /\ par'.base = par.base /\ par'.look = par.look /\ par'.setup = par.setup
        /\ par'.first = par.first /\ par'.second = par.second /\ par'.again = par.again
    BY <2>1
  <2>8. par'.cleanup
    BY <2>2, <2>4, <2>5, <2>6, <2>7, <1>c DEF BaselineCompare, Capture
  <2>9. deliv'.refs <= 1
    BY <2>5 DEF Nothing, Hold
  <2> QED
    BY <1>0, <2>3, <2>4, <2>7, <2>8, <2>9 DEF QuietParentInv, OneRef, Consumed, ZeroOrAbsent
<1>12. CASE ChildStep \/ ChildKilled
  <2>1. UNCHANGED <<names, pp, par, deliv>>
    BY <1>12, ChildFrame
  <2>2. pp # "setup"
    BY <1>12, ChildMoves DEF ReapInv, ChildPoints
  <2>3. pp \in {"again", "second"} => (cargo' => cargo)
    BY <1>12, ChildMoves DEF ReapInv
  <2> QED
    BY <1>f, <2>1, <2>2, <2>3
<1>13. CASE ParentKilled
  BY <1>13, KillFrame DEF Quiet
<1>14. CASE UNCHANGED vars
  BY <1>14, <1>0 DEF vars, QuietParentInv, OneRef, Consumed, ZeroOrAbsent
<1> QED
  BY <1>1, <1>2, <1>3, <1>4, <1>5, <1>6, <1>7, <1>8, <1>9, <1>10, <1>11, <1>12, <1>13, <1>14
     DEF Next, ParentStep, Over

\* In a quiet run one message comes, the first one.
LEMMA QuietInboxStep == IInv /\ [Next]_vars => QuietInboxInv'
<1> SUFFICES ASSUME IInv, QuietInboxInv, [Next]_vars, Quiet' PROVE QuietInboxInv'
  BY DEF IInv, QuietInboxInv
<1>0. /\ Quiet /\ fault \in {"none", "dead_stays"} /\ pp # "killed"
      /\ TypeOK /\ ReapInv /\ DelivInv /\ InboxInv /\ QuietParentInv
  BY QuietBefore DEF Quiet, IInv
<1>d. fails' = fails /\ fails \in Nat
  BY <1>0, QuietBefore DEF TypeOK
<1>e. ~Spend(1)
  BY <1>d DEF Spend
<1>f. ASSUME st'.first = st.first, st'.second = st.second, st'.id = st.id,
             par'.first = par.first,
             cp' \in Waiting => cp \in Waiting /\ inbox' = inbox,
             cp' = "second" => cp = "second"
      PROVE  QuietInboxInv'
  <2>1. cp = "second" => cp \in Waiting
    BY DEF Waiting
  <2>2. cp' = "second" => cp' \in Waiting
    BY DEF Waiting
  <2> QED
    BY <1>0, <1>f, <2>1, <2>2 DEF QuietInboxInv
<1> USE DEF TypeOK, Parent, ParentUnchanged
<1>1. CASE ParentStep /\ ~VerifyFirst /\ ~VerifySecond
  <2>1. inbox' = inbox /\ par'.first = par.first
    BY <1>0, <1>1 DEF ParentStep, Setup, Fork, Restore, ReceiveDescriptor, ReceiveFails,
       LookDelivered, LookAfterFirst, ReadStatus, Wait, Cleanup, Report
  <2>2. st' = st /\ (cp' \in Waiting => cp \in Waiting) /\ (cp' = "second" => cp = "second")
    BY <1>0, <1>1, ParentFrame DEF ReapInv, Early, Listening, Waiting
  <2> QED
    BY <1>f, <2>1, <2>2
<1>2. CASE VerifyFirst
  <2>1. pp = "first" /\ UNCHANGED <<cp, st>>
    BY <1>2 DEF VerifyFirst
  <2>2. par.first = "err" /\ st.first # "ok"
    BY <1>0, <2>1 DEF DelivInv, Before, QuietInboxInv
  <2>3. cp \in Waiting => inbox' \in {<<>>, <<"first">>}
    BY <1>0, <1>2, PostStep
  <2>4. cp \in Waiting /\ inbox' # <<>> => par'.first = "ok"
    <3>1. cp \in Waiting => inbox = <<>>
      BY <1>0, <2>1 DEF InboxInv, Before
    <3> QED
      BY <1>0, <1>2, <3>1 DEF VerifyFirst
  <2> QED
    BY <2>1, <2>2, <2>3, <2>4 DEF QuietInboxInv
<1>3. CASE VerifySecond
  <2>1. pp = "second" /\ UNCHANGED <<cp, st>> /\ par'.first = par.first
    BY <1>0, <1>3 DEF VerifySecond
  <2>2. par'.second # "ok"
    BY QuietParentStep DEF QuietParentInv
  <2>3. inbox' = inbox
    BY <1>0, <1>3, <2>2 DEF VerifySecond
  <2> QED
    BY <1>f, <2>1, <2>3
<1>4. CASE ChildStep \/ ChildKilled
  <2>0. par' = par /\ (cp' \in Waiting => cp \in Waiting)
    BY <1>4, ChildFrame, ChildMoves
  <2>1. CASE ChildBegin \/ ChildMake \/ ChildSend
    <3>1. st'.first = st.first /\ st'.second = st.second /\ st'.id = st.id
      <4>1. CASE ChildBegin
        BY <1>0, <4>1 DEF ChildBegin, Status
      <4>2. CASE ChildMake
        BY <1>0, <4>2 DEF ChildMake, Status
      <4>3. CASE ChildSend
        BY <1>0, <4>3 DEF ChildSend, Status
      <4> QED
        BY <2>1, <4>1, <4>2, <4>3
    <3>2. inbox' = inbox /\ cp' # "second"
      BY <2>1 DEF ChildBegin, ChildMake, ChildSend
    <3> QED
      BY <1>f, <2>0, <3>1, <3>2
  <2>2. CASE ChildLookBefore \/ ChildLookAfter \/ ChildLookVerified
    BY <1>0, <1>f, <2>0, <2>2 DEF ChildLookBefore, ChildLookAfter, ChildLookVerified, Status
  <2>3. CASE ChildReceiveFirst
    <3>1. cp = "first" /\ cp' = "second" /\ cp \in Waiting /\ cp' \in Waiting
      BY <2>3 DEF ChildReceiveFirst, Early, Listening, Waiting
    <3>2. CASE inbox = <<>>
      <4>1. st'.first = "timeout" /\ inbox' = <<>>
        BY <1>0, <1>e, <2>3, <3>2 DEF ChildReceiveFirst, Status
      <4> QED
        BY <4>1 DEF QuietInboxInv
    <3>3. CASE inbox # <<>>
      <4>1. inbox = <<"first">> /\ par.first = "ok" /\ st.second = "err"
        BY <1>0, <3>1, <3>3 DEF QuietInboxInv, InboxInv
      <4>2. Head(inbox) = "first" /\ Tail(inbox) = <<>>
        BY <1>0, <3>3, <4>1, TailFacts
      <4>3. st'.id = "first" /\ st'.second = st.second /\ inbox' = <<>>
        <5>1. st' = [st EXCEPT !.first = "ok", !.id = "first"] /\ inbox' = <<>>
          BY <1>e, <2>3, <3>3, <4>2 DEF ChildReceiveFirst
        <5> QED
          BY <1>0, <5>1 DEF Status
      <4> QED
        BY <2>0, <4>1, <4>3 DEF QuietInboxInv
    <3> QED
      BY <3>2, <3>3
  <2>4. CASE ChildReceiveSecond
    <3>1. cp = "second" /\ cp' = "verified" /\ cp' \notin Waiting
      BY <2>4 DEF ChildReceiveSecond, Early, Listening, Waiting
    <3>2. /\ st'.first = st.first /\ st'.id = st.id
          /\ inbox = <<>> => st'.second = "timeout"
      BY <1>0, <1>e, <2>4 DEF ChildReceiveSecond, Status
    <3> QED
      BY <1>0, <2>0, <3>1, <3>2 DEF QuietInboxInv
  <2>5. CASE ChildCleanup
    <3>1. st'.first = st.first /\ st'.second = st.second /\ st'.id = st.id /\ cp' = "write"
      BY <1>0, <2>5 DEF ChildCleanup, Status
    <3> QED
      BY <1>f, <2>0, <3>1 DEF Early, Listening, Waiting
  <2>6. CASE ChildWrite \/ ChildExit \/ ChildKilled
    <3>1. st' = st /\ cp' \in {"exit", "exited"}
      BY <2>6 DEF ChildWrite, ChildExit, ChildKilled, ChildGone
    <3> QED
      BY <1>f, <2>0, <3>1 DEF Early, Listening, Waiting
  <2> QED
    BY <1>4, <2>1, <2>2, <2>3, <2>4, <2>5, <2>6 DEF ChildStep
<1>5. CASE ParentKilled
  BY <1>5, KillFrame DEF Quiet
<1>6. CASE UNCHANGED vars
  BY <1>f, <1>6 DEF vars
<1> QED
  BY <1>1, <1>2, <1>3, <1>4, <1>5, <1>6 DEF Next, ParentStep, Over

\* In a quiet run the child skips no call.
LEMMA QuietChildStep == IInv /\ [Next]_vars => QuietChildInv'
<1> SUFFICES ASSUME IInv, QuietChildInv, [Next]_vars, Quiet' PROVE QuietChildInv'
  BY DEF IInv, QuietChildInv
<1>0. /\ Quiet /\ fails' = fails /\ fails \in Nat /\ fault \in {"none", "dead_stays"}
      /\ pp # "killed" /\ st \in Status
  BY QuietBefore DEF Quiet, IInv, TypeOK
<1>c. \A kr \in Outcomes : Cost(kr) = 0 => kr = "ok"
  BY CostType
<1>d. /\ \A kr : Cost(kr) \in {0, 1}
      /\ \A t, r, h : LookCost(t, r, h) \in 0..2
  BY CostType, LookCostType
<1>g. ChildStep \/ ChildKilled => UNCHANGED names
  BY ChildFrame
<1>h. cp \notin {"exit", "exited", "reaped"} => ~pipe.full
  BY DEF IInv, StatusInv
<1> USE DEF ChildUnchanged, Early, Listening, Waiting
<1>1. CASE ParentStep
  <2>1. pipe'.full = pipe.full
    BY <1>1 DEF ParentStep, Setup, Fork, Restore, ReceiveDescriptor, ReceiveFails,
       LookDelivered, VerifyFirst, LookAfterFirst, VerifySecond, ReadStatus, Wait, Cleanup,
       Report, IInv, TypeOK
  <2>2. UNCHANGED <<names, st, cargo>>
    BY <1>1, ParentFrame
  <2>3. \/ cp' = cp
        \/ cp = "none" /\ cp' = "begin"
        \/ cp = "exited" /\ cp' = "reaped"
    BY <1>1, ParentFrame DEF IInv, ReapInv
  <2> QED
    BY <1>0, <1>h, <2>1, <2>2, <2>3 DEF QuietChildInv, Past, ChildPoints, OneRef, Consumed, ZeroOrAbsent
<1>2. CASE ChildBegin
  <2>1. PICK g, b \in Outcomes : ChildBegin!2!(g, b)
    BY <1>2 DEF ChildBegin
  <2>2. g = "ok" /\ b = "ok"
    BY <2>1, <1>0, <1>c, <1>d DEF Spend
  <2>3. st'.boot = "ok" /\ st'.base = names
    BY <1>0, <2>1, <2>2 DEF Status, Capture
  <2>4. cp' = "make" /\ ~pipe'.full
    BY <1>2, <1>h, <2>1, <2>2 DEF ChildBegin
  <2> QED
    BY <2>3, <2>4, <1>2, <1>g DEF QuietChildInv, Past, ChildPoints, ChildStep
<1>3. CASE ChildMake
  <2>1. PICK a, t, x \in Outcomes : ChildMake!2!(a, t, x)
    BY <1>3 DEF ChildMake
  <2>2. a = "ok" /\ t = "ok" /\ x = "ok"
    <3>1. a # "err" /\ t # "err"
      BY <2>1, <1>0, <1>d DEF Spend
    <3>2. Cost(x) = 0
      BY <2>1, <3>1, <1>0, <1>d DEF Spend
    <3> QED
      BY <3>1, <3>2, <1>c DEF Outcomes
  <2>3. /\ st'.alloc = "ok" /\ st'.ckr = "ok" /\ st'.ctype = "receive" /\ st'.extract = "ok"
        /\ st'.boot = st.boot /\ st'.base = st.base
    BY <1>0, <2>1, <2>2 DEF Status
  <2>4. cargo'
    BY <2>1, <2>2
  <2>5. cp = "make" /\ cp' = "before" /\ ~pipe'.full
    BY <1>3, <1>h, <2>1, <2>2 DEF ChildMake
  <2> QED
    BY <2>3, <2>4, <2>5, <1>0, <1>3, <1>g DEF QuietChildInv, Past, ChildPoints, ChildStep
<1>4. CASE ChildLookBefore
  <2>1. PICK t, r \in Outcomes : ChildLookBefore!2!(t, r)
    BY <1>4 DEF ChildLookBefore
  <2>2. once = Hold("once", 1)
    BY <1>0, <1>4 DEF ChildLookBefore, IInv, RightInv
  <2>3. LookCost(t, r, Hold("once", 1)) = 0
    BY <1>0, <1>d, <2>1, <2>2 DEF Spend
  <2>4. /\ st'.before = LookAt(t, r, Hold("once", 1))
        /\ st'.boot = st.boot /\ st'.base = st.base /\ st'.alloc = st.alloc /\ st'.ckr = st.ckr
        /\ st'.ctype = st.ctype /\ st'.extract = st.extract
    BY <1>0, <2>1, <2>2 DEF Status
  <2>5. t = "ok" /\ st'.before.tkr = "ok" /\ st'.before.kind = "once" /\ OneRef(st'.before)
    BY <2>3, <2>4, LookOnce
  <2>6. cp = "before" /\ cp' = "send" /\ ~pipe'.full /\ cargo' = cargo
    BY <1>4, <1>h, <2>1, <2>5 DEF ChildLookBefore
  <2> QED
    BY <2>4, <2>5, <2>6, <1>0, <1>4, <1>g DEF QuietChildInv, Past, ChildPoints, ChildStep, OneRef
<1>5. CASE ChildSend
  <2>1. PICK kr \in Outcomes : ChildSend!2!(kr)
    BY <1>5 DEF ChildSend
  <2>2. kr = "ok"
    BY <2>1, <1>0, <1>c, <1>d DEF Spend
  <2>3. once.kind = "once"
    BY <1>0, <1>5 DEF ChildSend, IInv, RightInv, Hold
  <2>4. svc
    <3>1. cp = "send"
      BY <1>5 DEF ChildSend
    <3>2. pp \in Before \cup {"again", "second", "read", "wait"}
      BY <1>0, <3>1 DEF IInv, TypeOK, ReapInv, Before
    <3>3. pp # "setup"
      BY <3>1 DEF IInv, ReapInv
    <3> QED
      BY <1>0, <3>2, <3>3 DEF IInv, CleanInv, QuietParentInv
  <2>5. st' = [st EXCEPT !.send = "ok"] /\ cp' = "after"
    BY <2>1, <2>2, <2>3, <2>4
  <2>6. cp = "send" /\ ~pipe'.full /\ cargo' = cargo
    BY <1>5, <1>h DEF ChildSend
  <2>7. /\ st'.send = "ok" /\ st'.before = st.before
        /\ st'.boot = st.boot /\ st'.base = st.base /\ st'.alloc = st.alloc /\ st'.ckr = st.ckr
        /\ st'.ctype = st.ctype /\ st'.extract = st.extract
    BY <1>0, <2>5 DEF Status
  <2> QED
    BY <2>5, <2>6, <2>7, <1>0, <1>5, <1>g DEF QuietChildInv, Past, ChildPoints, ChildStep, OneRef
<1>6. CASE ChildLookAfter
  <2>1. PICK t, r \in Outcomes : ChildLookAfter!2!(t, r)
    BY <1>6 DEF ChildLookAfter
  <2>2. once = Spent
    BY <1>0, <1>6 DEF ChildLookAfter, IInv, RightInv
  <2>3. LookCost(t, r, Spent) = 0
    BY <1>0, <1>d, <2>1, <2>2 DEF Spend
  <2>4. st' = [st EXCEPT !.after = LookAt(t, r, Spent)]
    BY <2>1, <2>2
  <2>5. Consumed(st'.after)
    BY <1>0, <2>3, <2>4, LookSpent DEF Status
  <2>6. cp = "after" /\ cp' = "first" /\ ~pipe'.full /\ cargo' = cargo
    BY <1>6, <1>h DEF ChildLookAfter
  <2>7. /\ st'.send = st.send /\ st'.before = st.before
        /\ st'.boot = st.boot /\ st'.base = st.base /\ st'.alloc = st.alloc /\ st'.ckr = st.ckr
        /\ st'.ctype = st.ctype /\ st'.extract = st.extract
    BY <1>0, <2>4 DEF Status
  <2> QED
    BY <2>5, <2>6, <2>7, <1>0, <1>6, <1>g
       DEF QuietChildInv, Past, ChildPoints, ChildStep, OneRef, Consumed, ZeroOrAbsent
<1>7. CASE ChildReceiveFirst \/ ChildReceiveSecond
  <2>0. ~Spend(1)
    BY <1>0 DEF Spend
  <2>1. /\ \/ cp = "first" /\ cp' = "second" /\ st'.first \in {"ok", "timeout"}
           \/ /\ cp = "second" /\ cp' = "verified" /\ st'.second \in {"ok", "timeout"}
              /\ st'.first = st.first
        /\ ~pipe'.full /\ cargo' = cargo
    <3>1. CASE ChildReceiveFirst
      <4>1. st'.first \in {"ok", "timeout"}
        BY <1>0, <2>0, <3>1 DEF ChildReceiveFirst, Status
      <4> QED
        BY <1>h, <3>1, <4>1 DEF ChildReceiveFirst
    <3>2. CASE ChildReceiveSecond
      <4>1. st'.second \in {"ok", "timeout"} /\ st'.first = st.first
        BY <1>0, <2>0, <3>2 DEF ChildReceiveSecond, Status
      <4> QED
        BY <1>h, <3>2, <4>1 DEF ChildReceiveSecond
    <3> QED
      BY <1>7, <3>1, <3>2
  <2>2. /\ st'.send = st.send /\ st'.before = st.before /\ st'.after = st.after
        /\ st'.boot = st.boot /\ st'.base = st.base /\ st'.alloc = st.alloc /\ st'.ckr = st.ckr
        /\ st'.ctype = st.ctype /\ st'.extract = st.extract
    BY <1>0, <1>7 DEF ChildReceiveFirst, ChildReceiveSecond, Status
  <2> QED
    BY <2>1, <2>2, <1>0, <1>7, <1>g
       DEF QuietChildInv, Past, ChildPoints, ChildStep, OneRef, Consumed, ZeroOrAbsent
<1>8. CASE ChildLookVerified
  <2>1. PICK t \in Outcomes : Spend(Cost(t)) /\ st' = [st EXCEPT !.verified = t]
    BY <1>8 DEF ChildLookVerified
  <2>2. t = "ok"
    BY <2>1, <1>0, <1>c, <1>d DEF Spend
  <2>3. cp = "verified" /\ cp' = "clean" /\ ~pipe'.full /\ cargo' = cargo
    BY <1>8, <1>h DEF ChildLookVerified
  <2>4. /\ st'.verified = "ok" /\ st'.send = st.send /\ st'.before = st.before
        /\ st'.after = st.after /\ st'.first = st.first /\ st'.second = st.second
        /\ st'.boot = st.boot /\ st'.base = st.base /\ st'.alloc = st.alloc /\ st'.ckr = st.ckr
        /\ st'.ctype = st.ctype /\ st'.extract = st.extract
    BY <1>0, <2>1, <2>2 DEF Status
  <2> QED
    BY <2>3, <2>4, <1>0, <1>8, <1>g
       DEF QuietChildInv, Past, ChildPoints, ChildStep, OneRef, Consumed, ZeroOrAbsent
<1>9. CASE ChildCleanup
  <2>1. PICK o, d, b \in Outcomes : ChildCleanup!2!(o, d, b)
    BY <1>9 DEF ChildCleanup
  <2>2. cp = "clean" /\ cp' = "write" /\ ~pipe'.full
    BY <1>9, <1>h DEF ChildCleanup
  <2>3. cargo /\ st.base = names
    BY <1>0, <2>2 DEF QuietChildInv, Past, ChildPoints
  <2>4. Cost(b) = 0 /\ (once # Nothing => Cost(o) = 0) /\ Cost(d) = 0
    BY <2>1, <2>3, <1>0, <1>d DEF Spend
  <2> DEFINE left == IF o = "ok" THEN Nothing ELSE once
             x == IF cargo THEN d ELSE "err"
             c == BaselineCompare(st.base, Capture(b), left = Nothing /\ (cargo => d = "ok"))
             s == [st EXCEPT !.destroy = x, !.baseAfter = Capture(b), !.cleanup = c]
  <2>5. x = "ok" /\ Capture(b) = names /\ left = Nothing
    BY <2>3, <2>4, <1>c DEF Capture
  <2>6. names \in {"ok", "gap"} /\ d = "ok"
    BY <2>4, <1>c DEF IInv, TypeOK
  <2>7. c
    BY <2>3, <2>5, <2>6 DEF BaselineCompare
  <2>8. st' = [s EXCEPT !.exit = IF AllCallsOk(s) THEN 0 ELSE 1]
    BY <2>1
  <2> HIDE DEF x, c, left
  <2>9. /\ st'.destroy = x /\ st'.baseAfter = Capture(b) /\ st'.cleanup = c
        /\ st'.verified = st.verified /\ st'.send = st.send /\ st'.before = st.before
        /\ st'.after = st.after /\ st'.first = st.first /\ st'.second = st.second
        /\ st'.boot = st.boot /\ st'.base = st.base /\ st'.alloc = st.alloc /\ st'.ckr = st.ckr
        /\ st'.ctype = st.ctype /\ st'.extract = st.extract
    BY <1>0, <2>8 DEF Status
  <2> QED
    BY <2>2, <2>5, <2>7, <2>9, <1>0, <1>9, <1>g
       DEF QuietChildInv, Past, ChildPoints, ChildStep, OneRef, Consumed, ZeroOrAbsent
<1>10. CASE ChildWrite
  <2>1. cp = "write" /\ cp' = "exit" /\ UNCHANGED st
    BY <1>10 DEF ChildWrite
  <2> QED
    BY <2>1, <1>0, <1>10, <1>g
       DEF QuietChildInv, Past, ChildPoints, ChildStep, OneRef, Consumed, ZeroOrAbsent
<1>11. CASE ChildExit \/ ChildKilled
  <2>1. cp' = "exited" /\ UNCHANGED <<st, names>> /\ pipe'.full = pipe.full
    BY <1>11 DEF ChildExit, ChildKilled, ChildGone, IInv, TypeOK
  <2> QED
    BY <2>1, <1>0 DEF QuietChildInv, Past, ChildPoints, OneRef, Consumed, ZeroOrAbsent
<1>12. CASE ParentKilled
  BY <1>12, KillFrame DEF Quiet
<1>13. CASE UNCHANGED vars
  BY <1>0, <1>13 DEF vars, QuietChildInv, Past, OneRef, Consumed, ZeroOrAbsent
<1> QED
  BY <1>1, <1>2, <1>3, <1>4, <1>5, <1>6, <1>7, <1>8, <1>9, <1>10, <1>11, <1>12, <1>13
     DEF Next, ChildStep, Over

\* The inductive invariant holds at the start.
LEMMA InitInv == Init => IInv
<1> SUFFICES ASSUME Init PROVE IInv
  OBVIOUS
<1>1. TypeOK
  BY InitTypeOK
<1>2. StatusInv /\ ReapInv /\ RightInv /\ VerdictInv
  BY DEF Init, StatusInv, ReapInv, RightInv, VerdictInv, InitialParent, Early
<1>3. SeenInv /\ DelivInv /\ LateInv
  BY DEF Init, SeenInv, DelivInv, LateInv, InitialParent, PresetStatus, NoLook, ZeroOrAbsent,
     Nothing, Hold, Before
<1>4. InboxInv /\ CleanInv
  BY DEF Init, InboxInv, CleanInv, InitialParent, PresetStatus
<1>5. ExitInv
  BY DEF Init, ExitInv, PresetStatus, AllCallsOk
<1>6. QuietParentInv /\ QuietInboxInv /\ QuietChildInv
  BY DEF Init, QuietParentInv, QuietInboxInv, QuietChildInv, InitialParent, PresetStatus,
     Nothing, Hold, Past, ChildPoints
<1> QED
  BY <1>1, <1>2, <1>3, <1>4, <1>5, <1>6 DEF IInv

\* Every step preserves the inductive invariant.
LEMMA InvStep == IInv /\ [Next]_vars => IInv'
<1> SUFFICES ASSUME IInv, [Next]_vars PROVE IInv'
  OBVIOUS
<1>1. TypeOK'
  BY TypeStep DEF IInv
<1> QED
  BY <1>1, StatusStep, ReapStep, RightStep, SeenStep, DelivStep, LateStep, InboxStep,
     CleanStep, ExitStep, VerdictStep, QuietParentStep, QuietInboxStep, QuietChildStep
     DEF IInv

\* The inductive invariant holds throughout.
THEOREM Invariance == Spec => []IInv
  BY InitInv, InvStep, PTL DEF Spec

-----------------------------------------------------------------------------
(* What a PASS is worth.                                                   *)

\* What the chain of tests has established when it comes out as PASS.
LEMMA PassMeans ==
  ASSUME IInv, verdict = Pass
  PROVE  /\ pp = "done" /\ Established(par) /\ par.cleanup
         /\ st.ctype = "receive" /\ st.before.kind = "once" /\ MovedOnce(par, st)
<1>1. pp = "done" /\ verdict = Verdict(par, child)
  BY DEF IInv, VerdictInv, NoVerdict, Pass, Is
<1>2. /\ Established(par) /\ child.ctype = "receive" /\ child.before.kind = "once"
      /\ MovedOnce(par, child) /\ par.statusRead /\ par.cleanup
  BY <1>1 DEF Verdict, Pass, ProbeFailure, Accuse, Unclean, Is
<1>3. child = st
  BY <1>2 DEF IInv, StatusInv
<1> QED
  BY <1>1, <1>2, <1>3

\* Each test that a PASS has come through excludes deviations of the kernel; those of
\* Lateness it excludes only while the cargo port is there.
LEMMA PassExcludes ==
  ASSUME IInv, verdict = Pass
  PROVE  /\ fault \in Overlooked \cup Lateness
         /\ par.prompt => fault \in Overlooked \/ (fault = "phantom" /\ ~par.answered)
<1>1. fault \in Faults /\ names \in {"ok", "gap"}
  BY DEF IInv, TypeOK
<1>2. fault \notin {"fresh_send", "made_send", "kept"}
  BY PassMeans DEF IInv, SeenInv, MovedOnce, Consumed
<1>3. fault \notin {"null", "as_send"}
  BY PassMeans DEF IInv, DelivInv, Established, MovedOnce
<1>4. fault \notin {"deaf", "echo", "notifies"}
  BY PassMeans DEF IInv, InboxInv, MovedOnce, UsableOnce
<1>5. names = "ok" => fault # "name_stays"
  BY PassMeans DEF IInv, CleanInv, Established
<1>6. par.prompt => fault \notin {"two_refs", "reusable"} /\ (par.answered => fault # "phantom")
  BY PassMeans DEF IInv, LateInv, MovedOnce, UsableOnce, Consumed, Lateness
<1> QED
  BY <1>1, <1>2, <1>3, <1>4, <1>5, <1>6 DEF Overlooked, Lateness, Faults

\* If the second message was sent while the cargo port was still there, a PASS is given
\* only to a kernel that conforms in everything the probe looks at, or to one that lets the
\* second message through unseen and whose second mach_msg failed of its own, which line
\* 666 takes for the refusal: under any number of failing calls and killed processes.
THEOREM PassSound == Spec => []PassIsSound
<1>1. IInv => PassIsSound
  BY PassExcludes DEF PassIsSound
<1> QED
  BY <1>1, Invariance, PTL

\* A PASS leaves the parent's bootstrap port as it was and, where mach_port_names can
\* tell, no right of the service, cargo or send-once port in either task.
THEOREM PassClean == Spec => []PassIsClean
<1>1. IInv => PassIsClean
  <2> SUFFICES ASSUME IInv, verdict = Pass
               PROVE  /\ boot = "original"
                      /\ names = "ok" => ~svc /\ ~cargo /\ once = Nothing /\ deliv = Nothing
    BY DEF PassIsClean
  <2>1. boot = "original"
    BY PassMeans DEF IInv, CleanInv, Established
  <2>2. cp = "reaped"
    BY PassMeans DEF IInv, ReapInv, Established
  <2>3. ~cargo /\ once = Nothing
    BY <2>2 DEF IInv, RightInv
  <2>4. names = "ok" => ~svc /\ deliv = Nothing
    BY PassMeans DEF IInv, CleanInv
  <2> QED
    BY <2>1, <2>3, <2>4
<1> QED
  BY <1>1, Invariance, PTL

-----------------------------------------------------------------------------
(* What an accusation is worth.                                            *)

\* In a quiet run whose child wrote its status and whose first receive did not time out,
\* every test of the verdict chain that could accuse the kernel comes out in its favour.
LEMMA QuietMeans ==
  ASSUME IInv, Quiet, pp = "done", par.statusRead, st.first # "timeout"
  PROVE  /\ st.ckr = "ok" /\ st.ctype = "receive"
         /\ st.before.tkr = "ok" /\ st.before.kind = "once" /\ OneRef(st.before)
         /\ MovedOnce(par, st) /\ st.exit = 0 /\ st.cleanup /\ par.cleanup
<1>1. pipe.full
  BY DEF IInv, StatusInv
<1>2. /\ st.base = names /\ st.boot = "ok" /\ st.alloc = "ok" /\ st.ckr = "ok"
      /\ st.ctype = "receive" /\ st.extract = "ok"
      /\ st.before.tkr = "ok" /\ st.before.kind = "once" /\ OneRef(st.before)
      /\ st.send = "ok" /\ Consumed(st.after) /\ st.first = "ok"
      /\ st.second \in {"ok", "timeout"} /\ st.verified = "ok"
      /\ st.destroy = "ok" /\ st.baseAfter = names /\ st.cleanup
  BY <1>1 DEF IInv, QuietChildInv, Past
<1>3. par.first = "ok" /\ st.id = "first" /\ st.second = "timeout"
  BY <1>2 DEF IInv, QuietInboxInv
<1>4. /\ par.look.tkr = "ok" /\ par.look.kind = "once" /\ OneRef(par.look)
      /\ Consumed(par.again) /\ par.second # "ok" /\ par.cleanup
  BY <1>3 DEF IInv, QuietParentInv
<1>5. MovedOnce(par, st)
  BY <1>2, <1>3, <1>4 DEF MovedOnce, UsableOnce
<1>6. names \in {"ok", "gap"}
  BY DEF IInv, TypeOK
<1>7. AllCallsOk(st)
  BY <1>2, <1>3, <1>6 DEF AllCallsOk, Blocks
<1>8. st.exit = 0
  BY <1>7 DEF IInv, ExitInv
<1> QED
  BY <1>2, <1>4, <1>5, <1>8

\* FAIL / exact_contract of a child whose status was read and whose first receive did not
\* time out is never given to a conforming kernel none of whose calls failed, however the
\* two processes interleave.
THEOREM AccusationJustified == Spec => []AccusationIsJustified
<1>1. IInv => AccusationIsJustified
  <2> SUFFICES ASSUME IInv, verdict = Accuse, par.statusRead, child.first # "timeout",
                      fault \in {"none", "dead_stays"}, ~(fails < MaxFails)
               PROVE  FALSE
    BY DEF AccusationIsJustified
  <2>1. child = st /\ pp = "done" /\ verdict = Verdict(par, child)
    BY DEF IInv, StatusInv, VerdictInv, NoVerdict, Accuse, Is
  <2>2. Quiet
    BY <2>1 DEF IInv, TypeOK, Quiet
  <2>3. /\ child.ckr = "ok" /\ child.ctype = "receive"
        /\ child.before.tkr = "ok" /\ child.before.kind = "once" /\ OneRef(child.before)
        /\ MovedOnce(par, child) /\ child.exit = 0 /\ child.cleanup /\ par.cleanup
    BY <2>1, <2>2, QuietMeans
  <2> QED
    BY <2>1, <2>3 DEF Verdict, Accuse, ProbeFailure, Unclean, Pass, Is
<1> QED
  BY <1>1, Invariance, PTL

-----------------------------------------------------------------------------
(* The refinement of OracleProbe, its safety part.                         *)

\* Everything the contract allows, but for its fairness.
ContractSafety == Contract!Init /\ [][Contract!Next]_(Contract!vars)

\* A pass is deserved, and the outcome seen from outside.
Deserved == fault \in Overlooked \cup Lateness
OutcomeState == IF pp = "killed" THEN "killed" ELSE verdict.status

\* A pass, prompt or late, is deserved.
PassIsDeserved == verdict = Pass => Deserved

\* The invariant makes it so.
LEMMA InvDeserved == IInv => PassIsDeserved
  BY PassExcludes DEF PassIsDeserved, Deserved

\* The initial states of the probe are initial states of the contract.
LEMMA RefinesInit == Init => Contract!Init
  BY DEF Init, Contract!Init, HelperState, NoVerdict, Is

\* The kernel under test does not change, so neither does what it deserves.
LEMMA DeservedStays == UNCHANGED <<fault, names>> => (Deserved' <=> Deserved)
  BY DEF Deserved, Overlooked, Lateness

\* A step of the probe that leaves child and outcome as they are is none of the
\* contract's.
LEMMA Stutters ==
  ASSUME UNCHANGED <<fault, names, verdict>>, HelperState' = HelperState,
         pp' = pp \/ (pp # "killed" /\ pp' # "killed")
  PROVE  UNCHANGED Contract!vars
  BY DeservedStays DEF Contract!vars, Deserved

\* Every step of the probe is a step of the contract or leaves its state alone.
LEMMA RefinesNext == IInv /\ [Next]_vars => [Contract!Next]_(Contract!vars)
<1> SUFFICES ASSUME IInv, [Next]_vars PROVE [Contract!Next]_(Contract!vars)
  OBVIOUS
<1>0. IInv'
  BY InvStep
<1>1. CASE ParentStep /\ ~Fork /\ ~Report
  <2>1. UNCHANGED verdict /\ pp # "fork" /\ pp # "killed" /\ pp' # "killed"
    BY <1>1 DEF ParentStep, Setup, Restore, ReceiveDescriptor, ReceiveFails, LookDelivered,
       VerifyFirst, LookAfterFirst, VerifySecond, ReadStatus, Wait, Cleanup
  <2>2. HelperState' = HelperState
    BY <1>1, <2>1, ParentFrame DEF HelperState
  <2> QED
    BY <1>1, <2>1, <2>2, ParentFrame, Stutters
<1>2. CASE Fork
  <2>1. /\ pp = "fork" /\ pp' = "restore" /\ UNCHANGED <<fault, names, verdict>>
        /\ verdict = NoVerdict /\ cp = "none" /\ cp' \in {"none", "begin"}
    BY <1>2 DEF Fork, ParentUnchanged, IInv, VerdictInv, ReapInv
  <2>2. CASE cp' = "none"
    BY <2>1, <2>2, Stutters DEF HelperState
  <2>3. CASE cp' = "begin"
    <3>1. HelperState = "none" /\ HelperState' = "running"
      BY <2>1, <2>3 DEF HelperState
    <3>2. OutcomeState = "none" /\ OutcomeState' = "none"
      BY <2>1 DEF OutcomeState, NoVerdict, Is
    <3>3. Contract!Spawn
      BY <2>1, <3>1, <3>2, DeservedStays DEF Contract!Spawn, OutcomeState, Deserved
    <3> QED
      BY <3>3 DEF Contract!Next
  <2> QED
    BY <2>1, <2>2, <2>3
<1>3. CASE Report
  <2>1. /\ pp = "judge" /\ pp' = "done" /\ UNCHANGED <<fault, names, cp>>
        /\ verdict = NoVerdict /\ verdict' = Verdict(par, child)
        /\ cp \in {"none", "reaped"}
    BY <1>3 DEF Report, ParentUnchanged, IInv, VerdictInv, ReapInv
  <2>2. HelperState' = HelperState /\ HelperState # "running"
    BY <2>1 DEF HelperState
  <2>3. OutcomeState = "none" /\ OutcomeState' = verdict'.status
    BY <2>1 DEF OutcomeState, NoVerdict, Is
  <2>4. verdict'.status \in {"pass", "fail", "probe_failure"}
    BY <2>1 DEF Verdict, ProbeFailure, Accuse, Unclean, Pass, Is
  <2>5. verdict'.status = "pass" => Deserved
    <3>1. PassIsDeserved'
      BY <1>0, InvDeserved, PTL
    <3>2. verdict'.status = "pass" => verdict' = Pass
      BY <2>1 DEF Verdict, ProbeFailure, Accuse, Unclean, Pass, Is
    <3> QED
      BY <2>1, <3>1, <3>2, DeservedStays DEF PassIsDeserved, Pass
  <2>6. Contract!Conclude
    BY <2>1, <2>2, <2>3, <2>4, <2>5, DeservedStays
       DEF Contract!Conclude, Contract!Outcomes, OutcomeState, Deserved
  <2> QED
    BY <2>6 DEF Contract!Next
<1>4. CASE ChildStep /\ ~ChildExit
  <2>1. cp \in ChildPoints /\ cp' \in ChildPoints
    BY <1>4 DEF ChildStep, ChildPoints, ChildBegin, ChildMake, ChildLookBefore, ChildSend,
       ChildLookAfter, ChildReceiveFirst, ChildReceiveSecond, ChildLookVerified, ChildCleanup,
       ChildWrite
  <2>2. HelperState' = HelperState
    BY <2>1 DEF HelperState, ChildPoints
  <2> QED
    BY <1>4, <2>2, ChildFrame, Stutters
<1>5. CASE ChildExit \/ ChildKilled
  <2>1. cp \in ChildPoints /\ cp' = "exited"
    BY <1>5 DEF ChildExit, ChildKilled, ChildGone, ChildPoints
  <2>2. HelperState = "running" /\ HelperState' = "gone"
    BY <2>1 DEF HelperState, ChildPoints
  <2>3. UNCHANGED <<fault, names, pp, verdict>>
    BY <1>5, ChildFrame DEF ChildStep
  <2>4. OutcomeState' = OutcomeState
    BY <2>3 DEF OutcomeState
  <2>5. Contract!HelperEnds
    BY <2>2, <2>3, <2>4, DeservedStays DEF Contract!HelperEnds, OutcomeState, Deserved
  <2> QED
    BY <2>5 DEF Contract!Next
<1>6. CASE ParentKilled
  <2>1. /\ pp \notin {"done", "killed"} /\ pp' = "killed" /\ verdict = NoVerdict
        /\ UNCHANGED <<fault, names, cp>>
    BY <1>6, KillFrame DEF ParentKilled, IInv, VerdictInv
  <2>2. HelperState' = HelperState
    BY <2>1 DEF HelperState
  <2>3. OutcomeState = "none" /\ OutcomeState' = "killed"
    BY <2>1 DEF OutcomeState, NoVerdict, Is
  <2>4. Contract!Killed
    BY <2>1, <2>2, <2>3, DeservedStays DEF Contract!Killed, OutcomeState, Deserved
  <2> QED
    BY <2>4 DEF Contract!Next
<1>7. CASE UNCHANGED vars
  <2>1. UNCHANGED <<fault, names, verdict, pp>> /\ HelperState' = HelperState
    BY <1>7 DEF vars, HelperState
  <2> QED
    BY <2>1, Stutters
<1> QED
  BY <1>1, <1>2, <1>3, <1>4, <1>5, <1>6, <1>7 DEF Next, Over

\* The send-once probe implements the contract of OracleProbe as far as safety goes: one
\* final outcome, reported with no helper running, "pass" only when deserved.
THEOREM RefinesContract == Spec => ContractSafety
  BY InitInv, InvStep, RefinesInit, RefinesNext, Invariance, PTL DEF Spec, ContractSafety
=============================================================================
