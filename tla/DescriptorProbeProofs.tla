----------------------- MODULE DescriptorProbeProofs -----------------------
(***************************************************************************)
(* TLAPS proofs about DescriptorProbe, for both dispositions and for any   *)
(* number of failing kernel calls and killed processes.                    *)
(***************************************************************************)
EXTENDS DescriptorProbe, TLAPS

-----------------------------------------------------------------------------
(* The inductive invariant.                                                *)

\* The sender's references once its right has gone out, and once the verify
\* message has come back.
Left == AfterSend(disp, fault, 1)
LeftVerified == IF st.recv = "ok" THEN AfterVerify(fault, Left) ELSE Left

\* A look, as far as its calls succeeded, shows a receive right and refs references.
Shows(look, refs) ==
  /\ look.tkr = "ok" => look.type = TypeOf(TRUE, refs)
  /\ look.rkr = "ok" => look.refs = refs
  /\ look.rkr = "absent" => refs = 0

\* The parent's copy of the status is cleared, or is what the child wrote; the
\* child writes last, so the struct in the pipe is final.
StatusInv ==
  /\ pipe.full => cp \in {"exit", "exited", "reaped"}
  /\ ~par.statusRead => child = ClearedStatus
  /\ par.statusRead => pipe.full /\ child = st

\* The rights under the cargo name at each control point of the child.
CargoInv ==
  /\ cp \in {"none", "begin", "make", "exited", "reaped"} => cargo = NoCargo
  /\ cp \in {"before", "send"} => cargo = [recv |-> TRUE, refs |-> 1]
  /\ cp \in {"after", "recv"} => cargo.recv /\ cargo.refs = Left
  /\ cp = "verified" => cargo.recv /\ cargo.refs = LeftVerified

\* The child's looks are true: each shows the rights at its time.
LookInv ==
  /\ cp \in {"none", "begin", "make", "before", "send", "after", "recv"} =>
       st.verified = NoLook
  /\ Shows(st.before, 1)
  /\ Shows(st.after, Left)
  /\ Shows(st.verified, LeftVerified)

\* Through a deaf right nothing is ever received.
DeafInv == fault = "deaf" => q.cargo = 0 /\ st.recv # "ok"

\* The exit code and the cleanup flag of the child mean what they say.
ExitInv ==
  /\ cp \in {"none", "begin", "make", "before", "send", "after", "recv", "verified",
             "clean"} => st.exit = 1 /\ ~st.cleanup
  /\ names = "ok" => st.base # "gap"
  /\ st.exit = 0 <=> AllCallsOk(st)
  /\ st.cleanup /\ st.destroy = "ok" /\ names = "ok" => fault # "name_stays"

\* The parent saw a send right under the delivered name.
SawRight == par.look.rkr = "ok" /\ par.look.refs >= 1

\* What the parent holds under the delivered name.
DeliveryInv ==
  /\ pp \in {"setup", "fork", "restore", "receive", "look"} => par.look = NoLook
  /\ pp = "look" => deliv \in {0, Delivered(fault)}
  /\ SawRight => fault # "not_send"
  /\ SawRight /\ pp \in {"verify", "read", "wait", "cleanup"} => deliv = Delivered(fault)
  /\ SawRight /\ par.dealloc = "ok" /\ pp \in {"judge", "done"} =>
       deliv = AfterDealloc(fault, Delivered(fault))

\* The parent's final comparison and its bootstrap port.
CleanInv ==
  /\ names = "ok" => par.base # "gap"
  /\ par.cleanup /\ names = "ok" /\ pp \in {"judge", "done"} => deliv = 0 /\ ~svc
  /\ par.restored = "ok" => boot.parent = "original"
  /\ pp \in {"setup", "fork", "restore"} => par.restored = "err"

\* Where the child is at each control point of the parent.
ReapInv ==
  /\ pp \in {"setup", "fork"} => cp = "none" /\ ~par.forked
  /\ pp \in {"receive", "look", "verify", "read", "wait"} => par.forked
  /\ pp \in {"restore", "receive", "look", "verify", "read", "wait"} =>
       IF par.forked THEN cp \notin {"none", "reaped"} ELSE cp = "none"
  /\ pp \in {"cleanup", "judge", "done"} => cp = IF par.forked THEN "reaped" ELSE "none"
  /\ cp = "none" => ~par.forked

\* A verdict is the one the chain of tests gives, and it is the last step.
VerdictInv ==
  verdict # NoVerdict => pp = "done" /\ verdict = Verdict(par, child)

\* The child's bootstrap port is the service port, which the parent's was at fork,
\* and nothing is queued at the original one.
BootInv ==
  /\ q.original = 0
  /\ pp = "fork" /\ par.setup = "ok" => boot.parent = "service"
  /\ cp \in ChildPoints => boot.child = "service"

\* A message at the cargo port or received there is the parent's, sent through the
\* right it saw.
MessageInv ==
  /\ pp \in {"setup", "fork", "restore", "receive", "look", "verify"} => par.verify = "err"
  /\ q.cargo > 0 \/ st.recv = "ok" => par.verify = "ok" /\ SawRight
  /\ st.recv = "ok" => st.id = 1
  /\ SawRight /\ par.look.tkr = "ok" => par.look.type = "send"

\* No call has failed and the kernel conforms in what the probe is about.
Quiet == fails = MaxFails /\ fault \in Harmless(disp)

\* In a quiet run the parent's own calls have all gone well ...
QuietParentInv ==
  Quiet =>
    /\ pp \notin {"setup", "killed"} => par.base = names
    /\ pp \in {"fork", "restore", "receive", "look", "verify", "read", "wait", "cleanup"} => svc
    /\ SawRight => par.look.tkr = "ok"
    /\ deliv <= 1
    /\ pp \in {"judge", "done"} => par.cleanup

\* The child has come past the points before these, as far as it can still matter.
Past(points) == cp \in points \/ pipe.full

\* ... and, unless the parent was killed, so have the child's: it takes no branch
\* that skips a call.
QuietChildInv ==
  Quiet /\ pp # "killed" =>
    /\ Past(ChildPoints \ {"begin"}) => st.base = names /\ st.boot = "ok"
    /\ Past(ChildPoints \ {"begin", "make"}) => st.alloc = "ok" /\ st.insert = "ok"
    /\ Past({"send", "after", "recv", "verified", "clean", "write", "exit"}) =>
         st.before.tkr = "ok" /\ st.before.rkr = "ok"
    /\ Past({"after", "recv", "verified", "clean", "write", "exit"}) => st.send = "ok"
    /\ Past({"recv", "verified", "clean", "write", "exit"}) =>
         st.after.tkr = "ok" /\ st.after.rkr # "err"
    /\ Past({"verified", "clean", "write", "exit"}) => st.recv \in {"ok", "timeout"}
    /\ Past({"clean", "write", "exit"}) => st.verified.tkr = "ok" /\ st.verified.rkr # "err"
    /\ Past({"write", "exit"}) =>
         st.destroy = "ok" /\ st.baseAfter = names /\ st.cleanup

IInv ==
  /\ TypeOK /\ StatusInv /\ CargoInv /\ LookInv /\ DeafInv /\ ExitInv
  /\ DeliveryInv /\ CleanInv /\ ReapInv /\ VerdictInv
  /\ BootInv /\ MessageInv /\ QuietParentInv /\ QuietChildInv

-----------------------------------------------------------------------------
(* Type correctness.                                                       *)

USE BoundsAssumption

\* A kernel call that may fail returns success or an error.
LEMMA OutcomesType == Outcomes \subseteq KR
  BY DEF Outcomes, KR

\* The cost of a return code is zero or one.
LEMMA CostType == \A kr : Cost(kr) \in {0, 1}
  BY DEF Cost

\* A captured baseline is valid, the gap, or failed.
LEMMA CaptureType == ASSUME TypeOK PROVE \A kr : Capture(kr) \in Baseline
  BY DEF TypeOK, Capture, Baseline

\* A look at an existing name is a well-formed observation.
LEMMA LookOfType ==
  ASSUME NEW t \in KR, NEW r \in KRRefs, NEW type \in PortTypes, NEW refs \in Nat
  PROVE  LookOf(t, r, type, refs) \in Look
  BY DEF LookOf, Look, PortTypes

\* So is a look at the cargo name.
LEMMA ObservedType ==
  ASSUME TypeOK, NEW t \in Outcomes, NEW r \in RefsOutcomes(cargo.refs)
  PROVE  Observed(t, r) \in Look
<1>1. t \in KR /\ r \in KRRefs
  BY OutcomesType DEF RefsOutcomes, KR, KRRefs
<1>2. cargo.refs \in Nat /\ TypeOf(cargo.recv, cargo.refs) \in PortTypes
  BY DEF TypeOK, TypeOf, PortTypes
<1> QED
  BY <1>1, <1>2, LookOfType DEF Observed

\* The parent's steps keep every variable in its type.
LEMMA ParentTypeStep == TypeOK /\ ParentStep => TypeOK'
<1> SUFFICES ASSUME TypeOK, ParentStep PROVE TypeOK'
  OBVIOUS
<1>1. CASE Setup
  <2>1. PICK b, p \in Outcomes, s \in {"get", "alloc", "insert", "set", "ok"} :
          Setup!2!(b, p, s)
    BY <1>1 DEF Setup
  <2>2. fails' \in 0..MaxFails
    BY <2>1 DEF TypeOK, Cost
  <2>3. par' \in Parent
    BY <2>1, CaptureType DEF TypeOK, Parent
  <2>4. pipe' \in [full: BOOLEAN, writers: SUBSET {"parent", "child"}]
    BY <2>1 DEF TypeOK
  <2>5. svc' \in BOOLEAN /\ boot' \in [parent: {"original", "service"}, child: {"original", "service"}]
    BY <2>1 DEF TypeOK
  <2> QED
    BY <1>1, <2>2, <2>3, <2>4, <2>5 DEF TypeOK, Setup, ParentUnchanged, kernelVars
<1>2. CASE Fork
  <2>0. par' = [par EXCEPT !.forked = TRUE] \/ par' = par
    BY <1>2 DEF Fork
  <2>1. par' \in Parent
    BY <2>0 DEF TypeOK, Parent
  <2> QED
    BY <1>2, <2>1 DEF TypeOK, Fork, kernelVars, ChildPoints
<1>3. CASE Restore
  <2>1. CASE par.setup = "ok"
    <3>1. PICK kr \in Outcomes :
            /\ fails' = fails - Cost(kr)
            /\ par' = [par EXCEPT !.restored = kr]
            /\ boot' = IF kr = "ok" THEN [boot EXCEPT !.parent = "original"] ELSE boot
      BY <1>3, <2>1 DEF Restore
    <3>2. fails' \in 0..MaxFails
      BY <3>1 DEF TypeOK, Cost, Outcomes
    <3>3. par' \in Parent
      BY <3>1, OutcomesType DEF TypeOK, Parent
    <3>4. boot' \in [parent: {"original", "service"}, child: {"original", "service"}]
      BY <3>1 DEF TypeOK
    <3> QED
      BY <1>3, <3>2, <3>3, <3>4 DEF TypeOK, Restore, ParentUnchanged, kernelVars
  <2>2. CASE par.setup # "ok"
    BY <1>3, <2>2 DEF TypeOK, Restore, ParentUnchanged, kernelVars
  <2> QED
    BY <2>1, <2>2
<1>4. CASE ReceiveDescriptor
  <2>1. par' \in Parent
    BY <1>4 DEF TypeOK, ReceiveDescriptor, Parent, MR
  <2>2. deliv' \in Nat
    BY <1>4 DEF ReceiveDescriptor, Delivered
  <2>3. q' \in [original: Nat, service: Nat, cargo: Nat]
    BY <1>4 DEF TypeOK, ReceiveDescriptor
  <2> QED
    BY <1>4, <2>1, <2>2, <2>3 DEF TypeOK, ReceiveDescriptor, ParentUnchanged, kernelVars
<1>5. CASE ReceiveFails
  <2>1. par' \in Parent
    BY <1>5 DEF TypeOK, ReceiveFails, Parent, MR
  <2> QED
    BY <1>5, <2>1 DEF TypeOK, ReceiveFails, ParentUnchanged, kernelVars
<1>6. CASE LookDelivered
  <2>1. CASE deliv = 0
    <3>1. LookOf("err", "absent", IF cargo.recv THEN "send" ELSE "dead", 0) \in Look
      BY DEF LookOf, Look, KR, KRRefs, PortTypes
    <3>2. par' \in Parent /\ fails' = fails
      BY <1>6, <2>1, <3>1 DEF TypeOK, LookDelivered, Parent
    <3> QED
      BY <1>6, <3>2 DEF TypeOK, LookDelivered, ParentUnchanged, kernelVars
  <2>2. CASE deliv # 0
    <3> DEFINE refs == IF cargo.recv THEN deliv ELSE 0
               type == IF cargo.recv THEN "send" ELSE "dead"
    <3>1. PICK t \in Outcomes, r \in RefsOutcomes(refs) :
            /\ Cost(t) + Cost(r) <= fails
            /\ fails' = fails - (Cost(t) + Cost(r))
            /\ par' = [par EXCEPT !.look = LookOf(t, r, type, refs)]
      BY <1>6, <2>2 DEF LookDelivered
    <3>2. t \in KR /\ r \in KRRefs
      BY OutcomesType DEF RefsOutcomes, KR, KRRefs
    <3>3. refs \in Nat /\ type \in PortTypes
      BY DEF TypeOK, PortTypes
    <3>4. LookOf(t, r, type, refs) \in Look
      BY <3>2, <3>3, LookOfType
    <3>5. par' \in Parent
      BY <3>1, <3>4 DEF TypeOK, Parent
    <3>6. fails' \in 0..MaxFails
      BY <3>1 DEF TypeOK, Cost
    <3> QED
      BY <1>6, <3>5, <3>6 DEF TypeOK, LookDelivered, ParentUnchanged, kernelVars
  <2> QED
    BY <2>1, <2>2
<1>7. CASE SendVerify
  <2>1. CASE par.look.rkr = "ok" /\ par.look.refs > 0
    <3>1. PICK kr \in Outcomes :
            /\ fails' = fails - Cost(kr)
            /\ par' = [par EXCEPT !.verify = IF cargo.recv THEN kr ELSE "err"]
            /\ q' = IF kr = "ok" /\ cargo.recv /\ fault # "deaf"
                    THEN [q EXCEPT !.cargo = q.cargo + 1] ELSE q
      BY <1>7, <2>1 DEF SendVerify
    <3>2. par' \in Parent
      BY <3>1, OutcomesType DEF TypeOK, Parent, KR, MR
    <3>3. q' \in [original: Nat, service: Nat, cargo: Nat]
      BY <3>1 DEF TypeOK
    <3>4. fails' \in 0..MaxFails
      BY <3>1 DEF TypeOK, Cost, Outcomes
    <3> QED
      BY <1>7, <3>2, <3>3, <3>4 DEF TypeOK, SendVerify, ParentUnchanged, kernelVars
  <2>2. CASE ~(par.look.rkr = "ok" /\ par.look.refs > 0)
    BY <1>7, <2>2 DEF TypeOK, SendVerify, ParentUnchanged, kernelVars
  <2> QED
    BY <2>1, <2>2
<1>8. CASE ReadStatus
  <2>1. par' \in Parent /\ child' \in Status
    BY <1>8 DEF TypeOK, ReadStatus, Parent
  <2> QED
    BY <1>8, <2>1 DEF TypeOK, ReadStatus, ParentUnchanged, kernelVars
<1>9. CASE Wait
  <2>1. par' \in Parent
    BY <1>9 DEF TypeOK, Wait, Parent
  <2> QED
    BY <1>9, <2>1 DEF TypeOK, Wait, kernelVars
<1>10. CASE Cleanup
  <2>1. PICK d, s, b \in Outcomes : Cleanup!2!(d, s, b)
    BY <1>10 DEF Cleanup
  <2>2. fails' \in 0..MaxFails
    BY <2>1 DEF TypeOK, Cost
  <2>3. deliv' \in Nat
    BY <2>1 DEF TypeOK, AfterDealloc
  <2>4. svc' \in BOOLEAN /\ q' \in [original: Nat, service: Nat, cargo: Nat]
    BY <2>1 DEF TypeOK
  <2>5. par' \in Parent
    <3>1. \A x, y, z : BaselineCompare(x, y, z) \in BOOLEAN
      BY DEF BaselineCompare
    <3>2. PICK x \in KR, y \in KR, z \in Baseline, c \in BOOLEAN :
            par' = [par EXCEPT !.dealloc = x, !.destroy = y, !.baseAfter = z, !.cleanup = c]
      BY <2>1, <3>1, CaptureType, OutcomesType DEF KR
    <3> QED
      BY <3>2 DEF TypeOK, Parent
  <2> QED
    BY <1>10, <2>2, <2>3, <2>4, <2>5 DEF TypeOK, Cleanup, ParentUnchanged, kernelVars
<1>11. CASE Report
  <2>1. verdict' \in Verdicts
    BY <1>11 DEF Report, Verdict, Verdicts, Is
  <2> QED
    BY <1>11, <2>1 DEF TypeOK, Report, ParentUnchanged, kernelVars
<1> QED
  BY <1>1, <1>2, <1>3, <1>4, <1>5, <1>6, <1>7, <1>8, <1>9, <1>10, <1>11 DEF ParentStep

\* So do the child's steps.
LEMMA ChildTypeStep == TypeOK /\ ChildStep => TypeOK'
<1> SUFFICES ASSUME TypeOK, ChildStep PROVE TypeOK'
  OBVIOUS
<1>1. CASE ChildBegin
  <2>1. PICK g, b \in Outcomes : ChildBegin!2!(g, b)
    BY <1>1 DEF ChildBegin
  <2>2. fails' \in 0..MaxFails
    BY <2>1 DEF TypeOK, Cost
  <2>3. st' \in Status
    BY <2>1, CaptureType, OutcomesType DEF TypeOK, Status
  <2> QED
    BY <1>1, <2>1, <2>2, <2>3 DEF TypeOK, ChildBegin, ChildUnchanged, kernelVars, ChildPoints
<1>2. CASE ChildMakeCargo
  <2>1. PICK a, i \in Outcomes : ChildMakeCargo!2!(a, i)
    BY <1>2 DEF ChildMakeCargo
  <2>2. fails' \in 0..MaxFails
    BY <2>1 DEF TypeOK, Cost, Outcomes
  <2>3. st' \in Status
    BY <2>1, OutcomesType DEF TypeOK, Status, KR
  <2>4. cargo' \in [recv: BOOLEAN, refs: Nat]
    BY <2>1
  <2> QED
    BY <1>2, <2>1, <2>2, <2>3, <2>4
       DEF TypeOK, ChildMakeCargo, ChildUnchanged, kernelVars, ChildPoints
<1>3. CASE ChildLookBefore
  <2>1. PICK t \in Outcomes, r \in RefsOutcomes(cargo.refs) : ChildLookBefore!2!(t, r)
    BY <1>3 DEF ChildLookBefore
  <2>2. fails' \in 0..MaxFails
    BY <2>1 DEF TypeOK, Cost, Affordable
  <2>3. st' \in Status
    BY <2>1, ObservedType DEF TypeOK, Status
  <2> QED
    BY <1>3, <2>1, <2>2, <2>3
       DEF TypeOK, ChildLookBefore, ChildUnchanged, kernelVars, ChildPoints
<1>4. CASE ChildSend
  <2>1. PICK kr \in Outcomes : ChildSend!2!(kr)
    BY <1>4 DEF ChildSend
  <2>2. fails' \in 0..MaxFails
    BY <2>1 DEF TypeOK, Cost, Outcomes
  <2>3. st' \in Status
    BY <2>1 DEF TypeOK, Status, MR
  <2>4. cargo' \in [recv: BOOLEAN, refs: Nat]
    BY <2>1 DEF TypeOK, AfterSend
  <2>5. q' \in [original: Nat, service: Nat, cargo: Nat]
    BY <2>1 DEF TypeOK
  <2> QED
    BY <1>4, <2>1, <2>2, <2>3, <2>4, <2>5
       DEF TypeOK, ChildSend, ChildUnchanged, kernelVars, ChildPoints
<1>5. CASE ChildLookAfter
  <2>1. PICK t \in Outcomes, r \in RefsOutcomes(cargo.refs) : ChildLookAfter!2!(t, r)
    BY <1>5 DEF ChildLookAfter
  <2>2. fails' \in 0..MaxFails
    BY <2>1 DEF TypeOK, Cost, Affordable
  <2>3. st' \in Status
    BY <2>1, ObservedType DEF TypeOK, Status
  <2> QED
    BY <1>5, <2>2, <2>3 DEF TypeOK, ChildLookAfter, ChildUnchanged, kernelVars, ChildPoints
<1>6. CASE ChildReceive
  <2>1. st' \in Status
    BY <1>6 DEF TypeOK, ChildReceive, Status, MR
  <2>2. cargo' \in [recv: BOOLEAN, refs: Nat]
    BY <1>6 DEF TypeOK, ChildReceive, AfterVerify
  <2>3. q' \in [original: Nat, service: Nat, cargo: Nat]
    BY <1>6 DEF TypeOK, ChildReceive
  <2> QED
    BY <1>6, <2>1, <2>2, <2>3 DEF TypeOK, ChildReceive, ChildUnchanged, kernelVars, ChildPoints
<1>7. CASE ChildReceiveFails
  <2>1. st' \in Status
    BY <1>7 DEF TypeOK, ChildReceiveFails, Status, MR
  <2> QED
    BY <1>7, <2>1 DEF TypeOK, ChildReceiveFails, ChildUnchanged, kernelVars, ChildPoints
<1>8. CASE ChildLookVerified
  <2>1. PICK t \in Outcomes, r \in RefsOutcomes(cargo.refs) : ChildLookVerified!2!(t, r)
    BY <1>8 DEF ChildLookVerified
  <2>2. fails' \in 0..MaxFails
    BY <2>1 DEF TypeOK, Cost, Affordable
  <2>3. st' \in Status
    BY <2>1, ObservedType DEF TypeOK, Status
  <2> QED
    BY <1>8, <2>2, <2>3 DEF TypeOK, ChildLookVerified, ChildUnchanged, kernelVars, ChildPoints
<1>9. CASE ChildCleanup
  <2>1. PICK d, b \in Outcomes : ChildCleanup!2!(d, b)
    BY <1>9 DEF ChildCleanup
  <2>2. fails' \in 0..MaxFails
    BY <2>1 DEF TypeOK, Cost
  <2>3. cargo' \in [recv: BOOLEAN, refs: Nat]
    BY <2>1 DEF TypeOK
  <2>4. q' \in [original: Nat, service: Nat, cargo: Nat]
    BY <2>1 DEF TypeOK
  <2>5. \A x, y, z : BaselineCompare(x, y, z) \in BOOLEAN
    BY DEF BaselineCompare
  <2> DEFINE x == IF st.alloc = "ok" THEN d ELSE "err"
             left == IF ~(st.alloc = "ok") \/ d = "err" THEN cargo
                     ELSE [recv |-> FALSE, refs |-> IF fault = "name_stays" THEN 1 ELSE 0]
             c == BaselineCompare(st.base, Capture(b), left = NoCargo)
             s == [st EXCEPT !.destroy = x, !.baseAfter = Capture(b), !.cleanup = c]
             e == IF AllCallsOk(s) THEN 0 ELSE 1
  <2>6. st' = [s EXCEPT !.exit = e]
    BY <2>1
  <2>7. x \in KR /\ Capture(b) \in Baseline /\ c \in BOOLEAN /\ e \in {0, 1}
    BY <2>5, CaptureType, OutcomesType DEF KR
  <2> HIDE DEF x, c, e, left
  <2>8. s \in Status
    BY <2>7 DEF TypeOK, Status
  <2> HIDE DEF s
  <2>9. st' \in Status
    BY <2>6, <2>7, <2>8 DEF Status
  <2> QED
    BY <1>9, <2>2, <2>3, <2>4, <2>9 DEF TypeOK, ChildCleanup, ChildUnchanged, kernelVars, ChildPoints
<1>10. CASE ChildWrite
  BY <1>10 DEF TypeOK, ChildWrite, ChildUnchanged, kernelVars, ChildPoints
<1>11. CASE ChildExit
  BY <1>11 DEF TypeOK, ChildExit, ChildGone, NoCargo, kernelVars
<1> QED
  BY <1>1, <1>2, <1>3, <1>4, <1>5, <1>6, <1>7, <1>8, <1>9, <1>10, <1>11 DEF ChildStep

\* Killing either process keeps the types, and so does every step.
LEMMA TypeStep == TypeOK /\ [Next]_vars => TypeOK'
<1> SUFFICES ASSUME TypeOK, [Next]_vars PROVE TypeOK'
  OBVIOUS
<1>1. CASE ChildKilled
  BY <1>1 DEF TypeOK, ChildKilled, ChildGone, NoCargo, kernelVars
<1>2. CASE ParentKilled
  <2>1. pipe' \in [full: BOOLEAN, writers: SUBSET {"parent", "child"}]
    BY <1>2 DEF TypeOK, ParentKilled
  <2>2. q' \in [original: Nat, service: Nat, cargo: Nat]
    BY <1>2 DEF TypeOK, ParentKilled
  <2>3. deaths' \in 0..MaxDeaths /\ deliv' \in Nat
    BY <1>2 DEF TypeOK, ParentKilled
  <2>6. svc' \in BOOLEAN
    <3>1. svc' = FALSE
      BY <1>2 DEF ParentKilled
    <3> QED
      BY <3>1
  <2>4. pp' = "killed"
    BY <1>2 DEF ParentKilled
  <2>5. UNCHANGED <<disp, fault, names, fails, cp, par, st, child, boot, cargo, verdict>>
    BY <1>2 DEF ParentKilled, kernelVars
  <2> QED
    BY <2>1, <2>2, <2>3, <2>4, <2>5, <2>6 DEF TypeOK
<1>3. CASE UNCHANGED vars
  BY <1>3 DEF TypeOK, vars
<1> QED
  BY <1>1, <1>2, <1>3, ParentTypeStep, ChildTypeStep DEF Next, Over

\* The initial values of the structs are of their types.
LEMMA InitialTypes ==
  InitialParent \in Parent /\ PresetStatus \in Status /\ ClearedStatus \in Status
<1>1. NoLook \in Look /\ ZeroLook \in Look
  BY DEF NoLook, ZeroLook, Look, KR, KRRefs, PortTypes
<1>2. InitialParent \in Parent
  BY <1>1 DEF InitialParent, Parent, Baseline, KR, MR
<1>3. PresetStatus \in Status
  BY <1>1 DEF PresetStatus, Status, Baseline, KR, MR
<1>4. ClearedStatus \in Status
  BY <1>1 DEF ClearedStatus, Status, Baseline, KR, MR
<1> QED
  BY <1>2, <1>3, <1>4

\* The initial state is well typed.
LEMMA InitTypeOK == Init => TypeOK
<1> SUFFICES ASSUME Init PROVE TypeOK
  OBVIOUS
<1>1. par \in Parent /\ st \in Status /\ child \in Status
  BY InitialTypes DEF Init
<1>2. fails \in 0..MaxFails /\ deaths \in 0..MaxDeaths /\ deliv \in Nat
  BY DEF Init
<1>3. /\ pipe \in [full: BOOLEAN, writers: SUBSET {"parent", "child"}]
      /\ boot \in [parent: {"original", "service"}, child: {"original", "service"}]
      /\ q \in [original: Nat, service: Nat, cargo: Nat]
      /\ svc \in BOOLEAN
      /\ cargo \in [recv: BOOLEAN, refs: Nat]
  BY DEF Init, NoCargo
<1>4. /\ pp = "setup" /\ cp = "none" /\ verdict = NoVerdict /\ fault \in Faults /\ names \in {"ok", "gap"}
      /\ disp \in {"copy", "move"}
  BY DEF Init
<1> QED
  BY <1>1, <1>2, <1>3, <1>4 DEF TypeOK

\* Type correctness: no step of parent, child or watchdog takes a variable out of
\* its type; in particular no reference count and no queue ever goes below zero.
THEOREM TypeCorrect == Spec => []TypeOK
  BY InitTypeOK, TypeStep, PTL DEF Spec

-----------------------------------------------------------------------------
(* What each process leaves alone.                                         *)

\* The parent touches neither the child's memory nor its rights, and moves the
\* child only by starting and by reaping it.
LEMMA ParentFrame ==
  ParentStep =>
    /\ UNCHANGED <<disp, fault, names, st, cargo>>
    /\ cp' = cp \/ (pp = "fork" /\ cp' = "begin") \/ (cp = "exited" /\ cp' = "reaped")
<1> USE DEF ParentUnchanged, kernelVars
<1>1. CASE Setup
  BY <1>1 DEF Setup
<1>2. CASE Fork
  BY <1>2 DEF Fork
<1>3. CASE Restore
  BY <1>3 DEF Restore
<1>4. CASE ReceiveDescriptor \/ ReceiveFails
  BY <1>4 DEF ReceiveDescriptor, ReceiveFails
<1>5. CASE LookDelivered
  BY <1>5 DEF LookDelivered
<1>6. CASE SendVerify
  BY <1>6 DEF SendVerify
<1>7. CASE ReadStatus \/ Wait \/ Report
  BY <1>7 DEF ReadStatus, Wait, Report
<1>8. CASE Cleanup
  BY <1>8 DEF Cleanup
<1> QED
  BY <1>1, <1>2, <1>3, <1>4, <1>5, <1>6, <1>7, <1>8 DEF ParentStep

\* The child, alive or killed, touches nothing of the parent.
LEMMA ChildFrame ==
  ChildStep \/ ChildKilled =>
    UNCHANGED <<disp, fault, names, pp, par, child, boot, svc, deliv, verdict>>
<1> USE DEF ChildUnchanged, kernelVars
<1>1. CASE ChildBegin \/ ChildMakeCargo \/ ChildLookBefore \/ ChildSend
  BY <1>1 DEF ChildBegin, ChildMakeCargo, ChildLookBefore, ChildSend
<1>2. CASE ChildLookAfter \/ ChildReceive \/ ChildReceiveFails \/ ChildLookVerified
  BY <1>2 DEF ChildLookAfter, ChildReceive, ChildReceiveFails, ChildLookVerified
<1>3. CASE ChildCleanup \/ ChildWrite \/ ChildExit \/ ChildKilled
  BY <1>3 DEF ChildCleanup, ChildWrite, ChildExit, ChildKilled, ChildGone
<1> QED
  BY <1>1, <1>2, <1>3 DEF ChildStep

\* A killed parent changes nothing the child has or the parent remembers.
LEMMA KillFrame ==
  ParentKilled =>
    /\ pp' = "killed"
    /\ UNCHANGED <<disp, fault, names, cp, par, st, child, boot, cargo, verdict>>
  BY DEF ParentKilled, kernelVars

-----------------------------------------------------------------------------
(* Each part of the invariant is preserved.                                *)

\* Where the child is at each control point of the parent.
LEMMA ReapStep == IInv /\ [Next]_vars => ReapInv'
<1> SUFFICES ASSUME TypeOK, ReapInv, [Next]_vars PROVE ReapInv'
  BY DEF IInv
<1> USE DEF TypeOK, ReapInv, Parent, ParentUnchanged, kernelVars
<1>1. CASE Setup
  BY <1>1 DEF Setup
<1>2. CASE Fork
  BY <1>2 DEF Fork
<1>3. CASE Restore
  BY <1>3 DEF Restore
<1>4. CASE ReceiveDescriptor \/ ReceiveFails
  BY <1>4 DEF ReceiveDescriptor, ReceiveFails
<1>5. CASE LookDelivered
  BY <1>5 DEF LookDelivered
<1>6. CASE SendVerify
  BY <1>6 DEF SendVerify
<1>7. CASE ReadStatus \/ Wait \/ Report
  BY <1>7 DEF ReadStatus, Wait, Report
<1>8. CASE Cleanup
  BY <1>8 DEF Cleanup
<1>9. CASE ChildStep \/ ChildKilled
  <2>1. cp \in ChildPoints /\ cp' \in ChildPoints \cup {"exited"}
    BY <1>9 DEF ChildStep, ChildPoints, ChildBegin, ChildMakeCargo, ChildLookBefore,
       ChildSend, ChildLookAfter, ChildReceive, ChildReceiveFails, ChildLookVerified,
       ChildCleanup, ChildWrite, ChildExit, ChildKilled, ChildGone
  <2> QED
    BY <1>9, <2>1, ChildFrame DEF ChildPoints
<1>10. CASE ParentKilled
  BY <1>10, KillFrame
<1>11. CASE UNCHANGED vars
  BY <1>11 DEF vars
<1> QED
  BY <1>1, <1>2, <1>3, <1>4, <1>5, <1>6, <1>7, <1>8, <1>9, <1>10, <1>11
     DEF Next, ParentStep, Over

\* The child writes last, and the parent copies what it wrote.
LEMMA StatusStep == IInv /\ [Next]_vars => StatusInv'
<1> SUFFICES ASSUME TypeOK, ReapInv, StatusInv, [Next]_vars PROVE StatusInv'
  BY DEF IInv
<1> USE DEF TypeOK, StatusInv, Parent, ParentUnchanged, kernelVars
<1>1. CASE Setup
  BY <1>1 DEF Setup
<1>2. CASE Fork
  BY <1>2 DEF Fork, ReapInv
<1>3. CASE Restore
  BY <1>3 DEF Restore
<1>4. CASE ReceiveDescriptor \/ ReceiveFails
  BY <1>4 DEF ReceiveDescriptor, ReceiveFails
<1>5. CASE LookDelivered
  BY <1>5 DEF LookDelivered
<1>6. CASE SendVerify
  BY <1>6 DEF SendVerify
<1>7. CASE ReadStatus
  BY <1>7 DEF ReadStatus
<1>8. CASE Wait \/ Report
  BY <1>8 DEF Wait, Report
<1>9. CASE Cleanup
  BY <1>9 DEF Cleanup
<1>10. CASE ChildStep /\ ~ChildWrite /\ ~ChildExit
  <2>1. ~pipe.full /\ pipe' = pipe
    BY <1>10 DEF ChildStep, ChildBegin, ChildMakeCargo, ChildLookBefore,
       ChildSend, ChildLookAfter, ChildReceive, ChildReceiveFails, ChildLookVerified,
       ChildCleanup
  <2> QED
    BY <1>10, <2>1, ChildFrame
<1>11. CASE ChildWrite
  BY <1>11 DEF ChildWrite, ChildUnchanged
<1>12. CASE ChildExit \/ ChildKilled
  BY <1>12 DEF ChildExit, ChildKilled, ChildGone
<1>13. CASE ParentKilled
  BY <1>13 DEF ParentKilled
<1>14. CASE UNCHANGED vars
  BY <1>14 DEF vars
<1> QED
  BY <1>1, <1>2, <1>3, <1>4, <1>5, <1>6, <1>7, <1>8, <1>9, <1>10, <1>11, <1>12, <1>13,
     <1>14 DEF Next, ParentStep, Over

\* The rights under the cargo name follow the child's control point.
LEMMA CargoStep == IInv /\ [Next]_vars => CargoInv'
<1> SUFFICES ASSUME TypeOK, ReapInv, CargoInv, [Next]_vars PROVE CargoInv'
  BY DEF IInv
<1> USE DEF TypeOK, CargoInv, Status, NoCargo, Left, LeftVerified, ChildUnchanged, kernelVars
<1>1. CASE ParentStep
  BY <1>1, ParentFrame DEF ReapInv
<1>2. CASE ChildBegin \/ ChildMakeCargo
  BY <1>2 DEF ChildBegin, ChildMakeCargo
<1>3. CASE ChildLookBefore
  BY <1>3 DEF ChildLookBefore
<1>4. CASE ChildSend
  BY <1>4 DEF ChildSend
<1>5. CASE ChildLookAfter
  BY <1>5 DEF ChildLookAfter
<1>6. CASE ChildReceive
  BY <1>6 DEF ChildReceive
<1>7. CASE ChildReceiveFails
  BY <1>7 DEF ChildReceiveFails
<1>8. CASE ChildLookVerified \/ ChildCleanup \/ ChildWrite
  BY <1>8 DEF ChildLookVerified, ChildCleanup, ChildWrite
<1>9. CASE ChildExit \/ ChildKilled
  BY <1>9 DEF ChildExit, ChildKilled, ChildGone
<1>10. CASE ParentKilled
  BY <1>10, KillFrame
<1>11. CASE UNCHANGED vars
  BY <1>11 DEF vars
<1> QED
  BY <1>1, <1>2, <1>3, <1>4, <1>5, <1>6, <1>7, <1>8, <1>9, <1>10, <1>11
     DEF Next, ChildStep, Over

\* A look at the cargo name shows the rights that are there.
LEMMA ObservedShows ==
  ASSUME TypeOK, cargo.recv, NEW t \in Outcomes, NEW r \in RefsOutcomes(cargo.refs)
  PROVE  Shows(Observed(t, r), cargo.refs)
<1>1. r = "absent" => cargo.refs = 0
  BY DEF RefsOutcomes, Outcomes, KR
<1>2. cargo.recv = TRUE
  BY DEF TypeOK
<1> QED
  BY <1>1, <1>2 DEF Shows, Observed, LookOf

\* The child's looks stay true.
LEMMA LookStep == IInv /\ [Next]_vars => LookInv'
<1> SUFFICES ASSUME TypeOK, ReapInv, CargoInv, LookInv, [Next]_vars PROVE LookInv'
  BY DEF IInv
<1>1. CASE ParentStep
  BY <1>1, ParentFrame DEF ReapInv, LookInv, Left, LeftVerified, Shows
<1>2. CASE ChildBegin \/ ChildMakeCargo
  <2>1. /\ st'.before = st.before /\ st'.after = st.after
        /\ st'.verified = st.verified /\ st'.recv = st.recv
    BY <1>2 DEF TypeOK, Status, ChildBegin, ChildMakeCargo
  <2>2. st.verified = NoLook /\ fault' = fault /\ disp' = disp
    BY <1>2, ChildFrame DEF LookInv, ChildBegin, ChildMakeCargo, ChildStep
  <2> QED
    BY <2>1, <2>2 DEF LookInv, Left, LeftVerified, Shows
<1>3. CASE ChildLookBefore
  <2>1. PICK t \in Outcomes, r \in RefsOutcomes(cargo.refs) : st' = [st EXCEPT !.before = Observed(t, r)]
    BY <1>3 DEF ChildLookBefore
  <2>2. Shows(Observed(t, r), 1)
    BY <1>3, ObservedShows DEF ChildLookBefore, CargoInv
  <2>3. /\ st'.before = Observed(t, r) /\ st'.after = st.after
        /\ st'.verified = st.verified /\ st'.recv = st.recv
    BY <2>1 DEF TypeOK, Status
  <2>4. st.verified = NoLook /\ fault' = fault /\ disp' = disp
    BY <1>3, ChildFrame DEF LookInv, ChildLookBefore, ChildStep
  <2> QED
    BY <2>2, <2>3, <2>4 DEF LookInv, Left, LeftVerified, Shows
<1>4. CASE ChildSend
  <2>1. /\ st'.before = st.before /\ st'.after = st.after
        /\ st'.verified = st.verified /\ st'.recv = st.recv
    BY <1>4 DEF TypeOK, Status, ChildSend
  <2>2. st.verified = NoLook /\ fault' = fault /\ disp' = disp
    BY <1>4, ChildFrame DEF LookInv, ChildSend, ChildStep
  <2> QED
    BY <2>1, <2>2 DEF LookInv, Left, LeftVerified, Shows
<1>5. CASE ChildLookAfter
  <2>1. PICK t \in Outcomes, r \in RefsOutcomes(cargo.refs) : st' = [st EXCEPT !.after = Observed(t, r)]
    BY <1>5 DEF ChildLookAfter
  <2>2. Shows(Observed(t, r), Left)
    BY <1>5, ObservedShows DEF ChildLookAfter, CargoInv
  <2>3. /\ st'.after = Observed(t, r) /\ st'.before = st.before
        /\ st'.verified = st.verified /\ st'.recv = st.recv
    BY <2>1 DEF TypeOK, Status
  <2>4. st.verified = NoLook /\ fault' = fault /\ disp' = disp
    BY <1>5, ChildFrame DEF LookInv, ChildLookAfter, ChildStep
  <2> QED
    BY <2>2, <2>3, <2>4 DEF LookInv, Left, LeftVerified, Shows
<1>6. CASE ChildReceive \/ ChildReceiveFails
  <2>1. st'.before = st.before /\ st'.after = st.after /\ st'.verified = st.verified
    BY <1>6 DEF TypeOK, Status, ChildReceive, ChildReceiveFails
  <2>2. st.verified = NoLook /\ cp' = "verified" /\ fault' = fault /\ disp' = disp
    BY <1>6, ChildFrame DEF LookInv, ChildReceive, ChildReceiveFails, ChildStep
  <2>3. \A n : Shows(NoLook, n)
    BY DEF Shows, NoLook
  <2>4. Shows(st'.verified, LeftVerified')
    BY <2>1, <2>2, <2>3
  <2>5. Shows(st'.before, 1) /\ Shows(st'.after, Left')
    BY <2>1, <2>2 DEF LookInv, Left, Shows
  <2> QED
    BY <2>2, <2>4, <2>5 DEF LookInv, Shows
<1>7. CASE ChildLookVerified
  <2>1. PICK t \in Outcomes, r \in RefsOutcomes(cargo.refs) : st' = [st EXCEPT !.verified = Observed(t, r)]
    BY <1>7 DEF ChildLookVerified
  <2>2. Shows(Observed(t, r), LeftVerified)
    BY <1>7, ObservedShows DEF ChildLookVerified, CargoInv
  <2>3. /\ st'.verified = Observed(t, r) /\ st'.before = st.before
        /\ st'.after = st.after /\ st'.recv = st.recv
    BY <2>1 DEF TypeOK, Status
  <2>4. cp' = "clean" /\ fault' = fault /\ disp' = disp
    BY <1>7, ChildFrame DEF ChildLookVerified, ChildStep
  <2> QED
    BY <2>2, <2>3, <2>4 DEF LookInv, Left, LeftVerified, Shows
<1>8. CASE ChildCleanup
  <2>1. /\ st'.before = st.before /\ st'.after = st.after
        /\ st'.verified = st.verified /\ st'.recv = st.recv
    BY <1>8 DEF TypeOK, Status, ChildCleanup
  <2>2. cp' = "write" /\ fault' = fault /\ disp' = disp
    BY <1>8, ChildFrame DEF ChildCleanup, ChildStep
  <2> QED
    BY <2>1, <2>2 DEF LookInv, Left, LeftVerified, Shows
<1>9. CASE ChildWrite
  BY <1>9 DEF ChildWrite, ChildUnchanged, kernelVars, LookInv, Left, LeftVerified, Shows
<1>10. CASE ChildExit \/ ChildKilled
  BY <1>10 DEF ChildExit, ChildKilled, ChildGone, kernelVars, LookInv, Left, LeftVerified, Shows
<1>11. CASE ParentKilled
  BY <1>11, KillFrame DEF LookInv, Left, LeftVerified, Shows
<1>12. CASE UNCHANGED vars
  BY <1>12 DEF vars, LookInv, Left, LeftVerified, Shows
<1> QED
  BY <1>1, <1>2, <1>3, <1>4, <1>5, <1>6, <1>7, <1>8, <1>9, <1>10, <1>11, <1>12
     DEF Next, ChildStep, Over

\* Nothing is received through a deaf right.
LEMMA DeafStep == IInv /\ [Next]_vars => DeafInv'
<1> SUFFICES ASSUME TypeOK, DeafInv, [Next]_vars PROVE DeafInv'
  BY DEF IInv
<1> USE DEF TypeOK, DeafInv, Status, ParentUnchanged, ChildUnchanged, kernelVars
<1>1. CASE Setup \/ Fork \/ Restore
  BY <1>1 DEF Setup, Fork, Restore
<1>2. CASE ReceiveDescriptor \/ ReceiveFails \/ LookDelivered
  BY <1>2 DEF ReceiveDescriptor, ReceiveFails, LookDelivered
<1>3. CASE SendVerify
  BY <1>3 DEF SendVerify
<1>4. CASE ReadStatus \/ Wait \/ Report
  BY <1>4 DEF ReadStatus, Wait, Report
<1>5. CASE Cleanup
  BY <1>5 DEF Cleanup
<1>6. CASE ChildBegin \/ ChildMakeCargo \/ ChildLookBefore
  BY <1>6 DEF ChildBegin, ChildMakeCargo, ChildLookBefore
<1>7. CASE ChildSend
  BY <1>7 DEF ChildSend
<1>8. CASE ChildLookAfter \/ ChildReceive \/ ChildReceiveFails
  BY <1>8 DEF ChildLookAfter, ChildReceive, ChildReceiveFails
<1>9. CASE ChildLookVerified
  BY <1>9 DEF ChildLookVerified
<1>10. CASE ChildCleanup
  BY <1>10 DEF ChildCleanup
<1>11. CASE ChildWrite \/ ChildExit \/ ChildKilled
  BY <1>11 DEF ChildWrite, ChildExit, ChildKilled, ChildGone
<1>12. CASE ParentKilled
  BY <1>12 DEF ParentKilled
<1>13. CASE UNCHANGED vars
  BY <1>13 DEF vars
<1> QED
  BY <1>1, <1>2, <1>3, <1>4, <1>5, <1>6, <1>7, <1>8, <1>9, <1>10, <1>11, <1>12, <1>13
     DEF Next, ParentStep, ChildStep, Over

\* The child's exit code and cleanup flag stay true.
LEMMA ExitStep == IInv /\ [Next]_vars => ExitInv'
<1> SUFFICES ASSUME TypeOK, ReapInv, ExitInv, [Next]_vars PROVE ExitInv'
  BY DEF IInv
<1>1. CASE ParentStep
  BY <1>1, ParentFrame DEF ExitInv, ReapInv, AllCallsOk, Blocks
<1>2. CASE ChildStep /\ ~ChildCleanup /\ ~ChildWrite /\ ~ChildExit
  <2>1. st'.exit = st.exit /\ st'.cleanup = st.cleanup /\ st.exit = 1 /\ ~st.cleanup
    <3>1. CASE ChildBegin \/ ChildMakeCargo
      BY <3>1 DEF ChildBegin, ChildMakeCargo, TypeOK, Status, ExitInv
    <3>2. CASE ChildLookBefore \/ ChildLookAfter \/ ChildLookVerified
      BY <3>2 DEF ChildLookBefore, ChildLookAfter, ChildLookVerified, TypeOK, Status, ExitInv
    <3>3. CASE ChildSend
      BY <3>3 DEF ChildSend, TypeOK, Status, ExitInv
    <3>4. CASE ChildReceive \/ ChildReceiveFails
      BY <3>4 DEF ChildReceive, ChildReceiveFails, TypeOK, Status, ExitInv
    <3> QED
      BY <1>2, <3>1, <3>2, <3>3, <3>4 DEF ChildStep
  <2>2. names = "ok" => st'.base # "gap"
    <3>1. CASE ChildBegin
      BY <3>1 DEF ChildBegin, TypeOK, Status, Capture
    <3>2. CASE ChildMakeCargo \/ ChildLookBefore \/ ChildLookAfter \/ ChildLookVerified
      BY <3>2 DEF ChildMakeCargo, ChildLookBefore, ChildLookAfter, ChildLookVerified,
                  TypeOK, Status, ExitInv
    <3>3. CASE ChildSend \/ ChildReceive \/ ChildReceiveFails
      BY <3>3 DEF ChildSend, ChildReceive, ChildReceiveFails, TypeOK, Status, ExitInv
    <3> QED
      BY <1>2, <3>1, <3>2, <3>3 DEF ChildStep
  <2>3. UNCHANGED <<disp, fault, names>>
    BY <1>2, ChildFrame
  <2>4. ~AllCallsOk(st')
    BY <2>1 DEF AllCallsOk
  <2> QED
    BY <2>1, <2>2, <2>3, <2>4 DEF ExitInv, AllCallsOk
<1>3. CASE ChildCleanup
  <2>1. PICK d, b \in Outcomes : ChildCleanup!2!(d, b)
    BY <1>3 DEF ChildCleanup
  <2> DEFINE x == IF st.alloc = "ok" THEN d ELSE "err"
             left == IF ~(st.alloc = "ok") \/ d = "err" THEN cargo
                     ELSE [recv |-> FALSE, refs |-> IF fault = "name_stays" THEN 1 ELSE 0]
             c == BaselineCompare(st.base, Capture(b), left = NoCargo)
             s == [st EXCEPT !.destroy = x, !.baseAfter = Capture(b), !.cleanup = c]
  <2>2. st' = [s EXCEPT !.exit = IF AllCallsOk(s) THEN 0 ELSE 1]
    BY <2>1
  <2>3. x = "ok" /\ fault = "name_stays" => left # NoCargo
    BY DEF NoCargo
  <2>4. names = "ok" /\ x = "ok" /\ fault = "name_stays" => ~c
    BY <2>3 DEF BaselineCompare, Capture, ExitInv
  <2> HIDE DEF x, c
  <2>5. st'.base = st.base /\ st'.destroy = x /\ st'.cleanup = c
    BY <2>2 DEF TypeOK, Status
  <2>6. st'.exit = 0 <=> AllCallsOk(s)
    BY <2>2 DEF TypeOK, Status
  <2>7. AllCallsOk(s) <=> AllCallsOk(st')
    BY <2>2 DEF TypeOK, Status, AllCallsOk, Blocks
  <2>8. UNCHANGED <<disp, fault, names>> /\ cp' = "write"
    BY <1>3 DEF ChildCleanup, ChildUnchanged, kernelVars
  <2> QED
    BY <2>4, <2>5, <2>6, <2>7, <2>8 DEF ExitInv, AllCallsOk, Blocks
<1>4. CASE ChildWrite
  BY <1>4 DEF ChildWrite, ChildUnchanged, kernelVars, ExitInv, AllCallsOk, Blocks
<1>5. CASE ChildExit \/ ChildKilled
  BY <1>5 DEF ChildExit, ChildKilled, ChildGone, kernelVars, ExitInv, AllCallsOk, Blocks
<1>6. CASE ParentKilled
  BY <1>6, KillFrame DEF ExitInv, AllCallsOk, Blocks
<1>7. CASE UNCHANGED vars
  BY <1>7 DEF vars, ExitInv, AllCallsOk, Blocks
<1> QED
  BY <1>1, <1>2, <1>3, <1>4, <1>5, <1>6, <1>7 DEF Next, Over

\* What the parent holds under the delivered name.
LEMMA DeliveryStep == IInv /\ [Next]_vars => DeliveryInv'
<1> SUFFICES ASSUME TypeOK, DeliveryInv, [Next]_vars PROVE DeliveryInv'
  BY DEF IInv
<1> USE DEF TypeOK, Parent, DeliveryInv, SawRight, ParentUnchanged, kernelVars
<1>1. CASE Setup
  BY <1>1 DEF Setup
<1>2. CASE Fork \/ Restore
  <2>1. par'.look = par.look /\ par.look = NoLook /\ UNCHANGED <<deliv, fault>>
    BY <1>2 DEF Fork, Restore
  <2>2. pp' \in {"restore", "receive", "cleanup"}
    BY <1>2 DEF Fork, Restore
  <2> QED
    BY <2>1, <2>2 DEF NoLook
<1>3. CASE ReceiveDescriptor \/ ReceiveFails
  BY <1>3 DEF ReceiveDescriptor, ReceiveFails, NoLook
<1>4. CASE LookDelivered
  <2>0. pp = "look" /\ pp' = "verify" /\ deliv' = deliv /\ fault' = fault
        /\ deliv \in {0, Delivered(fault)}
    BY <1>4 DEF LookDelivered
  <2>1. CASE deliv = 0
    <3>1. par'.look.rkr = "absent"
      BY <1>4, <2>1 DEF LookDelivered, LookOf
    <3> QED
      BY <2>0, <3>1
  <2>2. CASE deliv # 0
    <3>1. fault # "not_send" /\ deliv = Delivered(fault)
      BY <2>0, <2>2 DEF Delivered
    <3> QED
      BY <2>0, <3>1
  <2> QED
    BY <2>1, <2>2
<1>5. CASE SendVerify
  BY <1>5 DEF SendVerify
<1>6. CASE ReadStatus \/ Wait \/ Report
  BY <1>6 DEF ReadStatus, Wait, Report
<1>7. CASE Cleanup
  BY <1>7 DEF Cleanup
<1>8. CASE ChildStep \/ ChildKilled
  BY <1>8, ChildFrame
<1>9. CASE ParentKilled
  BY <1>9, KillFrame
<1>10. CASE UNCHANGED vars
  BY <1>10 DEF vars
<1> QED
  BY <1>1, <1>2, <1>3, <1>4, <1>5, <1>6, <1>7, <1>8, <1>9, <1>10 DEF Next, ParentStep, Over

\* The parent's comparison with its baseline, and its bootstrap port.
LEMMA CleanStep == IInv /\ [Next]_vars => CleanInv'
<1> SUFFICES ASSUME TypeOK, CleanInv, [Next]_vars PROVE CleanInv'
  BY DEF IInv
<1> USE DEF TypeOK, Parent, CleanInv, ParentUnchanged, kernelVars
<1>1. CASE Setup
  <2>1. par'.restored = par.restored /\ pp' = "fork" /\ names' = names
    BY <1>1 DEF Setup
  <2>2. names = "ok" => par'.base # "gap"
    BY <1>1 DEF Setup, Capture
  <2>3. par.restored = "err"
    BY <1>1 DEF Setup
  <2> QED
    BY <2>1, <2>2, <2>3
<1>2. CASE Fork \/ Restore
  BY <1>2 DEF Fork, Restore
<1>3. CASE ReceiveDescriptor \/ ReceiveFails \/ LookDelivered
  BY <1>3 DEF ReceiveDescriptor, ReceiveFails, LookDelivered
<1>4. CASE SendVerify
  BY <1>4 DEF SendVerify
<1>5. CASE ReadStatus \/ Wait \/ Report
  BY <1>5 DEF ReadStatus, Wait, Report
<1>6. CASE Cleanup
  <2>1. PICK d, s, b \in Outcomes : Cleanup!2!(d, s, b)
    BY <1>6 DEF Cleanup
  <2>2. par'.base = par.base /\ par'.restored = par.restored
    BY <2>1
  <2>3. par'.cleanup = BaselineCompare(par.base, Capture(b), deliv' = 0 /\ ~svc')
    BY <2>1
  <2>4. par'.cleanup /\ names = "ok" => deliv' = 0 /\ ~svc'
    BY <2>3 DEF BaselineCompare
  <2> QED
    BY <1>6, <2>2, <2>4 DEF Cleanup
<1>7. CASE ChildStep \/ ChildKilled
  BY <1>7, ChildFrame
<1>8. CASE ParentKilled
  BY <1>8, KillFrame
<1>9. CASE UNCHANGED vars
  BY <1>9 DEF vars
<1> QED
  BY <1>1, <1>2, <1>3, <1>4, <1>5, <1>6, <1>7, <1>8, <1>9 DEF Next, ParentStep, Over

\* A verdict is final and is the one the chain of tests gives.
LEMMA VerdictStep == IInv /\ [Next]_vars => VerdictInv'
<1> SUFFICES ASSUME VerdictInv, [Next]_vars PROVE VerdictInv'
  BY DEF IInv
<1> USE DEF VerdictInv, ParentUnchanged, kernelVars, Verdict, SenderOk
<1>1. CASE ParentStep /\ ~Report
  <2>1. pp # "done" /\ verdict' = verdict
    BY <1>1 DEF ParentStep, Setup, Fork, Restore, ReceiveDescriptor, ReceiveFails,
                LookDelivered, SendVerify, ReadStatus, Wait, Cleanup
  <2> QED
    BY <2>1
<1>2. CASE Report
  BY <1>2 DEF Report
<1>3. CASE ChildStep \/ ChildKilled
  BY <1>3, ChildFrame
<1>4. CASE ParentKilled
  BY <1>4 DEF ParentKilled
<1>5. CASE UNCHANGED vars
  BY <1>5 DEF vars
<1> QED
  BY <1>1, <1>2, <1>3, <1>4, <1>5 DEF Next, Over

\* The child's bootstrap port stays the service port.
LEMMA BootStep == IInv /\ [Next]_vars => BootInv'
<1> SUFFICES ASSUME TypeOK, ReapInv, BootInv, [Next]_vars PROVE BootInv'
  BY DEF IInv
<1> USE DEF TypeOK, Parent, BootInv, ParentUnchanged, ChildUnchanged, kernelVars
<1>1. CASE Setup
  BY <1>1 DEF Setup, ReapInv, ChildPoints
<1>2. CASE Fork
  BY <1>2 DEF Fork, ReapInv, ChildPoints
<1>3. CASE Restore
  BY <1>3 DEF Restore
<1>4. CASE ReceiveDescriptor \/ ReceiveFails \/ LookDelivered
  BY <1>4 DEF ReceiveDescriptor, ReceiveFails, LookDelivered
<1>5. CASE SendVerify
  BY <1>5 DEF SendVerify
<1>6. CASE ReadStatus \/ Wait \/ Report
  BY <1>6 DEF ReadStatus, Wait, Report, ChildPoints
<1>7. CASE Cleanup
  BY <1>7 DEF Cleanup
<1>8. CASE ChildStep \/ ChildKilled
  <2>1. cp \in ChildPoints
    BY <1>8 DEF ChildStep, ChildPoints, ChildBegin, ChildMakeCargo, ChildLookBefore,
       ChildSend, ChildLookAfter, ChildReceive, ChildReceiveFails, ChildLookVerified,
       ChildCleanup, ChildWrite, ChildExit, ChildKilled
  <2>2. q'.original = 0
    <3>1. CASE ChildSend
      BY <2>1, <3>1 DEF ChildSend
    <3>2. CASE ChildCleanup
      BY <3>2 DEF ChildCleanup
    <3>3. CASE ChildReceive \/ ChildExit \/ ChildKilled
      BY <3>3 DEF ChildReceive, ChildExit, ChildKilled, ChildGone
    <3>4. CASE ~(ChildSend \/ ChildCleanup \/ ChildReceive \/ ChildExit \/ ChildKilled)
      BY <1>8, <3>4 DEF ChildStep, ChildBegin, ChildMakeCargo, ChildLookBefore,
         ChildLookAfter, ChildReceiveFails, ChildLookVerified, ChildWrite
    <3> QED
      BY <3>1, <3>2, <3>3, <3>4
  <2> QED
    BY <1>8, <2>1, <2>2, ChildFrame
<1>9. CASE ParentKilled
  BY <1>9 DEF ParentKilled
<1>10. CASE UNCHANGED vars
  BY <1>10 DEF vars
<1> QED
  BY <1>1, <1>2, <1>3, <1>4, <1>5, <1>6, <1>7, <1>8, <1>9, <1>10 DEF Next, ParentStep, Over

\* What is received at the cargo port was sent through the right the parent saw.
LEMMA MessageStep == IInv /\ [Next]_vars => MessageInv'
<1> SUFFICES ASSUME TypeOK, MessageInv, DeliveryInv, [Next]_vars PROVE MessageInv'
  BY DEF IInv
<1>0. ASSUME par'.look = par.look, par'.verify = par.verify, st'.recv = st.recv,
             st'.id = st.id, q'.cargo = 0 \/ q'.cargo = q.cargo,
             \/ pp' = pp
             \/ pp \in {"setup", "fork", "restore", "receive"}
             \/ pp' \in {"read", "wait", "cleanup", "judge", "done", "killed"}
      PROVE  MessageInv'
  BY <1>0 DEF MessageInv, SawRight, TypeOK
<1> USE DEF TypeOK, Parent, ParentUnchanged, kernelVars
<1>1. CASE Setup
  BY <1>0, <1>1 DEF Setup
<1>2. CASE Fork
  BY <1>0, <1>2 DEF Fork
<1>3. CASE Restore
  BY <1>0, <1>3 DEF Restore
<1>4. CASE ReceiveDescriptor
  BY <1>0, <1>4 DEF ReceiveDescriptor
<1>5. CASE ReceiveFails
  BY <1>0, <1>5 DEF ReceiveFails
<1>6. CASE LookDelivered
  <2>1. /\ pp' = "verify" /\ par.verify = "err" /\ par'.verify = "err"
        /\ UNCHANGED <<q, st>>
    BY <1>6 DEF LookDelivered, MessageInv
  <2>2. par'.look.rkr = "ok" /\ par'.look.refs >= 1 /\ par'.look.tkr = "ok" =>
          par'.look.type = "send"
    BY <1>6 DEF LookDelivered, LookOf
  <2>3. q.cargo = 0 /\ st.recv # "ok"
    BY <2>1 DEF MessageInv
  <2> QED
    BY <2>1, <2>2, <2>3 DEF MessageInv, SawRight
<1>7. CASE SendVerify
  <2>1. /\ pp' = "read" /\ UNCHANGED st /\ par'.look = par.look
        /\ q.cargo = 0 /\ st.recv # "ok"
    BY <1>7 DEF SendVerify, MessageInv
  <2>2. q'.cargo > 0 => par'.verify = "ok" /\ SawRight
    BY <1>7, <2>1 DEF SendVerify, SawRight, Look
  <2> QED
    BY <2>1, <2>2 DEF MessageInv, SawRight
<1>8. CASE ReadStatus
  BY <1>0, <1>8 DEF ReadStatus
<1>9. CASE Wait \/ Report
  BY <1>0, <1>9 DEF Wait, Report
<1>10. CASE Cleanup
  BY <1>0, <1>10 DEF Cleanup
<1>11. CASE ChildStep \/ ChildKilled
  <2>1. UNCHANGED <<pp, par>>
    BY <1>11, ChildFrame
  <2>2. CASE ChildBegin \/ ChildMakeCargo
    BY <1>0, <2>1, <2>2 DEF ChildBegin, ChildMakeCargo, Status
  <2>3. CASE ChildLookBefore \/ ChildLookAfter \/ ChildLookVerified
    BY <1>0, <2>1, <2>3 DEF ChildLookBefore, ChildLookAfter, ChildLookVerified, Status
  <2>4. CASE ChildSend
    BY <1>0, <2>1, <2>4 DEF ChildSend, Status
  <2>5. CASE ChildReceive
    BY <2>1, <2>5 DEF ChildReceive, Status, MessageInv, SawRight
  <2>6. CASE ChildReceiveFails
    BY <2>1, <2>6 DEF ChildReceiveFails, Status, MessageInv, SawRight
  <2>7. CASE ChildCleanup
    BY <1>0, <2>1, <2>7 DEF ChildCleanup, Status
  <2>8. CASE ChildWrite \/ ChildExit \/ ChildKilled
    BY <1>0, <2>1, <2>8 DEF ChildWrite, ChildExit, ChildKilled, ChildGone
  <2> QED
    BY <1>11, <2>2, <2>3, <2>4, <2>5, <2>6, <2>7, <2>8 DEF ChildStep
<1>12. CASE ParentKilled
  BY <1>0, <1>12 DEF ParentKilled
<1>13. CASE UNCHANGED vars
  BY <1>0, <1>13 DEF vars
<1> QED
  BY <1>1, <1>2, <1>3, <1>4, <1>5, <1>6, <1>7, <1>8, <1>9, <1>10, <1>11, <1>12, <1>13
     DEF Next, ParentStep, Over

\* A call that fails is paid for, so failures are never forgotten.
LEMMA FailsFall == TypeOK /\ [Next]_vars => fails' <= fails
<1> SUFFICES ASSUME TypeOK, [Next]_vars PROVE fails' <= fails
  OBVIOUS
<1>0. \A kr : Cost(kr) \in {0, 1}
  BY CostType
<1> USE DEF TypeOK
<1>1. CASE Setup
  BY <1>1, <1>0 DEF Setup
<1>2. CASE Fork \/ Restore
  BY <1>2, <1>0 DEF Fork, Restore
<1>3. CASE ReceiveDescriptor \/ ReceiveFails \/ ReadStatus \/ Wait \/ Report
  BY <1>3 DEF ReceiveDescriptor, ReceiveFails, ReadStatus, Wait, Report
<1>4. CASE LookDelivered
  BY <1>4, <1>0 DEF LookDelivered
<1>5. CASE SendVerify
  BY <1>5, <1>0 DEF SendVerify
<1>6. CASE Cleanup
  BY <1>6, <1>0 DEF Cleanup
<1>7. CASE ChildBegin \/ ChildMakeCargo
  <2>1. CASE ChildBegin
    BY <2>1, <1>0 DEF ChildBegin
  <2>2. CASE ChildMakeCargo
    <3>1. PICK a, i \in Outcomes : fails' = fails - (IF a = "err" THEN 1 ELSE Cost(i))
      BY <2>2 DEF ChildMakeCargo
    <3> QED
      BY <3>1, <1>0
  <2> QED
    BY <1>7, <2>1, <2>2
<1>8. CASE ChildLookBefore \/ ChildLookAfter \/ ChildLookVerified
  BY <1>8, <1>0 DEF ChildLookBefore, ChildLookAfter, ChildLookVerified, Affordable
<1>9. CASE ChildSend
  BY <1>9, <1>0 DEF ChildSend
<1>10. CASE ChildReceive \/ ChildReceiveFails \/ ChildWrite \/ ChildExit \/ ChildKilled
  BY <1>10 DEF ChildReceive, ChildReceiveFails, ChildWrite, ChildExit, ChildKilled, ChildGone
<1>11. CASE ChildCleanup
  BY <1>11, <1>0 DEF ChildCleanup
<1>12. CASE ParentKilled \/ UNCHANGED vars
  BY <1>12 DEF ParentKilled, vars
<1> QED
  BY <1>1, <1>2, <1>3, <1>4, <1>5, <1>6, <1>7, <1>8, <1>9, <1>10, <1>11, <1>12
     DEF Next, ParentStep, ChildStep, Over

\* A quiet run was quiet before the step, and its kernel is the same.
LEMMA QuietBefore == TypeOK /\ [Next]_vars /\ Quiet' => Quiet /\ fails' = fails
<1> SUFFICES ASSUME TypeOK, [Next]_vars, Quiet' PROVE Quiet /\ fails' = fails
  OBVIOUS
<1>1. UNCHANGED <<disp, fault>>
  BY ParentFrame, ChildFrame, KillFrame DEF Next, Over, vars
<1>2. fails' = MaxFails /\ fails <= MaxFails /\ fails \in Nat /\ fails' <= fails
  BY FailsFall DEF Quiet, TypeOK
<1> QED
  BY <1>1, <1>2 DEF Quiet

\* In a quiet run the parent's calls go well.
LEMMA QuietParentStep == IInv /\ [Next]_vars => QuietParentInv'
<1> SUFFICES ASSUME TypeOK, QuietParentInv, [Next]_vars, Quiet' PROVE QuietParentInv'
  BY DEF IInv, QuietParentInv
<1>0. /\ Quiet /\ fails' = fails /\ fails \in Nat
      /\ fault \notin {"two_urefs", "dealloc_noop"}
  BY QuietBefore DEF Quiet, Harmless, TypeOK
<1>c. \A kr \in Outcomes : Cost(kr) = 0 => kr = "ok"
  BY DEF Cost, Outcomes, KR
<1>d. \A kr : Cost(kr) \in {0, 1}
  BY CostType
<1> USE DEF TypeOK, Parent, SawRight, ParentUnchanged, kernelVars
<1>1. CASE Setup
  <2>1. PICK b, p \in Outcomes, s \in {"get", "alloc", "insert", "set", "ok"} :
          Setup!2!(b, p, s)
    BY <1>1 DEF Setup
  <2>2. Cost(b) = 0 /\ s = "ok"
    BY <2>1, <1>0, <1>d
  <2>3. par'.base = names /\ par'.look = par.look
    BY <2>1, <2>2, <1>c DEF Capture
  <2>4. svc'
    BY <2>1, <2>2
  <2>5. pp' = "fork" /\ UNCHANGED <<names, deliv>>
    BY <1>1 DEF Setup
  <2> QED
    BY <1>0, <2>3, <2>4, <2>5 DEF QuietParentInv
<1>2. CASE Fork
  BY <1>2, <1>0 DEF Fork, QuietParentInv
<1>3. CASE Restore
  BY <1>3, <1>0 DEF Restore, QuietParentInv
<1>4. CASE ReceiveDescriptor
  BY <1>4, <1>0 DEF ReceiveDescriptor, QuietParentInv, Delivered
<1>5. CASE ReceiveFails
  BY <1>5, <1>0 DEF ReceiveFails, QuietParentInv
<1>6. CASE LookDelivered
  <2>1. /\ pp = "look" /\ pp' = "verify" /\ par'.base = par.base
        /\ UNCHANGED <<names, deliv, svc>>
    BY <1>6 DEF LookDelivered
  <2>2. par'.look.rkr = "ok" => par'.look.tkr = "ok"
    <3>1. CASE deliv = 0
      BY <1>6, <3>1 DEF LookDelivered, LookOf
    <3>2. CASE deliv # 0
      <4> DEFINE refs == IF cargo.recv THEN deliv ELSE 0
                 type == IF cargo.recv THEN "send" ELSE "dead"
      <4>1. PICK t \in Outcomes, r \in RefsOutcomes(refs) :
              /\ fails' = fails - (Cost(t) + Cost(r))
              /\ par' = [par EXCEPT !.look = LookOf(t, r, type, refs)]
        BY <1>6, <3>2 DEF LookDelivered
      <4>2. t = "ok"
        BY <4>1, <1>0, <1>c, <1>d
      <4> QED
        BY <4>1, <4>2 DEF LookOf
    <3> QED
      BY <3>1, <3>2
  <2> QED
    BY <1>0, <2>1, <2>2 DEF QuietParentInv
<1>7. CASE SendVerify
  BY <1>7, <1>0 DEF SendVerify, QuietParentInv
<1>8. CASE ReadStatus
  BY <1>8, <1>0 DEF ReadStatus, QuietParentInv
<1>9. CASE Wait \/ Report
  BY <1>9, <1>0 DEF Wait, Report, QuietParentInv
<1>10. CASE Cleanup
  <2>1. PICK d, s, b \in Outcomes : Cleanup!2!(d, s, b)
    BY <1>10 DEF Cleanup
  <2>2. Cost(b) = 0 /\ (deliv > 0 => Cost(d) = 0) /\ (svc => Cost(s) = 0)
    BY <2>1, <1>0, <1>d
  <2>3. deliv <= 1 /\ par.base = names /\ svc
    BY <1>10, <1>0 DEF Cleanup, QuietParentInv
  <2>4. deliv' = 0
    BY <2>1, <2>2, <2>3, <1>0, <1>c DEF AfterDealloc
  <2>5. ~svc'
    <3>1. Quiet /\ fault # "name_stays"
      BY QuietBefore DEF IInv, TypeOK, Quiet, Harmless
    <3> QED
      BY <2>1, <2>2, <2>3, <3>1, <1>c
  <2>6. /\ par'.cleanup = BaselineCompare(par.base, Capture(b), deliv' = 0 /\ ~svc')
        /\ par'.base = par.base /\ par'.look = par.look
    BY <2>1
  <2>7. par'.cleanup
    BY <2>2, <2>3, <2>4, <2>5, <2>6, <1>c DEF BaselineCompare, Capture
  <2>8. pp' = "judge" /\ names' = names
    BY <1>10 DEF Cleanup
  <2> QED
    BY <1>0, <2>3, <2>4, <2>6, <2>7, <2>8 DEF QuietParentInv
<1>11. CASE ChildStep \/ ChildKilled
  BY <1>11, <1>0, ChildFrame DEF QuietParentInv
<1>12. CASE ParentKilled
  BY <1>12, <1>0 DEF ParentKilled, QuietParentInv
<1>13. CASE UNCHANGED vars
  BY <1>13, <1>0 DEF vars, QuietParentInv
<1> QED
  BY <1>1, <1>2, <1>3, <1>4, <1>5, <1>6, <1>7, <1>8, <1>9, <1>10, <1>11, <1>12, <1>13
     DEF Next, ParentStep, Over

\* In a quiet run whose parent is alive so do the child's.
LEMMA QuietChildStep == IInv /\ [Next]_vars => QuietChildInv'
<1> SUFFICES ASSUME IInv, QuietChildInv, [Next]_vars, Quiet', pp' # "killed" PROVE QuietChildInv'
  BY DEF IInv, QuietChildInv
<1>0. Quiet /\ fails' = fails /\ fails \in Nat /\ fault # "name_stays"
  BY QuietBefore DEF IInv, Quiet, Harmless, TypeOK
<1>1. CASE ParentStep
  <2>1. pipe.full = pipe'.full
    BY <1>1 DEF ParentStep, Setup, Fork, Restore, ReceiveDescriptor, ReceiveFails,
       LookDelivered, SendVerify, ReadStatus, Wait, Cleanup, Report, IInv, TypeOK
  <2>2. pp # "killed"
    BY <1>1 DEF ParentStep, Setup, Fork, Restore, ReceiveDescriptor, ReceiveFails,
       LookDelivered, SendVerify, ReadStatus, Wait, Cleanup, Report
  <2> QED
    BY <1>0, <1>1, <2>1, <2>2, ParentFrame DEF QuietChildInv, Past, ChildPoints
<1>c. \A kr \in Outcomes : Cost(kr) = 0 => kr = "ok"
  BY DEF Cost, Outcomes, KR
<1>d. \A kr : Cost(kr) \in {0, 1}
  BY CostType
<1>e. \A t \in Outcomes : \A r \in RefsOutcomes(cargo.refs) : Cost(t) + Cost(r) = 0 =>
        /\ Observed(t, r).tkr = "ok" /\ Observed(t, r).rkr # "err"
        /\ t = "ok" /\ (cargo.refs = 1 => r = "ok")
        /\ (cargo.refs = 1 => Observed(t, r).rkr = "ok")
  BY <1>c, <1>d DEF Observed, LookOf, RefsOutcomes, Cost
<1>f. ChildStep \/ ChildKilled => UNCHANGED <<pp, names>>
  BY ChildFrame
<1> USE DEF ChildUnchanged
<1>2. CASE ChildBegin
  <2>1. PICK g, b \in Outcomes : ChildBegin!2!(g, b)
    BY <1>2 DEF ChildBegin
  <2>2. g = "ok" /\ b = "ok"
    BY <2>1, <1>0, <1>c, <1>d
  <2>3. st'.boot = "ok" /\ st'.base = names
    BY <2>1, <2>2 DEF IInv, TypeOK, Status, Capture
  <2>4. cp' = "make" /\ ~pipe'.full
    BY <1>2, <2>1, <2>2 DEF ChildBegin, IInv, StatusInv
  <2> QED
    BY <2>3, <2>4, <1>2, <1>f DEF QuietChildInv, Past, ChildPoints, ChildStep
<1>3. CASE ChildMakeCargo
  <2>1. PICK a, i \in Outcomes : ChildMakeCargo!2!(a, i)
    BY <1>3 DEF ChildMakeCargo
  <2>2. (IF a = "err" THEN 1 ELSE Cost(i)) = 0
    BY <2>1, <1>0, <1>d
  <2>3. a = "ok" /\ i = "ok"
    BY <2>2, <1>c DEF Outcomes, KR
  <2>4. /\ st'.alloc = "ok" /\ st'.insert = "ok" /\ st'.boot = st.boot /\ st'.base = st.base
    BY <2>1, <2>3 DEF IInv, TypeOK, Status
  <2>5. cp = "make" /\ cp' = "before" /\ ~pipe'.full
    BY <1>3, <2>1, <2>3 DEF ChildMakeCargo, IInv, StatusInv
  <2> QED
    BY <2>4, <2>5, <1>0, <1>3, <1>f DEF QuietChildInv, Past, ChildPoints, ChildStep
<1>4. CASE ChildLookBefore
  <2>1. PICK t \in Outcomes, r \in RefsOutcomes(cargo.refs) : ChildLookBefore!2!(t, r)
    BY <1>4 DEF ChildLookBefore
  <2>2. Cost(t) + Cost(r) = 0
    BY <2>1, <1>0, <1>d DEF Affordable
  <2>3. cargo.refs = 1
    BY <1>4 DEF ChildLookBefore, IInv, CargoInv
  <2>4. t = "ok" /\ r = "ok" /\ Observed(t, r).tkr = "ok" /\ Observed(t, r).rkr = "ok"
    BY <2>2, <2>3, <1>e
  <2>5. /\ st'.before = Observed(t, r) /\ st'.alloc = st.alloc /\ st'.insert = st.insert
        /\ st'.boot = st.boot /\ st'.base = st.base
    BY <2>1 DEF IInv, TypeOK, Status
  <2>6. cp = "before" /\ cp' = "send" /\ ~pipe'.full
    BY <1>4, <2>1, <2>4 DEF ChildLookBefore, IInv, StatusInv
  <2> QED
    BY <2>4, <2>5, <2>6, <1>0, <1>4, <1>f DEF QuietChildInv, Past, ChildPoints, ChildStep
<1>5. CASE ChildSend
  <2>1. PICK kr \in Outcomes : ChildSend!2!(kr)
    BY <1>5 DEF ChildSend
  <2>2. kr = "ok"
    BY <2>1, <1>0, <1>c, <1>d
  <2>3. pp # "killed" /\ cp = "send" /\ cp \notin {"none", "reaped"}
    BY <1>5, <1>f DEF ChildSend, ChildStep
  <2>4. svc
    BY <2>3, <1>0 DEF IInv, TypeOK, ReapInv, QuietParentInv
  <2>5. st'.send = "ok" /\ cp' = "after"
    BY <2>1, <2>2, <2>4 DEF IInv, TypeOK, Status
  <2>6. /\ st'.before = st.before /\ st'.alloc = st.alloc /\ st'.insert = st.insert
        /\ st'.boot = st.boot /\ st'.base = st.base
    BY <2>1 DEF IInv, TypeOK, Status
  <2>7. ~pipe'.full
    BY <1>5 DEF ChildSend, IInv, StatusInv
  <2> QED
    BY <2>3, <2>5, <2>6, <2>7, <1>0, <1>5, <1>f DEF QuietChildInv, Past, ChildPoints, ChildStep
<1>6. CASE ChildLookAfter
  <2>1. PICK t \in Outcomes, r \in RefsOutcomes(cargo.refs) : ChildLookAfter!2!(t, r)
    BY <1>6 DEF ChildLookAfter
  <2>2. Cost(t) + Cost(r) = 0
    BY <2>1, <1>0, <1>d DEF Affordable
  <2>3. Observed(t, r).tkr = "ok" /\ Observed(t, r).rkr # "err"
    BY <2>2, <1>e
  <2>4. /\ st'.after = Observed(t, r) /\ st'.send = st.send
        /\ st'.before = st.before /\ st'.alloc = st.alloc /\ st'.insert = st.insert
        /\ st'.boot = st.boot /\ st'.base = st.base
    BY <2>1 DEF IInv, TypeOK, Status
  <2>5. cp = "after" /\ cp' = "recv" /\ ~pipe'.full
    BY <1>6 DEF ChildLookAfter, IInv, StatusInv
  <2> QED
    BY <2>3, <2>4, <2>5, <1>0, <1>6, <1>f DEF QuietChildInv, Past, ChildPoints, ChildStep
<1>7. CASE ChildReceive \/ ChildReceiveFails
  <2>1. st'.recv \in {"ok", "timeout"}
    <3>1. fails' = fails => ~(fails > 0 /\ fails' = fails - 1)
      BY <1>0
    <3> QED
      BY <1>0, <1>7, <3>1 DEF ChildReceive, ChildReceiveFails, IInv, TypeOK, Status
  <2>2. /\ st'.after = st.after /\ st'.send = st.send
        /\ st'.before = st.before /\ st'.alloc = st.alloc /\ st'.insert = st.insert
        /\ st'.boot = st.boot /\ st'.base = st.base
    BY <1>7 DEF ChildReceive, ChildReceiveFails, IInv, TypeOK, Status
  <2>3. cp = "recv" /\ cp' = "verified" /\ ~pipe'.full
    BY <1>7 DEF ChildReceive, ChildReceiveFails, IInv, StatusInv
  <2> QED
    BY <2>1, <2>2, <2>3, <1>0, <1>7, <1>f DEF QuietChildInv, Past, ChildPoints, ChildStep
<1>8. CASE ChildLookVerified
  <2>1. PICK t \in Outcomes, r \in RefsOutcomes(cargo.refs) : ChildLookVerified!2!(t, r)
    BY <1>8 DEF ChildLookVerified
  <2>2. Cost(t) + Cost(r) = 0
    BY <2>1, <1>0, <1>d DEF Affordable
  <2>3. Observed(t, r).tkr = "ok" /\ Observed(t, r).rkr # "err"
    BY <2>2, <1>e
  <2>4. /\ st'.verified = Observed(t, r) /\ st'.recv = st.recv
        /\ st'.after = st.after /\ st'.send = st.send
        /\ st'.before = st.before /\ st'.alloc = st.alloc /\ st'.insert = st.insert
        /\ st'.boot = st.boot /\ st'.base = st.base
    BY <2>1 DEF IInv, TypeOK, Status
  <2>5. cp = "verified" /\ cp' = "clean" /\ ~pipe'.full
    BY <1>8 DEF ChildLookVerified, IInv, StatusInv
  <2> QED
    BY <2>3, <2>4, <2>5, <1>0, <1>8, <1>f DEF QuietChildInv, Past, ChildPoints, ChildStep
<1>9. CASE ChildCleanup
  <2>1. PICK d, b \in Outcomes : ChildCleanup!2!(d, b)
    BY <1>9 DEF ChildCleanup
  <2>2. cp = "clean" /\ cp' = "write" /\ ~pipe'.full /\ pp # "killed"
    BY <1>9, <1>f DEF ChildCleanup, IInv, StatusInv, ChildStep
  <2>3. st.alloc = "ok" /\ st.base = names
    BY <2>2, <1>0 DEF QuietChildInv, Past, ChildPoints
  <2>4. Cost(d) + Cost(b) = 0
    BY <2>1, <2>3, <1>0, <1>d
  <2>5. d = "ok" /\ b = "ok"
    BY <2>4, <1>c, <1>d
  <2> DEFINE c == BaselineCompare(st.base, Capture(b),
                                  [recv |-> FALSE, refs |-> 0] = NoCargo)
             s == [st EXCEPT !.destroy = d, !.baseAfter = Capture(b), !.cleanup = c]
  <2>6. st' = [s EXCEPT !.exit = IF AllCallsOk(s) THEN 0 ELSE 1]
    BY <2>1, <2>3, <2>5, <1>0
  <2>7. c = TRUE
    BY <2>3, <2>5 DEF BaselineCompare, Capture, NoCargo, IInv, TypeOK
  <2> HIDE DEF c
  <2>8. st'.destroy = "ok" /\ st'.baseAfter = names /\ st'.cleanup
    BY <2>5, <2>6, <2>7 DEF IInv, TypeOK, Status, Capture
  <2>9. /\ st'.verified = st.verified /\ st'.recv = st.recv
        /\ st'.after = st.after /\ st'.send = st.send
        /\ st'.before = st.before /\ st'.alloc = st.alloc /\ st'.insert = st.insert
        /\ st'.boot = st.boot /\ st'.base = st.base
    BY <2>6 DEF IInv, TypeOK, Status
  <2> QED
    BY <2>2, <2>8, <2>9, <1>0, <1>9, <1>f DEF QuietChildInv, Past, ChildPoints, ChildStep
<1>10. CASE ChildWrite
  <2>1. cp = "write" /\ cp' = "exit" /\ UNCHANGED st /\ pp # "killed"
    BY <1>10 DEF ChildWrite
  <2> QED
    BY <2>1, <1>0, <1>10, <1>f DEF QuietChildInv, Past, ChildPoints, ChildStep
<1>11. CASE ChildExit \/ ChildKilled
  <2>1. cp' = "exited" /\ UNCHANGED <<st, pp, names>> /\ pipe'.full = pipe.full
    BY <1>11 DEF ChildExit, ChildKilled, ChildGone, kernelVars, IInv, TypeOK
  <2> QED
    BY <2>1, <1>0 DEF QuietChildInv, Past, ChildPoints
<1>12. CASE ParentKilled
  BY <1>12, KillFrame
<1>13. CASE UNCHANGED vars
  BY <1>0, <1>13 DEF vars, QuietChildInv, Past
<1> QED
  BY <1>1, <1>2, <1>3, <1>4, <1>5, <1>6, <1>7, <1>8, <1>9, <1>10, <1>11, <1>12, <1>13
     DEF Next, ChildStep, Over

\* The inductive invariant holds at the start.
LEMMA InitInv == Init => IInv
<1> SUFFICES ASSUME Init PROVE IInv
  OBVIOUS
<1>1. TypeOK
  BY InitTypeOK
<1>2. StatusInv /\ CargoInv /\ DeafInv /\ ReapInv /\ VerdictInv
  BY DEF Init, StatusInv, CargoInv, DeafInv, ReapInv, VerdictInv, InitialParent, PresetStatus
<1>6. BootInv /\ MessageInv
  BY DEF Init, BootInv, MessageInv, SawRight, ChildPoints, InitialParent, PresetStatus, NoLook
<1>7. QuietParentInv
  BY DEF Init, QuietParentInv, SawRight, InitialParent, NoLook
<1>8. QuietChildInv
  BY DEF Init, QuietChildInv, Past, ChildPoints
<1>3. LookInv
  <2>1. \A n : Shows(NoLook, n)
    BY DEF Shows, NoLook
  <2>2. st.before = NoLook /\ st.after = NoLook /\ st.verified = NoLook
    BY DEF Init, PresetStatus
  <2> QED
    BY <2>1, <2>2 DEF LookInv
<1>5. ExitInv
  BY DEF Init, ExitInv, PresetStatus, AllCallsOk
<1>4. DeliveryInv /\ CleanInv
  BY DEF Init, DeliveryInv, CleanInv, InitialParent, NoLook, SawRight
<1> QED
  BY <1>1, <1>2, <1>3, <1>4, <1>5, <1>6, <1>7, <1>8 DEF IInv

\* Every step preserves the inductive invariant.
LEMMA InvStep == IInv /\ [Next]_vars => IInv'
<1> SUFFICES ASSUME IInv, [Next]_vars PROVE IInv'
  OBVIOUS
<1>1. TypeOK'
  BY TypeStep DEF IInv
<1> QED
  BY <1>1, StatusStep, CargoStep, LookStep, DeafStep, ExitStep, DeliveryStep, CleanStep,
     ReapStep, VerdictStep, BootStep, MessageStep, QuietParentStep, QuietChildStep
     DEF IInv

\* The inductive invariant holds throughout.
THEOREM Invariance == Spec => []IInv
  BY InitInv, InvStep, PTL DEF Spec

-----------------------------------------------------------------------------
(* What a PASS is worth.                                                   *)

\* What the chain of tests has established when it comes out as PASS.
LEMMA PassMeans ==
  ASSUME IInv, verdict.status = "pass"
  PROVE  /\ pp = "done" /\ Established(par) /\ par.forked
         /\ SenderOk(st) /\ DeliveredSendRight(par) /\ DeliveredUsable(par, st)
         /\ st.exit = 0 /\ st.cleanup /\ par.cleanup /\ par.dealloc = "ok"
<1>1. pp = "done" /\ verdict = Verdict(par, child)
  BY DEF IInv, VerdictInv, NoVerdict
<1>2. /\ Established(par) /\ SenderOk(child)
      /\ DeliveredSendRight(par) /\ DeliveredUsable(par, child)
      /\ par.statusRead /\ ChildClean(par, child) /\ par.dealloc = "ok" /\ par.cleanup
  BY <1>1 DEF Verdict, Is
<1>3. child = st
  BY <1>2 DEF IInv, StatusInv
<1> QED
  BY <1>1, <1>2, <1>3 DEF ChildClean, Established

\* Each test that a PASS has come through excludes deviations of the kernel.
LEMMA InvPassSound == IInv => PassIsSound
<1> SUFFICES ASSUME IInv, verdict.status = "pass" PROVE fault \in Overlooked
  BY DEF PassIsSound
<1>1. fault \in Faults /\ disp \in {"copy", "move"}
  BY DEF IInv, TypeOK
<1>2. /\ Shows(st.before, 1) /\ Shows(st.after, Left)
      /\ st.recv = "ok" /\ Shows(st.verified, AfterVerify(fault, Left))
  BY PassMeans DEF IInv, LookInv, LeftVerified, DeliveredUsable
<1>3. disp = "move" => fault # "move_kept" /\ fault # "resurrect"
  BY <1>2, PassMeans DEF SenderOk, MoveConsumes, Shows, ZeroOrAbsent, Left, AfterSend,
     AfterVerify
<1>4. disp = "copy" => fault # "copy_consumed" /\ fault # "resurrect"
  BY <1>2, PassMeans DEF SenderOk, CopyKeeps, Shows, Left, AfterSend, AfterVerify
<1>5. fault # "deaf"
  BY <1>2 DEF IInv, DeafInv
<1>6. fault # "not_send"
  BY PassMeans DEF IInv, DeliveryInv, SawRight, DeliveredSendRight
<1>7. names = "ok" => fault # "name_stays"
  BY PassMeans DEF IInv, ExitInv, AllCallsOk
<1>8. names = "ok" => fault # "two_urefs" /\ fault # "dealloc_noop"
  <2>1. names = "ok" => deliv = 0
    BY PassMeans DEF IInv, CleanInv
  <2>2. deliv = AfterDealloc(fault, Delivered(fault))
    BY PassMeans DEF IInv, DeliveryInv, SawRight, DeliveredSendRight
  <2> QED
    BY <2>1, <2>2 DEF AfterDealloc, Delivered
<1>9. names \in {"ok", "gap"}
  BY DEF IInv, TypeOK
<1> QED
  BY <1>1, <1>3, <1>4, <1>5, <1>6, <1>7, <1>8, <1>9
     DEF Overlooked, Harmless, LeakFaults, Faults

\* A PASS is given only to a kernel that conforms in everything the probe looks
\* at: the verdict of the copy and move probes is sound for PASS under any number
\* of failing calls, killed processes and timed-out receives.
THEOREM PassSound == Spec => []PassIsSound
  BY InvPassSound, Invariance, PTL

\* A PASS leaves no right of the probe's ports in either task and the parent's
\* bootstrap port as it was.
THEOREM PassClean == Spec => []PassIsClean
<1>1. IInv => PassIsClean
  <2> SUFFICES ASSUME IInv, verdict.status = "pass"
               PROVE  /\ boot.parent = "original"
                      /\ names = "ok" => cargo = NoCargo /\ deliv = 0 /\ ~svc
    BY DEF PassIsClean
  <2>1. boot.parent = "original"
    BY PassMeans DEF IInv, CleanInv, Established
  <2>2. cargo = NoCargo
    BY PassMeans DEF IInv, ReapInv, CargoInv
  <2>3. names = "ok" => deliv = 0 /\ ~svc
    BY PassMeans DEF IInv, CleanInv
  <2> QED
    BY <2>1, <2>2, <2>3
<1> QED
  BY <1>1, Invariance, PTL

\* No verdict is reported while the forked child is still to be reaped.
THEOREM NoOrphan == Spec => []NoOrphanAtVerdict
<1>1. IInv => NoOrphanAtVerdict
  BY DEF IInv, ReapInv, VerdictInv, NoOrphanAtVerdict
<1> QED
  BY <1>1, Invariance, PTL

-----------------------------------------------------------------------------
(* What an accusation is worth, and where the descriptor goes.             *)

\* The descriptor is never queued at the system's bootstrap port, whenever the
\* parent restores its special port and whoever is killed.
THEOREM DescriptorPrivate == Spec => []DescriptorStaysPrivate
<1>1. IInv => DescriptorStaysPrivate
  BY DEF IInv, BootInv, DescriptorStaysPrivate
<1> QED
  BY <1>1, Invariance, PTL

\* In a quiet run whose child wrote its status and received the verify message, every
\* test of the verdict chain that could accuse the kernel comes out in its favour.
LEMMA QuietMeans ==
  ASSUME IInv, Quiet, pp = "done", par.statusRead, st.recv # "timeout"
  PROVE  /\ SenderOk(st) /\ DeliveredSendRight(par) /\ DeliveredUsable(par, st)
         /\ ChildClean(par, st) /\ par.cleanup
<1>1. pipe.full
  BY DEF IInv, StatusInv
<1>2. /\ st.base = names /\ st.boot = "ok" /\ st.alloc = "ok" /\ st.insert = "ok"
      /\ st.before.tkr = "ok" /\ st.before.rkr = "ok" /\ st.send = "ok"
      /\ st.after.tkr = "ok" /\ st.after.rkr # "err" /\ st.recv = "ok"
      /\ st.verified.tkr = "ok" /\ st.verified.rkr # "err"
      /\ st.destroy = "ok" /\ st.baseAfter = names /\ st.cleanup
  BY <1>1 DEF IInv, QuietChildInv, Past
<1>3. par.verify = "ok" /\ SawRight /\ st.id = 1
  BY <1>2 DEF IInv, MessageInv
<1>4. par.look.tkr = "ok" /\ par.look.type = "send"
  BY <1>3 DEF IInv, MessageInv, QuietParentInv
<1>5. DeliveredSendRight(par) /\ DeliveredUsable(par, st)
  BY <1>2, <1>3, <1>4 DEF DeliveredSendRight, DeliveredUsable, HasSend, SawRight
<1>6. /\ Shows(st.before, 1) /\ Shows(st.after, Left) /\ Shows(st.verified, Left)
  BY <1>2 DEF IInv, LookInv, LeftVerified, AfterVerify, Quiet, Harmless
<1>7. Left = IF disp = "copy" THEN 1 ELSE 0
  BY DEF IInv, TypeOK, Left, AfterSend, Quiet, Harmless
<1>8. st.after \in Look /\ st.verified \in Look
  BY DEF IInv, TypeOK, Status
<1>9. SenderOk(st) /\ (disp = "copy" => st.after.rkr = "ok" /\ st.verified.rkr = "ok")
  <2>1. CASE disp = "copy"
    <3>1. st.after.rkr = "ok" /\ st.verified.rkr = "ok"
      BY <1>2, <1>6, <1>7, <1>8, <2>1 DEF Shows, Look, KRRefs
    <3> QED
      BY <1>2, <1>6, <1>7, <2>1, <3>1 DEF SenderOk, CopyKeeps, Shows, TypeOf
  <2>2. CASE disp # "copy"
    BY <1>2, <1>6, <1>7, <1>8, <2>2
       DEF SenderOk, MoveConsumes, Shows, TypeOf, HasSend, ZeroOrAbsent, Look, KRRefs
  <2> QED
    BY <2>1, <2>2
<1>10. AllCallsOk(st)
  BY <1>2, <1>9 DEF IInv, TypeOK, AllCallsOk, Blocks
<1>11. ChildClean(par, st)
  BY <1>2, <1>10 DEF IInv, ExitInv, ChildClean
<1> QED
  BY <1>5, <1>9, <1>11 DEF IInv, QuietParentInv

\* FAIL / exact_contract of a child whose status was read and whose wait did not time
\* out is never given to a conforming kernel none of whose calls failed, however the
\* two processes interleave.
THEOREM AccusationJustified == Spec => []AccusationIsJustified
<1>1. IInv => AccusationIsJustified
  <2> SUFFICES ASSUME IInv, verdict.status = "fail", verdict.class = "exact_contract",
                      par.statusRead, child.recv # "timeout", ~Misbehaved
               PROVE  FALSE
    BY DEF AccusationIsJustified
  <2>1. Quiet
    BY DEF IInv, TypeOK, Misbehaved, Quiet
  <2>2. child = st /\ pp = "done" /\ verdict = Verdict(par, child)
    BY DEF IInv, StatusInv, VerdictInv, NoVerdict
  <2>3. /\ SenderOk(child) /\ DeliveredSendRight(par) /\ DeliveredUsable(par, child)
        /\ ChildClean(par, child) /\ par.cleanup
    BY <2>1, <2>2, QuietMeans
  <2> QED
    BY <2>2, <2>3 DEF Verdict, Is
<1> QED
  BY <1>1, Invariance, PTL

-----------------------------------------------------------------------------
(* The refinement of OracleProbe, its safety part.                         *)

\* Everything the contract allows, but for its fairness.
ContractSafety == Contract!Init /\ [][Contract!Next]_(Contract!vars)

\* The initial states of the probe are initial states of the contract.
LEMMA RefinesInit == Init => Contract!Init
  BY DEF Init, Contract!Init, HelperState, OutcomeState, NoVerdict

\* A step of the probe that leaves child and outcome as they are is none of the
\* contract's.
LEMMA Stutters ==
  ASSUME UNCHANGED <<disp, fault, names, verdict>>, HelperState' = HelperState,
         pp' = pp \/ (pp # "killed" /\ pp' # "killed")
  PROVE  UNCHANGED Contract!vars
  BY DEF Contract!vars, OutcomeState, Overlooked

\* Every step of the probe is a step of the contract or leaves its state alone.
LEMMA RefinesNext == IInv /\ [Next]_vars => [Contract!Next]_(Contract!vars)
<1> SUFFICES ASSUME IInv, [Next]_vars PROVE [Contract!Next]_(Contract!vars)
  OBVIOUS
<1>0. TypeOK /\ TypeOK' /\ IInv'
  BY InvStep DEF IInv
<1>1. CASE ParentStep /\ ~Fork /\ ~Report
  <2>1. UNCHANGED verdict /\ pp # "fork" /\ pp # "killed" /\ pp' # "killed"
    BY <1>1 DEF ParentStep, Setup, Restore, ReceiveDescriptor, ReceiveFails,
       LookDelivered, SendVerify, ReadStatus, Wait, Cleanup
  <2>2. HelperState' = HelperState
    BY <1>1, <2>1, ParentFrame DEF HelperState
  <2> QED
    BY <1>1, <2>1, <2>2, ParentFrame, Stutters
<1>2. CASE Fork
  <2>1. /\ pp = "fork" /\ pp' = "restore" /\ UNCHANGED <<disp, fault, names, verdict>>
        /\ verdict = NoVerdict /\ cp = "none" /\ cp' \in {"none", "begin"}
    BY <1>2 DEF Fork, kernelVars, IInv, VerdictInv, ReapInv
  <2>2. CASE cp' = "none"
    BY <2>1, <2>2, Stutters DEF HelperState
  <2>3. CASE cp' = "begin"
    <3>1. HelperState = "none" /\ HelperState' = "running"
      BY <2>1, <2>3 DEF HelperState
    <3>2. OutcomeState = "none" /\ OutcomeState' = "none"
      BY <2>1 DEF OutcomeState, NoVerdict
    <3>3. (fault \in Overlooked)' <=> (fault \in Overlooked)
      BY <2>1 DEF Overlooked
    <3>4. Contract!Spawn
      BY <3>1, <3>2, <3>3 DEF Contract!Spawn
    <3> QED
      BY <3>4 DEF Contract!Next
  <2> QED
    BY <2>1, <2>2, <2>3
<1>3. CASE Report
  <2>1. /\ pp = "judge" /\ pp' = "done" /\ UNCHANGED <<disp, fault, names, cp>>
        /\ verdict = NoVerdict /\ verdict' = Verdict(par, child)
        /\ cp \in {"none", "reaped"}
    BY <1>3 DEF Report, ParentUnchanged, kernelVars, IInv, VerdictInv, ReapInv
  <2>2. HelperState' = HelperState /\ HelperState # "running"
    BY <2>1 DEF HelperState
  <2>3. OutcomeState = "none" /\ OutcomeState' = verdict'.status
    BY <2>1 DEF OutcomeState, NoVerdict
  <2>4. verdict'.status \in {"pass", "fail", "probe_failure"}
    BY <2>1 DEF Verdict, Is
  <2>5. (fault \in Overlooked)' <=> (fault \in Overlooked)
    BY <2>1 DEF Overlooked
  <2>6. verdict'.status = "pass" => fault \in Overlooked
    <3>1. PassIsSound'
      BY <1>0, InvPassSound, PTL
    <3> QED
      BY <3>1, <2>5 DEF PassIsSound
  <2>7. Contract!Conclude
    BY <2>2, <2>3, <2>4, <2>5, <2>6 DEF Contract!Conclude, Contract!Outcomes
  <2> QED
    BY <2>7 DEF Contract!Next
<1>4. CASE ChildStep /\ ~ChildExit
  <2>1. cp \in ChildPoints /\ cp' \in ChildPoints
    BY <1>4 DEF ChildStep, ChildPoints, ChildBegin, ChildMakeCargo, ChildLookBefore,
       ChildSend, ChildLookAfter, ChildReceive, ChildReceiveFails, ChildLookVerified,
       ChildCleanup, ChildWrite
  <2>2. HelperState' = HelperState
    BY <2>1 DEF HelperState, ChildPoints
  <2> QED
    BY <1>4, <2>2, ChildFrame, Stutters
<1>5. CASE ChildExit \/ ChildKilled
  <2>1. cp \in ChildPoints /\ cp' = "exited"
    BY <1>5 DEF ChildExit, ChildKilled, ChildGone, ChildPoints
  <2>2. HelperState = "running" /\ HelperState' = "gone"
    BY <2>1 DEF HelperState, ChildPoints
  <2>3. UNCHANGED <<disp, fault, names, pp, verdict>>
    BY <1>5, ChildFrame DEF ChildStep
  <2>4. OutcomeState' = OutcomeState
    BY <2>3 DEF OutcomeState
  <2>5. (fault \in Overlooked)' <=> (fault \in Overlooked)
    BY <2>3 DEF Overlooked
  <2>6. Contract!HelperEnds
    BY <2>2, <2>4, <2>5 DEF Contract!HelperEnds
  <2> QED
    BY <2>6 DEF Contract!Next
<1>6. CASE ParentKilled
  <2>1. /\ pp \notin {"done", "killed"} /\ pp' = "killed" /\ verdict = NoVerdict
        /\ UNCHANGED <<disp, fault, names, cp>>
    BY <1>6, KillFrame DEF ParentKilled, IInv, VerdictInv
  <2>2. HelperState' = HelperState
    BY <2>1 DEF HelperState
  <2>3. OutcomeState = "none" /\ OutcomeState' = "killed"
    BY <2>1 DEF OutcomeState, NoVerdict
  <2>4. (fault \in Overlooked)' <=> (fault \in Overlooked)
    BY <2>1 DEF Overlooked
  <2>5. Contract!Killed
    BY <2>2, <2>3, <2>4 DEF Contract!Killed
  <2> QED
    BY <2>5 DEF Contract!Next
<1>7. CASE UNCHANGED vars
  <2>1. UNCHANGED <<disp, fault, names, verdict, pp>> /\ HelperState' = HelperState
    BY <1>7 DEF vars, HelperState
  <2> QED
    BY <2>1, Stutters
<1> QED
  BY <1>1, <1>2, <1>3, <1>4, <1>5, <1>6, <1>7 DEF Next, Over

\* The descriptor probes implement the contract of OracleProbe as far as safety goes:
\* one final outcome, reported with no helper running, "pass" only when deserved.
THEOREM RefinesContract == Spec => ContractSafety
  BY InitInv, InvStep, RefinesInit, RefinesNext, Invariance, PTL DEF Spec, ContractSafety
=============================================================================
