--------------------------- MODULE DescriptorProbe ---------------------------
(***************************************************************************)
(* The two-process descriptor probes macos_m2_descriptor_copy_send and     *)
(* macos_m2_descriptor_move_send.  The parent makes a service port, hands  *)
(* it to a forked child through the bootstrap special port, and restores   *)
(* its own bootstrap port.  The child sends a right for its cargo port in  *)
(* a message descriptor, looks at its own rights before and after, waits   *)
(* for a message sent back through the delivered right, cleans up and      *)
(* writes everything it saw as one struct into a pipe.  The parent judges  *)
(* the kernel from that struct and from its own observations.              *)
(*                                                                         *)
(* The line numbers in comments are those of descriptor_move_send.c.       *)
(***************************************************************************)
EXTENDS MachKernel, NxBaseline

CONSTANTS MaxFails,   \* bound on kernel calls that fail
          MaxDeaths   \* bound on processes killed (watchdog SIGALRM or a signal)

ASSUME BoundsAssumption == MaxFails \in Nat /\ MaxDeaths \in Nat

VARIABLES disp,     \* which probe this is: the disposition it sends
          fault,    \* the kernel's deviation, fixed in a run
          names,    \* mach_port_names: "ok", or "gap" (KERN_NOT_SUPPORTED)
          fails,    \* kernel calls that may still fail
          deaths,   \* processes that may still be killed
          pp, cp,   \* control points of parent and child
          par,      \* the parent's locals
          st,       \* the child's status struct, in the child
          child,    \* the parent's copy of it
          pipe,     \* the status pipe: its content and who can write
          boot,     \* the bootstrap special port of each task
          q,        \* messages queued at each port
          svc,      \* whether the service port exists
          cargo,    \* the child's rights under the cargo name
          deliv,    \* the parent's references under the delivered name
          verdict   \* what the parent reports

vars == <<disp, fault, names, fails, deaths, pp, cp, par, st, child, pipe, boot, q,
          svc, cargo, deliv, verdict>>

kernelVars == <<disp, fault, names>>

\* One mach_port_type and one mach_port_get_refs of the same name.
Look == [tkr: KR, type: PortTypes, rkr: KRRefs, refs: Nat]
NoLook == [tkr |-> "err", type |-> "zero", rkr |-> "err", refs |-> 0]

Status == [base: Baseline, boot: KR, alloc: KR, insert: KR, before: Look,
           send: MR, after: Look, recv: MR, id: {0, 1}, verified: Look,
           destroy: KR, baseAfter: Baseline, cleanup: BOOLEAN, exit: {0, 1, -1}]

\* child_run presets every return code to a failure (229-245) ...
PresetStatus ==
  [base |-> "err", boot |-> "err", alloc |-> "err", insert |-> "err",
   before |-> NoLook, send |-> "err", after |-> NoLook, recv |-> "err", id |-> 0,
   verified |-> NoLook, destroy |-> "err", baseAfter |-> "err",
   cleanup |-> FALSE, exit |-> 1]

\* ... but main clears its copy with memset, and 0 is KERN_SUCCESS (384-387).
ZeroLook == [tkr |-> "ok", type |-> "zero", rkr |-> "ok", refs |-> 0]
ClearedStatus ==
  [base |-> "ok", boot |-> "ok", alloc |-> "ok", insert |-> "ok",
   before |-> ZeroLook, send |-> "ok", after |-> ZeroLook, recv |-> "ok", id |-> 0,
   verified |-> ZeroLook, destroy |-> "ok", baseAfter |-> "ok",
   cleanup |-> FALSE, exit |-> -1]

Parent == [base: Baseline, pipe: BOOLEAN,
           setup: {"none", "get", "alloc", "insert", "set", "ok"}, forked: BOOLEAN,
           restored: KR, rcv: MR, look: Look, verify: MR, statusRead: BOOLEAN,
           waited: BOOLEAN, dealloc: KR, destroy: KR, baseAfter: Baseline,
           cleanup: BOOLEAN]

InitialParent ==
  [base |-> "err", pipe |-> FALSE, setup |-> "none", forked |-> FALSE,
   restored |-> "err", rcv |-> "err", look |-> NoLook, verify |-> "err",
   statusRead |-> FALSE, waited |-> FALSE, dealloc |-> "err", destroy |-> "err",
   baseAfter |-> "err", cleanup |-> FALSE]

Verdicts == [status: {"pass", "fail", "probe_failure"},
             class: {"exact_contract", "probe_failure"}]
NoVerdict == [status |-> "none", class |-> "none"]

NoCargo == [recv |-> FALSE, refs |-> 0]

-----------------------------------------------------------------------------
(* Kernel calls that may fail.                                             *)

\* A call fails only while the budget of failures lasts.
Cost(kr) == IF kr = "err" THEN 1 ELSE 0
Outcomes == IF fails > 0 THEN KR ELSE {"ok"}

\* nx_baseline_capture: mach_port_names succeeds, is unsupported, or fails.
Capture(kr) == IF kr = "err" THEN "err" ELSE names

\* mach_port_type and mach_port_get_refs(SEND) of an existing name, with return
\* codes t and r.  A failed call leaves its result at zero.  A name without a
\* send right has zero references or is refused.
LookOf(t, r, type, refs) ==
  [tkr |-> t, type |-> IF t = "ok" THEN type ELSE "zero",
   rkr |-> r, refs |-> IF r = "ok" THEN refs ELSE 0]

RefsOutcomes(refs) == IF refs = 0 THEN Outcomes \cup {"absent"} ELSE Outcomes

-----------------------------------------------------------------------------
(* The parent, main().                                                     *)

ParentUnchanged == UNCHANGED <<kernelVars, deaths, cp, st>>

\* Baseline, pipe and the chain of setup calls, each made only if the one before
\* it succeeded (380-447).  "setup" names the first call that failed.
Setup ==
  /\ pp = "setup"
  /\ \E b, p \in Outcomes, s \in {"get", "alloc", "insert", "set", "ok"} :
       LET cost == Cost(b) + Cost(p) + (IF s = "ok" THEN 0 ELSE 1)
       IN /\ cost <= fails
          /\ fails' = fails - cost
          /\ par' = [par EXCEPT !.base = Capture(b), !.pipe = (p = "ok"), !.setup = s]
          /\ pipe' = [pipe EXCEPT !.writers = IF p = "ok" THEN {"parent"} ELSE {}]
          /\ svc' = (s \in {"insert", "set", "ok"})
          /\ boot' = [boot EXCEPT !.parent = IF s = "ok" THEN "service" ELSE "original"]
  /\ pp' = "fork"
  /\ ParentUnchanged /\ UNCHANGED <<child, q, cargo, deliv, verdict>>

\* Mutant of Fork: the parent keeps its write end of the pipe open.
ForkKeepsWriteEnd ==
  /\ pp = "fork"
  /\ \/ /\ par.setup = "ok" /\ par.pipe
        /\ cp' = "begin"
        /\ par' = [par EXCEPT !.forked = TRUE]
        /\ boot' = [boot EXCEPT !.child = boot.parent]
        /\ pipe' = [pipe EXCEPT !.writers = {"parent", "child"}]
     \/ /\ ~(par.setup = "ok" /\ par.pipe)
        /\ UNCHANGED <<cp, par, boot, pipe>>
  /\ pp' = "restore"
  /\ UNCHANGED <<kernelVars, fails, deaths, st, child, q, svc, cargo, deliv, verdict>>

\* Mutant of Fork: the special port is restored before the child has inherited it.
ForkAfterRestore ==
  /\ pp = "fork"
  /\ \/ /\ par.setup = "ok" /\ par.pipe
        /\ cp' = "begin"
        /\ par' = [par EXCEPT !.forked = TRUE]
        /\ boot' = [parent |-> "original", child |-> "original"]
        /\ pipe' = [pipe EXCEPT !.writers = {"child"}]
     \/ /\ ~(par.setup = "ok" /\ par.pipe)
        /\ UNCHANGED <<cp, par, boot, pipe>>
  /\ pp' = "restore"
  /\ UNCHANGED <<kernelVars, fails, deaths, st, child, q, svc, cargo, deliv, verdict>>

\* fork: the child inherits the special ports and both ends of the pipe; the
\* parent closes the write end whether or not fork succeeded (449-457).
Fork ==
  /\ pp = "fork"
  /\ \/ /\ par.setup = "ok" /\ par.pipe
        /\ cp' = "begin"
        /\ par' = [par EXCEPT !.forked = TRUE]
        /\ boot' = [boot EXCEPT !.child = boot.parent]
        /\ pipe' = [pipe EXCEPT !.writers = {"child"}]
        /\ UNCHANGED fails
     \/ /\ par.setup = "ok" /\ par.pipe /\ fails > 0
        /\ fails' = fails - 1
        /\ pipe' = [pipe EXCEPT !.writers = {}]
        /\ UNCHANGED <<cp, par, boot>>
     \/ /\ ~(par.setup = "ok" /\ par.pipe)
        /\ UNCHANGED <<cp, par, boot, pipe, fails>>
  /\ pp' = "restore"
  /\ UNCHANGED <<kernelVars, deaths, st, child, q, svc, cargo, deliv, verdict>>

\* task_set_special_port back to the original, if it had been changed (459-462).
Restore ==
  /\ pp = "restore"
  /\ IF par.setup = "ok"
     THEN \E kr \in Outcomes :
            /\ fails' = fails - Cost(kr)
            /\ par' = [par EXCEPT !.restored = kr]
            /\ boot' = IF kr = "ok" THEN [boot EXCEPT !.parent = "original"] ELSE boot
     ELSE UNCHANGED <<fails, par, boot>>
  /\ pp' = IF par.forked THEN "receive" ELSE "cleanup"
  /\ ParentUnchanged /\ UNCHANGED <<child, pipe, q, svc, cargo, deliv, verdict>>

\* mach_msg receive of the descriptor, 5000 ms, and the look at the delivered
\* name (464-492).  A right whose port has died on the way arrives as MACH_PORT_DEAD,
\* which is not MACH_PORT_NULL but has no references: deliv is 0.
ReceiveDescriptor ==
  /\ pp = "receive"
  /\ q.service > 0
  /\ q' = [q EXCEPT !.service = q.service - 1]
  /\ deliv' = IF cargo.recv THEN Delivered(fault) ELSE 0
  /\ par' = [par EXCEPT !.rcv = "ok"]
  /\ pp' = "look"
  /\ ParentUnchanged /\ UNCHANGED <<fails, child, pipe, boot, svc, cargo, verdict>>

\* The receive times out, or fails and leaves the message where it is.
ReceiveFails ==
  /\ pp = "receive"
  /\ \/ /\ q.service = 0
        /\ par' = [par EXCEPT !.rcv = "timeout"]
        /\ UNCHANGED fails
     \/ /\ fails > 0
        /\ fails' = fails - 1
        /\ par' = [par EXCEPT !.rcv = "err"]
  /\ pp' = "read"
  /\ ParentUnchanged
  /\ UNCHANGED <<child, pipe, boot, q, svc, cargo, deliv, verdict>>

LookDelivered ==
  /\ pp = "look"
  /\ LET refs == IF cargo.recv THEN deliv ELSE 0
         type == IF cargo.recv THEN "send" ELSE "dead"
     IN IF deliv = 0
        THEN par' = [par EXCEPT !.look = LookOf("err", "absent", type, 0)]
             /\ UNCHANGED fails
        ELSE \E t \in Outcomes, r \in RefsOutcomes(refs) :
               /\ Cost(t) + Cost(r) <= fails
               /\ fails' = fails - (Cost(t) + Cost(r))
               /\ par' = [par EXCEPT !.look = LookOf(t, r, type, refs)]
  /\ pp' = "verify"
  /\ ParentUnchanged
  /\ UNCHANGED <<child, pipe, boot, q, svc, cargo, deliv, verdict>>

\* The verify message through the delivered right, if it has references (494-514).
SendVerify ==
  /\ pp = "verify"
  /\ IF par.look.rkr = "ok" /\ par.look.refs > 0
     THEN \E kr \in Outcomes :
            /\ fails' = fails - Cost(kr)
            /\ par' = [par EXCEPT !.verify = IF cargo.recv THEN kr ELSE "err"]
            /\ q' = IF kr = "ok" /\ cargo.recv /\ fault # "deaf"
                    THEN [q EXCEPT !.cargo = q.cargo + 1] ELSE q
     ELSE UNCHANGED <<fails, par, q>>
  /\ pp' = "read"
  /\ ParentUnchanged /\ UNCHANGED <<child, pipe, boot, svc, cargo, deliv, verdict>>

\* read_full: the whole struct, or end of file once nobody can write (517-519).
ReadStatus ==
  /\ pp = "read"
  /\ \/ /\ pipe.full
        /\ child' = st
        /\ par' = [par EXCEPT !.statusRead = TRUE]
     \/ /\ ~pipe.full /\ pipe.writers = {}
        /\ UNCHANGED <<child, par>>
  /\ pp' = "wait"
  /\ ParentUnchanged /\ UNCHANGED <<fails, pipe, boot, q, svc, cargo, deliv, verdict>>

\* Mutant of Wait: waitpid with WNOHANG, its result not looked at.
WaitNoHang ==
  /\ pp = "wait"
  /\ cp' = IF cp = "exited" THEN "reaped" ELSE cp
  /\ par' = [par EXCEPT !.waited = TRUE]
  /\ pp' = "cleanup"
  /\ UNCHANGED <<kernelVars, fails, deaths, st, child, pipe, boot, q, svc, cargo,
                 deliv, verdict>>

\* waitpid returns when the child has exited (521-523).
Wait ==
  /\ pp = "wait"
  /\ cp = "exited"
  /\ cp' = "reaped"
  /\ par' = [par EXCEPT !.waited = TRUE]
  /\ pp' = "cleanup"
  /\ UNCHANGED <<kernelVars, fails, deaths, st, child, pipe, boot, q, svc, cargo,
                 deliv, verdict>>

\* Deallocate the delivered name, destroy the service port, capture the final
\* baseline and compare (526-540).  The reference of the original bootstrap port is
\* given back too (533-536): its name was there before and stays, whatever comes of
\* the call, so neither baseline nor verdict tells.
Cleanup ==
  /\ pp = "cleanup"
  /\ \E d, s, b \in Outcomes :
       LET delivered == IF d = "ok" THEN AfterDealloc(fault, deliv) ELSE deliv
           service == svc /\ (s = "err" \/ fault = "name_stays")
           cost == (IF deliv > 0 THEN Cost(d) ELSE 0) + (IF svc THEN Cost(s) ELSE 0)
                     + Cost(b)
       IN /\ cost <= fails
          /\ fails' = fails - cost
          /\ deliv' = delivered
          /\ svc' = service
          /\ q' = IF service THEN q ELSE [q EXCEPT !.service = 0]
          /\ par' = [par EXCEPT
               !.dealloc = IF deliv > 0 THEN d ELSE "err",
               !.destroy = IF svc THEN s ELSE "err",
               !.baseAfter = Capture(b),
               !.cleanup = BaselineCompare(par.base, Capture(b),
                                           delivered = 0 /\ ~service)]
  /\ pp' = "judge"
  /\ ParentUnchanged /\ UNCHANGED <<child, pipe, boot, cargo, verdict>>

-----------------------------------------------------------------------------
(* The verdict (546-689).  Branches of the chain that follow one another   *)
(* and report the same status and class are one disjunction here.          *)

HasSend(type) == type \in {"send", "send_receive"}
ZeroOrAbsent(look) == (look.rkr = "ok" /\ look.refs = 0) \/ look.rkr = "absent"

\* Mutant of CopyKeeps: the rights are not looked at again after the verify message.
CopyKeepsUnverified(c) ==
  /\ c.before.tkr = "ok" /\ c.before.type = "send_receive"
  /\ c.after.tkr = "ok" /\ c.after.type = c.before.type
  /\ c.before.rkr = "ok" /\ c.after.rkr = "ok" /\ c.after.refs = c.before.refs

\* Mutant of CopyKeeps: the rule of the MOVE_SEND probe, left by copy and paste.
CopyKeepsPasted(c) == c.before.refs = 1 /\ ~HasSend(c.after.type) /\ ZeroOrAbsent(c.after)

\* descriptor_copy_send.c: nothing about the sender's right may change.
CopyKeeps(c) ==
  /\ c.before.tkr = "ok" /\ c.before.type = "send_receive"
  /\ c.after.tkr = "ok" /\ c.after.type = c.before.type
  /\ c.before.rkr = "ok" /\ c.after.rkr = "ok" /\ c.after.refs = c.before.refs
  /\ c.verified.tkr = "ok" /\ c.verified.type = c.before.type
  /\ c.verified.rkr = "ok" /\ c.verified.refs = c.before.refs

\* Mutant of MoveConsumes: the rights are not looked at again after the verify message.
MoveConsumesUnverified(c) ==
  /\ c.before.tkr = "ok" /\ c.before.type = "send_receive"
  /\ c.before.rkr = "ok" /\ c.before.refs = 1
  /\ c.after.tkr = "ok" /\ ~HasSend(c.after.type) /\ ZeroOrAbsent(c.after)

\* descriptor_move_send.c: the sender's only reference must be gone for good.
MoveConsumes(c) ==
  /\ c.before.tkr = "ok" /\ c.before.type = "send_receive"
  /\ c.before.rkr = "ok" /\ c.before.refs = 1
  /\ c.after.tkr = "ok" /\ ~HasSend(c.after.type) /\ ZeroOrAbsent(c.after)
  /\ c.verified.tkr = "ok" /\ ~HasSend(c.verified.type) /\ ZeroOrAbsent(c.verified)

SenderOk(c) == IF disp = "copy" THEN CopyKeeps(c) ELSE MoveConsumes(c)

\* parent_delivered_send_right
DeliveredSendRight(p) ==
  p.look.tkr = "ok" /\ HasSend(p.look.type) /\ p.look.rkr = "ok" /\ p.look.refs >= 1

\* delivered_right_usable
DeliveredUsable(p, c) == p.verify = "ok" /\ c.recv = "ok" /\ c.id = 1

\* child_clean
ChildClean(p, c) == p.statusRead /\ c.exit = 0 /\ c.cleanup

\* Setup, fork, restore and the descriptor receive went through.  No deviation here
\* changes the number of descriptors or delivers MACH_PORT_NULL: a kernel that
\* transfers no right delivers a name without one (546-549).
Established(p) ==
  /\ ~Blocks(p.base) /\ p.pipe /\ p.setup = "ok" /\ p.forked /\ p.restored = "ok"
  /\ p.rcv = "ok"

Is(s, c) == [status |-> s, class |-> c]

Verdict(p, c) ==
  IF ~Established(p) THEN Is("probe_failure", "probe_failure")
  ELSE IF ~(SenderOk(c) /\ DeliveredSendRight(p) /\ DeliveredUsable(p, c))
       THEN Is("fail", "exact_contract")
  ELSE IF ~p.statusRead \/ ~p.waited THEN Is("probe_failure", "probe_failure")
  ELSE IF ~ChildClean(p, c) THEN Is("fail", "exact_contract")
  ELSE IF p.dealloc # "ok" \/ p.destroy # "ok" THEN Is("fail", "probe_failure")
  ELSE IF Blocks(p.baseAfter) THEN Is("probe_failure", "probe_failure")
  ELSE IF ~p.cleanup THEN Is("fail", "exact_contract")
  ELSE Is("pass", "exact_contract")

\* Judge and return (582-687, 954); the result object is printed in between.
Report ==
  /\ pp = "judge"
  /\ verdict' = Verdict(par, child)
  /\ pp' = "done"
  /\ ParentUnchanged
  /\ UNCHANGED <<fails, par, child, pipe, boot, q, svc, cargo, deliv>>

ParentStep ==
  \/ Setup \/ Fork \/ Restore \/ ReceiveDescriptor \/ ReceiveFails
  \/ LookDelivered \/ SendVerify \/ ReadStatus \/ Wait \/ Cleanup \/ Report

-----------------------------------------------------------------------------
(* The child, child_run().                                                 *)

ChildUnchanged ==
  UNCHANGED <<kernelVars, deaths, pp, par, child, boot, svc, deliv, verdict>>

\* task_get_special_port and the first baseline (252-256).
ChildBegin ==
  /\ cp = "begin"
  /\ \E g, b \in Outcomes :
       /\ Cost(g) + Cost(b) <= fails
       /\ fails' = fails - (Cost(g) + Cost(b))
       /\ st' = [st EXCEPT !.boot = g, !.base = Capture(b)]
       /\ cp' = IF g = "ok" THEN "make" ELSE "clean"
  /\ ChildUnchanged /\ UNCHANGED <<pipe, q, cargo>>

\* Allocate the cargo port and insert a send right (258-265).
ChildMakeCargo ==
  /\ cp = "make"
  /\ \E a, i \in Outcomes :
       LET cost == IF a = "err" THEN 1 ELSE Cost(i)
       IN /\ fails' = fails - cost
          /\ st' = [st EXCEPT !.alloc = a, !.insert = IF a = "ok" THEN i ELSE "err"]
          /\ cargo' = [recv |-> a = "ok", refs |-> IF a = "ok" /\ i = "ok" THEN 1 ELSE 0]
          /\ cp' = IF a = "ok" /\ i = "ok" THEN "before" ELSE "clean"
  /\ ChildUnchanged /\ UNCHANGED <<pipe, q>>

\* mach_port_type and mach_port_get_refs of the cargo name, at a cost.
Observed(t, r) == LookOf(t, r, TypeOf(cargo.recv, cargo.refs), cargo.refs)
Affordable(t, r) ==
  /\ Cost(t) + Cost(r) <= fails
  /\ fails' = fails - (Cost(t) + Cost(r))

\* Both must succeed, or nothing is sent (266-275).
ChildLookBefore ==
  /\ cp = "before"
  /\ \E t \in Outcomes, r \in RefsOutcomes(cargo.refs) :
       /\ Affordable(t, r)
       /\ st' = [st EXCEPT !.before = Observed(t, r)]
       /\ cp' = IF t = "ok" /\ r = "ok" THEN "send" ELSE "clean"
  /\ ChildUnchanged /\ UNCHANGED <<pipe, q, cargo>>

\* mach_msg send of the descriptor to whatever port the bootstrap port was at
\* fork, 5000 ms (276-298).
ChildSend ==
  /\ cp = "send"
  /\ \E kr \in Outcomes :
       LET dest == boot.child
           sent == kr = "ok" /\ (dest = "service" => svc)
       IN /\ fails' = fails - Cost(kr)
          /\ st' = [st EXCEPT !.send = IF sent THEN "ok" ELSE "err"]
          /\ q' = IF sent THEN [q EXCEPT ![dest] = q[dest] + 1] ELSE q
          /\ cargo' = IF sent
                      THEN [cargo EXCEPT !.refs = AfterSend(disp, fault, cargo.refs)]
                      ELSE cargo
          /\ cp' = IF sent THEN "after" ELSE "clean"
  /\ ChildUnchanged /\ UNCHANGED pipe

ChildLookAfter ==
  /\ cp = "after"
  /\ \E t \in Outcomes, r \in RefsOutcomes(cargo.refs) :
       /\ Affordable(t, r)
       /\ st' = [st EXCEPT !.after = Observed(t, r)]
  /\ cp' = "recv"
  /\ ChildUnchanged /\ UNCHANGED <<pipe, q, cargo>>

\* mach_msg receive on the cargo port, 5000 ms (307-325).
ChildReceive ==
  /\ cp = "recv"
  /\ q.cargo > 0
  /\ q' = [q EXCEPT !.cargo = q.cargo - 1]
  /\ st' = [st EXCEPT !.recv = "ok", !.id = 1]
  /\ cargo' = [cargo EXCEPT !.refs = AfterVerify(fault, cargo.refs)]
  /\ cp' = "verified"
  /\ ChildUnchanged /\ UNCHANGED <<fails, pipe>>

ChildReceiveFails ==
  /\ cp = "recv"
  /\ \/ /\ q.cargo = 0
        /\ st' = [st EXCEPT !.recv = "timeout"]
        /\ UNCHANGED fails
     \/ /\ fails > 0
        /\ fails' = fails - 1
        /\ st' = [st EXCEPT !.recv = "err"]
  /\ cp' = "verified"
  /\ ChildUnchanged /\ UNCHANGED <<pipe, q, cargo>>

ChildLookVerified ==
  /\ cp = "verified"
  /\ \E t \in Outcomes, r \in RefsOutcomes(cargo.refs) :
       /\ Affordable(t, r)
       /\ st' = [st EXCEPT !.verified = Observed(t, r)]
  /\ cp' = "clean"
  /\ ChildUnchanged /\ UNCHANGED <<pipe, q, cargo>>

\* Mutant of AllCallsOk: the MOVE_SEND probe wants the later reference counts too.
AllCallsOkStrict(s) ==
  /\ ~Blocks(s.base) /\ s.boot = "ok" /\ s.alloc = "ok" /\ s.insert = "ok"
  /\ s.before.tkr = "ok" /\ s.before.rkr = "ok" /\ s.send = "ok"
  /\ s.after.tkr = "ok" /\ s.recv = "ok" /\ s.verified.tkr = "ok"
  /\ s.after.rkr = "ok" /\ s.verified.rkr = "ok"
  /\ s.destroy = "ok" /\ ~Blocks(s.baseAfter) /\ s.cleanup

\* The calls whose success child_run's exit code stands for (350-364);
\* descriptor_copy_send.c also wants the later reference counts (336-352).
AllCallsOk(s) ==
  /\ ~Blocks(s.base) /\ s.boot = "ok" /\ s.alloc = "ok" /\ s.insert = "ok"
  /\ s.before.tkr = "ok" /\ s.before.rkr = "ok" /\ s.send = "ok"
  /\ s.after.tkr = "ok" /\ s.recv = "ok" /\ s.verified.tkr = "ok"
  /\ disp = "copy" => s.after.rkr = "ok" /\ s.verified.rkr = "ok"
  /\ s.destroy = "ok" /\ ~Blocks(s.baseAfter) /\ s.cleanup

\* Destroy the cargo port, compare with the baseline, settle the exit code
\* (334-364).
ChildCleanup ==
  /\ cp = "clean"
  /\ \E d, b \in Outcomes :
       LET tried == st.alloc = "ok"
           cost == (IF tried THEN Cost(d) ELSE 0) + Cost(b)
           left == IF ~tried \/ d = "err" THEN cargo
                   ELSE [recv |-> FALSE, refs |-> IF fault = "name_stays" THEN 1 ELSE 0]
           s == [st EXCEPT !.destroy = IF tried THEN d ELSE "err",
                           !.baseAfter = Capture(b),
                           !.cleanup = BaselineCompare(st.base, Capture(b), left = NoCargo)]
       IN /\ cost <= fails
          /\ fails' = fails - cost
          /\ cargo' = left
          /\ st' = [s EXCEPT !.exit = IF AllCallsOk(s) THEN 0 ELSE 1]
          /\ q' = IF left.recv THEN q ELSE [q EXCEPT !.cargo = 0]
  /\ cp' = "write"
  /\ ChildUnchanged /\ UNCHANGED pipe

\* write_full of the struct; without a reader SIGPIPE ends the child (366).
ChildWrite ==
  /\ cp = "write"
  /\ pp # "killed"
  /\ pipe' = [pipe EXCEPT !.full = TRUE]
  /\ cp' = "exit"
  /\ ChildUnchanged /\ UNCHANGED <<fails, st, q, cargo>>

\* Everything a process holds goes when it ends.
ChildGone ==
  /\ cp' = "exited"
  /\ pipe' = [pipe EXCEPT !.writers = pipe.writers \ {"child"}]
  /\ cargo' = NoCargo
  /\ q' = [q EXCEPT !.cargo = 0]
  /\ UNCHANGED <<kernelVars, fails, pp, par, st, child, boot, svc, deliv, verdict>>

\* close and _exit (367-370), or SIGPIPE.
ChildExit ==
  /\ cp = "exit" \/ (cp = "write" /\ pp = "killed")
  /\ ChildGone
  /\ UNCHANGED deaths

ChildStep ==
  \/ ChildBegin \/ ChildMakeCargo \/ ChildLookBefore \/ ChildSend \/ ChildLookAfter
  \/ ChildReceive \/ ChildReceiveFails \/ ChildLookVerified \/ ChildCleanup
  \/ ChildWrite \/ ChildExit

-----------------------------------------------------------------------------
(* Watchdogs and signals, and the specification.                           *)

ChildPoints == {"begin", "make", "before", "send", "after", "recv", "verified",
                "clean", "write", "exit"}

\* alarm(OB22_TIMEOUT_SECONDS) in child_run, or any other fatal signal.
ChildKilled ==
  /\ cp \in ChildPoints
  /\ deaths > 0
  /\ deaths' = deaths - 1
  /\ ChildGone

\* alarm(OB22_TIMEOUT_SECONDS) in main.
ParentKilled ==
  /\ pp \notin {"done", "killed"}
  /\ deaths > 0
  /\ deaths' = deaths - 1
  /\ pp' = "killed"
  /\ svc' = FALSE
  /\ deliv' = 0
  /\ q' = [q EXCEPT !.service = 0]
  /\ pipe' = [pipe EXCEPT !.writers = pipe.writers \ {"parent"}]
  /\ UNCHANGED <<kernelVars, fails, cp, par, st, child, boot, cargo, verdict>>

\* Both processes are over: the system stays as it is.
Over ==
  /\ pp \in {"done", "killed"} /\ cp \in {"none", "exited", "reaped"}
  /\ UNCHANGED vars

Init ==
  /\ disp \in {"copy", "move"}
  /\ fault \in Faults
  /\ names \in {"ok", "gap"}
  /\ fails = MaxFails
  /\ deaths = MaxDeaths
  /\ pp = "setup" /\ cp = "none"
  /\ par = InitialParent
  /\ st = PresetStatus
  /\ child = ClearedStatus
  /\ pipe = [full |-> FALSE, writers |-> {}]
  /\ boot = [parent |-> "original", child |-> "original"]
  /\ q = [original |-> 0, service |-> 0, cargo |-> 0]
  /\ svc = FALSE
  /\ cargo = NoCargo
  /\ deliv = 0
  /\ verdict = NoVerdict

Next == ParentStep \/ ChildStep \/ ChildKilled \/ ParentKilled \/ Over

\* Each process runs on; nothing obliges a watchdog to fire.
Spec == Init /\ [][Next]_vars /\ WF_vars(ParentStep) /\ WF_vars(ChildStep)

-----------------------------------------------------------------------------
(* Properties.                                                             *)

TypeOK ==
  /\ disp \in {"copy", "move"} /\ fault \in Faults /\ names \in {"ok", "gap"}
  /\ fails \in 0..MaxFails /\ deaths \in 0..MaxDeaths
  /\ pp \in {"setup", "fork", "restore", "receive", "look", "verify", "read", "wait",
             "cleanup", "judge", "done", "killed"}
  /\ cp \in ChildPoints \cup {"none", "exited", "reaped"}
  /\ par \in Parent /\ st \in Status /\ child \in Status
  /\ pipe \in [full: BOOLEAN, writers: SUBSET {"parent", "child"}]
  /\ boot \in [parent: {"original", "service"}, child: {"original", "service"}]
  /\ q \in [original: Nat, service: Nat, cargo: Nat]
  /\ svc \in BOOLEAN
  /\ cargo \in [recv: BOOLEAN, refs: Nat]
  /\ deliv \in Nat
  /\ verdict \in Verdicts \cup {NoVerdict}

\* The deviations a passing probe may have overlooked: the ones its disposition
\* never exercises and, where mach_port_names is unsupported and two gaps compare
\* equal, the ones that only leave names behind.
Overlooked == Harmless(disp) \cup (IF names = "gap" THEN LeakFaults ELSE {})

\* A probe passes only on a kernel that conforms in everything the probe is
\* about, whatever calls fail, whoever is killed and whichever receive times out:
\* the verdict chain never calls a deviating kernel PASS (582-689).
PassIsSound == verdict.status = "pass" => fault \in Overlooked

\* A passing probe has returned both namespaces and the bootstrap port to what
\* they were: with mach_port_names supported, no right of the service, cargo or
\* delivered port is left in either task (334-343, 526-540).
PassIsClean ==
  verdict.status = "pass" =>
    /\ boot.parent = "original"
    /\ names = "ok" => cargo = NoCargo /\ deliv = 0 /\ ~svc

\* A result is reported only after the forked child has been reaped, so no helper
\* outlives its probe's verdict (517-523).
NoOrphanAtVerdict ==
  verdict # NoVerdict => cp = IF par.forked THEN "reaped" ELSE "none"

\* The kernel or one of its calls misbehaved in this run.
Misbehaved == fault \notin Harmless(disp) \/ fails < MaxFails

\* FAIL / exact_contract, which accuses the kernel, is justified when the child's
\* status was really read and its wait for the verify message did not time out
\* because the parent was slow (582-689).
AccusationIsJustified ==
  /\ verdict.status = "fail" /\ verdict.class = "exact_contract"
  /\ par.statusRead
  /\ child.recv # "timeout"
  => Misbehaved

\* The descriptor never reaches the system's real bootstrap port: restoring the
\* parent's special port right after fork cannot redirect the child (449-462).
DescriptorStaysPrivate == q.original = 0

-----------------------------------------------------------------------------
(* The probe implements the contract of OracleProbe.                       *)

HelperState ==
  CASE cp = "none"                  -> "none"
    [] cp \in {"exited", "reaped"}  -> "gone"
    [] OTHER                        -> "running"

OutcomeState == IF pp = "killed" THEN "killed" ELSE verdict.status

Contract == INSTANCE OracleProbe WITH deserved <- fault \in Overlooked,
                                      helper <- HelperState,
                                      outcome <- OutcomeState

\* The two-process probe is a probe in the sense of OracleProbe: its verdict is
\* final, comes after its helper has ended, is "pass" only when deserved, and both
\* processes end.
ImplementsContract == Contract!Spec
=============================================================================
