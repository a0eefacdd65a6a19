---------------------------- MODULE SendOnceProbe ----------------------------
(***************************************************************************)
(* The two-process probe macos_m2_send_once_descriptor.  The child makes a *)
(* send-once right for its cargo port, moves it to the parent in a message *)
(* descriptor, and waits for two messages of which only the first may      *)
(* come.  The parent uses the delivered right twice.  Both processes look  *)
(* at the right before and after it should have been consumed.             *)
(*                                                                         *)
(* A send-once right that is destroyed unused makes the kernel send a      *)
(* notification to the port, so a message that arrives at the cargo port   *)
(* need not come from the parent.                                          *)
(***************************************************************************)
EXTENDS NxBaseline, Integers, Sequences

CONSTANTS MaxFails,   \* bound on kernel calls that fail
          MaxDeaths   \* bound on processes killed

ASSUME BoundsAssumption == MaxFails \in Nat /\ MaxDeaths \in Nat

VARIABLES fault,    \* the kernel's deviation, fixed in a run
          names,    \* mach_port_names: "ok", or "gap" (KERN_NOT_SUPPORTED)
          fails,    \* kernel calls that may still fail
          deaths,   \* processes that may still be killed
          pp, cp,   \* control points of parent and child
          par,      \* the parent's locals
          st,       \* the child's status struct, in the child
          child,    \* the parent's copy of it
          pipe,     \* the status pipe: its content and who can write
          boot,     \* the parent's bootstrap special port
          svc,      \* whether the service port exists
          sent,     \* whether the descriptor is queued at the service port
          inbox,    \* the messages queued at the cargo port
          cargo,    \* whether the cargo port exists
          once,     \* what the child holds under the send-once name
          deliv,    \* what the parent holds under the delivered name
          verdict   \* what the parent reports

vars == <<fault, names, fails, deaths, pp, cp, par, st, child, pipe, boot, svc, sent,
          inbox, cargo, once, deliv, verdict>>

-----------------------------------------------------------------------------
(* The kernel under test.                                                  *)

Faults == {"none",
           "fresh_send",  \* a new receive right comes with a send right
           "made_send",   \* MAKE_SEND_ONCE makes a send right
           "kept",        \* MOVE_SEND_ONCE leaves the sender's right
           "null",        \* the descriptor arrives without a right
           "as_send",     \* the right arrives as a send right
           "two_refs",    \* the right arrives twice under its name
           "deaf",        \* a message sent through the right is lost
           "reusable",    \* the right survives its use
           "phantom",     \* a message is accepted though the right is gone
           "echo",        \* the message arrives twice
           "notifies",    \* the used right also sends the notification of an unused one
           "dead_stays",  \* a consumed right leaves a dead name
           "name_stays"}  \* mach_port_destroy succeeds and leaves the name

KR == {"ok", "absent", "err"}
MR == {"ok", "timeout", "err"}
Messages == {"first", "second", "notify"}
Kinds == {"none", "once", "send", "dead"}
Right == [kind: Kinds, refs: Nat]
Hold(kind, refs) == [kind |-> kind, refs |-> refs]
Nothing == Hold("none", 0)

\* The right is gone, or only its name is left.
Spent == IF fault = "dead_stays" THEN Hold("dead", 1) ELSE Nothing

\* A right for a port that has died is a dead name.
Seen(h) == IF h.kind \in {"once", "send"} /\ ~cargo THEN Hold("dead", h.refs) ELSE h

\* What one use leaves of the right.
Used(h) == CASE fault = "reusable" -> h
             [] h.refs > 1         -> Hold(h.kind, h.refs - 1)
             [] OTHER              -> Spent

\* What a message through the right puts into the inbox.
Posted(msg) == CASE fault = "deaf"     -> <<>>
                 [] fault = "echo"     -> <<msg, msg>>
                 [] fault = "notifies" -> <<"notify", msg>>
                 [] OTHER              -> <<msg>>

Notice(unused) == IF unused /\ cargo THEN <<"notify">> ELSE <<>>

Cost(kr) == IF kr = "err" THEN 1 ELSE 0
Outcomes == IF fails > 0 THEN {"ok", "err"} ELSE {"ok"}
Spend(cost) == cost <= fails /\ fails' = fails - cost

\* nx_baseline_capture
Capture(kr) == IF kr = "err" THEN "err" ELSE names

\* mach_port_type and mach_port_get_refs(SEND_ONCE) of one name: where nothing is
\* held both are refused, and a name of another kind has no send-once references.
Look == [tkr: KR, kind: Kinds, rkr: KR, refs: Nat]
NoLook == [tkr |-> "err", kind |-> "none", rkr |-> "err", refs |-> 0]
Answer(kr, h) == IF h = Nothing THEN "absent" ELSE kr
LookAt(t, r, h) ==
  [tkr |-> Answer(t, h), kind |-> IF t = "ok" THEN h.kind ELSE "none",
   rkr |-> Answer(r, h), refs |-> IF r = "ok" /\ h.kind = "once" THEN h.refs ELSE 0]
LookCost(t, r, h) == IF h = Nothing THEN 0 ELSE Cost(t) + Cost(r)

-----------------------------------------------------------------------------
(* The status struct and the parent's locals.                              *)

Status == [base: Baseline, boot: KR, alloc: KR, ckr: KR, ctype: {"zero", "receive", "both"},
           extract: KR, before: Look, send: MR, after: Look, first: MR,
           id: Messages \cup {"none"}, second: MR, verified: KR, destroy: KR,
           baseAfter: Baseline, cleanup: BOOLEAN, exit: {0, 1, -1}]

\* child_run presets failures; main clears its copy to zero, which is KERN_SUCCESS.
PresetStatus ==
  [base |-> "err", boot |-> "err", alloc |-> "err", ckr |-> "err", ctype |-> "zero",
   extract |-> "err", before |-> NoLook, send |-> "err", after |-> NoLook, first |-> "err",
   id |-> "none", second |-> "err", verified |-> "err", destroy |-> "err",
   baseAfter |-> "err", cleanup |-> FALSE, exit |-> 1]

ZeroLook == [tkr |-> "ok", kind |-> "none", rkr |-> "ok", refs |-> 0]
ClearedStatus ==
  [base |-> "ok", boot |-> "ok", alloc |-> "ok", ckr |-> "ok", ctype |-> "zero",
   extract |-> "ok", before |-> ZeroLook, send |-> "ok", after |-> ZeroLook, first |-> "ok",
   id |-> "none", second |-> "ok", verified |-> "ok", destroy |-> "ok",
   baseAfter |-> "ok", cleanup |-> FALSE, exit |-> -1]

\* "prompt" and "answered" are for the properties only: the second message was sent
\* while the cargo port was still there, and the call did not fail of its own.
Parent == [base: Baseline, pipe: BOOLEAN,
           setup: {"none", "get", "alloc", "insert", "set", "ok"}, forked: BOOLEAN,
           restored: KR, rcv: MR, named: BOOLEAN, look: Look, first: MR, again: Look,
           second: MR, prompt: BOOLEAN, answered: BOOLEAN, statusRead: BOOLEAN,
           waited: BOOLEAN, destroy: KR, baseAfter: Baseline, cleanup: BOOLEAN]

InitialParent ==
  [base |-> "err", pipe |-> FALSE, setup |-> "none", forked |-> FALSE, restored |-> "err",
   rcv |-> "err", named |-> FALSE, look |-> NoLook, first |-> "err", again |-> NoLook,
   second |-> "err", prompt |-> FALSE, answered |-> FALSE, statusRead |-> FALSE,
   waited |-> FALSE, destroy |-> "err", baseAfter |-> "err", cleanup |-> FALSE]

Is(status, class) == [status |-> status, class |-> class]
ProbeFailure == Is("probe_failure", "probe_failure")
Accuse == Is("fail", "exact_contract")
Unclean == Is("fail", "probe_failure")
Pass == Is("pass", "exact_contract")
NoVerdict == Is("none", "none")

-----------------------------------------------------------------------------
(* The parent, main().                                                     *)

ParentUnchanged == UNCHANGED <<fault, names, deaths, st, once, cargo>>

\* Baseline, pipe and the chain of setup calls; "setup" names the first that failed.
Setup ==
  /\ pp = "setup"
  /\ \E b, p \in Outcomes, s \in {"get", "alloc", "insert", "set", "ok"} :
       /\ Spend(Cost(b) + Cost(p) + (IF s = "ok" THEN 0 ELSE 1))
       /\ par' = [par EXCEPT !.base = Capture(b), !.pipe = (p = "ok"), !.setup = s]
       /\ pipe' = [pipe EXCEPT !.writers = IF p = "ok" THEN {"parent"} ELSE {}]
       /\ svc' = (s \in {"insert", "set", "ok"})
       /\ boot' = IF s = "ok" THEN "service" ELSE "original"
  /\ pp' = "fork"
  /\ ParentUnchanged /\ UNCHANGED <<cp, child, sent, inbox, deliv, verdict>>

\* fork, after which the parent closes its write end whatever fork returned.
Fork ==
  /\ pp = "fork"
  /\ IF par.setup = "ok" /\ par.pipe
     THEN \E kr \in Outcomes :
            /\ Spend(Cost(kr))
            /\ cp' = IF kr = "ok" THEN "begin" ELSE cp
            /\ par' = [par EXCEPT !.forked = (kr = "ok")]
            /\ pipe' = [pipe EXCEPT !.writers = IF kr = "ok" THEN {"child"} ELSE {}]
     ELSE UNCHANGED <<fails, cp, par, pipe>>
  /\ pp' = "restore"
  /\ ParentUnchanged /\ UNCHANGED <<child, boot, svc, sent, inbox, deliv, verdict>>

\* The special port is set back if it had been changed.
Restore ==
  /\ pp = "restore"
  /\ IF par.setup = "ok"
     THEN \E kr \in Outcomes :
            /\ Spend(Cost(kr))
            /\ par' = [par EXCEPT !.restored = kr]
            /\ boot' = IF kr = "ok" THEN "original" ELSE boot
     ELSE UNCHANGED <<fails, par, boot>>
  /\ pp' = IF par.forked THEN "receive" ELSE "cleanup"
  /\ ParentUnchanged /\ UNCHANGED <<cp, child, pipe, svc, sent, inbox, deliv, verdict>>

\* What the receiver of the descriptor gets; of a dead port, MACH_PORT_DEAD.
Delivered == CASE ~cargo \/ fault = "null" -> Nothing
               [] fault = "as_send"        -> Hold("send", 1)
               [] fault = "two_refs"       -> Hold("once", 2)
               [] OTHER                    -> Hold("once", 1)

\* The receive of the descriptor, 5000 ms.
ReceiveDescriptor ==
  /\ pp = "receive"
  /\ sent
  /\ sent' = FALSE
  /\ deliv' = Delivered
  /\ par' = [par EXCEPT !.rcv = "ok", !.named = (fault # "null")]
  /\ pp' = "look"
  /\ ParentUnchanged /\ UNCHANGED <<fails, cp, child, pipe, boot, svc, inbox, verdict>>

\* Nothing comes in time, or the call fails.
ReceiveFails ==
  /\ pp = "receive"
  /\ \E kr \in Outcomes :
       /\ kr = "ok" => ~sent
       /\ Spend(Cost(kr))
       /\ par' = [par EXCEPT !.rcv = IF kr = "ok" THEN "timeout" ELSE "err"]
  /\ pp' = "read"
  /\ ParentUnchanged
  /\ UNCHANGED <<cp, child, pipe, boot, svc, sent, inbox, deliv, verdict>>

\* The look at the delivered name; only a send-once right is tried out.
LookDelivered ==
  /\ pp = "look"
  /\ \E t, r \in Outcomes :
       LET h == Seen(deliv) IN
       /\ Spend(LookCost(t, r, h))
       /\ par' = [par EXCEPT !.look = LookAt(t, r, h)]
       /\ pp' = IF t = "ok" /\ h.kind = "once" THEN "first" ELSE "read"
  /\ ParentUnchanged
  /\ UNCHANGED <<cp, child, pipe, boot, svc, sent, inbox, deliv, verdict>>

\* The first verify message moves the delivered right into its header.
VerifyFirst ==
  /\ pp = "first"
  /\ \E kr \in Outcomes :
       LET through == cargo /\ kr = "ok" IN
       /\ Spend(IF cargo THEN Cost(kr) ELSE 0)
       /\ par' = [par EXCEPT !.first = IF through THEN "ok" ELSE "err"]
       /\ inbox' = IF through THEN inbox \o Posted("first") ELSE inbox
       /\ deliv' = IF through THEN Used(deliv) ELSE deliv
  /\ pp' = "again"
  /\ ParentUnchanged /\ UNCHANGED <<cp, child, pipe, boot, svc, sent, verdict>>

LookAfterFirst ==
  /\ pp = "again"
  /\ \E t, r \in Outcomes :
       LET h == Seen(deliv) IN
       /\ Spend(LookCost(t, r, h))
       /\ par' = [par EXCEPT !.again = LookAt(t, r, h)]
  /\ pp' = "second"
  /\ ParentUnchanged
  /\ UNCHANGED <<cp, child, pipe, boot, svc, sent, inbox, deliv, verdict>>

\* The second message, whatever the first one did.  It must be refused, and any
\* failure of the call is taken for the refusal.
VerifySecond ==
  /\ pp = "second"
  /\ \E kr \in Outcomes :
       LET through == kr = "ok" /\ cargo /\ (deliv.kind = "once" \/ fault = "phantom") IN
       /\ Spend(Cost(kr))
       /\ par' = [par EXCEPT !.second = IF through THEN "ok" ELSE "err",
                             !.prompt = cargo, !.answered = (kr = "ok")]
       /\ inbox' = IF through THEN inbox \o Posted("second") ELSE inbox
       /\ deliv' = IF through /\ deliv.kind = "once" THEN Used(deliv) ELSE deliv
  /\ pp' = "read"
  /\ ParentUnchanged /\ UNCHANGED <<cp, child, pipe, boot, svc, sent, verdict>>

\* read_full: the whole struct, or end of file once nobody can write.
ReadStatus ==
  /\ pp = "read"
  /\ \/ /\ pipe.full
        /\ child' = st
        /\ par' = [par EXCEPT !.statusRead = TRUE]
     \/ /\ ~pipe.full /\ pipe.writers = {}
        /\ UNCHANGED <<child, par>>
  /\ pp' = "wait"
  /\ ParentUnchanged
  /\ UNCHANGED <<fails, cp, pipe, boot, svc, sent, inbox, deliv, verdict>>

\* Mutant of Wait: waitpid with WNOHANG, its result not looked at.
WaitNoHang ==
  /\ pp = "wait"
  /\ cp' = IF cp = "exited" THEN "reaped" ELSE cp
  /\ par' = [par EXCEPT !.waited = TRUE]
  /\ pp' = "cleanup"
  /\ ParentUnchanged
  /\ UNCHANGED <<fails, child, pipe, boot, svc, sent, inbox, deliv, verdict>>

\* waitpid returns when the child has exited.
Wait ==
  /\ pp = "wait"
  /\ cp = "exited"
  /\ cp' = "reaped"
  /\ par' = [par EXCEPT !.waited = TRUE]
  /\ pp' = "cleanup"
  /\ ParentUnchanged
  /\ UNCHANGED <<fails, child, pipe, boot, svc, sent, inbox, deliv, verdict>>

\* The delivered name is deallocated and the result not looked at; the service port
\* is destroyed; the final baseline is captured and compared.  The reference to the
\* original bootstrap port is given back in between: every task has that name before
\* its first baseline, and the result is only printed.
Cleanup ==
  /\ pp = "cleanup"
  /\ \E d, s, b \in Outcomes :
       LET left == IF d = "err" THEN deliv
                   ELSE IF deliv.refs > 1 THEN Hold(deliv.kind, deliv.refs - 1) ELSE Nothing
           service == svc /\ (s = "err" \/ fault = "name_stays")
       IN /\ Spend((IF deliv # Nothing THEN Cost(d) ELSE 0)
                    + (IF svc THEN Cost(s) ELSE 0) + Cost(b))
          /\ deliv' = left
          /\ svc' = service
          /\ sent' = (sent /\ svc /\ s = "err")
          /\ par' = [par EXCEPT
               !.destroy = IF svc THEN s ELSE "err",
               !.baseAfter = Capture(b),
               !.cleanup = BaselineCompare(par.base, Capture(b), left = Nothing /\ ~service)]
  /\ pp' = "judge"
  /\ ParentUnchanged /\ UNCHANGED <<cp, child, pipe, boot, inbox, verdict>>

-----------------------------------------------------------------------------
(* The verdict.                                                            *)

\* send_once_refs_are_zero_or_absent
ZeroOrAbsent(look) == (look.rkr = "ok" /\ look.refs = 0) \/ look.rkr = "absent"

\* Mutant of Consumed: the reference count is not asked for.
ConsumedByType(look) == look.tkr # "ok" \/ look.kind # "once"

\* child_send_once_consumed_after_send, parent_delivered_consumed_after_first: a
\* failed mach_port_type counts as gone, a failed mach_port_get_refs does not.
Consumed(look) == (look.tkr # "ok" \/ look.kind # "once") /\ ZeroOrAbsent(look)

\* The counts of an unused right, where they can be observed.
OneRef(look) == look.rkr # "ok" \/ look.refs = 1

\* parent_received_descriptor, and everything before it.
Established(p) ==
  /\ ~Blocks(p.base) /\ p.pipe /\ p.setup = "ok" /\ p.forked /\ p.restored = "ok"
  /\ p.rcv = "ok" /\ p.named

\* delivered_right_usable_once
UsableOnce(p, c) == p.first = "ok" /\ c.first = "ok" /\ c.id = "first"

\* What the two processes saw of the right after the descriptor was sent.
MovedOnce(p, c) ==
  /\ Consumed(c.after)
  /\ p.look.tkr = "ok" /\ p.look.kind = "once" /\ OneRef(p.look)
  /\ UsableOnce(p, c)
  /\ Consumed(p.again) /\ p.second # "ok" /\ c.second = "timeout"

Verdict(p, c) ==
  IF ~Established(p) THEN ProbeFailure
  ELSE IF ~(c.ckr = "ok" /\ c.ctype = "receive") THEN Accuse
  ELSE IF c.extract # "ok" THEN ProbeFailure
  ELSE IF ~(c.before.tkr = "ok" /\ c.before.kind = "once" /\ OneRef(c.before)) THEN Accuse
  ELSE IF c.send # "ok" THEN ProbeFailure
  ELSE IF ~MovedOnce(p, c) THEN Accuse
  ELSE IF ~p.statusRead \/ ~p.waited THEN ProbeFailure
  ELSE IF ~(p.statusRead /\ c.exit = 0 /\ c.cleanup) THEN Accuse
  ELSE IF p.destroy # "ok" THEN Unclean
  ELSE IF Blocks(p.baseAfter) THEN ProbeFailure
  ELSE IF ~p.cleanup THEN Accuse
  ELSE Pass

Report ==
  /\ pp = "judge"
  /\ verdict' = Verdict(par, child)
  /\ pp' = "done"
  /\ ParentUnchanged
  /\ UNCHANGED <<fails, cp, par, child, pipe, boot, svc, sent, inbox, deliv>>

ParentStep ==
  \/ Setup \/ Fork \/ Restore \/ ReceiveDescriptor \/ ReceiveFails \/ LookDelivered
  \/ VerifyFirst \/ LookAfterFirst \/ VerifySecond \/ ReadStatus \/ Wait \/ Cleanup \/ Report

-----------------------------------------------------------------------------
(* The child, child_run().                                                 *)

ChildUnchanged ==
  UNCHANGED <<fault, names, deaths, pp, par, child, boot, svc, deliv, verdict>>

\* task_get_special_port and the first baseline.
ChildBegin ==
  /\ cp = "begin"
  /\ \E g, b \in Outcomes :
       /\ Spend(Cost(g) + Cost(b))
       /\ st' = [st EXCEPT !.boot = g, !.base = Capture(b)]
       /\ cp' = IF g = "ok" THEN "make" ELSE "clean"
  /\ ChildUnchanged /\ UNCHANGED <<pipe, sent, inbox, cargo, once>>

\* Allocate the cargo port, look at it, and extract the send-once right, each only
\* if the call before it succeeded.
ChildMake ==
  /\ cp = "make"
  /\ \E a, t, x \in Outcomes :
       /\ Spend(IF a = "err" THEN 1 ELSE IF t = "err" THEN 1 ELSE Cost(x))
       /\ LET typed == a = "ok" /\ t = "ok"
              made == typed /\ x = "ok"
          IN /\ st' = [st EXCEPT
                  !.alloc = a,
                  !.ckr = IF typed THEN "ok" ELSE "err",
                  !.ctype = CASE ~typed -> "zero"
                              [] fault = "fresh_send" -> "both"
                              [] OTHER -> "receive",
                  !.extract = IF made THEN "ok" ELSE "err"]
             /\ cargo' = (a = "ok")
             /\ once' = IF ~made THEN Nothing
                        ELSE Hold(IF fault = "made_send" THEN "send" ELSE "once", 1)
             /\ cp' = IF made THEN "before" ELSE "clean"
  /\ ChildUnchanged /\ UNCHANGED <<pipe, sent, inbox>>

\* Only a failed mach_port_type keeps the descriptor from being sent.
ChildLookBefore ==
  /\ cp = "before"
  /\ \E t, r \in Outcomes :
       /\ Spend(LookCost(t, r, once))
       /\ st' = [st EXCEPT !.before = LookAt(t, r, once)]
       /\ cp' = IF t = "ok" THEN "send" ELSE "clean"
  /\ ChildUnchanged /\ UNCHANGED <<pipe, sent, inbox, cargo, once>>

\* MOVE_SEND_ONCE of the right in a descriptor, 5000 ms; of a send right or to a
\* port that is gone the message is refused.
ChildSend ==
  /\ cp = "send"
  /\ \E kr \in Outcomes :
       LET through == kr = "ok" /\ svc /\ once.kind = "once" IN
       /\ Spend(Cost(kr))
       /\ st' = [st EXCEPT !.send = IF through THEN "ok" ELSE "err"]
       /\ sent' = (sent \/ through)
       /\ once' = IF ~through \/ fault = "kept" THEN once ELSE Spent
       /\ cp' = IF through THEN "after" ELSE "clean"
  /\ ChildUnchanged /\ UNCHANGED <<pipe, inbox, cargo>>

ChildLookAfter ==
  /\ cp = "after"
  /\ \E t, r \in Outcomes :
       /\ Spend(LookCost(t, r, once))
       /\ st' = [st EXCEPT !.after = LookAt(t, r, once)]
  /\ cp' = "first"
  /\ ChildUnchanged /\ UNCHANGED <<pipe, sent, inbox, cargo, once>>

\* The two receives, 5000 ms and 500 ms, the second whatever the first one did.
ChildReceiveFirst ==
  /\ cp = "first"
  /\ \/ /\ inbox = <<>>
        /\ st' = [st EXCEPT !.first = "timeout"]
        /\ UNCHANGED <<fails, inbox>>
     \/ /\ inbox # <<>>
        /\ st' = [st EXCEPT !.first = "ok", !.id = Head(inbox)]
        /\ inbox' = Tail(inbox)
        /\ UNCHANGED fails
     \/ /\ Spend(1)
        /\ st' = [st EXCEPT !.first = "err"]
        /\ UNCHANGED inbox
  /\ cp' = "second"
  /\ ChildUnchanged /\ UNCHANGED <<pipe, sent, cargo, once>>

ChildReceiveSecond ==
  /\ cp = "second"
  /\ \/ /\ inbox = <<>>
        /\ st' = [st EXCEPT !.second = "timeout"]
        /\ UNCHANGED <<fails, inbox>>
     \/ /\ inbox # <<>>
        /\ st' = [st EXCEPT !.second = "ok"]
        /\ inbox' = Tail(inbox)
        /\ UNCHANGED fails
     \/ /\ Spend(1)
        /\ st' = [st EXCEPT !.second = "err"]
        /\ UNCHANGED inbox
  /\ cp' = "verified"
  /\ ChildUnchanged /\ UNCHANGED <<pipe, sent, cargo, once>>

\* mach_port_type of the cargo port once more.
ChildLookVerified ==
  /\ cp = "verified"
  /\ \E t \in Outcomes : Spend(Cost(t)) /\ st' = [st EXCEPT !.verified = t]
  /\ cp' = "clean"
  /\ ChildUnchanged /\ UNCHANGED <<pipe, sent, inbox, cargo, once>>

\* Mutant of AllCallsOk: the second receive is expected to succeed too.
AllCallsOkTwice(s) ==
  /\ ~Blocks(s.base) /\ s.boot = "ok" /\ s.alloc = "ok" /\ s.ckr = "ok"
  /\ s.extract = "ok" /\ s.before.tkr = "ok" /\ s.send = "ok"
  /\ s.first = "ok" /\ s.second = "ok" /\ s.verified = "ok"
  /\ s.destroy = "ok" /\ ~Blocks(s.baseAfter) /\ s.cleanup

\* What child_exit_code 0 stands for.
AllCallsOk(s) ==
  /\ ~Blocks(s.base) /\ s.boot = "ok" /\ s.alloc = "ok" /\ s.ckr = "ok"
  /\ s.extract = "ok" /\ s.before.tkr = "ok" /\ s.send = "ok"
  /\ s.first = "ok" /\ s.second = "timeout" /\ s.verified = "ok"
  /\ s.destroy = "ok" /\ ~Blocks(s.baseAfter) /\ s.cleanup

\* The send-once name is deallocated, consumed or not, and the result not looked at;
\* the cargo port is destroyed; baseline and exit code.
ChildCleanup ==
  /\ cp = "clean"
  /\ \E o, d, b \in Outcomes :
       LET left == IF o = "ok" THEN Nothing ELSE once
           gone == d = "ok"
           s == [st EXCEPT !.destroy = IF cargo THEN d ELSE "err",
                           !.baseAfter = Capture(b),
                           !.cleanup = BaselineCompare(st.base, Capture(b),
                                                       left = Nothing /\ (cargo => gone))]
       IN /\ Spend((IF once # Nothing THEN Cost(o) ELSE 0)
                    + (IF cargo THEN Cost(d) ELSE 0) + Cost(b))
          /\ once' = left
          /\ cargo' = (cargo /\ ~gone)
          /\ inbox' = IF cargo /\ ~gone
                      THEN inbox \o Notice(o = "ok" /\ once.kind = "once") ELSE <<>>
          /\ st' = [s EXCEPT !.exit = IF AllCallsOk(s) THEN 0 ELSE 1]
  /\ cp' = "write"
  /\ ChildUnchanged /\ UNCHANGED <<pipe, sent>>

\* write_full of the struct; without a reader SIGPIPE ends the child.
ChildWrite ==
  /\ cp = "write"
  /\ pp # "killed"
  /\ pipe' = [pipe EXCEPT !.full = TRUE]
  /\ cp' = "exit"
  /\ ChildUnchanged /\ UNCHANGED <<fails, st, sent, inbox, cargo, once>>

\* Everything a process holds goes when it ends.
ChildGone ==
  /\ cp' = "exited"
  /\ pipe' = [pipe EXCEPT !.writers = pipe.writers \ {"child"}]
  /\ cargo' = FALSE /\ once' = Nothing /\ inbox' = <<>>
  /\ UNCHANGED <<fault, names, fails, pp, par, st, child, boot, svc, sent, deliv, verdict>>

\* _exit, or SIGPIPE.
ChildExit ==
  /\ cp = "exit" \/ (cp = "write" /\ pp = "killed")
  /\ ChildGone
  /\ UNCHANGED deaths

ChildStep ==
  \/ ChildBegin \/ ChildMake \/ ChildLookBefore \/ ChildSend \/ ChildLookAfter
  \/ ChildReceiveFirst \/ ChildReceiveSecond \/ ChildLookVerified \/ ChildCleanup
  \/ ChildWrite \/ ChildExit

-----------------------------------------------------------------------------
(* Watchdogs and signals, and the specification.                           *)

ChildPoints == {"begin", "make", "before", "send", "after", "first", "second", "verified",
                "clean", "write", "exit"}

\* alarm(OB23_TIMEOUT_SECONDS) in child_run, or any other fatal signal.
ChildKilled ==
  /\ cp \in ChildPoints
  /\ deaths > 0
  /\ deaths' = deaths - 1
  /\ ChildGone

\* alarm(OB23_TIMEOUT_SECONDS) in main.  The unused right dies with the parent, or
\* with the message that carries it, and the cargo port is notified.
ParentKilled ==
  /\ pp \notin {"done", "killed"}
  /\ deaths > 0
  /\ deaths' = deaths - 1
  /\ pp' = "killed"
  /\ svc' = FALSE /\ sent' = FALSE /\ deliv' = Nothing
  /\ inbox' = inbox \o Notice(sent \/ deliv.kind = "once")
  /\ pipe' = [pipe EXCEPT !.writers = pipe.writers \ {"parent"}]
  /\ UNCHANGED <<fault, names, fails, cp, par, st, child, boot, cargo, once, verdict>>

\* Both processes are over.
Over ==
  /\ pp \in {"done", "killed"} /\ cp \in {"none", "exited", "reaped"}
  /\ UNCHANGED vars

Init ==
  /\ fault \in Faults /\ names \in {"ok", "gap"}
  /\ fails = MaxFails /\ deaths = MaxDeaths
  /\ pp = "setup" /\ cp = "none"
  /\ par = InitialParent /\ st = PresetStatus /\ child = ClearedStatus
  /\ pipe = [full |-> FALSE, writers |-> {}]
  /\ boot = "original" /\ svc = FALSE /\ sent = FALSE
  /\ inbox = <<>> /\ cargo = FALSE /\ once = Nothing /\ deliv = Nothing
  /\ verdict = NoVerdict

Next == ParentStep \/ ChildStep \/ ChildKilled \/ ParentKilled \/ Over

\* Each process runs on: every message call has a time limit.
Spec == Init /\ [][Next]_vars /\ WF_vars(ParentStep) /\ WF_vars(ChildStep)

-----------------------------------------------------------------------------
(* Properties.                                                             *)

\* Deviations a pass may have overlooked: the dead name that a consumed right leaves
\* behind is deallocated, unjudged, before the names are compared, and without
\* mach_port_names a destroyed port's name is not missed.
Overlooked == {"none", "dead_stays"} \cup (IF names = "gap" THEN {"name_stays"} ELSE {})

\* Deviations that show only while the cargo port is there: a parent held up for
\* longer than the child's second wait of 500 ms finds a dead name in place of an
\* unused right and a port that takes no message.
Lateness == {"two_refs", "reusable", "phantom"}

\* If the second message was sent while the cargo port was still there, the probe
\* passes only on a kernel that conforms in everything the probe looks at, though a
\* failed mach_port_type counts as a consumed right and a failed mach_port_get_refs
\* as the right count.  Only a kernel that accepts a message without a right passes
\* besides, and only if the second call failed of its own, which line 666 takes for
\* the refusal (547-590, 640-668).
PassIsSound ==
  verdict = Pass /\ par.prompt =>
    fault \in Overlooked \/ (fault = "phantom" /\ ~par.answered)

\* What send_once_descriptor.c:8-9 promises: the parent verifies one-shot usability,
\* so a right that survives its use is not passed.
PassMeansOneShot == verdict = Pass => fault # "reusable"

\* After a pass the bootstrap port is the original one and, where mach_port_names can
\* tell, no right of the service, cargo or send-once port is left in either task,
\* although two of the deallocations are not checked.
PassIsClean ==
  verdict = Pass =>
    /\ boot = "original"
    /\ names = "ok" => ~svc /\ ~cargo /\ once = Nothing /\ deliv = Nothing

\* FAIL / exact_contract accuses the kernel rightly when the child's status was read
\* and its first receive did not time out before a slow parent's message: no
\* notification of an unused right and no late message is taken for a violation.
AccusationIsJustified ==
  verdict = Accuse /\ par.statusRead /\ child.first # "timeout"
    => fault \notin {"none", "dead_stays"} \/ fails < MaxFails

HelperState ==
  CASE cp = "none"                 -> "none"
    [] cp \in {"exited", "reaped"} -> "gone"
    [] OTHER                       -> "running"

Contract == INSTANCE OracleProbe WITH
  deserved <- fault \in Overlooked \cup Lateness, helper <- HelperState,
  outcome <- IF pp = "killed" THEN "killed" ELSE verdict.status

\* The send-once probe is a probe in the sense of OracleProbe: one final verdict,
\* after the helper has ended, "pass" only when deserved; and both processes end.
ImplementsContract == Contract!Spec

TypeOK ==
  /\ fault \in Faults /\ names \in {"ok", "gap"}
  /\ fails \in 0..MaxFails /\ deaths \in 0..MaxDeaths
  /\ pp \in {"setup", "fork", "restore", "receive", "look", "first", "again", "second",
             "read", "wait", "cleanup", "judge", "done", "killed"}
  /\ cp \in ChildPoints \cup {"none", "exited", "reaped"}
  /\ par \in Parent /\ st \in Status /\ child \in Status
  /\ pipe \in [full: BOOLEAN, writers: SUBSET {"parent", "child"}]
  /\ boot \in {"original", "service"} /\ svc \in BOOLEAN /\ sent \in BOOLEAN
  /\ inbox \in Seq(Messages) /\ cargo \in BOOLEAN
  /\ once \in Right /\ deliv \in Right
  /\ verdict \in {NoVerdict, ProbeFailure, Accuse, Unclean, Pass}
=============================================================================
