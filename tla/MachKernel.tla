----------------------------- MODULE MachKernel -----------------------------
(***************************************************************************)
(* The Mach IPC kernel as the two-process descriptor probes use it.  The   *)
(* kernel is the system under test and is not part of this repository: it  *)
(* is either conformant or deviates in ONE of the ways the probes exist to *)
(* notice.  A deviation is named by a string and is fixed for a whole run. *)
(***************************************************************************)
EXTENDS Integers

\* Kernel return codes, as far as the probes tell them apart.  "absent" is
\* KERN_INVALID_RIGHT / KERN_INVALID_NAME, "err" any other failure.
KR == {"ok", "err"}
KRRefs == {"ok", "absent", "err"}
\* mach_msg return codes.
MR == {"ok", "timeout", "err"}
\* What mach_port_type reports for a name (0 before it was asked).
PortTypes == {"zero", "send", "receive", "send_receive", "dead"}

\* Deviations of the kernel under test.
Faults == {"none",
           "move_kept",     \* MOVE_SEND leaves the sender's user reference
           "copy_consumed", \* COPY_SEND takes the sender's user reference
           "not_send",      \* the delivered name carries no send right
           "two_urefs",     \* the delivered name carries one reference too many
           "deaf",          \* a message sent through the delivered right is lost
           "resurrect",     \* the verify message gives the sender a new reference
           "name_stays",    \* mach_port_destroy succeeds and leaves a name
           "dealloc_noop"}  \* mach_port_deallocate succeeds and drops nothing

\* Deviations that only a comparison of the port names can notice.
LeakFaults == {"two_urefs", "name_stays", "dealloc_noop"}

\* The deviations that do not concern a probe of the given disposition.
Harmless(disp) ==
  {"none", IF disp = "move" THEN "copy_consumed" ELSE "move_kept"}

\* The type mach_port_type reports for a name holding these rights.
TypeOf(recv, urefs) ==
  CASE recv /\ urefs > 0 -> "send_receive"
    [] recv /\ urefs = 0 -> "receive"
    [] OTHER             -> "dead"

\* Sender's user references after its right went out in a descriptor.
AfterSend(disp, fault, urefs) ==
  IF disp = "move"
  THEN IF fault = "move_kept" \/ urefs = 0 THEN urefs ELSE urefs - 1
  ELSE IF fault = "copy_consumed" /\ urefs > 0 THEN urefs - 1 ELSE urefs

\* User references the receiver of a descriptor gets under the new name.
Delivered(fault) ==
  CASE fault = "not_send"  -> 0
    [] fault = "two_urefs" -> 2
    [] OTHER               -> 1

\* Sender's user references after the verify message was received.
AfterVerify(fault, urefs) ==
  IF fault = "resurrect" THEN urefs + 1 ELSE urefs

\* Mutant of AfterDealloc: a reference is dropped from a name that has none.
AfterDeallocUnchecked(fault, urefs) ==
  IF fault = "dealloc_noop" THEN urefs ELSE urefs - 1

\* User references left under a name by mach_port_deallocate.
AfterDealloc(fault, urefs) ==
  IF fault = "dealloc_noop" \/ urefs = 0 THEN urefs ELSE urefs - 1
=============================================================================
