------------------------------ MODULE NxBaseline ------------------------------
(***************************************************************************)
(* The baseline of a task's port name space that every probe captures      *)
(* before and after its work (probes/common/nx_mach_utils.c).              *)
(***************************************************************************)

\* nx_baseline_t after nx_baseline_capture: valid, the unsupported gap, or failed.
Baseline == {"ok", "gap", "err"}

\* nx_baseline_blocks_probe
Blocks(b) == b = "err"

\* Mutant of BaselineCompare: only the captures' success is compared.
BaselineCompareCounts(b, a, sameNames) ==
  (b = "gap" /\ a = "gap") \/ (b = "ok" /\ a = "ok")

\* nx_baseline_compare: two gaps compare equal, a failed capture never does,
\* and otherwise the same (name, type) pairs must be there.  User references
\* are not compared.
BaselineCompare(b, a, sameNames) ==
  \/ b = "gap" /\ a = "gap"
  \/ b = "ok" /\ a = "ok" /\ sameNames
===============================================================================
