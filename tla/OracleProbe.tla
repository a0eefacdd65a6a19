----------------------------- MODULE OracleProbe -----------------------------
(***************************************************************************)
(* What every oracle probe that uses a helper process promises its runner: *)
(* it ends with one outcome that never changes, it never leaves a running  *)
(* helper behind a reported outcome, and it reports "pass" only of a       *)
(* kernel whose behaviour deserves it.  It may be killed at any moment     *)
(* before it has reported.                                                 *)
(***************************************************************************)
VARIABLES deserved,  \* the kernel conforms in everything the probe observes
          helper,    \* "none", "running" or "gone"
          outcome    \* "none" until the probe has reported or was killed

vars == <<deserved, helper, outcome>>

Outcomes == {"pass", "fail", "probe_failure"}

Init == deserved \in BOOLEAN /\ helper = "none" /\ outcome = "none"

Spawn ==
  /\ outcome = "none" /\ helper = "none"
  /\ helper' = "running"
  /\ UNCHANGED <<deserved, outcome>>

HelperEnds ==
  /\ helper = "running"
  /\ helper' = "gone"
  /\ UNCHANGED <<deserved, outcome>>

Conclude ==
  /\ outcome = "none" /\ helper # "running"
  /\ outcome' \in Outcomes
  /\ outcome' = "pass" => deserved
  /\ UNCHANGED <<deserved, helper>>

Killed ==
  /\ outcome = "none"
  /\ outcome' = "killed"
  /\ UNCHANGED <<deserved, helper>>

Next == Spawn \/ HelperEnds \/ Conclude \/ Killed

\* A helper that was started ends, and the probe comes to an outcome.
Spec == Init /\ [][Next]_vars /\ WF_vars(HelperEnds) /\ WF_vars(Conclude \/ Killed)
=============================================================================
