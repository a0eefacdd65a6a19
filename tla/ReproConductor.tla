---------------------------- MODULE ReproConductor ----------------------------
(***************************************************************************)
(* lib/rmx_os_oracle/id025/repro_conductor.ex: one baseline run and Runs   *)
(* freeze-attempt runs.  Each stages an image, boots it under bhyve, reads *)
(* its serial line until it can classify the run, tears the guest down and *)
(* keeps one ledger entry.  The guest is what op151-rc.local.template and  *)
(* the churn probe make of it: the probe writes to a FILE in the guest,    *)
(* and the file reaches the serial line only in the final dump.            *)
(* Time is counted in minutes.  The clock is Erlang's monotonic clock,     *)
(* whose zero is not the start of the program: the runtime starts it at    *)
(* about -2^59 ns, 9.6 million minutes before zero.                        *)
(***************************************************************************)
EXTENDS Integers, Sequences, FiniteSets

CONSTANTS Runs,      \* freeze-attempt runs
          Baseline,  \* minutes of churn in the baseline run
          Attempt,   \* minutes of churn in a freeze-attempt run
          Origin,    \* reading of the monotonic clock, in minutes, when a run starts
          Horizon,   \* bound: minutes of one run after which nothing new happens
          Poweroff,  \* minutes a guest takes at most to power off after its dump
          MaxFails   \* bound on failures of staging, loading, launching and logging

ASSUME RunsAssumption == Runs \in Nat \ {0} /\ MaxFails \in Nat
ASSUME TimeAssumption ==
  /\ Baseline \in Nat \ {0} /\ Attempt \in Nat \ {0}
  /\ Origin \in Int /\ Horizon \in Nat
  /\ Horizon > Baseline + 6 /\ Horizon > Attempt + 6

Threshold == 2     \* @freeze_silence_threshold_ms
Buffer == 2        \* the post-run buffer of deadline_ms
DumpDelay == 1     \* sleep $((SOAK_DURATION + 60))
BootTimes == 0..1  \* minutes from the spawn of bhyve to the start of the churn

\* A poweroff that took longer than the silence threshold would be taken for a freeze.
ASSUME PoweroffAssumption == Poweroff \in 0..Threshold

VARIABLES pc,      \* where the conductor is
          k,       \* the run: 0 is the baseline, 1..Runs the freeze attempts
          t,       \* minutes since the run started, at most Horizon
          state,   \* the parser's state
          ledger,  \* entries made so far
          verdict, \* of the written ledger, "none" before
          guest,   \* the booted guest
          wire,    \* what is queued for the conductor on the port
          vms,     \* runs whose virtual machine exists
          truth,   \* runs whose guest really froze (no variable of the code)
          fails

vars == <<pc, k, t, state, ledger, verdict, guest, wire, vms, truth, fails>>
outside == <<guest, wire, vms, truth>>

NoHB == "nil"
HBs == {NoHB, "idle", "blocked"}    \* blocked_now of the last watchpoint heartbeat
Iters == 0..(IF Baseline > Attempt THEN Baseline ELSE Attempt)

Duration == IF k = 0 THEN Baseline ELSE Attempt
Fresh == [iter |-> 0, at |-> 0, hb |-> NoHB]
Off == [at |-> "off", boot |-> 0, iter |-> 0, todo |-> <<>>]

Line(n) == [is |-> "churn", iter |-> n, hb |-> NoHB]
Watch(h) == [is |-> "watch", iter |-> 0, hb |-> h]
Noise == [is |-> "noise", iter |-> 0, hb |-> NoHB]
Exit(rc) == [is |-> "exit", iter |-> rc, hb |-> NoHB]

Init ==
  /\ pc = "stage" /\ k = 0 /\ t = 0
  /\ state = Fresh /\ ledger = <<>> /\ verdict = "none"
  /\ guest = Off /\ wire = <<>> /\ vms = {} /\ truth = {} /\ fails = 0

-----------------------------------------------------------------------------
(* The guest (external: what boots from the staged image).                 *)

\* The churn ran for the whole duration.
Soaked == t >= guest.boot + Duration

\* One minute of churn; a churn that fails to start leaves iter at 0.
Churned(g) == IF g.at = "soak" /\ t >= g.boot /\ g.iter < Duration
              THEN {[g EXCEPT !.iter = @ + 1]} \cup (IF g.iter = 0 THEN {g} ELSE {})
              ELSE {g}

\* launchd or notifyd did not come up: a message and a poweroff.
GuestSetupFails ==
  /\ guest.at = "soak" /\ t = guest.boot /\ guest.iter = 0
  /\ guest' = [guest EXCEPT !.at = "stopping"]
  /\ wire' = Append(wire, Noise)
  /\ UNCHANGED <<pc, k, t, state, ledger, verdict, vms, truth, fails>>

\* The kernel wedges, at any moment.  Nothing more comes over the serial line.
GuestFreezes ==
  /\ guest.at \in {"soak", "dump", "stopping"}
  /\ guest' = [guest EXCEPT !.at = "frozen"]
  /\ truth' = truth \cup {k}
  /\ UNCHANGED <<pc, k, t, state, ledger, verdict, wire, vms, fails>>

\* The soak has elapsed: the watchpoint log, then the churn's output are printed.
GuestDumps ==
  /\ guest.at = "soak"
  /\ t >= guest.boot + Duration + DumpDelay
  /\ \E h \in {"idle", "blocked"} :
       guest' = [guest EXCEPT !.at = "dump",
                              !.todo = <<Watch(h)>> \o
                                 (IF guest.iter > 0 THEN <<Line(guest.iter)>> ELSE <<>>)]
  /\ UNCHANGED <<pc, k, t, state, ledger, verdict, wire, vms, truth, fails>>

GuestPrints ==
  /\ guest.at = "dump"
  /\ IF guest.todo = <<>>
     THEN guest' = [guest EXCEPT !.at = "stopping"] /\ UNCHANGED wire
     ELSE /\ guest' = [guest EXCEPT !.todo = Tail(@)]
          /\ wire' = Append(wire, Head(guest.todo))
  /\ UNCHANGED <<pc, k, t, state, ledger, verdict, vms, truth, fails>>

\* Poweroff, or a reset: bhyve exits 1 or 0.
GuestStops ==
  /\ guest.at = "stopping"
  /\ guest' = [guest EXCEPT !.at = "off"]
  /\ \E rc \in {0, 1} : wire' = Append(wire, Exit(rc))
  /\ UNCHANGED <<pc, k, t, state, ledger, verdict, vms, truth, fails>>

-----------------------------------------------------------------------------
(* The conductor.                                                          *)

\* A ledger entry; only its status is read again.
Entry(s) == [status |-> s]

\* The staging script fails: an entry, and on to the next run (86-89).
StageFails ==
  /\ pc = "stage" /\ fails < MaxFails
  /\ fails' = fails + 1
  /\ ledger' = Append(ledger, Entry("staging_failed"))
  /\ pc' = "next"
  /\ UNCHANGED <<k, t, state, verdict, outside>>

\* bhyveload fails: {:ok, port, _} does not match, and run_all/1 dies with the
\* ledger it has not written (98).
LoadFails ==
  /\ pc = "stage" /\ fails < MaxFails
  /\ fails' = fails + 1
  /\ pc' = "crashed"
  /\ UNCHANGED <<k, t, state, ledger, verdict, outside>>

\* bhyveload has made the virtual machine, but Port.open of bhyve raises
\* (freeze_surviving_capture.ex:188-191): run_all/1 dies and the machine stays.
LaunchFails ==
  /\ pc = "stage" /\ fails < MaxFails
  /\ fails' = fails + 1
  /\ vms' = vms \cup {k}
  /\ pc' = "crashed"
  /\ UNCHANGED <<k, t, state, ledger, verdict, guest, wire, truth>>

\* File.open of the serial log does not match {:ok, _}, or a write to it does not
\* match :ok (102, 164): run_all/1 dies and leaves the guest to itself.
LogFails ==
  /\ pc = "observe" /\ fails < MaxFails
  /\ fails' = fails + 1
  /\ pc' = "crashed"
  /\ UNCHANGED <<k, t, state, ledger, verdict, outside>>

\* bhyvectl --destroy, bhyveload, bhyve, and the parser starts (98-111).
Boot ==
  /\ pc = "stage"
  /\ pc' = "observe"
  /\ t' = 0
  /\ state' = Fresh
  /\ vms' = (vms \ {k}) \cup {k}
  /\ \E b \in BootTimes :
       guest' = [at |-> "soak", boot |-> b, iter |-> 0, todo |-> <<>>]
  /\ wire' = <<>>
  /\ UNCHANGED <<k, ledger, verdict, truth, fails>>

\* now_ms > deadline_ms: the deadline is a length of time, now_ms a reading of the
\* clock (106, 125, 128).
PastDeadline == Origin + t > Duration + Buffer

\* Mutant of Silent: silence counts before the first churn line too.
SilentFromStart == t - state.at > Threshold

\* Silence after at least one churn line (137-138, 148-149).
Silent == state.iter > 0 /\ t - state.at > Threshold

\* What the cond decides before it receives, "none" if it goes on (127-161).
Decision ==
  IF PastDeadline THEN "nominal_duration_elapsed"
  ELSE IF Silent THEN (IF k = 0 THEN "baseline_froze" ELSE "frozen") ELSE "none"

Decide ==
  /\ pc = "observe" /\ Decision # "none"
  /\ ledger' = Append(ledger, Entry(Decision))
  /\ pc' = "close"
  /\ UNCHANGED <<k, t, state, verdict, outside, fails>>

\* Mutant of Folded: the iterations are added up.
FoldedSum(s, line, cut) ==
  IF line.is = "churn" THEN {[s EXCEPT !.iter = s.iter + line.iter + 1, !.at = t]} ELSE {s}

\* fold_one_line/3 on a line that came in one piece, or was cut by the end of a
\* chunk: a cut line loses its number, or keeps a shorter one (184-232).
Folded(s, line, cut) ==
  CASE line.is = "churn" /\ ~cut -> {[s EXCEPT !.iter = line.iter, !.at = t]}
    [] line.is = "churn" /\ cut  -> {s} \cup {[s EXCEPT !.iter = n, !.at = t] : n \in 1..line.iter}
    [] line.is = "watch" /\ ~cut -> {[s EXCEPT !.hb = line.hb]}
    [] line.is = "watch" /\ cut  -> {s, [s EXCEPT !.hb = NoHB]}
    [] OTHER                     -> {s}

\* {port, {:data, chunk}} (163-166).
ReceiveData ==
  /\ pc = "observe" /\ Decision = "none"
  /\ wire # <<>> /\ Head(wire).is # "exit"
  /\ \E cut \in BOOLEAN : state' \in Folded(state, Head(wire), cut)
  /\ wire' = Tail(wire)
  /\ UNCHANGED <<pc, k, t, ledger, verdict, guest, vms, truth, fails>>

\* Mutant of ReceiveExit: the exit message is matched only for status 0.
ReceiveCleanExit ==
  /\ pc = "observe" /\ Decision = "none"
  /\ wire # <<>> /\ Head(wire).is = "exit" /\ Head(wire).iter = 0
  /\ ledger' = Append(ledger, Entry("bhyve_exit"))
  /\ pc' = "close"
  /\ UNCHANGED <<k, t, state, verdict, outside, fails>>

\* {port, {:exit_status, rc}} (168-175).
ReceiveExit ==
  /\ pc = "observe" /\ Decision = "none"
  /\ wire # <<>> /\ Head(wire).is = "exit"
  /\ ledger' = Append(ledger, Entry("bhyve_exit"))
  /\ pc' = "close"
  /\ UNCHANGED <<k, t, state, verdict, outside, fails>>

\* A minute passes.  The conductor looks at the clock every second.  The guest dumps
\* within the minute and powers off within Poweroff minutes of its last line.
Tick ==
  /\ pc = "observe" /\ Decision = "none" /\ wire = <<>>
  /\ guest.at \in {"soak", "frozen", "stopping"}
  /\ guest.at = "soak" => t < guest.boot + Duration + DumpDelay
  /\ guest.at = "stopping" /\ state.iter > 0 => t < state.at + Poweroff
  /\ t' = IF t < Horizon THEN t + 1 ELSE t
  /\ guest' \in Churned(guest)
  /\ UNCHANGED <<pc, k, state, ledger, verdict, wire, vms, truth, fails>>

\* Mutant of Close: the virtual machine is not destroyed.
CloseWithoutDestroy ==
  /\ pc = "close" /\ guest.at # "off"
  /\ pc' = "next"
  /\ guest' = Off
  /\ wire' = <<>>
  /\ UNCHANGED <<k, t, state, ledger, verdict, vms, truth, fails>>

\* Port.close and bhyvectl --destroy (113-119), while bhyve still runs.
Close ==
  /\ pc = "close" /\ guest.at # "off"
  /\ pc' = "next"
  /\ vms' = vms \ {k}
  /\ guest' = Off
  /\ wire' = <<>>
  /\ UNCHANGED <<k, t, state, ledger, verdict, truth, fails>>

\* bhyve has exited, so the runtime has closed the port (it is opened with :exit_status
\* and without :eof): Port.close raises, bhyvectl --destroy is not reached, and
\* run_all/1 dies with the ledger it has not written (114-115).
CloseRaises ==
  /\ pc = "close" /\ guest.at = "off"
  /\ pc' = "crashed"
  /\ UNCHANGED <<k, t, state, ledger, verdict, outside, fails>>

\* for i <- 1..n (58-59).
NextRun ==
  /\ pc = "next" /\ k < Runs
  /\ k' = k + 1
  /\ pc' = "stage"
  /\ UNCHANGED <<t, state, ledger, verdict, outside, fails>>

\* Mutant of Froze: the entries that are not clean, instead of the frozen ones.
FrozeOrFailed == {r \in 2..Len(ledger) : ledger[r].status # "nominal_duration_elapsed"}

Froze == {r \in 2..Len(ledger) : ledger[r].status = "frozen"}

\* classify/2 (250-293).
Verdict ==
  IF ledger[1].status = "baseline_froze" THEN "probe_artifact"
  ELSE IF Cardinality(Froze) >= 4 THEN "breakthrough"
  ELSE IF Froze # {} THEN "stochastic"
  ELSE "no_freeze"

\* The ledger is classified and written (61-72).
WriteLedger ==
  /\ pc = "next" /\ k = Runs
  /\ verdict' = Verdict
  /\ pc' = "done"
  /\ UNCHANGED <<k, t, state, ledger, outside, fails>>

Over == pc \in {"done", "crashed"} /\ UNCHANGED vars

Guest == GuestDumps \/ GuestPrints \/ GuestStops
Conductor == Boot \/ Decide \/ ReceiveData \/ ReceiveExit \/ Close \/ CloseRaises
             \/ NextRun \/ WriteLedger
Failures == StageFails \/ LoadFails \/ LaunchFails \/ LogFails

Next == Conductor \/ Failures \/ Guest \/ GuestSetupFails \/ GuestFreezes \/ Tick \/ Over

\* Time passes, the conductor's loop runs, and a guest that has not frozen goes on;
\* nothing needs to fail.
Spec == Init /\ [][Next]_vars /\ WF_vars(Conductor) /\ WF_vars(Guest) /\ WF_vars(Tick)

-----------------------------------------------------------------------------
(* Properties.                                                             *)

Statuses == {"staging_failed", "nominal_duration_elapsed", "baseline_froze", "frozen",
             "bhyve_exit"}
Entries == [status: Statuses]

TypeOK ==
  /\ pc \in {"stage", "observe", "close", "next", "done", "crashed"}
  /\ k \in 0..Runs /\ t \in 0..Horizon
  /\ state \in [iter: Iters, at: 0..Horizon, hb: HBs]
  /\ ledger \in Seq(Entries) /\ Len(ledger) <= Runs + 1
  /\ verdict \in {"none", "probe_artifact", "breakthrough", "stochastic", "no_freeze"}
  /\ guest.at \in {"off", "soak", "dump", "stopping", "frozen"} /\ guest.iter \in Iters
  /\ vms \subseteq 0..Runs /\ truth \subseteq 0..Runs /\ fails \in 0..MaxFails

\* A run recorded as frozen is one whose guest froze: the silence rule is not
\* triggered by the silence of a healthy soak, which prints nothing either
\* (137-159).
FrozenIsReal ==
  \A r \in 1..Len(ledger) :
    ledger[r].status \in {"frozen", "baseline_froze"} => r - 1 \in truth

\* The two verdicts that blame someone have their evidence: a breakthrough needs
\* four attempts whose guests froze, a probe artifact a baseline that froze; and
\* "no freeze" is said of no ledger with a frozen attempt (250-293).
VerdictIsEarned ==
  /\ verdict = "breakthrough" => Cardinality(truth \ {0}) >= 4
  /\ verdict = "probe_artifact" => 0 \in truth
  /\ verdict = "no_freeze" => ~\E r \in 2..Len(ledger) : ledger[r].status = "frozen"

\* The iteration kept for a run never exceeds what its churn did, although lines
\* may be cut by the ends of chunks (184-207).
IterNotOverstated == pc = "observe" => state.iter <= guest.iter

\* A guest is gone before the next one is staged and before the ledger is written, and
\* no step has two of them: only a conductor that died leaves its virtual machine
\* behind, and it leaves one (96-115).
OneGuest == Cardinality(vms) <= 1 /\ (pc \in {"stage", "next", "done"} => vms = {})

\* A run whose guest does not freeze ends, by the exit of bhyve at the latest.
HealthyRunEnds == (pc = "observe") ~> (pc # "observe" \/ guest.at = "frozen")

\* repro_conductor.ex:104-105, "Parse serial stream until: (a) freeze detected, (b)
\* duration elapsed, or (c) bhyve exits": every observation ends.
ObservationEnds == (pc = "observe") ~> (pc # "observe")
=============================================================================
