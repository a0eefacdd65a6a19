# TLA+ models of the rmx-explorer oracle

This directory holds TLA+ modules, TLC configurations and TLAPS proofs for the
parts of rmx-explorer that decide something: probes that judge a Mach kernel,
the runner that turns their output into evidence, the conductors that watch a
guest for a freeze, and the drivers that take a daemon through its life. A wrong verdict of any of them is worse than none, so most
properties say what a verdict is worth.

## 1. Inventory

| component | state | operations | hard behaviour | what makes it correct |
|---|---|---|---|---|
| two-process probes (`macos-validation/probes/m2/descriptor_{copy,move}_send.c`) | locals of parent and child, the status struct, a pipe, two special ports, rights and queues in the kernel | set up, fork, restore, exchange two messages, look at rights, clean up, judge | two processes, receives with timeouts, watchdogs, thirty calls that may each fail | PASS only of a conforming kernel; an accusation only of a deviating one; no orphan, no leak, no hang |
| send-once probe (`m2/send_once_descriptor.c`) | as above, and a right that may be used once | as above, with two verify messages and two receives of different patience | a slow parent against a child that destroys the port; notifications of rights that die | as above; one message through a send-once right, never two |
| the other m2, the m1 and the foundation probes (15) | locals, rights of one task | a fixed list of calls, a chain of tests | each call may fail or deviate; later calls depend on earlier ones; reference counting | as above |
| dispatch probes | a context shared by main and a handler | create source or queue, send, wait, tear down | handler against main, late handler | no FAIL because the handler is late, nothing used after release |
| probe library (`probes/common`) | name/type baseline | capture, compare, print | unsupported `mach_port_names` | equal baselines mean no leak |
| runner (`harness/run_all.sh`) | result directory, run records, counters | collect, sign, gate, run each probe, settle its output, record, count | killed probes, interrupted runner, leftovers of earlier runs, a host without python3 or `timeout(1)` | exit code, records, counters and files tell the same story |
| id-025 repro conductor (`lib/rmx_os_oracle/id025/repro_conductor.ex`) with its staged guest | parser state, ledger, a virtual machine | stage, boot, read serial, classify, destroy | silence that means two things, clock arithmetic, cut chunks | frozen means frozen; every run ends |
| watchpoint conductor, freeze-surviving capture, gdb capture scripts | heartbeat streak; reader thread and detector | read, detect, attach, power off | thread against thread, blocking reads | a capture is taken of frozen guests only |
| lifecycle drivers (`scripts/{asl,notifyd}/*-lifecycle-harness.sh`, `scripts/op124`) | FAIL, launchd's job, the daemon | load, start, observe, kill, remove, reload | fixed sleeps against an asynchronous launchd; a stock process of the same name | a terminal status 0 is worth a daemon that came back |
| soak drivers (`scripts/{asl,notifyd}/*-soak-driver.sh`) | two counters | churn until a deadline | none: the status is always 0 | none a model could check |
| verifiers of serial logs (`lib/phase08`, `lib/rmx_os_oracle/{asl,notifyd}`) | none: pure functions over logs and manifests | find markers in order, compare with a contract | marker order, duplicates | accept exactly the contract |
| comparator, parked ledger, UI, manifests, migration inventories, mix tasks | none or static tables | compare, validate, print | none | field by field checks |

The parts meet at files and exit codes: a probe prints one object and returns 0
exactly for pass and skip; the runner reads both; a conductor reads a serial line
that a staged guest writes.

The hazards these behaviours bring are listed, each at its line and with the
properties aimed at it, in `PROJECT.json`.

## 2. Modules and the code they model

| module | models | state and actions |
|---|---|---|
| `OracleProbe` | the promise of any probe (abstract, no code of its own) | a helper process and an outcome; the outcome is final, comes after the helper, is "pass" only when deserved |
| `MachKernel` | the kernel under test, external: modelled from how the probes use it | the outcomes of the calls, and `Faults`, the ways in which it may deviate (a right kept that should move, a lost reference, a dead right delivered, a leak ...) |
| `NxBaseline` | the baselines of `nx_mach_utils.c`, shared by the probe modules | no state: when an incomplete baseline blocks a probe, and when two agree |
| `DescriptorProbe` | `descriptor_copy_send.c` and `descriptor_move_send.c` | parent and child are two processes with a control point each (`pp`, `cp`); `par`, `st` and `child` are the C locals and structs, `pipe`, `boot`, `q`, `svc`, `cargo`, `deliv` what the kernel holds. One action per call, or per run of calls no other process can see between; `Verdict` is the chain of tests |
| `DescriptorProbeProofs` | theorems about it | |
| `SendOnceProbe` | `send_once_descriptor.c` | the same frame with its own rights: `once` and `deliv` are what child and parent hold, `inbox` the messages at the cargo port, the kernel's notifications of unused rights among them |
| `SequentialProbe` | `m1/*.c`, the one-process probes of `m2`, `foundation/*.c` | a probe is the list of its calls (`<Probe>Steps`) with what each needs, and its chain of tests (`<Probe>Judge`). One action makes the next call against a kernel that deviates in at most one of them |
| `RunAll`, `MCRunAll` | `harness/run_all.sh` | one process over the files of the result directory. A file is who wrote it, the status it states and how much of it is there. `host` says what the host has: python3, `timeout(1)`, and whether a records file is asked for. `Interrupted` may strike between any two actions; `Start` is another invocation on what is left |
| `ReproConductor`, `MCReproConductor` | `repro_conductor.ex`, `launch_bhyve_with_pty`, and the guest of `op151-rc.local.template` | the conductor's `receive` loop with its clock, against a guest that soaks, dumps its files to the serial line, stops or freezes. Where the code does not match an error (`LoadFails`, `LaunchFails`, `LogFails`, `CloseRaises`) the conductor is "crashed" and its machine stays |
| `GdbCapture`, `MCGdbCapture` | `op155-capture-gdb.py` and the guest of `op155-rc.local.template` | the main thread (`pc`, `age`, `cur`) and the reader thread (`rp`, `last`, `lastAt`) share two cells that are written and read one at a time; the serial socket is a queue of heartbeats and an end of file |
| `GdbCaptureProofs` | theorems about it | |
| `DispatchRecvSource` | `dispatch_mach_recv_source.c` | main and the event handler share a context; libdispatch is external and conforms, fires spuriously or never fires |
| `DispatchWork` | `dispatch_global_queue_service.c`, `dispatch_primitives.c` | main submits items and waits; the items run on threads of libdispatch and reach main's stack through contexts whose life (`scope`) is state |
| `Lifecycle` | `notifyd-lifecycle-harness.sh`, `asld-lifecycle-harness.sh`, `op124-lifecycle-probe.rc` | one action per rung or half of a rung; launchd spawns, the daemon serves, exits slowly or crashes on their own. `prompt` says whether they settle within the sleeps |
| `DispatchProofs` | theorems about the two dispatch modules, which it both extends: names they would share have the prefix `Recv` in `DispatchRecvSource` | |
| `LifecycleProofs`, `ReproConductorProofs`, `RunAllProofs`, `SendOnceProbeProofs`, `SequentialProbeProofs` | theorems about these modules | |

Data is abstracted to what a verdict reads: port names are the role they play,
return codes are ok, a timeout or an error, a JSON object is its status and
whether all of it is there, a serial line is its kind and its number. Operators
whose comment begins with "Mutant" are deliberate errors: no specification uses
them, and each shows that some property notices its absence.

Undefined behaviour is a choice: `RecvFreeAfter` of `DispatchRecvSource` frees a
struct nobody wrote to and may end the process; signalling or waiting on a semaphore
that could not be created, or signalling a released one, may too. Such a crash is an
end without a verdict, and no property excludes it.

A receive of the two-process probes fails by its timeout or for a reason of its own, and
the chains do not tell the two apart (`ReceiveFails`, `ChildReceiveFails`). In
`SequentialProbe` every call may fail that a conforming kernel grants; a call it must
refuse has no failure of its own besides, because the chains take any error for the
refusal (`CallFails`). Where a chain tells two errors of a look apart (`dead_name`),
"absent" stands for the one it asks for.

## 3. Runs

| run | question | answer |
|---|---|---|
| `descriptor` (both probes) | is PASS sound and clean, is an accusation justified, does a child outlive its verdict, is this an `OracleProbe`, its fairness included? | yes |
| `send_once` | the same of the send-once probe | yes, with a weaker PASS: it does not exclude a reusable right if the second message came late, nor a kernel that takes messages without a right if the second call failed of its own |
| `send_once_one_shot` | does a PASS mean that the right could be used only once? | no: a parent held up for longer than the child's second wait finds a dead name and takes it for a used right |
| `sequential` | the same of the fifteen one-process probes, and does none accuse a conforming kernel? | yes |
| `run_all` | do exit code, counters, records and files agree after an interrupted first invocation, with and without python3, `timeout(1)` and a records file, and does an invocation end? | yes; on a host without `timeout(1)` it may stay with one probe for ever |
| `repro` | does a recorded freeze mean a frozen guest, is a verdict earned, is there one guest at a time, do healthy runs end? | yes; but a conductor that dies leaves its machine behind |
| `repro_hang` | does every observation end? | no: a length of time is compared with an absolute reading of a clock that starts below zero, and the silence rule needs a churn line, which a frozen guest never sends |
| `gdb` | is a guest below the gate spared, a silent one above it caught, does the detector end? | yes |
| `gdb_stalled` | has a captured guest been silent for two minutes? | no: a heartbeat between the reads of lines 95 and 96 joins an old age to a new iteration |
| `dispatch_recv` | is PASS sound, do the two unlocked reads agree, does the probe end? | yes |
| `dispatch_work` | does PASS mean that all work was done, does work find its context alive, do the waits end? | yes; where the library drops an item the global queue probe waits for ever |
| `lifecycle` | is terminal status 0 worth a daemon that came back, does a restart rung see a new process, is there no false alarm? | yes, within the limits the properties state |

The runs whose answer is "no" check one property each, taken from a comment or
document that `PROJECT.json` quotes under `findings`.

Other disagreements that the models show without a run of their own:

- without python3 the runner takes a truncated object for a result: the awk scan
  of `run_all.sh:380` finds the status near its beginning;
- without `timeout(1)` (`run_all.sh:568-572`) nothing bounds a probe, and two of the
  dispatch probes wait FOREVER (`dispatch_global_queue_service.c:131`), though
  `NX_ORACLE_PROBE_TIMEOUT` promises a limit: `EveryRunEnds` names the exception;
- the port of a bhyve that has exited is closed already, so `Port.close`
  (`repro_conductor.ex:114`) raises: the machine is not destroyed, and `run_all` dies
  without the ledger that its documentation promises ("Returns the ledger map; also
  writes it to disk", line 52). Lines 104-105 count the exit of bhyve among the normal
  ends of a run (`CloseRaises`). As the deadline does not strike before the clock has
  passed zero, a ledger is written only if every run froze after its churn line or
  failed in staging, and "no freeze" only if no attempt could be staged;
- `{:args, []}` beside `{:spawn, cmd}` (`freeze_surviving_capture.ex:188-191`) is an
  option for `:spawn_executable`; an `open_port` that refuses it is `LaunchFails`;
- `host_info.c:8` promises the count of HOST_BASIC_INFO and `port_set.c:7` the right
  type of the set; both are recorded and neither is judged (`Unjudged`);
- the failure of the second send is taken for the kernel's refusal whatever its reason
  (`send_once_descriptor.c:666`): `PassIsSound` names the exception;
- `classify` (`repro_conductor.ex:251`) does not count a nonzero exit with blocked
  threads as a freeze, which lines 18-19 do;
- `op155-capture-gdb.py:101` captures a healthy guest that lingers, silent, after
  its soak, while lines 7-8 speak of frozen ones;
- `dispatch_mach_recv_source.c:153` frees a struct nobody wrote to (`RecvFreeAfter`);
- a child of a descriptor probe that dies after it has sent is reported as FAIL /
  exact_contract, where the plan document
  (`archive/comprehensive-nx-v64z-macos-oracle-plan.md:452`) demands a probe
  failure, because the test of the zeroed struct comes first
  (`descriptor_move_send.c:630`);
- a daemon that is slow to go is reported as `launchd_auto_restart`
  (`notifyd-lifecycle-harness.sh:98-100`), and a round trip that fails after the
  reload leaves FAIL at 0 in both harnesses (line 141). `RestartIsNew` and
  `SuccessIsServed` say what is left: they hold of prompt systems, and of op124.

### Bounds, and why they are enough

- `MaxFails = 1`, `MaxDeaths = 1` (descriptor run): every single failing call
  with every single kill, at every point. The verdict chain reads each
  observation by itself, and the theorems below cover every number of both for
  the invariants that are proved.
- `MaxFails = 2`, `MaxDeaths = 1` (`SendOnceProbe`), `MaxFails = 2`
  (`SequentialProbe`): two failures, because a second one can hide what the first
  left behind. Every deviation in every call of every probe is tried.
- Two probes and two invocations (`RunAll`): one probe's leftovers beside
  another's, and a second invocation on the remains of a first. A third meets
  nothing new, because each file remembers only its last writer.
- `Runs = 4` with soaks of one and two minutes (`ReproConductor`): four is the
  number of frozen attempts that `classify` looks for. `Horizon = 9` minutes is
  past every deadline and threshold of a run. `Origin` is the real one, -2^59 ns.
  `Poweroff = 2` minutes from the last line to the exit of bhyve is the silence
  threshold itself and the most that `PoweroffAssumption` allows: a guest that takes
  longer is recorded as frozen. `MaxFails = 2`: a run that could not be staged, and a
  failure after it.
- `Soak = 45`, `MaxWait = 60` units of 20 seconds, paces of 5, 7 and 16 units
  (`GdbCapture`): the default 20 minutes of patience; heartbeats before the
  stall time, just after it, and after the 300 seconds of the other rule.
- `MaxFires = 3` (`DispatchRecvSource`): the source fires before, during and
  after the wait. The theorems hold for every number.

- Four items (`DispatchWork`): one dropped or swapped with another while others are
  queued, running and done.
- `MaxFails = 2`, `MaxCrashes = 2` (`Lifecycle`): one before and one after the
  remove. The theorems hold for every number.

`CHECK_DEADLOCK` is on but in `dispatch_work`: ended systems stutter by an action of
their own, and a main whose library dropped an item waits for ever without one.

### Fairness

- Descriptor probes: weak fairness of each process. The scheduler runs both, and
  each receive has a timeout in the code. Kills are not fair.
- `SendOnceProbe`: the same. `SequentialProbe`: weak fairness of the one process.
- `RunAll`: weak fairness of the shell, and of the probe on hosts that have
  `timeout(1)` (lines 563-567). Elsewhere a probe may run for ever, and `EveryRunEnds`
  says that nothing else keeps an invocation from ending. Interruptions are not fair.
- `ReproConductor`, `GdbCapture`: weak fairness of the program, of a guest that is
  not frozen, and of time. Freezing is not fair, and neither are the conductor's
  failures, except that closing a dead port always raises.
- `DispatchRecvSource`: weak fairness of main and of a handler that has started.
  None of the source: whether and when it fires is what the probe tests.
- `DispatchWork`: weak fairness of main and of each item that libdispatch will run.
- `Lifecycle`: none; its properties are safety properties, and a round trip has no
  timeout in the code.

## 4. Proofs

Proved with TLAPS, for every value of the constants:

| module | theorem | property |
|---|---|---|
| `DescriptorProbeProofs` | `TypeCorrect`, `PassSound`, `PassClean`, `NoOrphan`, `DescriptorPrivate`, `AccusationJustified` | `TypeOK`, `PassIsSound`, `PassIsClean`, `NoOrphanAtVerdict`, `DescriptorStaysPrivate`, `AccusationIsJustified` |
| | `RefinesContract` | the safety part of `ImplementsContract` |
| `SendOnceProbeProofs` | `TypeCorrect`, `PassSound`, `PassClean`, `AccusationJustified` | `TypeOK`, `PassIsSound`, `PassIsClean`, `AccusationIsJustified` |
| | `RefinesContract` | the safety part of `ImplementsContract` |
| `SequentialProbeProofs` | `TypeCorrect`, `PassSound`, `PassClean`, `NoAlarm` | `TypeOK`, `PassIsSound`, `PassIsClean`, `NoFalseAlarm` |
| | `RefinesContract` | the safety part of `ImplementsContract` |
| `GdbCaptureProofs` | `TypeCorrect`, `BelowGateIsSpared`, `SilenceIsCaught`, `ReaderBehind` | `TypeOK`, `NoCaptureBelowGate`, `SilentIsCaught`, `ReaderIsBehind` |
| `DispatchProofs` | `RecvTypeCorrect`, `RecvPassSound`, `RecvServicedReceived` | `TypeOK`, `PassIsSound`, `ServicedWasReceived` |
| | `PassServiced`, `ContextLives` | `PassIsServiced`, `ContextOutlivesWork` |
| `ReproConductorProofs` | `TypeCorrect`, `FrozenRuns`, `EarnedVerdict`, `IterBounded`, `SingleGuest` | `TypeOK`, `FrozenIsReal`, `VerdictIsEarned`, `IterNotOverstated`, `OneGuest` |
| `RunAllProofs` | `TypeCorrect`, `ExitZero`, `FreshResults`, `BalancedBooks`, `RefusalKeepsResults` | `TypeOK`, `ZeroMeansGreen`, `CompletedIsFresh`, `BooksBalance`, `ResultsSurviveRefusal` |
| `LifecycleProofs` | `TypeCorrect`, `FreshSuccess`, `NewRestart`, `ServedSuccess`, `NoAlarm` | `TypeOK`, `SuccessIsFresh`, `RestartIsNew`, `SuccessIsServed`, `NoFalseAlarm` |

The assumptions are the named ones of the modules: bounds are naturals, times are
positive, the batch is finite with at least two items, and a guest powers off within
the silence threshold. Where a type invariant is
proved no run repeats it, except in the descriptor and the sequential run.

*Descriptor probes.* `PassIsSound` speaks of the kernel's deviation, the verdict
of what two processes saw of it, at different times and through a pipe. The
inductive invariant follows the evidence: `CargoInv` ties the rights under the
cargo name to the deviation, `LookInv` each recorded look to the rights it was
taken from, `DeafInv` the verify message to a delivered right that works,
`ExitInv` the child's exit code to its calls, `StatusInv` the parent's copy of the
struct to the child's (or to zeroes, when the child never wrote), `DeliveryInv`
the parent's view of the delivered right, `CleanInv` what is left in either task
to the baselines compared, `ReapInv` the parent's control point to the child's,
and `VerdictInv` the verdict to all of these. The last step (`PassMeans`) unfolds
the chain of tests once: a pass fixes every observation, and each deviation that
the probe exercises contradicts one of them.

The same invariant has a second half for the opposite direction. `BootInv` says whose
bootstrap port the child sees at each place of the parent, so that the descriptor
cannot go to the system's (`DescriptorStaysPrivate`); `MessageInv` that a message at
the cargo port is the parent's, sent through the right it saw. `QuietParentInv` and `QuietChildInv` assume that no call has failed and that the
kernel conforms, and say at each place of either process that every observation so far
is the one the verdict asks for. `AccusationIsJustified` follows: in such a run, with the
status read and no receive timed out, no test that accuses the kernel comes out against it.

*Refinement.* `ContractSafety` is the contract of `OracleProbe` without its fairness:
`Init` and `[][Next]_vars` under the mapping of the probe's own module. Steps that
change neither the child's being there nor the outcome stutter (`Stutters`); what is
left are fork, exit and wait, the kills and the report, of which the contract asks that no helper
runs any more and that a pass is deserved: `ReapInv` and `PassMeans`.

*Send-once probe.* `RightInv` ties the send-once rights in both tasks to the deviation
and to the places of the two processes, `SeenInv` what the child saw
and `DelivInv` what the parent saw to the rights they looked at, `InboxInv` tells apart the three reasons for which
a message may be missing or extra in the child's queue: a right that does not work, one
that works twice, and a notification sent for a right that was never used. `LateInv` is
the second message: if the cargo port is gone by then its failure says nothing, which is
why `PassIsSound` assumes the prompt case and the contract a pass deserves excuses
`Lateness`; the run `send_once_one_shot` shows that the assumption is needed. If the port
is still there, a right that can be used again betrays itself before the second message, in
`mach_port_get_refs`, whose failure is not taken for an absent right; a kernel that takes
messages without a right betrays itself in the second message only, and passes when that
call fails of its own: hence the exception with `answered`. `CleanInv`,
`ExitInv`, `StatusInv`, `ReapInv` and `VerdictInv` are as above, and the three
Quiet parts give `AccusationIsJustified`.

*Sequential probes.* A probe keeps no state but its locals, and its verdict is given long
after the calls it judges. The invariant therefore has two formulas for each probe:
`<Probe>Seen` is what the chain of tests will ask of the calls made so far, and
`<Probe>Held` what the task holds at each place of the list, together with the
deviations that would have shown by then. `Follows` ties them: what was seen implies what is held
(the half `PassIsSound` and `PassIsClean` need), and on a kernel that conforms and has
failed no call everything is seen (the half `NoFalseAlarm` needs). `Base` holds what
every list shares: types, the place in the list, presets of calls still to come. `SnapsInv` is
about the snapshots of the name space: each was lost with a failed call or shows the phantom name
exactly if the kernel lied there, the first shows nothing else and the last what there
is. A call changes the state in one of a few ways (`Taken`, `Lost` and the lemmas
on each kind of call), so that a step of a probe is one leaf per call; `dead_name`, with
two cases in one list, also needs what its middle snapshots show (`BetweenHeld`).
At the end `<Probe>Passes` unfolds the chain once, `<Probe>Sound` goes through the
deviations the list may meet, and `BaselineClean` turns an equal comparison into an empty task.
Two probes judge one call only if they made it: a right that did not come back is not
tried out (`header_move`) or returned (`invalid_disposition`). `Spared` names the two;
`PassIsSound` asks that the call was made, the contract excuses it.

*gdb capture.* `SockInv` says that the socket holds exactly the heartbeats not yet
read, in order, so nothing is lost or invented; `ReadInv` that what the main
thread read is no newer than what the reader published; `RoundInv` bounds the
silence in each part of the loop, with the one exception the race leaves open,
a reader between its two assignments. That `AttachMeansStalled` is false shows
that the exception is needed.

*MACH_RECV source.* `RecvServiceInv` orders receive, store and load; `RecvTakenInv` says
that no receive follows the successful one unless the source fires spuriously;
`RecvSemInv` bounds the semaphore's count by the firings.

*Dispatch work.* The verdict compares a counter with the size of the batch. `CountInv`
says that the counter is the number of items that ran, unless the library swaps
items, and `LoadInv` carries that over to the value main loaded; `AfterInv` ties
the semaphore's count to the delayed item's last act, and `GroupInv` the group's
count to its item.

*Repro conductor.* `SilenceInv` is the argument of `FrozenIsReal`: a guest that has
printed its churn line is about to stop, so more than two minutes of silence after one mean a
freeze. `IterInv` bounds every line on its way by the guest's own count, `PlaceInv`
ties the guest to the conductor's place, the ledger's length to the run and the machines
to both: none between two runs, one from `Boot` to `Close`, and at most the last one after a crash.

*Runner.* `FlightInv` describes the probe in flight (what its exit code says of its
output, where the output is), `FreshInv` and `GreenInv` the files of the probes
counted, `BooksInv` equates the counters with the records where records are kept. A
probe that ends by itself may have lost the end of its output: python3 refuses such an
object, the scan without it does not, which is the exception `Intact` makes. A probe that occurs twice
in the list is the hard case: its file is in flight again after it was counted.

*Lifecycle.* `GenInv` orders generations of the daemon, `KillInv` says that the
process found before the kill is ending or gone, `GapInv` that from the remove rung's
empty pgrep to the next one whatever runs is new, and `RungInv` what each rung
passed has left behind. `CalmInv` adds what holds where launchd is prompt and nothing
fails or crashes: which rung expects a process and that it is there, so that no test fails.

Model-checked only: everything temporal (`EveryRunEnds`, `HealthyRunEnds`,
`DetectorEnds`, `Ends`, `EveryWaitEnds`) and the fairness in `ImplementsContract`,
because liveness is out of the prover's reach. Every invariant that a passing run checks is
proved.

## 5. Not modelled

The branches for hosts without Mach or libdispatch, JSON emission, environment
look-up, code signing and option parsing are straight-line formatting or calls of
other programs. The static inventories of `lib/rmx_os_oracle/migration` and the
phase 08.5 documents have no state. The Swift probes test a language runtime from
inside it. DTrace scripts run in the kernel's tracing engine. The soak drivers loop
until a deadline and always report status 0. The comparator, the parked ledger, the
manifests, the read-only UI and the mix tasks check or print tables field by field:
a model would repeat the table. The rest is planned:

## 6. Plan

The probes, the runner, the detectors and the drivers came first because their verdicts
are what the rest of the repository quotes. Left, in this order:

1. The watchpoint conductor beside `ReproConductor`: a chunk of its port holds
   several heartbeats or half of one (`watchpoint_conductor.ex:148`); and the DDB
   part of the freeze-surviving capture, whose deadline is looked at between blocking
   reads (`freeze_surviving_capture.ex:149`).
2. The phase 08 verifiers and the ASL and notifyd contract checks: the order of
   markers over bounded logs against a reference definition of order
   (`launchctl_verifier_common.ex:566`).
