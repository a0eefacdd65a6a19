---------------------------- MODULE DispatchProofs ----------------------------
(***************************************************************************)
(* The dispatch probes.  For a batch of any size: a pass of the two probes *)
(* of DispatchWork means that all the work was run, and the work finds its *)
(* context alive; TLC checks four items, the code submits 64.  For every   *)
(* number of firings, with and without failing calls: the MACH_RECV source *)
(* probe of DispatchRecvSource passes only when a handler received the     *)
(* message, and what main reads of the shared context is consistent.       *)
(***************************************************************************)
EXTENDS DispatchWork, DispatchRecvSource, FiniteSetTheorems, TLAPS

Points == {"start", "submit", "wait", "load", "sems", "after", "await", "fired", "free",
           "judge", "done", "crashed"}

Types ==
  /\ probe \in {"global", "primitives"} /\ lib \in Libs /\ made \subseteq Objects
  /\ pc \in Points /\ todo \subseteq Batch /\ scope \subseteq {"group", "after"}
  /\ at \in [Work -> {"none", "queued", "added", "done"}]
  /\ runs \in [Work -> Nat]
  /\ group \in Int /\ count \in Nat /\ fired \in {0, 1} /\ sem \in Nat
  /\ loc \in [wait: {-1, 0}, count: Int, timedOut: BOOLEAN, passed: BOOLEAN,
              await: {-1, 0}, fired: BOOLEAN]
  /\ verdict \in {"none", "pass", "fail"}

\* No item is run before it is queued, or more often than the library will.
RunInv ==
  \A i \in Work : /\ runs[i] <= Served(i)
                  /\ at[i] = "none" => runs[i] = 0
                  /\ at[i] = "added" => runs[i] > 0

\* What is outside the batch is never submitted.
BatchInv == \A i \in Items \ Batch : at[i] = "none"

\* The counter counts the items that were run.
Ran == {i \in Items : runs[i] = 1}
CountInv == lib # "swaps" => count = Cardinality(Ran)

\* A counter that was read as full was full.
LoadInv == lib # "swaps" /\ loc.count = Cardinality(Batch) => \A i \in Batch : runs[i] = 1

\* The semaphore is signalled by the delayed item's last act.
AfterInv ==
  /\ pc \in {"start", "submit", "wait", "load", "sems", "after"} => at["after"] = "none"
  /\ fired = 1 => runs["after"] = 1
  /\ sem > 0 => at["after"] = "done"
  /\ loc.await = 0 => at["after"] = "done"
  /\ loc.fired = TRUE => fired = 1

\* In dispatch_primitives.c the group holds its one item, and only the wait is made
\* while it does.
GroupInv ==
  probe = "primitives" =>
    /\ group = IF at[One] \in {"queued", "added"} THEN 1 ELSE 0
    /\ pc \in {"start", "submit"} => at[One] = "none"
    /\ pc = "submit" => todo = {One}
    /\ pc = "start" => todo = {One}
    /\ group # 0 /\ lib # "early" => pc = "wait" /\ "group" \in scope

\* What a verdict was computed from is still in main's locals.
VerdictInv ==
  /\ verdict # "none" => pc = "done"
  /\ verdict = "pass" => /\ loc.count = Cardinality(Batch)
                         /\ probe = "primitives" => loc.fired = TRUE

IInv == Types /\ RunInv /\ BatchInv /\ CountInv /\ LoadInv /\ AfterInv /\ GroupInv /\ VerdictInv

\* The batch is not empty.
LEMMA OneIsItem == One \in Items
<1>1. Items # {}
  BY ItemsAssumption, FS_EmptySet
<1> QED
  BY <1>1 DEF One

\* Without swaps an item is run at most once.
LEMMA ServedOnce ==
  ASSUME NEW i \in Work PROVE Served(i) \in {0, 1, 2} /\ (lib # "swaps" => Served(i) <= 1)
BY DEF Served

\* The items that were run are some of finitely many.
LEMMA RanFinite == IsFiniteSet(Ran) /\ Cardinality(Ran) \in Nat
<1>1. Ran \in SUBSET Items
  BY DEF Ran
<1> QED
  BY <1>1, ItemsAssumption, FS_Subset, FS_CardinalityType

\* The initial states satisfy the invariant.
LEMMA InitIInv == Init => IInv
<1> SUFFICES ASSUME Init PROVE IInv
  OBVIOUS
<1>1. Types
  BY ItemsAssumption, OneIsItem DEF Init, Types, Points, Work, Batch
<1>2. RunInv /\ BatchInv
  BY ServedOnce DEF Init, RunInv, BatchInv, Work
<1>3. Ran = {}
  BY DEF Init, Ran, Work
<1>4. CountInv
  BY <1>3, FS_EmptySet DEF Init, CountInv
<1>5. IsFiniteSet(Batch) /\ Cardinality(Batch) \in Nat
  BY OneIsItem, ItemsAssumption, FS_Singleton, FS_CardinalityType DEF Batch
<1>6. LoadInv
  BY <1>5 DEF Init, LoadInv
<1>7. AfterInv /\ GroupInv /\ VerdictInv
  BY OneIsItem DEF Init, AfterInv, GroupInv, VerdictInv, Work, Batch
<1> QED
  BY <1>1, <1>2, <1>4, <1>6, <1>7 DEF IInv

\* A step that runs no item and leaves the counter and main's locals alone keeps what
\* depends on them.
LEMMA CountKept ==
  ASSUME CountInv, LoadInv, UNCHANGED <<probe, lib, runs, count>>,
         loc'.count = loc.count
  PROVE  CountInv' /\ LoadInv'
BY DEF CountInv, LoadInv, Ran, Batch

\* A fetch-and-add adds its item to those that were run.
LEMMA AddIInv == ASSUME IInv, ~Over, NEW i \in Work, Add(i) PROVE IInv'
<1> USE OneIsItem DEF IInv, Add, world, main, Through, Over
<1>1. i \in Items /\ runs[i] < Served(i) /\ runs[i] \in Nat /\ Served(i) \in {0, 1, 2}
  BY ServedOnce DEF Types
<1>2. runs' = [runs EXCEPT ![i] = runs[i] + 1] /\ UNCHANGED <<probe, lib, loc>>
  OBVIOUS
<1>3. Types'
  BY <1>1 DEF Types, Points, Batch
<1>4. RunInv' /\ BatchInv'
  BY <1>1, ServedOnce DEF Types, RunInv, BatchInv, Batch, Work, Served
<1>5. CountInv'
  <2> SUFFICES ASSUME lib # "swaps" PROVE count' = Cardinality(Ran')
    BY <1>2 DEF CountInv
  <2>1. runs[i] = 0
    BY <1>1, ServedOnce
  <2>2. Ran' = Ran \cup {i} /\ i \notin Ran
    BY <1>1, <1>2, <2>1 DEF Ran, Types, Work
  <2> QED
    BY <2>2, RanFinite, FS_AddElement DEF CountInv
<1>6. LoadInv'
  <2> SUFFICES ASSUME lib # "swaps", loc.count = Cardinality(Batch), NEW j \in Batch
               PROVE  runs'[j] = 1
    BY <1>2 DEF LoadInv, Batch
  <2>1. runs[j] = 1
    BY DEF LoadInv
  <2>2. i # j
    BY <2>1, <1>1, ServedOnce
  <2> QED
    BY <2>1, <2>2, <1>2 DEF Types, Batch, Work
<1>7. AfterInv' /\ VerdictInv'
  BY <1>1, ItemsAssumption DEF Types, AfterInv, VerdictInv, Batch, Work
<1>8. GroupInv'
  BY <1>1 DEF Types, GroupInv, BatchInv, Batch, Work
<1> QED
  BY <1>3, <1>4, <1>5, <1>6, <1>7, <1>8

\* An item that leaves the group does so once it has been counted.
LEMMA LeaveIInv == ASSUME IInv, ~Over, NEW i \in Work, Leave(i) PROVE IInv'
<1> USE OneIsItem DEF IInv, Leave, world, main, Through, Over
<1>1. i \in Items /\ runs[i] \in Nat /\ Served(i) \in {0, 1, 2}
  BY ServedOnce DEF Types
<1>2. Types'
  BY <1>1 DEF Types, Points, Batch
<1>3. RunInv' /\ BatchInv'
  BY <1>1 DEF Types, RunInv, BatchInv, Batch, Work, Served
<1>4. CountInv' /\ LoadInv'
  BY CountKept
<1>5. AfterInv' /\ VerdictInv'
  BY <1>1, ItemsAssumption DEF Types, AfterInv, VerdictInv, Batch, Work
<1>6. GroupInv'
  <2> SUFFICES ASSUME probe = "primitives" PROVE GroupInv'
    BY DEF GroupInv
  <2>1. i = One
    BY <1>1 DEF BatchInv, Batch
  <2>2. runs[One] >= Served(One)
    BY <2>1, <1>1, ItemsAssumption DEF RunInv, Work, Served
  <2> QED
    BY <2>1, <2>2, <1>1 DEF Types, GroupInv, Work, Batch
<1> QED
  BY <1>2, <1>3, <1>4, <1>5, <1>6

\* The delayed item stores afired and then signals.
LEMMA AfterIInv == ASSUME IInv, ~Over, Fire \/ Signal PROVE IInv'
<1> USE OneIsItem, ItemsAssumption DEF IInv, world, main, Through, Over
<1>1. CASE Fire
  <2>1. Types'
    BY <1>1 DEF Fire, Types, Points, Batch, Work
  <2>2. RunInv' /\ BatchInv'
    BY <1>1 DEF Fire, Types, RunInv, BatchInv, Batch, Work, Served
  <2>3. Ran' = Ran
    BY <1>1 DEF Fire, Types, Ran, Work
  <2>4. CountInv' /\ LoadInv'
    BY <1>1, <2>3 DEF Fire, Types, CountInv, LoadInv, Batch, Work
  <2>5. AfterInv' /\ VerdictInv' /\ GroupInv'
    BY <1>1 DEF Fire, Types, AfterInv, VerdictInv, GroupInv, Batch, Work
  <2> QED
    BY <2>1, <2>2, <2>4, <2>5
<1>2. CASE Signal
  <2>1. Types' /\ RunInv' /\ BatchInv'
    BY <1>2 DEF Signal, Types, Points, RunInv, BatchInv, Batch, Work, Served
  <2>2. CountInv' /\ LoadInv'
    BY <1>2, CountKept DEF Signal
  <2>3. AfterInv'
    BY <1>2 DEF Signal, Types, AfterInv, Work
  <2>4. VerdictInv'
    BY <1>2 DEF Signal, Over, VerdictInv
  <2>5. GroupInv'
    BY <1>2 DEF Signal, Types, AfterInv, GroupInv, Work
  <2> QED
    BY <2>1, <2>2, <2>3, <2>4, <2>5
<1> QED
  BY <1>1, <1>2

\* Every step of main preserves the invariant.
LEMMA MainIInv == ASSUME IInv, ~Over, Main PROVE IInv'
<1> USE OneIsItem, ItemsAssumption DEF IInv, world, workers
<1>1. CASE Start
  <2>1. Types'
    BY <1>1 DEF Start, Types, Points, Batch, Work
  <2>2. RunInv' /\ BatchInv'
    BY <1>1 DEF Start, Types, RunInv, BatchInv, Batch, Work, Served
  <2>3. CountInv' /\ LoadInv'
    BY <1>1, CountKept DEF Start, Types
  <2>4. AfterInv'
    BY <1>1 DEF Start, Types, AfterInv, Work
  <2>5. VerdictInv'
    BY <1>1 DEF Start, Types, VerdictInv, Batch
  <2>6. GroupInv'
    BY <1>1 DEF Start, Types, GroupInv, Batch, Work
  <2> QED
    BY <2>1, <2>2, <2>3, <2>4, <2>5, <2>6
<1>2. CASE Semaphores
  <2>1. Types'
    BY <1>2 DEF Semaphores, Types, Points, Batch, Work
  <2>2. RunInv' /\ BatchInv'
    BY <1>2 DEF Semaphores, Types, RunInv, BatchInv, Batch, Work, Served
  <2>3. CountInv' /\ LoadInv'
    BY <1>2, CountKept DEF Semaphores, Types
  <2>4. AfterInv'
    BY <1>2 DEF Semaphores, Types, AfterInv, Work
  <2>5. VerdictInv'
    BY <1>2 DEF Semaphores, Types, VerdictInv, Batch
  <2>6. GroupInv'
    BY <1>2 DEF Semaphores, Types, GroupInv, Batch, Work
  <2> QED
    BY <2>1, <2>2, <2>3, <2>4, <2>5, <2>6
<1>3. CASE GroupWait
  <2>1. Types'
    BY <1>3 DEF GroupWait, Types, Points, Batch, Work
  <2>2. RunInv' /\ BatchInv'
    BY <1>3 DEF GroupWait, Types, RunInv, BatchInv, Batch, Work, Served
  <2>3. CountInv' /\ LoadInv'
    BY <1>3, CountKept DEF GroupWait, Types
  <2>4. AfterInv'
    BY <1>3 DEF GroupWait, Types, AfterInv, Work
  <2>5. VerdictInv'
    BY <1>3 DEF GroupWait, Types, VerdictInv, Batch
  <2>6. GroupInv'
    BY <1>3 DEF GroupWait, Types, GroupInv, Batch, Work
  <2> QED
    BY <2>1, <2>2, <2>3, <2>4, <2>5, <2>6
<1>4. CASE After
  <2>1. Types'
    BY <1>4 DEF After, Types, Points, Batch, Work
  <2>2. RunInv' /\ BatchInv'
    BY <1>4 DEF After, Types, RunInv, BatchInv, Batch, Work, Served
  <2>3. CountInv' /\ LoadInv'
    BY <1>4, CountKept DEF After, Types
  <2>4. AfterInv'
    BY <1>4 DEF After, Types, AfterInv, Work
  <2>5. VerdictInv'
    BY <1>4 DEF After, Types, VerdictInv, Batch
  <2>6. GroupInv'
    BY <1>4 DEF After, Types, GroupInv, Batch, Work
  <2> QED
    BY <2>1, <2>2, <2>3, <2>4, <2>5, <2>6
<1>5. CASE Await
  <2>1. Types'
    BY <1>5 DEF Await, Types, Points, Batch, Work
  <2>2. RunInv' /\ BatchInv'
    BY <1>5 DEF Await, Types, RunInv, BatchInv, Batch, Work, Served
  <2>3. CountInv' /\ LoadInv'
    BY <1>5, CountKept DEF Await, Types
  <2>4. AfterInv'
    BY <1>5 DEF Await, Types, AfterInv, Work
  <2>5. VerdictInv'
    BY <1>5 DEF Await, Types, VerdictInv, Batch
  <2>6. GroupInv'
    BY <1>5 DEF Await, Types, GroupInv, Batch, Work
  <2> QED
    BY <2>1, <2>2, <2>3, <2>4, <2>5, <2>6
<1>6. CASE LoadFired
  <2>1. Types'
    BY <1>6 DEF LoadFired, Types, Points, Batch, Work
  <2>2. RunInv' /\ BatchInv'
    BY <1>6 DEF LoadFired, Types, RunInv, BatchInv, Batch, Work, Served
  <2>3. CountInv' /\ LoadInv'
    BY <1>6, CountKept DEF LoadFired, Types
  <2>4. AfterInv'
    BY <1>6 DEF LoadFired, Types, AfterInv, Work
  <2>5. VerdictInv'
    BY <1>6 DEF LoadFired, Types, VerdictInv, Batch
  <2>6. GroupInv'
    BY <1>6 DEF LoadFired, Types, GroupInv, Batch, Work
  <2> QED
    BY <2>1, <2>2, <2>3, <2>4, <2>5, <2>6
<1>7. CASE FreeAfter
  <2>1. Types'
    BY <1>7 DEF FreeAfter, Types, Points, Batch, Work
  <2>2. RunInv' /\ BatchInv'
    BY <1>7 DEF FreeAfter, Types, RunInv, BatchInv, Batch, Work, Served
  <2>3. CountInv' /\ LoadInv'
    BY <1>7, CountKept DEF FreeAfter, Types
  <2>4. AfterInv'
    BY <1>7 DEF FreeAfter, Types, AfterInv, Work
  <2>5. VerdictInv'
    BY <1>7 DEF FreeAfter, Types, VerdictInv, Batch
  <2>6. GroupInv'
    BY <1>7 DEF FreeAfter, Types, GroupInv, Batch, Work
  <2> QED
    BY <2>1, <2>2, <2>3, <2>4, <2>5, <2>6
<1>8. CASE Submit
  <2>1. Types'
    BY <1>8 DEF Submit, Types, Points, Batch, Work
  <2>2. RunInv' /\ BatchInv'
    BY <1>8 DEF Submit, Types, RunInv, BatchInv, Batch, Work, Served
  <2>3. CountInv' /\ LoadInv'
    BY <1>8, CountKept DEF Submit
  <2>4. AfterInv' /\ VerdictInv'
    BY <1>8 DEF Submit, Types, AfterInv, VerdictInv, Batch, Work
  <2>5. GroupInv'
    BY <1>8 DEF Submit, Types, GroupInv, Batch, Work
  <2> QED
    BY <2>1, <2>2, <2>3, <2>4, <2>5
<1>9. CASE Load
  <2>1. Types' /\ RunInv' /\ BatchInv' /\ CountInv'
    BY <1>9 DEF Load, Types, Points, RunInv, BatchInv, CountInv, Ran, Batch, Served
  <2>2. LoadInv'
    <3> SUFFICES ASSUME lib # "swaps", count = Cardinality(Batch) PROVE \A i \in Batch : runs[i] = 1
      BY <1>9 DEF Load, Types, LoadInv, Batch
    <3>1. Ran \in SUBSET Batch
      BY DEF Ran, BatchInv, RunInv, Types, Work
    <3>2. IsFiniteSet(Batch)
      BY FS_Singleton DEF Batch
    <3>3. Ran = Batch
      BY <3>1, <3>2, FS_Subset DEF CountInv
    <3> QED
      BY <3>3 DEF Ran
  <2>3. AfterInv' /\ GroupInv'
    BY <1>9 DEF Load, Types, AfterInv, GroupInv, Batch, Work
  <2>4. VerdictInv'
    BY <1>9 DEF Load, Over, VerdictInv
  <2> QED
    BY <2>1, <2>2, <2>3, <2>4
<1>10. CASE Report
  <2>1. Types' /\ RunInv' /\ BatchInv'
    BY <1>10 DEF Report, Judgement, Types, Points, RunInv, BatchInv, Batch, Served
  <2>2. CountInv' /\ LoadInv'
    BY <1>10, CountKept DEF Report
  <2>3. AfterInv' /\ GroupInv' /\ VerdictInv'
    BY <1>10 DEF Report, Judgement, Types, AfterInv, GroupInv, VerdictInv, Batch, Work
  <2> QED
    BY <2>1, <2>2, <2>3
<1> QED
  BY <1>1, <1>2, <1>3, <1>4, <1>5, <1>6, <1>7, <1>8, <1>9, <1>10 DEF Main

\* The invariant holds in every reachable state.
THEOREM Invariance == Spec => []IInv
<1>1. IInv /\ [Next]_vars => IInv'
  <2> SUFFICES ASSUME IInv, [Next]_vars PROVE IInv'
    OBVIOUS
  <2>1. CASE UNCHANGED vars
    BY <2>1 DEF vars, IInv, Types, RunInv, BatchInv, CountInv, Ran, LoadInv, AfterInv, GroupInv,
                VerdictInv, Batch, Served
  <2>2. CASE ~Over /\ Main
    BY <2>2, MainIInv
  <2>3. ASSUME ~Over, NEW i \in Work, Worker(i) PROVE IInv'
    BY <2>3, AddIInv, LeaveIInv, AfterIInv DEF Worker
  <2> QED
    BY <2>1, <2>2, <2>3 DEF Next
<1> QED
  BY <1>1, InitIInv, PTL DEF Spec

\* For a batch of any size, a pass of dispatch_global_queue_service.c or
\* dispatch_primitives.c means that every item was run.
THEOREM PassServiced == Spec => []PassIsServiced
<1>1. IInv => PassIsServiced
  BY DEF IInv, Types, LoadInv, AfterInv, VerdictInv, PassIsServiced, Batch
<1> QED
  BY <1>1, Invariance, PTL

\* Neither group wait nor semaphore lets main leave a context that an item still
\* reads, whatever the library does but return early.
THEOREM ContextLives == Spec => []ContextOutlivesWork
<1>1. IInv => ContextOutlivesWork
  BY DEF IInv, Types, AfterInv, GroupInv, ContextOutlivesWork
<1> QED
  BY <1>1, Invariance, PTL

-----------------------------------------------------------------------------
(* The MACH_RECV source probe.                                             *)

\* A firing signals at most once, so the count never passes the firings.
RecvSemInv == IF hp = "idle" THEN signals <= fires ELSE signals + 1 <= fires

\* There is one message, and none before Send.
RecvMessageInv ==
  /\ msgs = 1 => taken = 0
  /\ mp \in {"alloc", "source", "send"} => msgs = 0 /\ taken = 0

\* Whoever says the message was serviced says so after it was taken.
RecvServiceInv ==
  /\ hp = "publish" => taken = 1
  /\ ctx.serviced = 1 => taken = 1
  /\ kr.serviced = 1 => ctx.serviced = 1
  /\ taken = 1 => fires > 0

\* A destroyed port stays destroyed.
RecvPortInv == (kr.dest = "ok" => port = "dead") /\ (mp = "alloc" => kr.dest = "err")

\* What a verdict was computed from is still in main's locals.
RecvVerdictInv ==
  /\ result # "none" => mp = "ended"
  /\ result = "pass" => kr.serviced = 1 /\ kr.dest = "ok"

\* Without spurious firings no receive follows the one that succeeded.
RecvTakenInv ==
  dispatch # "spurious" =>
    /\ hp = "recv" => taken = 0
    /\ hp = "publish" => ctx.recv = "ok"
    /\ ctx.serviced = 1 => ctx.recv = "ok"
    /\ kr.serviced = 1 /\ mp \notin {"load_kr", "crashed"} => kr.recv = "ok"

\* The inductive invariant.
RecvIInv ==
  /\ TypeOK /\ RecvSemInv /\ RecvMessageInv /\ RecvServiceInv /\ RecvPortInv
  /\ RecvVerdictInv /\ RecvTakenInv

\* The initial states satisfy the invariant.
LEMMA RecvInitIInv == RecvInit => RecvIInv
BY DispatchAssumption DEF RecvInit, RecvIInv, TypeOK, RecvSemInv, RecvMessageInv,
    RecvServiceInv, RecvPortInv, RecvVerdictInv, RecvTakenInv, KR, Sources, Verdicts

\* Every step of main preserves it.
LEMMA RecvMainIInv == RecvIInv /\ ~RecvOver /\ RecvMain => RecvIInv'
<1> SUFFICES ASSUME RecvIInv, ~RecvOver, RecvMain PROVE RecvIInv'
  OBVIOUS
<1> USE DispatchAssumption DEF RecvIInv, TypeOK, RecvSemInv, RecvMessageInv,
       RecvServiceInv, RecvPortInv, RecvVerdictInv, RecvTakenInv, KR, Sources, Verdicts,
      Outcomes, RecvOver, shared, kernel, handlerVars
<1>1. CASE Allocate
  BY <1>1 DEF Allocate
<1>2. CASE CreateSource
  BY <1>2 DEF CreateSource
<1>3. CASE Send
  BY <1>3 DEF Send
<1>4. CASE Wait
  BY <1>4 DEF Wait
<1>5. CASE LoadServiced
  BY <1>5 DEF LoadServiced
<1>6. CASE LoadRecv
  BY <1>6 DEF LoadRecv
<1>7. CASE ReleaseSource
  BY <1>7 DEF ReleaseSource
<1>8. CASE ReleaseSem
  BY <1>8 DEF ReleaseSem
<1>9. CASE Destroy
  BY <1>9 DEF Destroy
<1>10. CASE RecvFreeAfter
  BY <1>10 DEF RecvFreeAfter
<1>11. CASE RecvReport
  BY <1>11 DEF RecvReport, RecvJudgement
<1> QED
  BY <1>1, <1>2, <1>3, <1>4, <1>5, <1>6, <1>7, <1>8, <1>9, <1>10, <1>11 DEF RecvMain

\* Every step of libdispatch and of the handler preserves it.
LEMMA RecvHandlerIInv == RecvIInv /\ ~RecvOver /\ (RecvFire \/ Handler) => RecvIInv'
<1> SUFFICES ASSUME RecvIInv, ~RecvOver, RecvFire \/ Handler PROVE RecvIInv'
  OBVIOUS
<1> USE DispatchAssumption DEF RecvIInv, TypeOK, RecvSemInv, RecvMessageInv,
       RecvServiceInv, RecvPortInv, RecvVerdictInv, RecvTakenInv, KR, Sources, Verdicts,
      Outcomes, RecvOver, shared, kernel, handlerVars
<1>1. CASE RecvFire
  BY <1>1 DEF RecvFire
<1>2. CASE Receive
  BY <1>2 DEF Receive
<1>3. CASE Publish
  BY <1>3 DEF Publish
<1>4. CASE RecvSignal
  BY <1>4 DEF RecvSignal
<1> QED
  BY <1>1, <1>2, <1>3, <1>4 DEF Handler

\* The invariant holds in every reachable state.
THEOREM RecvInvariance == RecvSpec => []RecvIInv
<1>1. RecvIInv /\ [RecvNext]_recvVars => RecvIInv'
  <2> SUFFICES ASSUME RecvIInv, [RecvNext]_recvVars PROVE RecvIInv'
    OBVIOUS
  <2>1. CASE UNCHANGED recvVars
    BY <2>1 DEF recvVars, RecvIInv, TypeOK, RecvSemInv, RecvMessageInv,
       RecvServiceInv, RecvPortInv, RecvVerdictInv, RecvTakenInv
  <2>2. CASE ~RecvOver /\ (RecvMain \/ RecvFire \/ Handler)
    BY <2>2, RecvMainIInv, RecvHandlerIInv
  <2> QED
    BY <2>1, <2>2 DEF RecvNext
<1> QED
  BY <1>1, RecvInitIInv, PTL DEF RecvSpec

\* The types hold whatever MaxFires is; the count of the semaphore needs RecvSemInv.
THEOREM RecvTypeCorrect == RecvSpec => []TypeOK
BY RecvInvariance, PTL DEF RecvIInv

\* A pass is worth what dispatch_mach_recv_source.c:170-182 takes it for.
THEOREM RecvPassSound == RecvSpec => []PassIsSound
<1>1. RecvIInv => PassIsSound
  BY DEF RecvIInv, TypeOK, RecvServiceInv, RecvPortInv, RecvVerdictInv, PassIsSound
<1> QED
  BY <1>1, RecvInvariance, PTL

\* The unlocked reads of lines 139-140 agree on a source that does not fire spuriously.
THEOREM RecvServicedReceived == RecvSpec => []ServicedWasReceived
<1>1. RecvIInv => ServicedWasReceived
  BY DEF RecvIInv, RecvVerdictInv, RecvTakenInv, ServicedWasReceived
<1> QED
  BY <1>1, RecvInvariance, PTL
=============================================================================
