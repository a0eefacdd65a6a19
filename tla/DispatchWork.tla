----------------------------- MODULE DispatchWork -----------------------------
(***************************************************************************)
(* The dispatch probes that submit work and wait for it:                   *)
(* dispatch_global_queue_service.c submits a batch to a global queue in a  *)
(* group, and dispatch_primitives.c tries a group, a semaphore and a       *)
(* delayed item on a serial queue.  Work runs on threads of libdispatch    *)
(* and reaches main's variables through contexts on main's stack.          *)
(***************************************************************************)
EXTENDS Integers, FiniteSets

CONSTANT Items   \* the batch: DGQS_N work items of the global queue

ASSUME ItemsAssumption == IsFiniteSet(Items) /\ Cardinality(Items) >= 2 /\ "after" \notin Items

VARIABLES probe,    \* "global" or "primitives"
          lib,      \* how libdispatch deviates
          made,     \* the objects that libdispatch could create
          pc,       \* main
          todo,     \* items main has yet to submit
          at,       \* where each item is
          runs,     \* how often each has been run
          group,    \* the group's count
          scope,    \* whether the contexts on main's stack are alive
          count,    \* counter, or gcount
          fired,    \* afired
          sem,      \* the count of asem
          loc,      \* what main has read and concluded
          verdict

vars == <<probe, lib, made, pc, todo, at, runs, group, scope, count, fired, sem, loc, verdict>>

-----------------------------------------------------------------------------
(* libdispatch, the system under test.                                     *)

Libs == {"conformant",
         "drops",      \* one item of a group is never run
         "swaps",      \* one item is run in the place of another
         "early",      \* dispatch_group_wait returns before the group is empty
         "sem_early",  \* a wait on a semaphore nobody has signalled succeeds
         "sem_stuck",  \* a wait on a signalled semaphore times out
         "no_after"}   \* a delayed item is never run

Objects == {"q", "g", "sem", "asem"}
Work == Items \cup {"after"}
One == CHOOSE i \in Items : TRUE
Another == CHOOSE i \in Items \ {One} : TRUE
Batch == IF probe = "global" THEN Items ELSE {One}

\* How often an item is run in the end.
Served(i) ==
  CASE i = "after"                       -> IF lib = "no_after" THEN 0 ELSE 1
    [] lib = "drops" /\ i = One          -> 0
    [] lib = "swaps" /\ probe = "global" -> IF i = One THEN 2 ELSE IF i = Another THEN 0 ELSE 1
    [] OTHER                             -> 1

-----------------------------------------------------------------------------
(* Work items.                                                             *)

main == <<todo, scope, loc, verdict>>
world == <<probe, lib, made>>

\* What an item does with a context that is gone is undefined.
Through(context) == pc' \in IF context \in scope THEN {pc} ELSE {pc, "crashed"}

\* The fetch-and-add of dgqs_work or dp_group_work.
Add(i) ==
  /\ i \in Items /\ at[i] = "queued" /\ runs[i] < Served(i)
  /\ at' = [at EXCEPT ![i] = "added"]
  /\ runs' = [runs EXCEPT ![i] = runs[i] + 1]
  /\ count' = count + 1
  /\ Through("group")
  /\ UNCHANGED <<world, main, group, fired, sem>>

\* Mutant of Leave: dispatch_group_leave is forgotten.
LeaveNot(i) ==
  /\ i \in Items /\ at[i] = "added"
  /\ at' = [at EXCEPT ![i] = "done"]
  /\ Through("group")
  /\ UNCHANGED <<world, main, runs, group, count, fired, sem>>

\* dispatch_group_leave, by dp_group_work itself or by dispatch_group_async_f for
\* dgqs_work.
Leave(i) ==
  /\ i \in Items /\ at[i] = "added"
  /\ at' = [at EXCEPT ![i] = IF runs[i] < Served(i) THEN "queued" ELSE "done"]
  /\ group' = group - 1
  /\ Through("group")
  /\ UNCHANGED <<world, main, runs, count, fired, sem>>

\* dp_after_work, after the items ahead of it on the serial queue.
Fire ==
  /\ at["after"] = "queued" /\ runs["after"] < Served("after")
  /\ \A i \in Items : at[i] \in {"none", "done"}
  /\ at' = [at EXCEPT !["after"] = "added"]
  /\ runs' = [runs EXCEPT !["after"] = 1]
  /\ fired' = 1
  /\ Through("after")
  /\ UNCHANGED <<world, main, group, count, sem>>

Signal ==
  /\ at["after"] = "added"
  /\ at' = [at EXCEPT !["after"] = "done"]
  /\ sem' = sem + 1
  /\ Through("after")
  /\ UNCHANGED <<world, main, runs, group, count, fired>>

Worker(i) == Add(i) \/ Leave(i) \/ (i = "after" /\ (Fire \/ Signal))

-----------------------------------------------------------------------------
(* main.                                                                   *)

workers == <<at, runs, group, count, fired, sem>>

\* A NULL group is passed on to libdispatch by the global queue probe (the global queue
\* itself is always there), and a NULL queue by the other one, which checks only the
\* group.
Start ==
  /\ pc = "start"
  /\ pc' = CASE probe = "global" /\ "g" \notin made -> "crashed"
             [] probe = "global"                    -> "submit"
             [] "g" \notin made                     -> "sems"
             [] "q" \notin made                     -> "crashed"
             [] OTHER                               -> "submit"
  /\ UNCHANGED <<world, todo, scope, loc, verdict, workers>>

\* One dispatch_group_async_f, or dispatch_group_enter and dispatch_async_f.
Submit ==
  /\ pc = "submit"
  /\ \E i \in todo :
       /\ todo' = todo \ {i}
       /\ at' = [at EXCEPT ![i] = "queued"]
       /\ pc' = IF todo = {i} THEN "wait" ELSE "submit"
  /\ group' = group + 1
  /\ scope' = scope \cup {"group"}
  /\ UNCHANGED <<world, loc, verdict, runs, count, fired, sem>>

\* Mutant of GroupWait: the wait is bounded and its result not looked at.
GroupWaitBounded ==
  /\ pc = "wait"
  /\ pc' = "load"
  /\ loc' = [loc EXCEPT !.wait = 0]
  /\ UNCHANGED <<world, todo, scope, verdict, workers>>

\* dispatch_group_wait, DISPATCH_TIME_FOREVER.
GroupWait ==
  /\ pc = "wait"
  /\ group = 0 \/ lib = "early"
  /\ pc' = "load"
  /\ loc' = [loc EXCEPT !.wait = 0]
  /\ UNCHANGED <<world, todo, scope, verdict, workers>>

\* The counter is read and the group released; in dispatch_primitives.c the context
\* goes out of scope with the block.
Load ==
  /\ pc = "load"
  /\ loc' = [loc EXCEPT !.count = count]
  /\ IF probe = "global"
     THEN pc' = "free" /\ UNCHANGED scope
     ELSE pc' = "sems" /\ scope' = scope \ {"group"}
  /\ UNCHANGED <<world, todo, verdict, workers>>

\* A wait that must time out, a signal, and a wait that must succeed.
Semaphores ==
  /\ pc = "sems"
  /\ loc' = IF "sem" \in made
            THEN [loc EXCEPT !.timedOut = lib # "sem_early", !.passed = lib # "sem_stuck"]
            ELSE loc
  /\ pc' = IF {"asem", "q"} \subseteq made THEN "after" ELSE "free"
  /\ UNCHANGED <<world, todo, scope, verdict, workers>>

\* dispatch_after_f
After ==
  /\ pc = "after"
  /\ at' = [at EXCEPT !["after"] = "queued"]
  /\ scope' = scope \cup {"after"}
  /\ pc' = "await"
  /\ UNCHANGED <<world, todo, loc, verdict, runs, group, count, fired, sem>>

\* dispatch_semaphore_wait: signalled, or two seconds have passed.
Await ==
  /\ pc = "await"
  /\ \/ sem > 0 /\ sem' = sem - 1 /\ loc' = [loc EXCEPT !.await = 0]
     \/ sem = 0 /\ UNCHANGED <<sem, loc>>
  /\ pc' = "fired"
  /\ UNCHANGED <<world, todo, scope, verdict, at, runs, group, count, fired>>

\* afired is read, the semaphore released and the context's block left.
LoadFired ==
  /\ pc = "fired"
  /\ loc' = [loc EXCEPT !.fired = (loc.await = 0 /\ fired = 1)]
  /\ scope' = scope \ {"after"}
  /\ pc' = "free"
  /\ UNCHANGED <<world, todo, verdict, workers>>

\* nx_baseline_free of a struct that nothing has been written to.
FreeAfter ==
  /\ pc = "free"
  /\ pc' \in {"judge", "crashed"}
  /\ UNCHANGED <<world, todo, scope, loc, verdict, workers>>

\* Mutant of Judgement: what the wait returned is judged, the counter is not.
JudgementByWait ==
  IF /\ loc.wait = 0
     /\ probe = "primitives" => loc.timedOut /\ loc.passed /\ loc.fired
  THEN "pass" ELSE "fail"

\* The chains of both probes; everything else is FAIL / exact_contract.
Judgement ==
  IF /\ loc.wait = 0 /\ loc.count = Cardinality(Batch)
     /\ probe = "primitives" => loc.timedOut /\ loc.passed /\ loc.fired
  THEN "pass" ELSE "fail"

Report ==
  /\ pc = "judge"
  /\ verdict' = Judgement
  /\ pc' = "done"
  /\ UNCHANGED <<world, todo, scope, loc, workers>>

Main == \/ Start \/ Submit \/ GroupWait \/ Load \/ Semaphores \/ After \/ Await
        \/ LoadFired \/ FreeAfter \/ Report

-----------------------------------------------------------------------------
Init ==
  /\ probe \in {"global", "primitives"} /\ lib \in Libs /\ made \in SUBSET Objects
  /\ pc = "start" /\ todo = Batch
  /\ at = [i \in Work |-> "none"] /\ runs = [i \in Work |-> 0]
  /\ group = 0 /\ scope = {} /\ count = 0 /\ fired = 0 /\ sem = 0
  /\ loc = [wait |-> -1, count |-> -1, timedOut |-> FALSE, passed |-> FALSE,
            await |-> -1, fired |-> FALSE]
  /\ verdict = "none"

Over == pc \in {"done", "crashed"}

\* The end of the process ends its threads.
Next == \/ ~Over /\ (Main \/ \E i \in Work : Worker(i))
        \/ Over /\ UNCHANGED vars

\* libdispatch has threads for the items it runs at all, and main is scheduled.
Spec == /\ Init /\ [][Next]_vars
        /\ WF_vars(~Over /\ Main) /\ \A i \in Work : WF_vars(~Over /\ Worker(i))

-----------------------------------------------------------------------------
(* Properties.                                                             *)

\* A pass means that every item of the batch, and the delayed one, was run: a wait
\* that returns too early is betrayed by the counter.  The items are alike and only
\* counted, so an item run in another's place is not noticed.
PassIsServiced ==
  verdict = "pass" /\ lib # "swaps" =>
    \A i \in Batch \cup (IF probe = "primitives" THEN {"after"} ELSE {}) : runs[i] = 1

\* What an item will still read lies on main's stack and is alive: the group wait
\* covers dp_group_work, and the semaphore covers dp_after_work unless its two
\* seconds have run out or libdispatch returns early.
ContextOutlivesWork ==
  /\ probe = "primitives" /\ at[One] \in {"queued", "added"} /\ lib # "early"
       => "group" \in scope
  /\ at["after"] \in {"queued", "added"} /\ loc.await = 0 => "after" \in scope

\* Where libdispatch runs what it is given, the unbounded group wait comes to an end
\* and with it the probe.
EveryWaitEnds == (lib # "drops") ~> Over
===============================================================================
