---------------------------- MODULE LifecycleProofs ----------------------------
(***************************************************************************)
(* Theorems about Lifecycle, for every number of failing calls and of      *)
(* crashes, with and without automatic restart, and however slow launchd   *)
(* and the daemon are.                                                     *)
(***************************************************************************)
EXTENDS Lifecycle, TLAPS

Seen == seen["observe"] \cup seen["restart"]

\* Generations only grow: nobody has seen, or been answered by, a later one.
GenInv ==
  /\ daemon.st # "none" => daemon.gen > 0
  /\ \A r \in Rungs : \A p \in seen[r] : p <= daemon.gen
  /\ \A t \in Trips : served[t] <= daemon.gen
  /\ pid <= daemon.gen

\* After the kill the process found before it is ending or gone.
KillInv ==
  /\ pc \in {"prepare", "load", "start", "observe", "observe_trip", "find", "kill"} => seen["restart"] = {}
  /\ pc \in {"restart", "manual", "manual_check"} /\ daemon.gen = pid => daemon.st \in {"ending", "none"}

\* From the remove rung's empty pgrep to the next one, whatever runs is new.
GapInv ==
  /\ pc \in {"reload_load", "reload_start", "reload"} =>
       /\ stock \notin {"up", "ending"}
       /\ daemon.st # "none" => \A q \in Seen : daemon.gen > q
  /\ pc \in {"reload_load", "reload_start", "reload", "reload_trip"} /\ daemon.st # "none" =>
       daemon.gen > served["restart"]

\* The driver is at one of the places, or past them with FAIL=0.
Past(places) == pc \in places \/ (pc = "finish" /\ fail = 0) \/ verdict = 0

AfterObserve == {"find", "kill", "restart", "manual", "manual_check", "restart_trip", "remove",
                 "remove_check", "reload_load", "reload_start", "reload", "reload_trip"}
AfterRestart == {"remove", "remove_check", "reload_load", "reload_start", "reload", "reload_trip"}

\* What the rungs climbed so far have shown.
RungInv ==
  /\ pc # "done" => verdict = Unknown
  /\ Past(AfterObserve) => served["observe"] > 0
  /\ Past(AfterRestart) /\ driver = "op124" => served["restart"] > 0
  /\ Past({"reload_trip"}) => seen["reload"] # {} /\ \A p \in seen["reload"], q \in Seen : p > q
  /\ Past({}) /\ driver = "op124" => served["reload"] > served["restart"]
  /\ verdict = 0 /\ driver = "op124" => ~core

\* All is prompt, nothing has failed or crashed, and no other process has the name.
Calm == prompt /\ fails = 0 /\ crashes = 0 /\ stock = "never"

\* What a driver may rely on when all is calm: at a pgrep that wants a process one is
\* there or about to be, and nothing is ending; at a round trip it serves.
CalmInv ==
  Calm =>
    /\ fail = 0 /\ ~core
    /\ pc \in {"prepare", "load", "remove_check", "reload_load"} => ~job
    /\ pc \in {"start", "observe", "observe_trip", "find", "kill", "restart", "manual",
              "manual_check", "restart_trip", "remove", "reload_start", "reload",
              "reload_trip"} => job
    /\ pc \in {"observe_trip", "find", "kill", "restart_trip", "reload_trip"} =>
         daemon.st = "up"
    /\ pc \in {"observe", "manual_check", "reload"} => want \/ daemon.st # "none"
    /\ pc \in {"start", "observe", "manual", "manual_check", "reload_start", "reload"} =>
         daemon.st # "ending"
    /\ pc \in {"prepare", "load", "reload_load"} => daemon.st = "none"
    /\ pc = "remove_check" => daemon.st \in {"none", "ending"}
    /\ pc = "done" => verdict = 0

IInv == TypeOK /\ GenInv /\ KillInv /\ RestartIsNew /\ GapInv /\ RungInv /\ CalmInv

-----------------------------------------------------------------------------
(* Preservation.                                                           *)

\* Every step keeps the types.
LEMMA TypeStep ==
  ASSUME TypeOK, [Next]_vars
  PROVE  TypeOK'
<1>1. CASE Prepare
  BY <1>1, BoundsAssumption
  DEF Prepare, Go, Failing, TypeOK, Rungs, Trips, None, Unknown, launchd, world, script
<1>2. CASE Load
  <2>1. job' \in BOOLEAN /\ want' \in BOOLEAN
    BY <1>2, Zenon
    DEF Load, LaunchctlLoad, Verb, Failing, OnFailure, Go, TypeOK, Rungs, Trips, None,
        Unknown, launchd, world, script
  <2>2. /\ UNCHANGED <<driver, keep, prompt, stock, core, pid, seen, served, crashes, verdict>>
        /\ UNCHANGED daemon /\ pc' \in {"start", "finish"} /\ fail' \in {fail, 1}
        /\ (UNCHANGED fails \/ (fails < MaxFails /\ fails' = fails + 1))
    BY <1>2 DEF Load, LaunchctlLoad, Verb, Failing, OnFailure, Go, launchd, world, script
  <2>3. QED
    BY <2>1, <2>2, BoundsAssumption DEF TypeOK, Rungs, Trips, None, Unknown, Terminated
<1>3. CASE Start
  BY <1>3, BoundsAssumption
  DEF Start, LaunchctlStart, Verb, Failing, OnFailure, Go, TypeOK, Rungs, Trips, None,
      Unknown, launchd, world, script
<1>4. CASE Observe
  BY <1>4, BoundsAssumption
  DEF Observe, Look, OnFailure, Go, Matches, Stock, TypeOK, Rungs, Trips, None, Unknown,
      launchd, world, script
<1>5. CASE ObserveTrip
  BY <1>5, BoundsAssumption
  DEF ObserveTrip, Trip, Failing, OnFailure, Go, TypeOK, Rungs, Trips, None, Unknown,
      launchd, world, script
<1>6. CASE FindPid
  BY <1>6, BoundsAssumption
  DEF FindPid, OnFailure, Go, Matches, Stock, TypeOK, Rungs, Trips, None, Unknown, launchd,
      world, script
<1>7. CASE Kill
  BY <1>7, BoundsAssumption
  DEF Kill, Terminated, Go, TypeOK, Rungs, Trips, None, Unknown, launchd, world, script
<1>8. CASE Restart
  BY <1>8, BoundsAssumption
  DEF Restart, Restarted, Look, Go, Matches, Stock, TypeOK, Rungs, Trips, None, Unknown,
      launchd, world, script
<1>9. CASE ManualStart
  BY <1>9, BoundsAssumption
  DEF ManualStart, LaunchctlStart, Blind, Failing, Go, TypeOK, Rungs, Trips, None, Unknown,
      launchd, world, script
<1>10. CASE ManualCheck
  BY <1>10, BoundsAssumption
  DEF ManualCheck, Restarted, Look, OnFailure, Go, Matches, Stock, TypeOK, Rungs, Trips,
      None, Unknown, launchd, world, script
<1>11. CASE RestartTrip
  BY <1>11, BoundsAssumption
  DEF RestartTrip, Trip, Failing, OnFailure, Go, TypeOK, Rungs, Trips, None, Unknown,
      launchd, world, script
<1>12. CASE Remove
  <2>1. job' \in BOOLEAN /\ want' \in BOOLEAN
    BY <1>12, Zenon
    DEF Remove, LaunchctlRemove, Terminated, Blind, Failing, Go, TypeOK, Rungs, Trips, None,
        Unknown, launchd, world, script
  <2>2. /\ UNCHANGED <<driver, keep, prompt, stock, core, pid, seen, served, crashes, verdict>>
        /\ daemon' \in {daemon, Terminated(daemon)} /\ pc' = "remove_check" /\ UNCHANGED fail
        /\ (UNCHANGED fails \/ (fails < MaxFails /\ fails' = fails + 1))
    BY <1>12 DEF Remove, LaunchctlRemove, Terminated, Blind, Failing, Go, launchd, world, script
  <2>3. QED
    BY <2>1, <2>2, BoundsAssumption DEF TypeOK, Rungs, Trips, None, Unknown, Terminated
<1>13. CASE RemoveCheck
  BY <1>13, BoundsAssumption
  DEF RemoveCheck, Look, OnFailure, Go, Matches, Stock, TypeOK, Rungs, Trips, None, Unknown,
      launchd, world, script
<1>14. CASE ReloadLoad
  <2>1. job' \in BOOLEAN /\ want' \in BOOLEAN
    BY <1>14, Zenon
    DEF ReloadLoad, LaunchctlLoad, Blind, Failing, Go, TypeOK, Rungs, Trips, None, Unknown,
        launchd, world, script
  <2>2. /\ UNCHANGED <<driver, keep, prompt, stock, core, pid, seen, served, crashes, verdict>>
        /\ UNCHANGED daemon /\ pc' = "reload_start" /\ UNCHANGED fail
        /\ (UNCHANGED fails \/ (fails < MaxFails /\ fails' = fails + 1))
    BY <1>14 DEF ReloadLoad, LaunchctlLoad, Blind, Failing, Go, launchd, world, script
  <2>3. QED
    BY <2>1, <2>2, BoundsAssumption DEF TypeOK, Rungs, Trips, None, Unknown, Terminated
<1>15. CASE ReloadStart
  BY <1>15, BoundsAssumption
  DEF ReloadStart, LaunchctlStart, Blind, Failing, Go, TypeOK, Rungs, Trips, None, Unknown,
      launchd, world, script
<1>16. CASE Reload
  BY <1>16, BoundsAssumption
  DEF Reload, Look, OnFailure, Go, Matches, Stock, TypeOK, Rungs, Trips, None, Unknown,
      launchd, world, script
<1>17. CASE ReloadTrip
  BY <1>17, BoundsAssumption
  DEF ReloadTrip, Trip, Failing, OnFailure, Go, TypeOK, Rungs, Trips, None, Unknown,
      launchd, world, script
<1>18. CASE Finish
  BY <1>18, BoundsAssumption DEF Finish, TypeOK, Rungs, Trips, None, Unknown, launchd, world, script
<1>19. CASE Spawn
  <2>1. job' \in BOOLEAN /\ want' \in BOOLEAN
    BY <1>19, Zenon DEF Spawn, Due, TypeOK, Rungs, Trips, None, Unknown, launchd, world, script
  <2>2. /\ UNCHANGED <<driver, keep, prompt, stock, core, pid, seen, served, crashes, verdict, pc, fail, fails>>
        /\ daemon' = [gen |-> daemon.gen + 1, st |-> "mute"]
    BY <1>19 DEF Spawn, Due, launchd, world, script
  <2>3. QED
    BY <2>1, <2>2, BoundsAssumption DEF TypeOK, Rungs, Trips, None, Unknown, Terminated
<1>20. CASE Serve
  BY <1>20, BoundsAssumption DEF Serve, TypeOK, Rungs, Trips, None, Unknown, launchd, world, script
<1>21. CASE Exit
  BY <1>21, BoundsAssumption DEF Exit, TypeOK, Rungs, Trips, None, Unknown, launchd, world, script
<1>22. CASE Crash
  BY <1>22, BoundsAssumption DEF Crash, TypeOK, Rungs, Trips, None, Unknown, launchd, world, script
<1>23. CASE (UNCHANGED vars)
  BY <1>23, BoundsAssumption DEF vars, TypeOK, Rungs, Trips, None, Unknown
<1>24. QED
  BY <1>1, <1>2, <1>3, <1>4, <1>5, <1>6, <1>7, <1>8, <1>9, <1>10, <1>11, <1>12, <1>13, <1>14, <1>15, <1>16, <1>17, <1>18, <1>19, <1>20, <1>21, <1>22, <1>23
  DEF Next, Driver, Environment, Ended

\* Every step keeps generations in order.
LEMMA GenStep ==
  ASSUME TypeOK, TypeOK', GenInv, [Next]_vars
  PROVE  GenInv'
<1>1. CASE Prepare
  BY <1>1 DEF Prepare, Go, Failing, TypeOK, GenInv, Rungs, Trips, None, launchd, world, script
<1>2. CASE Load
  BY <1>2
  DEF Load, LaunchctlLoad, Verb, Failing, OnFailure, Go, TypeOK, GenInv, Rungs, Trips, None,
      launchd, world, script
<1>3. CASE Start
  BY <1>3
  DEF Start, LaunchctlStart, Verb, Failing, OnFailure, Go, TypeOK, GenInv, Rungs, Trips,
      None, launchd, world, script
<1>4. CASE Observe
  BY <1>4
  DEF Observe, Look, OnFailure, Go, Matches, Stock, TypeOK, GenInv, Rungs, Trips, None,
      launchd, world, script
<1>5. CASE ObserveTrip
  BY <1>5
  DEF ObserveTrip, Trip, Failing, OnFailure, Go, TypeOK, GenInv, Rungs, Trips, None,
      launchd, world, script
<1>6. CASE FindPid
  BY <1>6
  DEF FindPid, OnFailure, Go, Matches, Stock, TypeOK, GenInv, Rungs, Trips, None, launchd,
      world, script
<1>7. CASE Kill
  BY <1>7 DEF Kill, Terminated, Go, TypeOK, GenInv, Rungs, Trips, None, launchd, world, script
<1>8. CASE Restart
  BY <1>8
  DEF Restart, Restarted, Look, Go, Matches, Stock, TypeOK, GenInv, Rungs, Trips, None,
      launchd, world, script
<1>9. CASE ManualStart
  BY <1>9
  DEF ManualStart, LaunchctlStart, Blind, Failing, Go, TypeOK, GenInv, Rungs, Trips, None,
      launchd, world, script
<1>10. CASE ManualCheck
  BY <1>10
  DEF ManualCheck, Restarted, Look, OnFailure, Go, Matches, Stock, TypeOK, GenInv, Rungs,
      Trips, None, launchd, world, script
<1>11. CASE RestartTrip
  BY <1>11
  DEF RestartTrip, Trip, Failing, OnFailure, Go, TypeOK, GenInv, Rungs, Trips, None,
      launchd, world, script
<1>12. CASE Remove
  BY <1>12
  DEF Remove, LaunchctlRemove, Terminated, Blind, Failing, Go, TypeOK, GenInv, Rungs, Trips,
      None, launchd, world, script
<1>13. CASE RemoveCheck
  BY <1>13
  DEF RemoveCheck, Look, OnFailure, Go, Matches, Stock, TypeOK, GenInv, Rungs, Trips, None,
      launchd, world, script
<1>14. CASE ReloadLoad
  BY <1>14
  DEF ReloadLoad, LaunchctlLoad, Blind, Failing, Go, TypeOK, GenInv, Rungs, Trips, None,
      launchd, world, script
<1>15. CASE ReloadStart
  BY <1>15
  DEF ReloadStart, LaunchctlStart, Blind, Failing, Go, TypeOK, GenInv, Rungs, Trips, None,
      launchd, world, script
<1>16. CASE Reload
  BY <1>16
  DEF Reload, Look, OnFailure, Go, Matches, Stock, TypeOK, GenInv, Rungs, Trips, None,
      launchd, world, script
<1>17. CASE ReloadTrip
  BY <1>17
  DEF ReloadTrip, Trip, Failing, OnFailure, Go, TypeOK, GenInv, Rungs, Trips, None, launchd,
      world, script
<1>18. CASE Finish
  BY <1>18 DEF Finish, TypeOK, GenInv, Rungs, Trips, None, launchd, world, script
<1>19. CASE Spawn
  BY <1>19 DEF Spawn, Due, TypeOK, GenInv, Rungs, Trips, None, launchd, world, script
<1>20. CASE Serve
  BY <1>20 DEF Serve, TypeOK, GenInv, Rungs, Trips, None, launchd, world, script
<1>21. CASE Exit
  BY <1>21 DEF Exit, TypeOK, GenInv, Rungs, Trips, None, launchd, world, script
<1>22. CASE Crash
  BY <1>22 DEF Crash, TypeOK, GenInv, Rungs, Trips, None, launchd, world, script
<1>23. CASE (UNCHANGED vars)
  BY <1>23 DEF vars, TypeOK, GenInv, Rungs, Trips, None
<1>24. QED
  BY <1>1, <1>2, <1>3, <1>4, <1>5, <1>6, <1>7, <1>8, <1>9, <1>10, <1>11, <1>12, <1>13, <1>14, <1>15, <1>16, <1>17, <1>18, <1>19, <1>20, <1>21, <1>22, <1>23
  DEF Next, Driver, Environment, Ended

\* No step revives the process that was killed.
LEMMA KillStep ==
  ASSUME TypeOK, GenInv, KillInv, [Next]_vars
  PROVE  KillInv'
<1>1. CASE Prepare
  BY <1>1 DEF Prepare, Go, Failing, TypeOK, GenInv, KillInv, Rungs, launchd, world, script
<1>2. CASE Load
  BY <1>2
  DEF Load, LaunchctlLoad, Verb, Failing, OnFailure, Go, TypeOK, GenInv, KillInv, Rungs,
      launchd, world, script
<1>3. CASE Start
  BY <1>3
  DEF Start, LaunchctlStart, Verb, Failing, OnFailure, Go, TypeOK, GenInv, KillInv, Rungs,
      launchd, world, script
<1>4. CASE Observe
  BY <1>4
  DEF Observe, Look, OnFailure, Go, Matches, Stock, TypeOK, GenInv, KillInv, Rungs, launchd,
      world, script
<1>5. CASE ObserveTrip
  BY <1>5
  DEF ObserveTrip, Trip, Failing, OnFailure, Go, TypeOK, GenInv, KillInv, Rungs, launchd,
      world, script
<1>6. CASE FindPid
  BY <1>6
  DEF FindPid, OnFailure, Go, Matches, Stock, TypeOK, GenInv, KillInv, Rungs, launchd,
      world, script
<1>7. CASE Kill
  BY <1>7 DEF Kill, Terminated, Go, TypeOK, GenInv, KillInv, Rungs, launchd, world, script
<1>8. CASE Restart
  BY <1>8
  DEF Restart, Restarted, Look, Go, Matches, Stock, TypeOK, GenInv, KillInv, Rungs, launchd,
      world, script
<1>9. CASE ManualStart
  BY <1>9
  DEF ManualStart, LaunchctlStart, Blind, Failing, Go, TypeOK, GenInv, KillInv, Rungs,
      launchd, world, script
<1>10. CASE ManualCheck
  BY <1>10
  DEF ManualCheck, Restarted, Look, OnFailure, Go, Matches, Stock, TypeOK, GenInv, KillInv,
      Rungs, launchd, world, script
<1>11. CASE RestartTrip
  BY <1>11
  DEF RestartTrip, Trip, Failing, OnFailure, Go, TypeOK, GenInv, KillInv, Rungs, launchd,
      world, script
<1>12. CASE Remove
  BY <1>12
  DEF Remove, LaunchctlRemove, Terminated, Blind, Failing, Go, TypeOK, GenInv, KillInv,
      Rungs, launchd, world, script
<1>13. CASE RemoveCheck
  BY <1>13
  DEF RemoveCheck, Look, OnFailure, Go, Matches, Stock, TypeOK, GenInv, KillInv, Rungs,
      launchd, world, script
<1>14. CASE ReloadLoad
  BY <1>14
  DEF ReloadLoad, LaunchctlLoad, Blind, Failing, Go, TypeOK, GenInv, KillInv, Rungs,
      launchd, world, script
<1>15. CASE ReloadStart
  BY <1>15
  DEF ReloadStart, LaunchctlStart, Blind, Failing, Go, TypeOK, GenInv, KillInv, Rungs,
      launchd, world, script
<1>16. CASE Reload
  BY <1>16
  DEF Reload, Look, OnFailure, Go, Matches, Stock, TypeOK, GenInv, KillInv, Rungs, launchd,
      world, script
<1>17. CASE ReloadTrip
  BY <1>17
  DEF ReloadTrip, Trip, Failing, OnFailure, Go, TypeOK, GenInv, KillInv, Rungs, launchd,
      world, script
<1>18. CASE Finish
  BY <1>18 DEF Finish, TypeOK, GenInv, KillInv, Rungs, launchd, world, script
<1>19. CASE Spawn
  BY <1>19 DEF Spawn, Due, TypeOK, GenInv, KillInv, Rungs, launchd, world, script
<1>20. CASE Serve
  BY <1>20 DEF Serve, TypeOK, GenInv, KillInv, Rungs, launchd, world, script
<1>21. CASE Exit
  BY <1>21 DEF Exit, TypeOK, GenInv, KillInv, Rungs, launchd, world, script
<1>22. CASE Crash
  BY <1>22 DEF Crash, TypeOK, GenInv, KillInv, Rungs, launchd, world, script
<1>23. CASE (UNCHANGED vars)
  BY <1>23 DEF vars, TypeOK, GenInv, KillInv, Rungs
<1>24. QED
  BY <1>1, <1>2, <1>3, <1>4, <1>5, <1>6, <1>7, <1>8, <1>9, <1>10, <1>11, <1>12, <1>13, <1>14, <1>15, <1>16, <1>17, <1>18, <1>19, <1>20, <1>21, <1>22, <1>23
  DEF Next, Driver, Environment, Ended

\* A look after a prompt restart sees another process than the one killed.
LEMMA NewStep ==
  ASSUME TypeOK, GenInv, KillInv, RestartIsNew, [Next]_vars
  PROVE  RestartIsNew'
<1>1. CASE Prepare
  BY <1>1
  DEF Prepare, Go, Failing, TypeOK, GenInv, KillInv, RestartIsNew, Rungs, launchd, world,
      script
<1>2. CASE Load
  BY <1>2
  DEF Load, LaunchctlLoad, Verb, Failing, OnFailure, Go, TypeOK, GenInv, KillInv,
      RestartIsNew, Rungs, launchd, world, script
<1>3. CASE Start
  BY <1>3
  DEF Start, LaunchctlStart, Verb, Failing, OnFailure, Go, TypeOK, GenInv, KillInv,
      RestartIsNew, Rungs, launchd, world, script
<1>4. CASE Observe
  BY <1>4
  DEF Observe, Look, OnFailure, Go, Matches, Stock, Slept, TypeOK, GenInv, KillInv,
      RestartIsNew, Rungs, launchd, world, script
<1>5. CASE ObserveTrip
  BY <1>5
  DEF ObserveTrip, Trip, Failing, OnFailure, Go, TypeOK, GenInv, KillInv, RestartIsNew,
      Rungs, launchd, world, script
<1>6. CASE FindPid
  BY <1>6
  DEF FindPid, OnFailure, Go, Matches, Stock, TypeOK, GenInv, KillInv, RestartIsNew, Rungs,
      launchd, world, script
<1>7. CASE Kill
  BY <1>7
  DEF Kill, Terminated, Go, TypeOK, GenInv, KillInv, RestartIsNew, Rungs, launchd, world,
      script
<1>8. CASE Restart
  BY <1>8
  DEF Restart, Restarted, Look, Go, Matches, Stock, Slept, TypeOK, GenInv, KillInv,
      RestartIsNew, Rungs, launchd, world, script
<1>9. CASE ManualStart
  BY <1>9
  DEF ManualStart, LaunchctlStart, Blind, Failing, Go, TypeOK, GenInv, KillInv,
      RestartIsNew, Rungs, launchd, world, script
<1>10. CASE ManualCheck
  BY <1>10
  DEF ManualCheck, Restarted, Look, OnFailure, Go, Matches, Stock, Slept, TypeOK, GenInv,
      KillInv, RestartIsNew, Rungs, launchd, world, script
<1>11. CASE RestartTrip
  BY <1>11
  DEF RestartTrip, Trip, Failing, OnFailure, Go, TypeOK, GenInv, KillInv, RestartIsNew,
      Rungs, launchd, world, script
<1>12. CASE Remove
  BY <1>12
  DEF Remove, LaunchctlRemove, Terminated, Blind, Failing, Go, TypeOK, GenInv, KillInv,
      RestartIsNew, Rungs, launchd, world, script
<1>13. CASE RemoveCheck
  BY <1>13
  DEF RemoveCheck, Look, OnFailure, Go, Matches, Stock, Slept, TypeOK, GenInv, KillInv,
      RestartIsNew, Rungs, launchd, world, script
<1>14. CASE ReloadLoad
  BY <1>14
  DEF ReloadLoad, LaunchctlLoad, Blind, Failing, Go, TypeOK, GenInv, KillInv, RestartIsNew,
      Rungs, launchd, world, script
<1>15. CASE ReloadStart
  BY <1>15
  DEF ReloadStart, LaunchctlStart, Blind, Failing, Go, TypeOK, GenInv, KillInv,
      RestartIsNew, Rungs, launchd, world, script
<1>16. CASE Reload
  BY <1>16
  DEF Reload, Look, OnFailure, Go, Matches, Stock, Slept, TypeOK, GenInv, KillInv,
      RestartIsNew, Rungs, launchd, world, script
<1>17. CASE ReloadTrip
  BY <1>17
  DEF ReloadTrip, Trip, Failing, OnFailure, Go, TypeOK, GenInv, KillInv, RestartIsNew,
      Rungs, launchd, world, script
<1>18. CASE Finish
  BY <1>18 DEF Finish, TypeOK, GenInv, KillInv, RestartIsNew, Rungs, launchd, world, script
<1>19. CASE Spawn
  BY <1>19 DEF Spawn, Due, TypeOK, GenInv, KillInv, RestartIsNew, Rungs, launchd, world, script
<1>20. CASE Serve
  BY <1>20 DEF Serve, TypeOK, GenInv, KillInv, RestartIsNew, Rungs, launchd, world, script
<1>21. CASE Exit
  BY <1>21 DEF Exit, TypeOK, GenInv, KillInv, RestartIsNew, Rungs, launchd, world, script
<1>22. CASE Crash
  BY <1>22 DEF Crash, TypeOK, GenInv, KillInv, RestartIsNew, Rungs, launchd, world, script
<1>23. CASE (UNCHANGED vars)
  BY <1>23 DEF vars, TypeOK, GenInv, KillInv, RestartIsNew, Rungs
<1>24. QED
  BY <1>1, <1>2, <1>3, <1>4, <1>5, <1>6, <1>7, <1>8, <1>9, <1>10, <1>11, <1>12, <1>13, <1>14, <1>15, <1>16, <1>17, <1>18, <1>19, <1>20, <1>21, <1>22, <1>23
  DEF Next, Driver, Environment, Ended

\* Nothing old comes back between remove and reload.
LEMMA GapStep ==
  ASSUME TypeOK, GenInv, GapInv, [Next]_vars
  PROVE  GapInv'
<1>1. CASE Prepare
  BY <1>1
  DEF Prepare, Go, Failing, TypeOK, GenInv, GapInv, Seen, Rungs, Trips, launchd, world,
      script
<1>2. CASE Load
  BY <1>2
  DEF Load, LaunchctlLoad, Verb, Failing, OnFailure, Go, TypeOK, GenInv, GapInv, Seen,
      Rungs, Trips, launchd, world, script
<1>3. CASE Start
  BY <1>3
  DEF Start, LaunchctlStart, Verb, Failing, OnFailure, Go, TypeOK, GenInv, GapInv, Seen,
      Rungs, Trips, launchd, world, script
<1>4. CASE Observe
  BY <1>4
  DEF Observe, Look, OnFailure, Go, Matches, Stock, TypeOK, GenInv, GapInv, Seen, Rungs,
      Trips, launchd, world, script
<1>5. CASE ObserveTrip
  BY <1>5
  DEF ObserveTrip, Trip, Failing, OnFailure, Go, TypeOK, GenInv, GapInv, Seen, Rungs, Trips,
      launchd, world, script
<1>6. CASE FindPid
  BY <1>6
  DEF FindPid, OnFailure, Go, Matches, Stock, TypeOK, GenInv, GapInv, Seen, Rungs, Trips,
      launchd, world, script
<1>7. CASE Kill
  BY <1>7
  DEF Kill, Terminated, Go, TypeOK, GenInv, GapInv, Seen, Rungs, Trips, launchd, world,
      script
<1>8. CASE Restart
  BY <1>8
  DEF Restart, Restarted, Look, Go, Matches, Stock, TypeOK, GenInv, GapInv, Seen, Rungs,
      Trips, launchd, world, script
<1>9. CASE ManualStart
  BY <1>9
  DEF ManualStart, LaunchctlStart, Blind, Failing, Go, TypeOK, GenInv, GapInv, Seen, Rungs,
      Trips, launchd, world, script
<1>10. CASE ManualCheck
  BY <1>10
  DEF ManualCheck, Restarted, Look, OnFailure, Go, Matches, Stock, TypeOK, GenInv, GapInv,
      Seen, Rungs, Trips, launchd, world, script
<1>11. CASE RestartTrip
  BY <1>11
  DEF RestartTrip, Trip, Failing, OnFailure, Go, TypeOK, GenInv, GapInv, Seen, Rungs, Trips,
      launchd, world, script
<1>12. CASE Remove
  BY <1>12
  DEF Remove, LaunchctlRemove, Terminated, Blind, Failing, Go, TypeOK, GenInv, GapInv, Seen,
      Rungs, Trips, launchd, world, script
<1>13. CASE RemoveCheck
  BY <1>13
  DEF RemoveCheck, Look, OnFailure, Go, Matches, Stock, TypeOK, GenInv, GapInv, Seen, Rungs,
      Trips, launchd, world, script
<1>14. CASE ReloadLoad
  BY <1>14
  DEF ReloadLoad, LaunchctlLoad, Blind, Failing, Go, TypeOK, GenInv, GapInv, Seen, Rungs,
      Trips, launchd, world, script
<1>15. CASE ReloadStart
  BY <1>15
  DEF ReloadStart, LaunchctlStart, Blind, Failing, Go, TypeOK, GenInv, GapInv, Seen, Rungs,
      Trips, launchd, world, script
<1>16. CASE Reload
  BY <1>16
  DEF Reload, Look, OnFailure, Go, Matches, Stock, TypeOK, GenInv, GapInv, Seen, Rungs,
      Trips, launchd, world, script
<1>17. CASE ReloadTrip
  BY <1>17
  DEF ReloadTrip, Trip, Failing, OnFailure, Go, TypeOK, GenInv, GapInv, Seen, Rungs, Trips,
      launchd, world, script
<1>18. CASE Finish
  BY <1>18 DEF Finish, TypeOK, GenInv, GapInv, Seen, Rungs, Trips, launchd, world, script
<1>19. CASE Spawn
  BY <1>19 DEF Spawn, Due, TypeOK, GenInv, GapInv, Seen, Rungs, Trips, launchd, world, script
<1>20. CASE Serve
  BY <1>20 DEF Serve, TypeOK, GenInv, GapInv, Seen, Rungs, Trips, launchd, world, script
<1>21. CASE Exit
  BY <1>21 DEF Exit, TypeOK, GenInv, GapInv, Seen, Rungs, Trips, launchd, world, script
<1>22. CASE Crash
  BY <1>22 DEF Crash, TypeOK, GenInv, GapInv, Seen, Rungs, Trips, launchd, world, script
<1>23. CASE (UNCHANGED vars)
  BY <1>23 DEF vars, TypeOK, GenInv, GapInv, Seen, Rungs, Trips
<1>24. QED
  BY <1>1, <1>2, <1>3, <1>4, <1>5, <1>6, <1>7, <1>8, <1>9, <1>10, <1>11, <1>12, <1>13, <1>14, <1>15, <1>16, <1>17, <1>18, <1>19, <1>20, <1>21, <1>22, <1>23
  DEF Next, Driver, Environment, Ended

\* Every rung leaves behind what it has shown.
LEMMA RungStep ==
  ASSUME TypeOK, TypeOK', GenInv, GapInv, RungInv, [Next]_vars
  PROVE  RungInv'
<1>1. CASE Prepare
  BY <1>1
  DEF Prepare, Go, Failing, TypeOK, GenInv, GapInv, RungInv, Past, AfterObserve,
      AfterRestart, Seen, Rungs, Trips, Unknown, launchd, world, script
<1>2. CASE Load
  BY <1>2
  DEF Load, LaunchctlLoad, Verb, Failing, OnFailure, Go, TypeOK, GenInv, GapInv, RungInv,
      Past, AfterObserve, AfterRestart, Seen, Rungs, Trips, Unknown, launchd, world, script
<1>3. CASE Start
  BY <1>3
  DEF Start, LaunchctlStart, Verb, Failing, OnFailure, Go, TypeOK, GenInv, GapInv, RungInv,
      Past, AfterObserve, AfterRestart, Seen, Rungs, Trips, Unknown, launchd, world, script
<1>4. CASE Observe
  BY <1>4
  DEF Observe, Look, OnFailure, Go, Matches, Stock, TypeOK, GenInv, GapInv, RungInv, Past,
      AfterObserve, AfterRestart, Seen, Rungs, Trips, Unknown, launchd, world, script
<1>5. CASE ObserveTrip
  BY <1>5
  DEF ObserveTrip, Trip, Failing, OnFailure, Go, TypeOK, GenInv, GapInv, RungInv, Past,
      AfterObserve, AfterRestart, Seen, Rungs, Trips, Unknown, launchd, world, script
<1>6. CASE FindPid
  BY <1>6
  DEF FindPid, OnFailure, Go, Matches, Stock, TypeOK, GenInv, GapInv, RungInv, Past,
      AfterObserve, AfterRestart, Seen, Rungs, Trips, Unknown, launchd, world, script
<1>7. CASE Kill
  BY <1>7
  DEF Kill, Terminated, Go, TypeOK, GenInv, GapInv, RungInv, Past, AfterObserve,
      AfterRestart, Seen, Rungs, Trips, Unknown, launchd, world, script
<1>8. CASE Restart
  BY <1>8
  DEF Restart, Restarted, Look, Go, Matches, Stock, TypeOK, GenInv, GapInv, RungInv, Past,
      AfterObserve, AfterRestart, Seen, Rungs, Trips, Unknown, launchd, world, script
<1>9. CASE ManualStart
  BY <1>9
  DEF ManualStart, LaunchctlStart, Blind, Failing, Go, TypeOK, GenInv, GapInv, RungInv,
      Past, AfterObserve, AfterRestart, Seen, Rungs, Trips, Unknown, launchd, world, script
<1>10. CASE ManualCheck
  BY <1>10
  DEF ManualCheck, Restarted, Look, OnFailure, Go, Matches, Stock, TypeOK, GenInv, GapInv,
      RungInv, Past, AfterObserve, AfterRestart, Seen, Rungs, Trips, Unknown, launchd,
      world, script
<1>11. CASE RestartTrip
  BY <1>11
  DEF RestartTrip, Trip, Failing, OnFailure, Go, TypeOK, GenInv, GapInv, RungInv, Past,
      AfterObserve, AfterRestart, Seen, Rungs, Trips, Unknown, launchd, world, script
<1>12. CASE Remove
  BY <1>12
  DEF Remove, LaunchctlRemove, Terminated, Blind, Failing, Go, TypeOK, GenInv, GapInv,
      RungInv, Past, AfterObserve, AfterRestart, Seen, Rungs, Trips, Unknown, launchd,
      world, script
<1>13. CASE RemoveCheck
  BY <1>13
  DEF RemoveCheck, Look, OnFailure, Go, Matches, Stock, TypeOK, GenInv, GapInv, RungInv,
      Past, AfterObserve, AfterRestart, Seen, Rungs, Trips, Unknown, launchd, world, script
<1>14. CASE ReloadLoad
  BY <1>14
  DEF ReloadLoad, LaunchctlLoad, Blind, Failing, Go, TypeOK, GenInv, GapInv, RungInv, Past,
      AfterObserve, AfterRestart, Seen, Rungs, Trips, Unknown, launchd, world, script
<1>15. CASE ReloadStart
  BY <1>15
  DEF ReloadStart, LaunchctlStart, Blind, Failing, Go, TypeOK, GenInv, GapInv, RungInv,
      Past, AfterObserve, AfterRestart, Seen, Rungs, Trips, Unknown, launchd, world, script
<1>16. CASE Reload
  BY <1>16
  DEF Reload, Look, OnFailure, Go, Matches, Stock, TypeOK, GenInv, GapInv, RungInv, Past,
      AfterObserve, AfterRestart, Seen, Rungs, Trips, Unknown, launchd, world, script
<1>17. CASE ReloadTrip
  BY <1>17
  DEF ReloadTrip, Trip, Failing, OnFailure, Go, TypeOK, GenInv, GapInv, RungInv, Past,
      AfterObserve, AfterRestart, Seen, Rungs, Trips, Unknown, launchd, world, script
<1>18. CASE Finish
  BY <1>18
  DEF Finish, TypeOK, GenInv, GapInv, RungInv, Past, AfterObserve, AfterRestart, Seen,
      Rungs, Trips, Unknown, launchd, world, script
<1>19. CASE Spawn
  BY <1>19
  DEF Spawn, Due, TypeOK, GenInv, GapInv, RungInv, Past, AfterObserve, AfterRestart, Seen,
      Rungs, Trips, Unknown, launchd, world, script
<1>20. CASE Serve
  BY <1>20
  DEF Serve, TypeOK, GenInv, GapInv, RungInv, Past, AfterObserve, AfterRestart, Seen, Rungs,
      Trips, Unknown, launchd, world, script
<1>21. CASE Exit
  BY <1>21
  DEF Exit, TypeOK, GenInv, GapInv, RungInv, Past, AfterObserve, AfterRestart, Seen, Rungs,
      Trips, Unknown, launchd, world, script
<1>22. CASE Crash
  BY <1>22
  DEF Crash, TypeOK, GenInv, GapInv, RungInv, Past, AfterObserve, AfterRestart, Seen, Rungs,
      Trips, Unknown, launchd, world, script
<1>23. CASE (UNCHANGED vars)
  BY <1>23
  DEF vars, TypeOK, GenInv, GapInv, RungInv, Past, AfterObserve, AfterRestart, Seen, Rungs,
      Trips, Unknown
<1>24. QED
  BY <1>1, <1>2, <1>3, <1>4, <1>5, <1>6, <1>7, <1>8, <1>9, <1>10, <1>11, <1>12, <1>13, <1>14, <1>15, <1>16, <1>17, <1>18, <1>19, <1>20, <1>21, <1>22, <1>23
  DEF Next, Driver, Environment, Ended

\* When all is calm no driver goes astray.
LEMMA CalmStep ==
  ASSUME TypeOK, TypeOK', CalmInv, [Next]_vars
  PROVE  CalmInv'
<1> USE DEF TypeOK, Calm, CalmInv, launchd, world, script
<1>1. CASE Prepare
  BY <1>1 DEF Prepare, Go, Failing
<1>2. CASE Load
  BY <1>2 DEF Load, LaunchctlLoad, Verb, Failing, OnFailure, Go
<1>3. CASE Start
  BY <1>3 DEF Start, LaunchctlStart, Verb, Failing, OnFailure, Go
<1>4. CASE Observe
  BY <1>4 DEF Observe, Look, OnFailure, Go, Matches, Stock, Slept, Due
<1>5. CASE ObserveTrip
  BY <1>5 DEF ObserveTrip, Trip, Failing, OnFailure, Go
<1>6. CASE FindPid
  BY <1>6 DEF FindPid, OnFailure, Go, Matches, Stock
<1>7. CASE Kill
  BY <1>7 DEF Kill, Terminated, Go
<1>8. CASE Restart
  BY <1>8 DEF Restart, Restarted, Look, Go, Matches, Stock, Slept, Due
<1>9. CASE ManualStart
  BY <1>9 DEF ManualStart, LaunchctlStart, Blind, Failing, Go
<1>10. CASE ManualCheck
  BY <1>10 DEF ManualCheck, Restarted, Look, OnFailure, Go, Matches, Stock, Slept, Due
<1>11. CASE RestartTrip
  BY <1>11 DEF RestartTrip, Trip, Failing, OnFailure, Go
<1>12. CASE Remove
  BY <1>12 DEF Remove, LaunchctlRemove, Terminated, Blind, Failing, Go
<1>13. CASE RemoveCheck
  BY <1>13 DEF RemoveCheck, Look, OnFailure, Go, Matches, Stock, Slept, Due
<1>14. CASE ReloadLoad
  BY <1>14 DEF ReloadLoad, LaunchctlLoad, Blind, Failing, Go
<1>15. CASE ReloadStart
  BY <1>15 DEF ReloadStart, LaunchctlStart, Blind, Failing, Go
<1>16. CASE Reload
  BY <1>16 DEF Reload, Look, OnFailure, Go, Matches, Stock, Slept, Due
<1>17. CASE ReloadTrip
  BY <1>17 DEF ReloadTrip, Trip, Failing, OnFailure, Go
<1>18. CASE Finish
  BY <1>18 DEF Finish
<1>19. CASE Spawn
  BY <1>19 DEF Spawn, Due
<1>20. CASE Serve
  BY <1>20 DEF Serve
<1>21. CASE Exit
  BY <1>21 DEF Exit
<1>22. CASE Crash
  BY <1>22 DEF Crash
<1>23. CASE UNCHANGED vars
  BY <1>23 DEF vars
<1> QED
  BY <1>1, <1>2, <1>3, <1>4, <1>5, <1>6, <1>7, <1>8, <1>9, <1>10, <1>11, <1>12, <1>13,
     <1>14, <1>15, <1>16, <1>17, <1>18, <1>19, <1>20, <1>21, <1>22, <1>23
  DEF Next, Driver, Environment, Ended

-----------------------------------------------------------------------------
(* Theorems.                                                               *)

\* The strengthening is an invariant of every driver.
THEOREM Invariance == Spec => []IInv
<1>1. Init => IInv
  <2> SUFFICES ASSUME Init PROVE IInv
    OBVIOUS
  <2>1. keep \in BOOLEAN /\ prompt \in BOOLEAN /\ job \in BOOLEAN /\ want \in BOOLEAN /\ core \in BOOLEAN
    BY Zenon DEF Init
  <2>2. driver \in {"notifyd", "asld", "op124"} /\ stock \in {"never", "up"}
    BY DEF Init
  <2>3. /\ pc = "prepare" /\ fail = 0 /\ daemon = [gen |-> 0, st |-> "none"] /\ pid = -1
        /\ seen = [r \in Rungs |-> {}] /\ served = [r \in Trips |-> 0]
        /\ fails = 0 /\ crashes = 0 /\ verdict = 99
    BY DEF Init, None, Unknown
  <2>4. TypeOK
    BY <2>1, <2>2, <2>3, BoundsAssumption DEF TypeOK, Rungs, Trips, None, Unknown
  <2>5. GenInv /\ KillInv /\ RestartIsNew /\ GapInv
    BY <2>3 DEF GenInv, KillInv, RestartIsNew, GapInv, Rungs, Trips
  <2>6. RungInv
    BY <2>3 DEF RungInv, Past, AfterObserve, AfterRestart, Unknown
  <2>7. CalmInv
    BY <2>3 DEF Init, CalmInv
  <2>8. QED
    BY <2>4, <2>5, <2>6, <2>7 DEF IInv
<1>2. ASSUME IInv, [Next]_vars PROVE IInv'
  BY <1>2, TypeStep, GenStep, KillStep, NewStep, GapStep, RungStep, CalmStep DEF IInv
<1>3. QED
  BY <1>1, <1>2, PTL DEF Spec

\* Places, markers and processes are well formed, for any number of failing calls and of
\* crashes.
THEOREM TypeCorrect == Spec => []TypeOK
<1>1. IInv => TypeOK
  BY DEF IInv
<1>2. QED
  BY <1>1, Invariance, PTL

\* Terminal status 0 means a process started after the remove, however often calls fail
\* and the daemon crashes, and however late it goes.
THEOREM FreshSuccess == Spec => []SuccessIsFresh
<1>1. IInv => SuccessIsFresh
  BY DEF IInv, RungInv, Past, Seen, SuccessIsFresh
<1>2. QED
  BY <1>1, Invariance, PTL

\* Within the sleeps, a passed restart rung has seen a new process.
THEOREM NewRestart == Spec => []RestartIsNew
<1>1. IInv => RestartIsNew
  BY DEF IInv
<1>2. QED
  BY <1>1, Invariance, PTL

\* Terminal status 0 means answered round trips, and of op124 one of a process
\* started after the remove, and no core file.
THEOREM ServedSuccess == Spec => []SuccessIsServed
<1>1. IInv => SuccessIsServed
  BY DEF IInv, RungInv, Past, SuccessIsServed
<1>2. QED
  BY <1>1, Invariance, PTL

\* Where launchd and the daemon keep within the sleeps and nothing fails, no driver
\* reports a failure, with and without automatic restart, and however the settling
\* interleaves with the rungs.
THEOREM NoAlarm == Spec => []NoFalseAlarm
<1>1. IInv => NoFalseAlarm
  BY DEF IInv, CalmInv, Calm, NoFalseAlarm
<1>2. QED
  BY <1>1, Invariance, PTL
===============================================================================
