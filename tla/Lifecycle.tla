------------------------------- MODULE Lifecycle -------------------------------
(***************************************************************************)
(* The drivers that take a daemon through its life under launchd: load,    *)
(* start, observe, restart, remove, reload.  notifyd-lifecycle-harness.sh, *)
(* asld-lifecycle-harness.sh and op124-lifecycle-probe.rc climb the same   *)
(* rungs.  They look for the daemon with pgrep after fixed sleeps, while   *)
(* launchd and the daemon take their own time.                             *)
(***************************************************************************)
EXTENDS Integers

CONSTANTS MaxFails,     \* failing launchctl calls and round trips
          MaxCrashes    \* crashes of the daemon

ASSUME BoundsAssumption == MaxFails \in Nat /\ MaxCrashes \in Nat

VARIABLES driver,    \* "notifyd", "asld" or "op124"
          keep,      \* whether launchd restarts the job by itself
          prompt,    \* whether launchd and daemon settle within the sleeps
          stock,     \* FreeBSD's own process of the daemon's name
          pc, fail,  \* the driver and its FAIL
          job,       \* whether launchd has the job
          want,      \* a start that launchd has yet to carry out
          daemon,    \* the job's process: its generation, and what it does
          core,      \* whether a core file was left
          pid,       \* the pid that the restart rung found
          seen,      \* the processes each rung found
          served,    \* who answered each round trip, 0 for nobody
          fails, crashes, verdict

vars == <<driver, keep, prompt, stock, pc, fail, job, want, daemon, core, pid,
          seen, served, fails, crashes, verdict>>

Rungs == {"observe", "restart", "remove", "reload"}
Trips == {"observe", "restart", "reload"}
None == -1
Stock == 0           \* the pid of the stock process; generations start at 1
Unknown == 99        \* no terminal marker yet

TypeOK ==
  /\ driver \in {"notifyd", "asld", "op124"}
  /\ keep \in BOOLEAN /\ prompt \in BOOLEAN
  /\ stock \in {"never", "up", "ending", "gone"}
  /\ pc \in {"prepare", "load", "start", "observe", "observe_trip", "find", "kill",
             "restart", "manual", "manual_check", "restart_trip", "remove",
             "remove_check", "reload_load", "reload_start", "reload", "reload_trip",
             "finish", "done"}
  /\ fail \in 0..1
  /\ job \in BOOLEAN /\ want \in BOOLEAN /\ core \in BOOLEAN
  /\ daemon \in [gen : Nat, st : {"none", "mute", "up", "ending"}]
  /\ pid \in Nat \cup {None}
  /\ seen \in [Rungs -> SUBSET Nat]
  /\ served \in [Trips -> Nat]
  /\ fails \in 0..MaxFails /\ crashes \in 0..MaxCrashes
  /\ verdict \in {0, 1, 2, Unknown}

-----------------------------------------------------------------------------
(* launchd and the daemon.                                                 *)

world == <<driver, keep, prompt>>
script == <<pc, fail, pid, seen, served, fails, verdict>>

\* launchd spawns a job that it keeps alive, or was asked to start, once the
\* last process is reaped.
Due == job /\ daemon.st = "none" /\ (keep \/ want)

Spawn ==
  /\ pc # "done" /\ Due
  /\ daemon' = [gen |-> daemon.gen + 1, st |-> "mute"]
  /\ want' = FALSE
  /\ UNCHANGED <<world, script, stock, job, core, crashes>>

Serve ==
  /\ pc # "done" /\ daemon.st = "mute"
  /\ daemon' = [daemon EXCEPT !.st = "up"]
  /\ UNCHANGED <<world, script, stock, job, want, core, crashes>>

\* A process that was told to terminate is gone.
Exit ==
  /\ pc # "done"
  /\ \/ /\ daemon.st = "ending"
        /\ daemon' = [daemon EXCEPT !.st = "none"]
        /\ UNCHANGED stock
     \/ /\ stock = "ending"
        /\ stock' = "gone"
        /\ UNCHANGED daemon
  /\ UNCHANGED <<world, script, job, want, core, crashes>>

Crash ==
  /\ pc # "done" /\ crashes < MaxCrashes /\ daemon.st \in {"mute", "up"}
  /\ crashes' = crashes + 1
  /\ core' = TRUE
  /\ daemon' = [daemon EXCEPT !.st = "none"]
  /\ UNCHANGED <<world, script, stock, job, want>>

Environment == Spawn \/ Serve \/ Exit \/ Crash

-----------------------------------------------------------------------------
(* What the drivers call.                                                  *)

\* pgrep -x: the job's process in any state, and one of the same name.
Matches == {n \in {daemon.gen} : daemon.st # "none"}
             \cup {n \in {Stock} : stock \in {"up", "ending"}}

\* A sleep is over.  Where all is prompt, nothing is under way by then.
Slept == prompt => ~Due /\ daemon.st \notin {"mute", "ending"} /\ stock # "ending"

\* A launchctl verb or a round trip that does not go through.
Failing ==
  /\ fails < MaxFails
  /\ fails' = fails + 1

LaunchctlLoad ==
  /\ job' = TRUE
  /\ UNCHANGED <<want, daemon>>

\* A job that is running is left alone.
LaunchctlStart ==
  /\ want' = (job /\ (want \/ daemon.st = "none"))
  /\ UNCHANGED <<job, daemon>>

\* A process that runs is told to terminate.
Terminated(d) == [d EXCEPT !.st = IF d.st \in {"mute", "up"} THEN "ending" ELSE d.st]

\* Mutant of LaunchctlRemove: the unload that came before, after which the job lives.
LaunchctlUnload ==
  /\ daemon' = Terminated(daemon)
  /\ UNCHANGED <<job, want>>

LaunchctlRemove ==
  /\ job' = FALSE
  /\ want' = FALSE
  /\ daemon' = Terminated(daemon)

\* FAIL=1 skips every rung that is left.
OnFailure == pc' = "finish" /\ fail' = 1
Go(next) == pc' = next /\ UNCHANGED fail

\* A verb whose result decides.
Verb(at, effect, next) ==
  /\ pc = at
  /\ \/ effect /\ Go(next) /\ UNCHANGED fails
     \/ Failing /\ OnFailure /\ UNCHANGED <<job, want, daemon>>
  /\ UNCHANGED <<world, stock, core, pid, seen, served, crashes, verdict>>

\* A verb whose result is not looked at.
Blind(at, effect, next) ==
  /\ pc = at
  /\ Go(next)
  /\ \/ effect /\ UNCHANGED fails
     \/ Failing /\ UNCHANGED <<job, want, daemon>>
  /\ UNCHANGED <<world, stock, core, pid, seen, served, crashes, verdict>>

launchd == <<stock, job, want, daemon, core, crashes>>

\* A sleep and a pgrep whose outcome is good if ok holds.
Look(at, rung, ok, Good, Bad) ==
  /\ pc = at /\ Slept
  /\ seen' = [seen EXCEPT ![rung] = Matches]
  /\ \/ ok /\ Good
     \/ ~ok /\ Bad
  /\ UNCHANGED <<world, launchd, pid, served, fails, verdict>>

\* do_roundtrip, through a child of launchd.  A process that is told to end may still
\* answer; runner or client may be missing.
Trip(at, trip, Good, Bad) ==
  /\ pc = at
  /\ \/ /\ daemon.st \in {"up", "ending"}
        /\ served' = [served EXCEPT ![trip] = daemon.gen]
        /\ Good /\ UNCHANGED fails
     \/ /\ daemon.st # "up" /\ Slept
        /\ Bad /\ UNCHANGED <<served, fails>>
     \/ /\ Failing
        /\ Bad /\ UNCHANGED served
  /\ UNCHANGED <<world, launchd, pid, seen, verdict>>

-----------------------------------------------------------------------------
(* The rungs.                                                              *)

\* op124 brings up ldconfig, the mach module and launchd, and asld looks for its
\* plist; notifyd finds all of it in place.
Prepare ==
  /\ pc = "prepare"
  /\ \/ Go("load") /\ UNCHANGED <<fails, verdict>>
     \/ /\ driver # "notifyd"
        /\ Failing
        /\ pc' = "done" /\ verdict' = 1 /\ UNCHANGED fail
  /\ UNCHANGED <<world, launchd, pid, seen, served>>

Load == Verb("load", LaunchctlLoad, "start")
Start == Verb("start", LaunchctlStart, "observe")
Observe == Look("observe", "observe", Matches # {}, Go("observe_trip"), OnFailure)
ObserveTrip == Trip("observe_trip", "observe", Go("find"), OnFailure)

\* pgrep -x | head -1, with no sleep before it.
FindPid ==
  /\ pc = "find"
  /\ \/ /\ Matches # {}
        /\ pid' \in Matches
        /\ Go("kill")
     \/ /\ Matches = {}
        /\ OnFailure /\ UNCHANGED pid
  /\ UNCHANGED <<world, launchd, seen, served, fails, verdict>>

\* Mutant of Kill: kill -0 asks whether the process is there.
KillProbe ==
  /\ pc = "kill"
  /\ Go("restart")
  /\ UNCHANGED <<world, launchd, pid, seen, served, fails, verdict>>

\* kill "$pid" || true: nothing happens if the process has gone meanwhile.
Kill ==
  /\ pc = "kill"
  /\ Go("restart")
  /\ daemon' = IF pid = daemon.gen THEN Terminated(daemon) ELSE daemon
  /\ stock' = IF pid = Stock /\ stock = "up" THEN "ending" ELSE stock
  /\ UNCHANGED <<world, job, want, core, crashes, pid, seen, served, fails, verdict>>

Restarted == Go(IF driver = "op124" THEN "restart_trip" ELSE "remove")
Restart == Look("restart", "restart", Matches # {}, Restarted, Go("manual"))
ManualStart == Blind("manual", LaunchctlStart, "manual_check")
ManualCheck == Look("manual_check", "restart", Matches # {}, Restarted, OnFailure)

\* op124 alone tries the restarted daemon.
RestartTrip == Trip("restart_trip", "restart", Go("remove"), OnFailure)

Remove == Blind("remove", LaunchctlRemove, "remove_check")

\* Mutant of RemoveCheck: the marker says status=1 and FAIL stays 0.
RemoveCheckLax == Look("remove_check", "remove", Matches = {}, Go("reload_load"), Go("reload_load"))

RemoveCheck == Look("remove_check", "remove", Matches = {}, Go("reload_load"), OnFailure)

ReloadLoad == Blind("reload_load", LaunchctlLoad, "reload_start")
ReloadStart == Blind("reload_start", LaunchctlStart, "reload")
Reload == Look("reload", "reload", Matches # {}, Go("reload_trip"), OnFailure)

\* Mutant of ReloadTrip: op124 reports a failed round trip as its siblings do.
ReloadTripLax == Trip("reload_trip", "reload", Go("finish"), Go("finish"))

\* A failed round trip after the reload is reported, and sets FAIL in op124 only.
ReloadTrip ==
  Trip("reload_trip", "reload", Go("finish"), IF driver = "op124" THEN OnFailure ELSE Go("finish"))

\* The terminal marker; op124 looks for core files before it.
Finish ==
  /\ pc = "finish" /\ pc' = "done"
  /\ verdict' = IF driver = "op124" /\ core THEN 2 ELSE fail
  /\ UNCHANGED <<world, launchd, fail, pid, seen, served, fails>>

Ended == pc = "done" /\ UNCHANGED vars

Driver ==
  \/ Prepare \/ Load \/ Start \/ Observe \/ ObserveTrip \/ FindPid \/ Kill \/ Restart
  \/ ManualStart \/ ManualCheck \/ RestartTrip \/ Remove \/ RemoveCheck
  \/ ReloadLoad \/ ReloadStart \/ Reload \/ ReloadTrip \/ Finish

\* The machine has just booted the staged image, whose plists wait to be loaded: the job
\* is not registered yet.  (asld-lifecycle-harness.sh:31 allows for one that is: its load
\* then fails, like any load that fails, or changes nothing.)
Init ==
  /\ driver \in {"notifyd", "asld", "op124"}
  /\ keep \in BOOLEAN /\ prompt \in BOOLEAN
  /\ stock \in {"never"} \cup {s \in {"up"} : driver = "asld"}
  /\ pc = "prepare" /\ fail = 0
  /\ job = FALSE /\ want = FALSE /\ core = FALSE
  /\ daemon = [gen |-> 0, st |-> "none"]
  /\ pid = None
  /\ seen = [r \in Rungs |-> {}]
  /\ served = [r \in Trips |-> 0]
  /\ fails = 0 /\ crashes = 0 /\ verdict = Unknown

Next == Driver \/ Environment \/ Ended

Spec == Init /\ [][Next]_vars

-----------------------------------------------------------------------------
(* Properties.                                                             *)

\* Terminal status 0 means that the process seen after the reload was started after
\* the remove: neither the old daemon, slow to go, nor a stock syslogd of the same
\* name stands in for it.  Here the remove rung's pgrep bears all the weight, for
\* the restart rung alone may take either for a restarted daemon.
SuccessIsFresh ==
  verdict = 0 =>
    /\ seen["reload"] # {}
    /\ \A p \in seen["reload"], q \in seen["observe"] \cup seen["restart"] : p > q

\* Where launchd and the daemon settle within the sleeps and no stock process has the
\* daemon's name, a passed restart rung has seen another process than the one
\* killed, whether it crashed before the kill or was started by hand.
RestartIsNew ==
  prompt /\ stock = "never" => \A p \in seen["restart"] : p > pid

\* Terminal status 0 means that the daemon answered before the kill.  Of op124 it also
\* means that it answered after the restart, that a process started after the remove
\* answered at the end, and that none left a core file: "a real asl round-trip at
\* observe/restart/reload, not just pgrep liveness".
SuccessIsServed ==
  verdict = 0 =>
    /\ served["observe"] > 0
    /\ driver = "op124" => /\ served["restart"] > 0
                           /\ served["reload"] > served["restart"]
                           /\ ~core

\* Where all is prompt and nothing fails, crashes or has the daemon's name, every driver
\* reaches terminal status 0, with and without automatic restart.
NoFalseAlarm ==
  pc = "done" /\ prompt /\ fails = 0 /\ crashes = 0 /\ stock = "never" => verdict = 0
===============================================================================
