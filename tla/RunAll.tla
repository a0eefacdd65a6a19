-------------------------------- MODULE RunAll --------------------------------
(***************************************************************************)
(* harness/run_all.sh: collect the environment, sign, check the platform,  *)
(* then run every built probe, under a timeout where the host has          *)
(* timeout(1), and turn its output into one result file, one run record    *)
(* (where a records file is asked for) and one count.  The runner itself   *)
(* may be interrupted anywhere and started again on the same result        *)
(* directory.  Probes are what OracleProbe promises: they end with one     *)
(* outcome, or are killed, before or after their output reached the file.  *)
(***************************************************************************)
EXTENDS Naturals, Sequences, FiniteSets

CONSTANTS Probes,      \* the built probes, in the order they are discovered
          MaxRuns      \* bound on invocations of the runner

ASSUME ProbesAssumption == Probes \in Seq(STRING) /\ Len(Probes) > 0
ASSUME RunsAssumption == MaxRuns \in Nat \ {0}

VARIABLES host,     \* is there python3, is there timeout(1), and
                    \* is NX_ORACLE_RUN_RECORDS_FILE set
          run,      \* number of the current invocation; tags what it writes
          pc,       \* where the runner is
          i,        \* index of the probe in the loop
          env,      \* the invocation that wrote environment.json
          tmp,      \* content of "<result>.tmp" for each probe
          invalid,  \* the invocation that wrote "<result>.invalid-stdout", or 0
          result,   \* content of the result file for each probe
          records,  \* the run-records file
          count,    \* the shell counters
          rc, status, \* probe_rc and status of the probe just run
          exit      \* the runner's exit code, 2 while it has none

vars == <<host, run, pc, i, env, tmp, invalid, result, records, count, rc, status, exit>>
files == <<env, tmp, invalid, result, records>>

ProbeSet == {Probes[k] : k \in 1..Len(Probes)}
Statuses == {"pass", "skip", "fail", "probe_failure"}

\* A file: who wrote it, what status it states, and how much of it is there: a part
\* of what a killed probe would have written, or short of what a probe wrote that
\* ended by itself and did not notice that its output was lost (a full disk).
Nothing == [by |-> 0, status |-> "none", size |-> "absent"]
File(s, size) == [by |-> run, status |-> s, size |-> size]
Sizes == {"absent", "empty", "part", "short", "whole"}

ZeroCount == [total |-> 0, pass |-> 0, fail |-> 0, skip |-> 0]

Go(here, there) == pc = here /\ pc' = there

p == Probes[i]

-----------------------------------------------------------------------------
(* Before the loop.                                                        *)

\* A new invocation on the same result directory, in the same environment (17-25,
\* 547-550).
Start ==
  /\ pc \in {"idle", "exited", "dead"}
  /\ run < MaxRuns
  /\ run' = run + 1
  /\ pc' = "collect"
  /\ exit' = 2
  /\ count' = ZeroCount
  /\ i' = 1 /\ rc' = 0 /\ status' = "none"
  /\ UNCHANGED <<host, files>>

\* collect_env.sh, RESULT_DIR, and a fresh run-records file (109-135).
Collect ==
  /\ Go("collect", "sign")
  /\ records' = IF host.records THEN <<>> ELSE records
  /\ UNCHANGED <<host, run, i, env, tmp, invalid, result, count, rc, status, exit>>

\* Signing, environment.json moved into place, then the platform gates: Rosetta,
\* agent against architecture, and signatures on macOS (137-203, 486-543).  The
\* environment is written before the gates may refuse the run.
Gate ==
  /\ pc = "sign"
  /\ env' = run
  /\ \/ pc' = "launch" /\ UNCHANGED exit
     \/ pc' = "exited" /\ exit' = 1
  /\ UNCHANGED <<host, run, i, tmp, invalid, result, records, count, rc, status>>

-----------------------------------------------------------------------------
(* The loop over the probes (552-605).                                     *)

\* Mutant of Launch: the .invalid-stdout file of an earlier invocation is kept.
LaunchKeepsInvalid ==
  /\ Go("launch", "probe")
  /\ count' = [count EXCEPT !.total = count.total + 1]
  /\ tmp' = [tmp EXCEPT ![p] = File("none", "empty")]
  /\ UNCHANGED <<host, run, i, env, invalid, result, records, rc, status, exit>>

\* Mutant of Launch: the old result is removed before the probe has run again.
LaunchRemovesResult ==
  /\ Go("launch", "probe")
  /\ count' = [count EXCEPT !.total = count.total + 1]
  /\ invalid' = [invalid EXCEPT ![p] = 0]
  /\ result' = [result EXCEPT ![p] = Nothing]
  /\ tmp' = [tmp EXCEPT ![p] = File("none", "empty")]
  /\ UNCHANGED <<host, run, i, env, records, rc, status, exit>>

\* rm -f of what an earlier invocation left, and the redirection that creates
\* the temporary file.  timeout(1) runs the probe where there is one; without it
\* the probe runs as long as it likes, which only the fairness below tells (558-572).
Launch ==
  /\ Go("launch", "probe")
  /\ count' = [count EXCEPT !.total = count.total + 1]
  /\ invalid' = [invalid EXCEPT ![p] = 0]
  /\ tmp' = [tmp EXCEPT ![p] = File("none", "empty")]
  /\ UNCHANGED <<host, run, i, env, result, records, rc, status, exit>>

\* The probe ends by itself: its exit code is 0 exactly for pass and skip, and its
\* result object is on disk, unless the write came to nothing or fell short, which
\* no probe looks at.
ProbeReports ==
  /\ Go("probe", "settle")
  /\ \E s \in Statuses :
       /\ \E f \in {File(s, "whole"), File(s, "short"), File("none", "short"),
                    File("none", "empty")} : tmp' = [tmp EXCEPT ![p] = f]
       /\ rc' = IF s \in {"pass", "skip"} THEN 0 ELSE 1
  /\ UNCHANGED <<host, run, i, env, invalid, result, records, count, status, exit>>

\* The probe is killed by its own alarm, by timeout(1) or by a crash on the way
\* out: nothing, a prefix or all of the object has reached the file, and the
\* status line may be in the prefix.
ProbeKilled ==
  /\ Go("probe", "settle")
  /\ \E s \in Statuses \cup {"none"}, size \in {"empty", "part", "whole"} :
       /\ size = "empty" => s = "none"
       /\ size = "whole" => s # "none"
       /\ tmp' = [tmp EXCEPT ![p] = File(s, size)]
  /\ rc' = 124
  /\ UNCHANGED <<host, run, i, env, invalid, result, records, count, status, exit>>

\* result_status: json.load refuses anything but the whole object; the awk
\* fallback takes the first "status" it finds (356-394).
Accepted(f) ==
  IF host.python THEN f.size = "whole"
  ELSE f.size \in {"part", "short", "whole"} /\ f.status # "none"

\* Valid output is moved into place in one step (589).
Promote ==
  /\ Go("settle", "record")
  /\ Accepted(tmp[p])
  /\ result' = [result EXCEPT ![p] = tmp[p]]
  /\ tmp' = [tmp EXCEPT ![p] = Nothing]
  /\ status' = tmp[p].status
  /\ UNCHANGED <<host, run, i, env, invalid, records, count, rc, exit>>

\* Mutant of SetAside: only output that exists is set aside.
SetAsideNonEmpty ==
  /\ Go("settle", "fallback")
  /\ ~Accepted(tmp[p]) /\ tmp[p].size # "empty"
  /\ invalid' = [invalid EXCEPT ![p] = run]
  /\ tmp' = [tmp EXCEPT ![p] = Nothing]
  /\ result' = [result EXCEPT ![p] = File("none", "part")]
  /\ UNCHANGED <<host, run, i, env, records, count, rc, status, exit>>

\* Invalid output is kept aside, missing output removed; then the fallback result
\* is written straight into the result file, which open() first truncates
\* (579-587, 205-354).
SetAside ==
  /\ Go("settle", "fallback")
  /\ ~Accepted(tmp[p])
  /\ invalid' = IF tmp[p].size = "empty" THEN invalid ELSE [invalid EXCEPT ![p] = run]
  /\ tmp' = [tmp EXCEPT ![p] = Nothing]
  /\ result' = [result EXCEPT ![p] = File("none", "part")]
  /\ UNCHANGED <<host, run, i, env, records, count, rc, status, exit>>

EmitFallback ==
  /\ Go("fallback", "record")
  /\ result' = [result EXCEPT ![p] = File("probe_failure", "whole")]
  /\ status' = "probe_failure"
  /\ UNCHANGED <<host, run, i, env, tmp, invalid, records, count, rc, exit>>

\* append_run_record, if there is a records file (396-441).
AppendRecord ==
  /\ Go("record", "count")
  /\ records' = IF ~host.records THEN records
                ELSE Append(records, [probe |-> p, result |-> status, rc |-> rc,
                                      ok |-> rc = 0 /\ status \in {"pass", "skip"}])
  /\ UNCHANGED <<host, run, i, env, tmp, invalid, result, count, rc, status, exit>>

\* Mutant of Bucket: the exit code of the probe is not looked at.
BucketByStatus == IF status \in {"pass", "skip"} THEN status ELSE "fail"

\* A nonzero exit counts as a failure whatever the result says (594-604).
Bucket == IF rc = 0 /\ status \in {"pass", "skip"} THEN status ELSE "fail"

CountProbe ==
  /\ pc = "count"
  /\ count' = [count EXCEPT ![Bucket] = count[Bucket] + 1]
  /\ IF i < Len(Probes)
     THEN i' = i + 1 /\ pc' = "launch"
     ELSE i' = i /\ pc' = "finish"
  /\ UNCHANGED <<host, run, files, rc, status, exit>>

Summary == [probe |-> "runner_summary", result |-> "ok", rc |-> 0, ok |-> TRUE]

\* Mutant of Finish: success once some probe has passed.
FinishOnAnyPass ==
  /\ Go("finish", "exited")
  /\ records' = IF host.records THEN Append(records, Summary) ELSE records
  /\ exit' = IF count.pass > 0 THEN 0 ELSE 1
  /\ UNCHANGED <<host, run, i, env, tmp, invalid, result, count, rc, status>>

\* append_runner_summary and the exit code (443-484, 607-612).
Finish ==
  /\ Go("finish", "exited")
  /\ records' = IF host.records THEN Append(records, Summary) ELSE records
  /\ exit' = IF count.fail = 0 THEN 0 ELSE 1
  /\ UNCHANGED <<host, run, i, env, tmp, invalid, result, count, rc, status>>

\* The runner is interrupted; files stay as they are.
Interrupted ==
  /\ pc \notin {"idle", "exited", "dead"}
  /\ pc' = "dead"
  /\ UNCHANGED <<host, run, i, files, count, rc, status, exit>>

\* No invocation is left.
Over == pc \in {"exited", "dead"} /\ run = MaxRuns /\ UNCHANGED vars

Init ==
  /\ host \in [python: BOOLEAN, timeout: BOOLEAN, records: BOOLEAN]
  /\ run = 0 /\ pc = "idle" /\ i = 1 /\ env = 0
  /\ tmp = [x \in ProbeSet |-> Nothing]
  /\ invalid = [x \in ProbeSet |-> 0]
  /\ result = [x \in ProbeSet |-> Nothing]
  /\ records = <<>>
  /\ count = ZeroCount
  /\ rc = 0 /\ status = "none" /\ exit = 2

ShellStep ==
  \/ Collect \/ Gate \/ Launch \/ Promote \/ SetAside \/ EmitFallback \/ AppendRecord
  \/ CountProbe \/ Finish

ProbeStep == ProbeReports \/ ProbeKilled

Next == Start \/ ShellStep \/ ProbeStep \/ Interrupted \/ Over

\* The shell goes on.  A probe comes to an end where timeout(1) bounds it (563-567);
\* without timeout(1) nothing does (568-572), and a probe may wait FOREVER.
Spec == Init /\ [][Next]_vars /\ WF_vars(ShellStep) /\ WF_vars(host.timeout /\ ProbeStep)

-----------------------------------------------------------------------------
(* Properties.                                                             *)

Contents == [by: 0..MaxRuns, status: Statuses \cup {"none"}, size: Sizes]
Record == [probe: ProbeSet \cup {"runner_summary"}, result: Statuses \cup {"ok"},
           rc: {0, 1, 124}, ok: BOOLEAN]

TypeOK ==
  /\ host \in [python: BOOLEAN, timeout: BOOLEAN, records: BOOLEAN]
  /\ run \in 0..MaxRuns /\ env \in 0..MaxRuns /\ i \in 1..Len(Probes)
  /\ pc \in {"idle", "collect", "sign", "launch", "probe", "settle", "fallback",
             "record", "count", "finish", "exited", "dead"}
  /\ tmp \in [ProbeSet -> Contents] /\ invalid \in [ProbeSet -> 0..MaxRuns]
  /\ result \in [ProbeSet -> Contents]
  /\ records \in Seq(Record)
  /\ count \in [total: Nat, pass: Nat, fail: Nat, skip: Nat]
  /\ rc \in {0, 1, 124} /\ status \in Statuses \cup {"none"} /\ exit \in {0, 1, 2}

\* The loop ran to its end in the current invocation.
Completed == pc = "exited" /\ count.total = Len(Probes)

\* Output that may stand behind a success: whole, or, without python3 to parse it,
\* short of the end of the object though the probe took it for written.
Intact(f) == f.size = "whole" \/ (~host.python /\ f.size = "short")

\* Exit code 0 is worth what it says: every probe's result file was written by
\* this invocation by a probe that ended by itself, states pass or skip, and is whole
\* wherever python3 is there to parse it; without python3 the status is scanned for,
\* and only an object that lost its end behind the probe's back slips through
\* (356-394, 552-612).
ZeroMeansGreen ==
  exit = 0 => \A x \in ProbeSet : /\ result[x].by = run /\ Intact(result[x])
                                  /\ result[x].status \in {"pass", "skip"}

\* A completed invocation repairs whatever interrupted ones left behind: every
\* result is its own, and no temporary or invalid output of another invocation
\* remains beside it (561-590).
CompletedIsFresh ==
  Completed => \A x \in ProbeSet :
                 /\ result[x].by = run
                 /\ tmp[x] = Nothing
                 /\ invalid[x] \in {0, run}

\* Counters, run records and exit code of a completed invocation that keeps records
\* tell the same story: the records that are not ok are as many as the failures
\* counted, and no record of an earlier invocation is among them.
BooksBalance ==
  Completed /\ host.records =>
    LET ok == {k \in 1..Len(Probes) : records[k].ok}
    IN /\ Len(records) = Len(Probes) + 1
       /\ count.pass + count.skip = Cardinality(ok)
       /\ count.fail = Len(Probes) - Cardinality(ok)
       /\ exit = 0 <=> ok = 1..Len(Probes)

\* A refused or interrupted invocation leaves the results of a completed one
\* alone: a result file changes only from the settling step on, never before its
\* probe has been run again.
ResultsSurviveRefusal ==
  [][\A x \in ProbeSet : result'[x] # result[x] =>
       pc \in {"settle", "fallback"} /\ x = p /\ result'[x].by = run]_vars

\* Every invocation ends, with an exit code unless it was interrupted, or stays for
\* ever with one probe on a host without timeout(1) (563-572): the runner never waits
\* for anything of its own.
EveryRunEnds ==
  (pc = "collect") ~> (\/ pc \in {"exited", "dead"}
                       \/ ~host.timeout /\ [](pc = "probe"))
=============================================================================
