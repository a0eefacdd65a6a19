----------------------------- MODULE RunAllProofs -----------------------------
(***************************************************************************)
(* For every list of probes, on a host with or without python3, timeout(1) *)
(* and a records file, and any number of invocations interrupted anywhere: *)
(* what the exit code, the result files and the books of run_all.sh are    *)
(* worth.                                                                  *)
(***************************************************************************)
EXTENDS RunAll, FiniteSetTheorems, TLAPS

-----------------------------------------------------------------------------
(* The inductive invariant.                                                *)

Loop == {"launch", "probe", "settle", "fallback", "record", "count"}

\* How many probes of this invocation have been counted.
Counted ==
  IF pc \in Loop THEN i - 1
  ELSE IF pc = "finish" \/ (pc = "exited" /\ count.total > 0) THEN Len(Probes)
  ELSE 0

\* Counters and records start from nothing, and grow with the loop.
PlaceInv ==
  /\ pc \in {"collect", "sign"} => count = ZeroCount /\ i = 1
  /\ pc = "sign" /\ host.records => records = <<>>
  /\ pc = "launch" => count.total = i - 1
  /\ pc \in Loop \ {"launch"} => count.total = i
  /\ pc = "finish" => count.total = Len(Probes)
  /\ host.records =>
       /\ pc \in (Loop \ {"count"}) \cup {"finish"} => Len(records) = Counted
       /\ pc = "count" => Len(records) = i
       /\ pc = "exited" /\ count.total > 0 => Len(records) = Len(Probes) + 1

\* An exit code is the last thing an invocation produces.
ExitInv ==
  /\ pc # "exited" => exit = 2
  /\ pc = "exited" => exit \in {0, 1} /\ (exit = 0 <=> count.total > 0 /\ count.fail = 0)

\* The probe in flight: what its exit code says about its output, and where the
\* output is.
FlightInv ==
  /\ pc \in Loop \ {"launch"} => invalid[p] \in {0, run}
  /\ pc = "settle" => /\ tmp[p].by = run
                      /\ tmp[p].size = "whole" => tmp[p].status \in Statuses
                      /\ rc = 0 => tmp[p].size # "part"
  /\ pc \in {"fallback", "record", "count"} => tmp[p] = Nothing /\ result[p].by = run
  /\ pc \in {"record", "count"} => /\ status \in Statuses /\ result[p].status = status
                                   /\ rc = 0 => Intact(result[p])

\* What was counted is in place, unless a second probe of its name is in flight.
FreshInv ==
  \A j \in 1..Counted :
    /\ result[Probes[j]].by = run
    /\ invalid[Probes[j]] \in {0, run}
    /\ (pc \in {"probe", "settle"} /\ Probes[j] = p) \/ tmp[Probes[j]] = Nothing

Green(f) == Intact(f) /\ f.status \in {"pass", "skip"}
GreenInv ==
  count.fail = 0 =>
    \A j \in 1..Counted :
      (pc \in {"fallback", "record", "count"} /\ Probes[j] = p) \/ Green(result[Probes[j]])

\* The records that are ok, among the first n.
OkOf(recs, n) == {j \in 1..n : recs[j].ok}

\* The counters are the number of records that are ok and that are not.
BooksInv ==
  host.records =>
    /\ pc \in Loop \cup {"finish", "exited"} =>
         /\ count.pass + count.skip = Cardinality(OkOf(records, Counted))
         /\ count.fail = Counted - Cardinality(OkOf(records, Counted))
    /\ pc = "count" => (records[i].ok <=> rc = 0 /\ status \in {"pass", "skip"})

IInv == TypeOK /\ PlaceInv /\ ExitInv /\ FlightInv /\ FreshInv /\ GreenInv /\ BooksInv

-----------------------------------------------------------------------------
(* Facts about probes, records and their number.                           *)

LEMMA ProbeFacts ==
  /\ Len(Probes) \in Nat /\ Len(Probes) >= 1
  /\ \A j \in 1..Len(Probes) : Probes[j] \in ProbeSet
BY ProbesAssumption DEF ProbeSet

\* A file written now is well formed.
LEMMA FileType ==
  ASSUME run \in 0..MaxRuns, NEW s \in Statuses \cup {"none"}, NEW size \in Sizes
  PROVE  /\ File(s, size) \in Contents /\ Nothing \in Contents
         /\ File(s, size).by = run /\ File(s, size).status = s /\ File(s, size).size = size
         /\ Nothing.by = 0
BY RunsAssumption DEF File, Contents, Nothing, Sizes

\* The number of ok records among the first n.
LEMMA OkFinite ==
  ASSUME NEW recs, NEW n \in Nat
  PROVE  /\ IsFiniteSet(OkOf(recs, n)) /\ Cardinality(OkOf(recs, n)) \in Nat
         /\ Cardinality(OkOf(recs, n)) <= n
         /\ Cardinality(OkOf(recs, n)) = n <=> OkOf(recs, n) = 1..n
<1>1. IsFiniteSet(1..n) /\ Cardinality(1..n) = n
  BY FS_Interval
<1>2. OkOf(recs, n) \in SUBSET (1..n)
  BY DEF OkOf
<1> QED
  BY <1>1, <1>2, FS_Subset, FS_CardinalityType

\* One more record.
LEMMA OkStep ==
  ASSUME NEW recs, NEW n \in Nat
  PROVE  /\ recs[n + 1].ok => Cardinality(OkOf(recs, n + 1)) = Cardinality(OkOf(recs, n)) + 1
         /\ ~recs[n + 1].ok => Cardinality(OkOf(recs, n + 1)) = Cardinality(OkOf(recs, n))
<1>1. 1..(n + 1) = (1..n) \cup {n + 1} /\ n + 1 \notin 1..n
  OBVIOUS
<1>2. CASE recs[n + 1].ok
  <2>1. OkOf(recs, n + 1) = OkOf(recs, n) \cup {n + 1} /\ n + 1 \notin OkOf(recs, n)
    BY <1>1, <1>2, Zenon DEF OkOf
  <2> QED
    BY <1>2, <2>1, OkFinite, FS_AddElement
<1>3. CASE ~recs[n + 1].ok
  <2>1. OkOf(recs, n + 1) = OkOf(recs, n)
    BY <1>1, <1>3, Zenon DEF OkOf
  <2> QED
    BY <1>3, <2>1
<1> QED
  BY <1>2, <1>3

LEMMA OkNone == ASSUME NEW recs PROVE Cardinality(OkOf(recs, 0)) = 0
<1>1. OkOf(recs, 0) = {}
  BY DEF OkOf
<1> QED
  BY <1>1, FS_EmptySet

\* Appending a record leaves the earlier ones alone.
LEMMA OkAppend ==
  ASSUME NEW recs \in Seq(Record), NEW rec, NEW n \in 0..Len(recs)
  PROVE  OkOf(Append(recs, rec), n) = OkOf(recs, n)
<1>1. \A j \in 1..n : Append(recs, rec)[j] = recs[j]
  OBVIOUS
<1> QED
  BY <1>1, Zenon DEF OkOf

-----------------------------------------------------------------------------
(* The steps.                                                              *)

\* The initial states satisfy the invariant.
LEMMA InitIInv == Init => IInv
<1> SUFFICES ASSUME Init PROVE IInv
  OBVIOUS
<1>1. Nothing \in Contents
  BY RunsAssumption DEF Nothing, Contents, Sizes
<1>2. TypeOK
  BY <1>1, ProbeFacts, RunsAssumption DEF Init, TypeOK, ZeroCount
<1>3. PlaceInv /\ ExitInv /\ FlightInv /\ BooksInv
  BY DEF Init, PlaceInv, ExitInv, FlightInv, BooksInv, Loop
<1>4. Counted = 0
  BY DEF Init, Counted, Loop
<1>5. FreshInv /\ GreenInv
  BY <1>4 DEF FreshInv, GreenInv
<1> QED
  BY <1>2, <1>3, <1>5 DEF IInv

\* A new invocation, and the steps before the loop.
LEMMA BeginIInv == ASSUME IInv, Start \/ Collect \/ Gate \/ Interrupted PROVE IInv'
<1> USE DEF IInv, files
<1>1. CASE Start
  <2> USE <1>1 DEF Start
  <2>1. TypeOK'
    BY ProbeFacts, RunsAssumption DEF TypeOK, ZeroCount
  <2>2. Counted' = 0
    BY DEF Counted, Loop
  <2>3. PlaceInv' /\ ExitInv' /\ FlightInv' /\ BooksInv'
    BY DEF PlaceInv, ExitInv, FlightInv, BooksInv, Loop
  <2> QED
    BY <2>1, <2>2, <2>3 DEF FreshInv, GreenInv
<1>2. CASE Collect
  <2> USE <1>2 DEF Collect, Go
  <2>1. TypeOK'
    BY DEF TypeOK
  <2>2. Counted' = 0
    BY DEF Counted, Loop
  <2>3. PlaceInv' /\ ExitInv' /\ FlightInv' /\ BooksInv'
    BY DEF PlaceInv, ExitInv, FlightInv, BooksInv, Loop
  <2> QED
    BY <2>1, <2>2, <2>3 DEF FreshInv, GreenInv
<1>3. CASE Gate
  <2> USE <1>3 DEF Gate
  <2>1. TypeOK'
    BY DEF TypeOK
  <2>2. /\ Counted' = 0 /\ count' = ZeroCount /\ i' = 1 /\ pc' \in {"launch", "exited"}
        /\ host.records => records' = <<>>
    BY DEF PlaceInv, Counted, Loop, ZeroCount
  <2>3. count'.total = 0 /\ count'.pass = 0 /\ count'.skip = 0 /\ count'.fail = 0
    BY <2>2 DEF ZeroCount
  <2>4. PlaceInv' /\ ExitInv' /\ FlightInv'
    BY <2>2, <2>3 DEF PlaceInv, ExitInv, FlightInv, Loop
  <2>5. BooksInv'
    BY <2>2, <2>3, OkNone DEF BooksInv, Loop
  <2> QED
    BY <2>1, <2>2, <2>4, <2>5 DEF FreshInv, GreenInv
<1>4. CASE Interrupted
  <2> USE <1>4 DEF Interrupted
  <2>1. TypeOK'
    BY DEF TypeOK
  <2>2. Counted' = 0
    BY DEF Counted, Loop
  <2>3. PlaceInv' /\ ExitInv' /\ FlightInv' /\ BooksInv'
    BY DEF PlaceInv, ExitInv, FlightInv, BooksInv, Loop
  <2> QED
    BY <2>1, <2>2, <2>3 DEF FreshInv, GreenInv
<1> QED
  BY <1>1, <1>2, <1>3, <1>4

\* The types of the pieces.
LEMMA Facts ==
  ASSUME TypeOK
  PROVE  /\ i \in 1..Len(Probes) /\ i \in Nat /\ i >= 1 /\ p \in ProbeSet /\ run \in 0..MaxRuns
         /\ tmp \in [ProbeSet -> Contents] /\ invalid \in [ProbeSet -> 0..MaxRuns]
         /\ result \in [ProbeSet -> Contents] /\ records \in Seq(Record)
         /\ count.total \in Nat /\ count.pass \in Nat /\ count.fail \in Nat /\ count.skip \in Nat
<1>1. i \in 1..Len(Probes)
  BY DEF TypeOK
<1>2. i \in Nat /\ i >= 1 /\ p \in ProbeSet
  BY <1>1, ProbeFacts DEF p
<1> QED
  BY <1>1, <1>2 DEF TypeOK

\* The counters, and one of them raised by one.
LEMMA CountFacts ==
  ASSUME TypeOK, NEW b \in {"total", "pass", "skip", "fail"}
  PROVE  LET c == [count EXCEPT ![b] = count[b] + 1]
         IN /\ c \in [total: Nat, pass: Nat, fail: Nat, skip: Nat]
            /\ c[b] = count[b] + 1
            /\ \A k \in {"total", "pass", "skip", "fail"} \ {b} : c[k] = count[k]
<1>1. count \in [total: Nat, pass: Nat, fail: Nat, skip: Nat]
  BY DEF TypeOK
<1> QED
  BY <1>1

\* The probe is started and ends; its output is in the temporary file.
LEMMA ProbeIInv == ASSUME IInv, Launch \/ ProbeReports \/ ProbeKilled PROVE IInv'
<1> USE DEF IInv
<1>0. \A j \in 1..(i - 1) : Probes[j] \in ProbeSet
  BY Facts, ProbeFacts
<1>1. CASE Launch
  <2> USE <1>1 DEF Launch, Go
  <2>0. /\ tmp' \in [ProbeSet -> Contents] /\ invalid' \in [ProbeSet -> 0..MaxRuns]
        /\ count' \in [total: Nat, pass: Nat, fail: Nat, skip: Nat]
    <3>1. File("none", "empty") \in Contents
      BY Facts, FileType DEF Sizes
    <3>2. 0 \in 0..MaxRuns
      BY RunsAssumption
    <3>3. count' \in [total: Nat, pass: Nat, fail: Nat, skip: Nat]
      BY CountFacts
    <3> QED
      BY <3>1, <3>2, <3>3, Facts
  <2>1. TypeOK'
    BY <2>0 DEF TypeOK
  <2>2. Counted' = Counted /\ Counted = i - 1 /\ p' = p
    BY DEF Counted, Loop, p
  <2>3. PlaceInv' /\ ExitInv'
    BY <2>2, Facts DEF PlaceInv, ExitInv, Loop
  <2>4. FlightInv'
    BY <2>2, Facts DEF FlightInv, Loop, Nothing
  <2>5. FreshInv'
    BY <1>0, <2>2, Facts DEF FreshInv, Nothing
  <2>6. count'.fail = count.fail /\ count'.pass = count.pass /\ count'.skip = count.skip
    BY DEF TypeOK
  <2>7. GreenInv' /\ BooksInv'
    BY <2>2, <2>6 DEF GreenInv, Green, Intact, BooksInv, OkOf, Loop
  <2> QED
    BY <2>1, <2>3, <2>4, <2>5, <2>7
<1>2. CASE ProbeReports
  <2> USE <1>2 DEF ProbeReports, Go
  <2>0. PICK s \in Statuses \cup {"none"}, size \in {"empty", "short", "whole"} :
          /\ size = "whole" => s # "none"
          /\ tmp' = [tmp EXCEPT ![p] = File(s, size)]
          /\ rc' \in {0, 1}
    <3>1. PICK s \in Statuses :
            /\ \E f \in {File(s, "whole"), File(s, "short"), File("none", "short"),
                         File("none", "empty")} : tmp' = [tmp EXCEPT ![p] = f]
            /\ rc' = IF s \in {"pass", "skip"} THEN 0 ELSE 1
      OBVIOUS
    <3>2. s # "none" /\ rc' \in {0, 1}
      BY <3>1 DEF Statuses
    <3>3. \/ tmp' = [tmp EXCEPT ![p] = File(s, "whole")]
          \/ tmp' = [tmp EXCEPT ![p] = File(s, "short")]
          \/ tmp' = [tmp EXCEPT ![p] = File("none", "short")]
          \/ tmp' = [tmp EXCEPT ![p] = File("none", "empty")]
      BY <3>1
    <3> QED
      BY <3>1, <3>2, <3>3
  <2>1. tmp' \in [ProbeSet -> Contents] /\ tmp'[p].by = run /\ tmp'[p].size # "part"
          /\ (tmp'[p].size = "whole" => tmp'[p].status \in Statuses)
          /\ (\A x \in ProbeSet \ {p} : tmp'[x] = tmp[x])
    BY <2>0, Facts, FileType DEF Sizes
  <2>2. TypeOK'
    BY <2>0, <2>1 DEF TypeOK
  <2>3. Counted' = Counted /\ Counted = i - 1 /\ p' = p
    BY DEF Counted, Loop, p
  <2>4. PlaceInv' /\ ExitInv'
    BY <2>3 DEF PlaceInv, ExitInv, Loop
  <2>5. FlightInv'
    BY <2>1, <2>3 DEF FlightInv, Loop
  <2>6. FreshInv'
    BY <1>0, <2>1, <2>3 DEF FreshInv
  <2>7. GreenInv' /\ BooksInv'
    BY <2>3 DEF GreenInv, Green, Intact, BooksInv, OkOf, Loop
  <2> QED
    BY <2>2, <2>4, <2>5, <2>6, <2>7
<1>3. CASE ProbeKilled
  <2> USE <1>3 DEF ProbeKilled, Go
  <2>0. PICK s \in Statuses \cup {"none"}, size \in {"empty", "part", "whole"} :
          /\ size = "whole" => s # "none"
          /\ tmp' = [tmp EXCEPT ![p] = File(s, size)]
    OBVIOUS
  <2>1. tmp' \in [ProbeSet -> Contents] /\ tmp'[p].by = run
          /\ (tmp'[p].size = "whole" => tmp'[p].status \in Statuses)
          /\ (\A x \in ProbeSet \ {p} : tmp'[x] = tmp[x])
    BY <2>0, Facts, FileType DEF Sizes
  <2>2. TypeOK'
    BY <2>1 DEF TypeOK
  <2>3. Counted' = Counted /\ Counted = i - 1 /\ p' = p
    BY DEF Counted, Loop, p
  <2>4. PlaceInv' /\ ExitInv'
    BY <2>3 DEF PlaceInv, ExitInv, Loop
  <2>5. FlightInv'
    BY <2>1, <2>3 DEF FlightInv, Loop
  <2>6. FreshInv'
    BY <1>0, <2>1, <2>3 DEF FreshInv
  <2>7. GreenInv' /\ BooksInv'
    BY <2>3 DEF GreenInv, Green, Intact, BooksInv, OkOf, Loop
  <2> QED
    BY <2>2, <2>4, <2>5, <2>6, <2>7
<1> QED
  BY <1>1, <1>2, <1>3

\* The output becomes the result, or the fallback does.
LEMMA SettleIInv == ASSUME IInv, Promote \/ SetAside \/ EmitFallback PROVE IInv'
<1> USE DEF IInv
<1>0. \A j \in 1..(i - 1) : Probes[j] \in ProbeSet
  BY Facts, ProbeFacts
<1>1. CASE Promote
  <2> USE <1>1 DEF Promote, Go
  <2>1. tmp[p] \in Contents /\ Nothing \in Contents /\ tmp[p].by = run
          /\ tmp[p].status \in Statuses /\ (rc = 0 => Intact(tmp[p]))
    <3>1. tmp[p] \in Contents /\ Nothing \in Contents
      BY Facts, FileType DEF Sizes
    <3>2. tmp[p].status \in Statuses
      BY <3>1 DEF FlightInv, Accepted, Contents
    <3>3. rc = 0 => Intact(tmp[p])
      BY DEF FlightInv, Accepted, Intact
    <3> QED
      BY <3>1, <3>2, <3>3 DEF FlightInv
  <2>2. /\ tmp' \in [ProbeSet -> Contents] /\ tmp'[p] = Nothing
        /\ \A x \in ProbeSet \ {p} : tmp'[x] = tmp[x]
        /\ result' \in [ProbeSet -> Contents] /\ result'[p] = tmp[p]
        /\ \A x \in ProbeSet \ {p} : result'[x] = result[x]
    BY <2>1, Facts
  <2>3. TypeOK'
    BY <2>1, <2>2 DEF TypeOK
  <2>4. Counted' = Counted /\ Counted = i - 1 /\ p' = p
    BY DEF Counted, Loop, p
  <2>5. PlaceInv' /\ ExitInv'
    BY <2>4 DEF PlaceInv, ExitInv, Loop
  <2>6. FlightInv'
    BY <2>1, <2>2, <2>4 DEF FlightInv, Intact, Loop
  <2>7. FreshInv'
    BY <1>0, <2>1, <2>2, <2>4 DEF FreshInv
  <2>8. GreenInv'
    BY <1>0, <2>2, <2>4 DEF GreenInv, Green, Intact
  <2>9. BooksInv'
    BY <2>4 DEF BooksInv, OkOf, Loop
  <2> QED
    BY <2>3, <2>5, <2>6, <2>7, <2>8, <2>9
<1>2. CASE SetAside
  <2> USE <1>2 DEF SetAside, Go
  <2>1. /\ tmp[p] \in Contents /\ Nothing \in Contents /\ tmp[p].by = run
        /\ File("none", "part") \in Contents /\ File("none", "part").by = run
    BY Facts, FileType DEF Sizes, FlightInv
  <2>2. /\ tmp' \in [ProbeSet -> Contents] /\ tmp'[p] = Nothing
        /\ \A x \in ProbeSet \ {p} : tmp'[x] = tmp[x]
        /\ result' \in [ProbeSet -> Contents] /\ result'[p].by = run
        /\ \A x \in ProbeSet \ {p} : result'[x] = result[x]
    BY <2>1, Facts
  <2>3. /\ invalid' \in [ProbeSet -> 0..MaxRuns] /\ invalid'[p] \in {0, run}
        /\ \A x \in ProbeSet \ {p} : invalid'[x] = invalid[x]
    BY <2>1, Facts DEF FlightInv, Loop
  <2>4. TypeOK'
    BY <2>2, <2>3 DEF TypeOK
  <2>5. Counted' = Counted /\ Counted = i - 1 /\ p' = p
    BY DEF Counted, Loop, p
  <2>6. PlaceInv' /\ ExitInv'
    BY <2>5 DEF PlaceInv, ExitInv, Loop
  <2>7. FlightInv'
    BY <2>2, <2>3, <2>5 DEF FlightInv, Loop
  <2>8. FreshInv'
    BY <1>0, <2>2, <2>3, <2>5 DEF FreshInv
  <2>9. GreenInv'
    BY <1>0, <2>2, <2>5 DEF GreenInv, Green, Intact
  <2>10. BooksInv'
    BY <2>5 DEF BooksInv, OkOf, Loop
  <2> QED
    BY <2>4, <2>6, <2>7, <2>8, <2>9, <2>10
<1>3. CASE EmitFallback
  <2> USE <1>3 DEF EmitFallback, Go
  <2>1. LET f == File("probe_failure", "whole")
        IN f \in Contents /\ f.by = run /\ f.status = "probe_failure" /\ f.size = "whole"
    BY Facts, FileType DEF Sizes, Statuses
  <2>2. /\ result' \in [ProbeSet -> Contents] /\ result'[p] = File("probe_failure", "whole")
        /\ \A x \in ProbeSet \ {p} : result'[x] = result[x]
    BY <2>1, Facts
  <2>3. TypeOK'
    BY <2>2 DEF TypeOK, Statuses
  <2>4. Counted' = Counted /\ Counted = i - 1 /\ p' = p
    BY DEF Counted, Loop, p
  <2>5. PlaceInv' /\ ExitInv'
    BY <2>4 DEF PlaceInv, ExitInv, Loop
  <2>6. FlightInv'
    BY <2>1, <2>2, <2>4 DEF FlightInv, Intact, Loop, Statuses
  <2>7. FreshInv'
    BY <1>0, <2>1, <2>2, <2>4 DEF FreshInv
  <2>8. GreenInv'
    BY <1>0, <2>2, <2>4 DEF GreenInv, Green, Intact
  <2>9. BooksInv'
    BY <2>4 DEF BooksInv, OkOf, Loop
  <2> QED
    BY <2>3, <2>5, <2>6, <2>7, <2>8, <2>9
<1> QED
  BY <1>1, <1>2, <1>3

\* The run record: ok exactly for a clean exit with a pass or a skip.
LEMMA RecordIInv == ASSUME IInv, AppendRecord PROVE IInv'
<1> USE DEF IInv
<1> DEFINE good == rc = 0 /\ status \in {"pass", "skip"}
           rec == [probe |-> p, result |-> status, rc |-> rc, ok |-> good]
<1>0. /\ pc = "record" /\ pc' = "count"
      /\ records' = IF host.records THEN Append(records, rec) ELSE records
      /\ UNCHANGED <<host, run, i, env, tmp, invalid, result, count, rc, status, exit>>
  BY DEF AppendRecord, Go
<1>1. good \in BOOLEAN
  OBVIOUS
<1>2. rec.ok = good
  BY <1>1, Zenon
<1>3. rec \in Record
  <2>1. p \in ProbeSet \cup {"runner_summary"} /\ status \in Statuses \cup {"ok"} /\ rc \in {0, 1, 124}
    BY <1>0, Facts DEF FlightInv, TypeOK
  <2> HIDE DEF good
  <2> QED
    BY <2>1, <1>1 DEF Record
<1> HIDE DEF rec
<1>4. Counted' = Counted /\ Counted = i - 1 /\ p' = p /\ (host.records => Len(records) = i - 1)
  BY <1>0 DEF Counted, Loop, p, PlaceInv
<1>5. /\ records' \in Seq(Record)
      /\ host.records => Len(records') = i /\ records'[i] = rec
  BY <1>0, <1>3, <1>4, Facts
<1>6. TypeOK'
  BY <1>0, <1>5 DEF TypeOK
<1>7. PlaceInv' /\ ExitInv'
  BY <1>0, <1>4, <1>5 DEF PlaceInv, ExitInv, Loop
<1>8. FlightInv' /\ FreshInv' /\ GreenInv'
  BY <1>0, <1>4 DEF FlightInv, FreshInv, GreenInv, Green, Intact, Loop
<1>9. BooksInv'
  <2>0. SUFFICES ASSUME host.records
                 PROVE  BooksInv'
    BY <1>0 DEF BooksInv
  <2>1. OkOf(records', Counted') = OkOf(records, Counted)
    <3>1. Counted \in 0..Len(records)
      BY <1>4, <2>0, Facts
    <3> QED
      BY <1>0, <1>4, <2>0, <3>1, OkAppend, Facts
  <2>2. records'[i].ok <=> good
    BY <1>2, <1>5, <2>0, Zenon
  <2>3. good' <=> good
    BY <1>0
  <2>4. i' = i
    BY <1>0
  <2>5. /\ count'.pass + count'.skip = Cardinality(OkOf(records', Counted'))
        /\ count'.fail = Counted' - Cardinality(OkOf(records', Counted'))
    BY <1>0, <1>4, <2>0, <2>1 DEF BooksInv, Loop
  <2> HIDE DEF good
  <2>6. records'[i'].ok <=> good'
    BY <2>2, <2>3, <2>4, Zenon
  <2> QED
    BY <2>5, <2>6, Zenon DEF BooksInv, good
<1> QED
  BY <1>6, <1>7, <1>8, <1>9

\* The probe is counted, under "pass", "skip" or "fail".
LEMMA CountIInv == ASSUME IInv, CountProbe PROVE IInv'
<1> USE DEF IInv
<1>0. /\ pc = "count" /\ count' = [count EXCEPT ![Bucket] = count[Bucket] + 1]
      /\ UNCHANGED <<host, run, env, tmp, invalid, result, records, rc, status, exit>>
      /\ \/ i < Len(Probes) /\ i' = i + 1 /\ pc' = "launch"
         \/ i = Len(Probes) /\ i' = i /\ pc' = "finish"
  BY Facts, ProbeFacts DEF CountProbe, files
<1>1. Counted = i - 1 /\ Counted' = i /\ (host.records => Len(records) = i) /\ count.total = i
  BY <1>0, Facts DEF Counted, Loop, PlaceInv
<1>2. Bucket \in {"pass", "skip", "fail"}
  BY DEF Bucket
<1>3. count' \in [total: Nat, pass: Nat, fail: Nat, skip: Nat] /\ count'.total = count.total
  BY <1>0, <1>2, CountFacts
<1>4. /\ Bucket # "fail" => count'.pass + count'.skip = count.pass + count.skip + 1
                             /\ count'.fail = count.fail
      /\ Bucket = "fail" => count'.pass = count.pass /\ count'.skip = count.skip
                            /\ count'.fail = count.fail + 1
  <2>1. /\ count'[Bucket] = count[Bucket] + 1
        /\ \A k \in {"total", "pass", "skip", "fail"} \ {Bucket} : count'[k] = count[k]
    BY <1>0, <1>2, CountFacts
  <2>2. /\ count.pass \in Nat /\ count.fail \in Nat /\ count.skip \in Nat
    BY Facts
  <2>3. CASE Bucket = "fail"
    BY <2>1, <2>2, <2>3
  <2>4. CASE Bucket = "pass"
    BY <2>1, <2>2, <2>4
  <2>5. CASE Bucket = "skip"
    BY <2>1, <2>2, <2>5
  <2> QED
    BY <1>2, <2>3, <2>4, <2>5
<1>5. TypeOK'
  BY <1>0, <1>3, Facts, ProbeFacts DEF TypeOK
<1>6. PlaceInv' /\ ExitInv'
  <2>1. ExitInv'
    BY <1>0 DEF ExitInv
  <2>2. records' = records /\ host' = host /\ count'.total = i
    BY <1>0, <1>1, <1>3
  <2>3. CASE i < Len(Probes) /\ i' = i + 1 /\ pc' = "launch"
    <3>1. count'.total = i' - 1
      BY <2>2, <2>3, Facts
    <3> QED
      BY <1>1, <2>1, <2>2, <2>3, <3>1 DEF PlaceInv, Loop
  <2>4. CASE i = Len(Probes) /\ i' = i /\ pc' = "finish"
    BY <1>1, <2>1, <2>2, <2>4 DEF PlaceInv, Loop
  <2> QED
    BY <1>0, <2>3, <2>4
<1>7. FlightInv'
  BY <1>0 DEF FlightInv, Loop
<1>8. \A j \in 1..i : j \in 1..(i - 1) \/ Probes[j] = p
  BY Facts DEF p
<1>9. FreshInv'
  BY <1>0, <1>1, <1>8 DEF FreshInv, FlightInv, Loop
<1>10. GreenInv'
  <2>1. SUFFICES ASSUME count'.fail = 0, NEW j \in 1..i PROVE Green(result[Probes[j]])
    BY <1>0, <1>1 DEF GreenInv, Green, Intact
  <2>2. Bucket # "fail" /\ count.fail = 0
    BY <1>4, <2>1, Facts
  <2>3. Green(result[p])
    BY <1>0, <2>2 DEF Bucket, FlightInv, Green, Intact
  <2> QED
    BY <1>0, <1>1, <1>8, <2>2, <2>3 DEF GreenInv
<1>11. BooksInv'
  <2>0. SUFFICES ASSUME host.records
                 PROVE  BooksInv'
    BY <1>0 DEF BooksInv
  <2>1. i - 1 \in Nat /\ (i - 1) + 1 = i
    BY Facts
  <2>2. records[i].ok <=> Bucket # "fail"
    <3>1. records[i].ok <=> rc = 0 /\ status \in {"pass", "skip"}
      BY <1>0, <2>0 DEF BooksInv
    <3>2. Bucket # "fail" <=> rc = 0 /\ status \in {"pass", "skip"}
      BY DEF Bucket
    <3> QED
      BY <3>1, <3>2, Zenon
  <2>3. /\ records[i].ok => Cardinality(OkOf(records, i)) = Cardinality(OkOf(records, i - 1)) + 1
        /\ ~records[i].ok => Cardinality(OkOf(records, i)) = Cardinality(OkOf(records, i - 1))
    <3>1. /\ records[(i - 1) + 1].ok => Cardinality(OkOf(records, (i - 1) + 1)) = Cardinality(OkOf(records, i - 1)) + 1
          /\ ~records[(i - 1) + 1].ok => Cardinality(OkOf(records, (i - 1) + 1)) = Cardinality(OkOf(records, i - 1))
      BY <2>1, OkStep
    <3> QED
      BY <2>1, <3>1
  <2>4. /\ Bucket # "fail" => Cardinality(OkOf(records, i)) = Cardinality(OkOf(records, i - 1)) + 1
        /\ Bucket = "fail" => Cardinality(OkOf(records, i)) = Cardinality(OkOf(records, i - 1))
    BY <2>2, <2>3, Zenon
  <2>5. /\ count.pass + count.skip = Cardinality(OkOf(records, i - 1))
        /\ count.fail = (i - 1) - Cardinality(OkOf(records, i - 1))
        /\ Cardinality(OkOf(records, i - 1)) \in Nat
    BY <1>0, <1>1, <2>0, <2>1, OkFinite DEF BooksInv, Loop
  <2>6. /\ count'.pass + count'.skip = Cardinality(OkOf(records, i))
        /\ count'.fail = i - Cardinality(OkOf(records, i))
    BY <1>2, <1>4, <2>1, <2>4, <2>5, Facts
  <2> QED
    BY <1>0, <1>1, <2>6 DEF BooksInv
<1> QED
  BY <1>5, <1>6, <1>7, <1>9, <1>10, <1>11

\* The summary record and the exit code.
LEMMA FinishIInv == ASSUME IInv, Finish PROVE IInv'
<1> USE DEF IInv
<1>0. /\ pc = "finish" /\ pc' = "exited"
      /\ records' = IF host.records THEN Append(records, Summary) ELSE records
      /\ exit' = IF count.fail = 0 THEN 0 ELSE 1
      /\ UNCHANGED <<host, run, i, env, tmp, invalid, result, count, rc, status>>
  BY DEF Finish, Go
<1>1. Summary \in Record
  BY DEF Summary, Record
<1>2. count.total = Len(Probes) /\ (host.records => Len(records) = Len(Probes))
        /\ Counted = Len(Probes) /\ Counted' = Len(Probes)
  BY <1>0, ProbeFacts DEF PlaceInv, Counted, Loop
<1>3. records' \in Seq(Record) /\ (host.records => Len(records') = Len(Probes) + 1)
  BY <1>0, <1>1, <1>2, Facts
<1>4. TypeOK'
  BY <1>0, <1>3 DEF TypeOK
<1>5. PlaceInv' /\ ExitInv'
  BY <1>0, <1>2, <1>3, ProbeFacts DEF PlaceInv, ExitInv, Loop
<1>6. FlightInv' /\ FreshInv' /\ GreenInv'
  BY <1>0, <1>2 DEF FlightInv, FreshInv, GreenInv, Green, Intact, Loop
<1>7. BooksInv'
  <2>1. host.records => OkOf(records', Counted') = OkOf(records, Counted)
    BY <1>0, <1>2, OkAppend, Facts, ProbeFacts
  <2> QED
    BY <1>0, <1>2, <2>1 DEF BooksInv
<1> QED
  BY <1>4, <1>5, <1>6, <1>7

-----------------------------------------------------------------------------
(* The theorems.                                                           *)

\* The invariant holds through any number of invocations, interrupted anywhere.
THEOREM Invariance == Spec => []IInv
<1>1. IInv /\ [Next]_vars => IInv'
  <2> SUFFICES ASSUME IInv, [Next]_vars PROVE IInv'
    OBVIOUS
  <2>1. CASE UNCHANGED vars
    BY <2>1 DEF vars, IInv, TypeOK, PlaceInv, ExitInv, FlightInv, FreshInv, GreenInv, Green, Intact, BooksInv,
                Counted, OkOf, p
  <2>2. CASE Over
    BY <2>1, <2>2 DEF Over
  <2> QED
    BY <2>1, <2>2, BeginIInv, ProbeIInv, SettleIInv, RecordIInv, CountIInv, FinishIInv
       DEF Next, ShellStep, ProbeStep
<1> QED
  BY <1>1, InitIInv, PTL DEF Spec

\* Files, records and counters are well formed, for any list of probes.
THEOREM TypeCorrect == Spec => []TypeOK
<1>1. IInv => TypeOK
  BY DEF IInv
<1> QED
  BY <1>1, Invariance, PTL

\* Exit code 0 of run_all.sh (552-612) means a fresh and green result file for every
\* probe, written by a probe that ended by itself, and whole unless its end was lost
\* behind the probe's back on a host without python3.
THEOREM ExitZero == Spec => []ZeroMeansGreen
<1>1. IInv => ZeroMeansGreen
  <2> SUFFICES ASSUME IInv, exit = 0, NEW x \in ProbeSet
               PROVE  result[x].by = run /\ Green(result[x])
    BY DEF ZeroMeansGreen, Green
  <2>1. pc = "exited" /\ count.total > 0 /\ count.fail = 0 /\ Counted = Len(Probes)
    BY DEF IInv, ExitInv, Counted, Loop
  <2>2. PICK j \in 1..Len(Probes) : x = Probes[j]
    BY DEF ProbeSet
  <2> QED
    BY <2>1, <2>2 DEF IInv, FreshInv, GreenInv
<1> QED
  BY <1>1, Invariance, PTL

\* A completed invocation owns every result, whatever earlier ones left (561-590).
THEOREM FreshResults == Spec => []CompletedIsFresh
<1>1. IInv => CompletedIsFresh
  <2> SUFFICES ASSUME IInv, Completed, NEW x \in ProbeSet
               PROVE  result[x].by = run /\ tmp[x] = Nothing /\ invalid[x] \in {0, run}
    BY DEF CompletedIsFresh
  <2>1. pc = "exited" /\ Counted = Len(Probes)
    BY ProbeFacts DEF Completed, Counted, Loop
  <2>2. PICK j \in 1..Len(Probes) : x = Probes[j]
    BY DEF ProbeSet
  <2> QED
    BY <2>1, <2>2 DEF IInv, FreshInv
<1> QED
  BY <1>1, Invariance, PTL

\* Counters, run records and exit code agree wherever records are kept (396-441, 594-612).
THEOREM BalancedBooks == Spec => []BooksBalance
<1>1. IInv => BooksBalance
  <2> SUFFICES ASSUME IInv, Completed, host.records
               PROVE  /\ Len(records) = Len(Probes) + 1
                      /\ count.pass + count.skip = Cardinality(OkOf(records, Len(Probes)))
                      /\ count.fail = Len(Probes) - Cardinality(OkOf(records, Len(Probes)))
                      /\ exit = 0 <=> OkOf(records, Len(Probes)) = 1..Len(Probes)
    BY Zenon DEF BooksBalance, OkOf
  <2>1. pc = "exited" /\ Counted = Len(Probes) /\ count.total > 0
    BY ProbeFacts DEF Completed, Counted, Loop
  <2>2. Len(records) = Len(Probes) + 1
    BY <2>1 DEF IInv, PlaceInv
  <2>3. /\ count.pass + count.skip = Cardinality(OkOf(records, Len(Probes)))
        /\ count.fail = Len(Probes) - Cardinality(OkOf(records, Len(Probes)))
    BY <2>1 DEF IInv, BooksInv
  <2>4. /\ Cardinality(OkOf(records, Len(Probes))) \in Nat
        /\ Cardinality(OkOf(records, Len(Probes))) = Len(Probes)
             <=> OkOf(records, Len(Probes)) = 1..Len(Probes)
    BY OkFinite, ProbeFacts
  <2>5. exit = 0 <=> count.fail = 0
    BY <2>1 DEF IInv, ExitInv
  <2> QED
    BY <2>2, <2>3, <2>4, <2>5, ProbeFacts
<1> QED
  BY <1>1, Invariance, PTL

\* A result file changes only while its own probe is settled, so a refused or
\* interrupted invocation leaves the results of a completed one alone (561-590).
THEOREM RefusalKeepsResults == Spec => ResultsSurviveRefusal
<1> DEFINE Kept == \A x \in ProbeSet : result'[x] # result[x] =>
                     pc \in {"settle", "fallback"} /\ x = p /\ result'[x].by = run
<1>1. IInv /\ [Next]_vars => [Kept]_vars
  <2> SUFFICES ASSUME IInv, Next PROVE Kept
    OBVIOUS
  <2> USE DEF IInv
  <2>1. CASE Promote
    BY <2>1, Facts DEF Promote, Go, FlightInv
  <2>2. CASE SetAside
    BY <2>2, Facts, FileType DEF SetAside, Go, Sizes
  <2>3. CASE EmitFallback
    BY <2>3, Facts, FileType DEF EmitFallback, Go, Sizes, Statuses
  <2>4. CASE result' = result
    BY <2>4
  <2>5. Promote \/ SetAside \/ EmitFallback \/ result' = result
    BY DEF Next, ShellStep, ProbeStep, Start, Collect, Gate, Launch, ProbeReports, ProbeKilled, AppendRecord,
           CountProbe, Finish, Interrupted, Over, files, vars
  <2> QED
    BY <2>1, <2>2, <2>3, <2>4, <2>5
<1> QED
  BY <1>1, Invariance, PTL DEF Spec, ResultsSurviveRefusal
================================================================================
