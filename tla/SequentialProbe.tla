--------------------------- MODULE SequentialProbe ---------------------------
(***************************************************************************)
(* The probes that run in one process: the header accounting probes (m1),  *)
(* the double-move, dead-name and invalid-disposition probes (m2) and the  *)
(* ten foundation probes.  Each is a fixed list of kernel calls, every one *)
(* made only if the calls it needs succeeded, whose return codes start out *)
(* as failures, and a chain of tests over what the calls returned.         *)
(*                                                                         *)
(* A probe is modelled by the list of its calls, <Probe>Steps, and by its  *)
(* chain, <Probe>Judge; the actions run any such list against a kernel     *)
(* that deviates from the contract in at most one call.                    *)
(*                                                                         *)
(* The m1, m2 and port_* probes also capture `after' once at their start,  *)
(* only to free it before they capture it again: that is left out.         *)
(***************************************************************************)
EXTENDS NxBaseline, Integers, Sequences, FiniteSets

CONSTANT MaxFails   \* bound on kernel calls that fail

ASSUME FailsAssumption == MaxFails \in Nat

VARIABLES probe,    \* the probe that runs
          names,    \* mach_port_names: "ok", or "gap" (KERN_NOT_SUPPORTED)
          dev,      \* the one call in which the kernel deviates, and how
          fails,    \* kernel calls that may still fail
          pc,       \* the next step of the probe
          obs,      \* what each call returned: the probe's locals
          own,      \* the rights and the queue under each name of the task
          verdict   \* what the probe reports

vars == <<probe, names, dev, fails, pc, obs, own, verdict>>

-----------------------------------------------------------------------------
(* Kernel calls and what they return.                                      *)

\* "err" is a failure of no interest, "absent" KERN_INVALID_NAME or _RIGHT.
Codes == {"ok", "gap", "err", "absent", "timed_out", "invalid_right"}
Types == {"zero", "send", "receive", "send_receive", "set", "dead", "msg", "other"}
Names == {"service", "cargo", "set", "source", "delivered", "free", "service2", "host",
          "self", "phantom"}

\* What the task holds under a name: rights, and the messages queued there with
\* the rights they carry.  "send" counts the user references of a dead name too.
Rights == [right: {"none", "receive", "member", "set", "dead"}, send: Nat,
           msgs: Nat, carried: Nat]
Nothing == [right |-> "none", send |-> 0, msgs |-> 0, carried |-> 0]

Observation == [kr: Codes, refs: Nat, type: Types, snap: SUBSET (Names \X Types)]
Saw(kr, refs, type) == [kr |-> kr, refs |-> refs, type |-> type, snap |-> {}]
Unasked == Saw("err", 0, "zero")

Exists(o) == o.right # "none" \/ o.send > 0

TypeOf(o) ==
  CASE o.right \in {"receive", "member"} -> IF o.send > 0 THEN "send_receive" ELSE "receive"
    [] o.right = "none"                  -> IF o.send > 0 THEN "send" ELSE "zero"
    [] OTHER                             -> o.right

\* What mach_port_names lists.
Listing == {<<n, TypeOf(own[n])>> : n \in {m \in Names : Exists(own[m])}}

\* One call: its label, what is called on which name, and the calls that must
\* have succeeded for it to be made.
Do(as, call, on, needs) == [as |-> as, call |-> call, on |-> on, needs |-> needs]

Ok(l) == obs[l].kr = "ok"
Absent(l) == obs[l].kr = "absent"
AllOk(ls) == \A l \in ls : Ok(l)

\* How a kernel may deviate in a call: it reports something else or accepts what
\* it must refuse ("lie"), reports success and does nothing ("skip"), does more
\* than it should ("over"), or loses the message ("lost").
Deviations(call) ==
  CASE call \in {"capture", "type", "refs", "refs_recv", "refs_dead", "ask", "status",
                 "refuse", "receive", "send_free"} -> {"lie"}
    [] call = "capture_during"                     -> {"lie", "skip"}
    [] call \in {"insert", "mod_plus", "dealloc"}  -> {"skip", "over"}
    [] call \in {"alloc", "alloc_set", "alloc_dead", "mod_minus", "drop", "destroy",
                 "move_in", "move_out"}            -> {"skip"}
    [] call = "host_self"                          -> {"over"}
    [] call = "send_copy"                          -> {"lost", "over"}
    [] call \in {"send_move", "send_dead"}         -> {"lost", "skip"}
    [] call = "send_double"                        -> {"lost", "over"}
    [] call = "send_invalid"                       -> {"lie", "over"}
    [] call \in {"receive_back", "receive_cargo", "receive_dead"} -> {"lie", "over"}
    [] OTHER                                       -> {}

-----------------------------------------------------------------------------
(* Verdicts.                                                               *)

Is(status, class) == [status |-> status, class |-> class]
ProbeFailure == Is("probe_failure", "probe_failure")
Accuse == Is("fail", "exact_contract")
Unclean == Is("fail", "probe_failure")
Pass == Is("pass", "exact_contract")
NoVerdict == Is("none", "none")
Verdicts == {ProbeFailure, Accuse, Unclean, Pass, NoVerdict}

BaselineOk(before, after) ==
  BaselineCompare(obs[before].kr, obs[after].kr, obs[before].snap = obs[after].snap)

\* The end of the chain in the m1 and m2 probes and three of the foundation
\* probes: the destroys, the final baseline, and its comparison.
JudgeEnd(destroys) ==
  IF ~AllOk(destroys) THEN Unclean
  ELSE IF Blocks(obs["after"].kr) THEN ProbeFailure
  ELSE IF ~BaselineOk("before", "after") THEN Accuse
  ELSE Pass

\* Mutant of JudgeEndBare: the comparison is made and its result not used.
JudgeEndUncompared(destroys) == IF ~AllOk(destroys) THEN Unclean ELSE Pass

\* The other foundation probes never ask nx_baseline_blocks_probe.
JudgeEndBare(destroys) ==
  IF ~AllOk(destroys) THEN Unclean
  ELSE IF ~BaselineOk("before", "after") THEN Accuse
  ELSE Pass

-----------------------------------------------------------------------------
(* m1: COPY_SEND and MOVE_SEND in the message header.                      *)

HeaderSteps(send, receive, more) ==
  <<Do("before", "capture", "self", {}),
    Do("alloc", "alloc", "service", {}),
    Do("insert", "insert", "service", {"alloc"}),
    Do("refs_before", "refs", "service", {"insert"}),
    Do("type_before", "type", "service", {"insert"}),
    Do("send", send, "service", {"refs_before", "type_before"}),
    Do("refs_sent", "refs", "service", {"send"}),
    Do("type_sent", "type", "service", {"send"}),
    Do("receive", receive, "service", {"send"}),
    Do("refs_received", "refs", "service", {"send"}),
    Do("type_received", "type", "service", {"send"})>>
  \o more \o
  <<Do("destroy", "destroy", "service", {"alloc"}),
    Do("after", "capture", "self", {})>>

HeaderCopySteps == HeaderSteps("send_copy", "receive", <<>>)

HeaderMoveSteps ==
  HeaderSteps("send_move", "receive_back",
    <<Do("use_send", "send_copy", "service", {"refs_received", "type_received"}),
      Do("use_receive", "receive", "service", {"use_send"}),
      Do("use_refs", "refs", "service", {"refs_received", "type_received"})>>)

\* send_refs_before_exact and type_before_exact, of both probes.
OneSendRight ==
  /\ Ok("refs_before") /\ obs["refs_before"].refs = 1
  /\ Ok("type_before") /\ obs["type_before"].type = "send_receive"

HeaderCopyJudge ==
  IF Blocks(obs["before"].kr) \/ ~AllOk({"alloc", "insert"}) THEN ProbeFailure
  ELSE IF ~OneSendRight THEN Accuse
  ELSE IF ~Ok("send") THEN ProbeFailure
  ELSE IF ~(/\ Ok("refs_sent") /\ obs["refs_sent"].refs = obs["refs_before"].refs
            /\ Ok("type_sent") /\ obs["type_sent"].type = "send_receive") THEN Accuse
  ELSE IF ~Ok("receive") THEN ProbeFailure
  ELSE IF obs["receive"].type # "msg" THEN Accuse
  ELSE IF ~Ok("refs_received") THEN ProbeFailure
  ELSE IF ~(Ok("type_received") /\ obs["type_received"].type = "send_receive") THEN Accuse
  ELSE JudgeEnd({"destroy"})

HasSend(type) == type \in {"send", "send_receive"}

\* usability_attempted: the right that came back is tried out.
UsabilityAttempted ==
  /\ AllOk({"refs_received", "type_received"})
  /\ obs["refs_received"].refs > 0 /\ HasSend(obs["type_received"].type)

\* after_receive_type_consistent
TypeMatchesRefs ==
  obs["type_received"].type =
    IF obs["refs_received"].refs = 0 THEN "receive" ELSE "send_receive"

HeaderMoveJudge ==
  IF Blocks(obs["before"].kr) \/ ~AllOk({"alloc", "insert"}) THEN ProbeFailure
  ELSE IF ~OneSendRight THEN Accuse
  ELSE IF ~Ok("send") THEN ProbeFailure
  ELSE IF ~(/\ Ok("refs_sent") /\ obs["refs_sent"].refs = 0
            /\ Ok("type_sent") /\ obs["type_sent"].type = "receive") THEN Accuse
  ELSE IF ~Ok("receive") THEN ProbeFailure
  ELSE IF obs["receive"].type # "msg" THEN Accuse
  ELSE IF ~AllOk({"refs_received", "type_received"}) THEN ProbeFailure
  ELSE IF obs["refs_received"].refs > 1 \/ ~TypeMatchesRefs THEN Accuse
  ELSE IF UsabilityAttempted /\ ~AllOk({"use_send", "use_receive"}) THEN Accuse
  ELSE JudgeEnd({"destroy"})

-----------------------------------------------------------------------------
(* m2: two MOVE_SEND descriptors of one reference, a dead and a            *)
(* nonexistent source, a disposition that does not exist.                  *)

CargoSetup ==
  <<Do("before", "capture", "self", {}),
    Do("alloc", "alloc", "service", {}),
    Do("insert", "insert", "service", {"alloc"}),
    Do("alloc_cargo", "alloc", "cargo", {"insert"}),
    Do("insert_cargo", "insert", "cargo", {"alloc_cargo"})>>

CargoCleanup ==
  <<Do("destroy_cargo", "destroy", "cargo", {"alloc_cargo"}),
    Do("destroy", "destroy", "service", {"alloc"}),
    Do("after", "capture", "self", {})>>

DoubleMoveSteps ==
  CargoSetup \o
  <<Do("type_before", "type", "cargo", {"insert_cargo"}),
    Do("refs_before", "refs", "cargo", {"insert_cargo"}),
    Do("send", "send_double", "service", {"type_before", "refs_before"}),
    Do("type_sent", "type", "cargo", {}),
    Do("refs_sent", "refs", "cargo", {}),
    Do("receive", "receive_cargo", "service", {"alloc"}),
    Do("first", "drop", "cargo", {"receive"}),
    Do("second", "drop", "cargo", {"receive"}),
    Do("type_received", "type", "cargo", {}),
    Do("refs_received", "refs", "cargo", {})>>
  \o CargoCleanup

\* Mutant of DoubleMoveJudge: a message may come of a rejected send.
DoubleMoveJudgeIncoherent ==
  IF \/ Blocks(obs["before"].kr)
     \/ ~AllOk({"alloc", "insert", "alloc_cargo", "insert_cargo", "type_before",
                "refs_before"}) THEN ProbeFailure
  ELSE JudgeEnd({"destroy_cargo", "destroy"})

\* Accepted or rejected, the message must be there exactly if it was accepted.
DoubleMoveJudge ==
  IF \/ Blocks(obs["before"].kr)
     \/ ~AllOk({"alloc", "insert", "alloc_cargo", "insert_cargo", "type_before",
                "refs_before"}) THEN ProbeFailure
  ELSE IF ~(IF Ok("send") THEN Ok("receive") ELSE obs["receive"].kr = "timed_out")
       THEN Accuse
  ELSE JudgeEnd({"destroy_cargo", "destroy"})

\* run_case for the dead name, and then for a name that does not exist.
DeadCase ==
  <<Do("before", "capture", "self", {}),
    Do("alloc", "alloc", "service", {}),
    Do("insert", "insert", "service", {"alloc"}),
    Do("alloc_dead", "alloc_dead", "source", {"insert"}),
    Do("type_before", "type", "source", {"alloc_dead"}),
    Do("refs_before", "refs_dead", "source", {"alloc_dead"}),
    Do("send", "send_dead", "service", {"alloc_dead"}),
    Do("type_after", "type", "source", {"alloc_dead"}),
    Do("refs_after", "refs_dead", "source", {"alloc_dead"}),
    Do("receive", "receive_dead", "service", {"alloc"}),
    Do("first", "drop", "delivered", {"receive"}),
    Do("dealloc_source", "drop_gone", "source", {"alloc_dead"}),
    Do("destroy", "destroy", "service", {"alloc"}),
    Do("after", "capture", "self", {})>>

\* "free" is the name find_nonexistent_name settles on.  If the kernel delivers a right
\* for it after all, the case has failed, and whether the delivered name is then given
\* back (252-255) changes no verdict.
NonexistentCase ==
  <<Do("before2", "capture", "self", {}),
    Do("alloc2", "alloc", "service2", {}),
    Do("insert2", "insert", "service2", {"alloc2"}),
    Do("type_before2", "type", "free", {"insert2"}),
    Do("refs_before2", "refs", "free", {"insert2"}),
    Do("send2", "send_free", "service2", {"insert2"}),
    Do("type_after2", "type", "free", {"insert2"}),
    Do("refs_after2", "refs", "free", {"insert2"}),
    Do("receive2", "receive", "service2", {"alloc2"}),
    Do("destroy2", "destroy", "service2", {"alloc2"}),
    Do("after2", "capture", "self", {})>>

DeadNameSteps == DeadCase \o NonexistentCase

\* case_dead_name_consumed_and_delivered.  "absent" stands for KERN_INVALID_NAME, which
\* the code asks for here, and for KERN_INVALID_RIGHT, which it takes elsewhere too.
ConsumedAndDelivered ==
  /\ Ok("type_before") /\ obs["type_before"].type = "dead"
  /\ Ok("refs_before") /\ obs["refs_before"].refs = 1
  /\ Ok("send") /\ Absent("type_after") /\ Absent("refs_after")
  /\ Ok("receive") /\ obs["receive"].refs = 1 /\ Ok("first") /\ Absent("dealloc_source")

\* case_nonexistent_rejected
NonexistentRejected ==
  /\ Absent("type_before2") /\ Absent("refs_before2")
  /\ obs["send2"].kr = "invalid_right"
  /\ Absent("type_after2") /\ Absent("refs_after2")
  /\ obs["receive2"].kr = "timed_out"

\* case_ok, of either case.
CaseOk(before, calls, contract, after) ==
  /\ ~Blocks(obs[before].kr) /\ AllOk(calls) /\ contract
  /\ ~Blocks(obs[after].kr) /\ BaselineOk(before, after)

\* Whatever fails, setup included, is FAIL / exact_contract.
DeadNameJudge ==
  IF /\ CaseOk("before", {"alloc", "insert", "alloc_dead", "destroy"},
               ConsumedAndDelivered, "after")
     /\ CaseOk("before2", {"alloc2", "insert2", "destroy2"}, NonexistentRejected, "after2")
  THEN Pass ELSE Accuse

InvalidDispositionSteps ==
  CargoSetup \o
  <<Do("service_before", "refs", "service", {"insert_cargo"}),
    Do("refs_before", "refs", "cargo", {"insert_cargo"}),
    Do("type_before", "type", "cargo", {"insert_cargo"}),
    Do("send", "send_invalid", "service", {"service_before", "refs_before", "type_before"}),
    Do("service_after", "refs", "service", {}),
    Do("refs_after", "refs", "cargo", {}),
    Do("type_after", "type", "cargo", {}),
    Do("receive", "receive_cargo", "service", {"alloc"}),
    Do("first", "drop", "cargo", {"receive"})>>
  \o CargoCleanup

SameRefs(b, a) == Ok(b) /\ Ok(a) /\ obs[b].refs = obs[a].refs
SameType(b, a) == Ok(b) /\ Ok(a) /\ obs[b].type = obs[a].type

InvalidDispositionJudge ==
  IF \/ Blocks(obs["before"].kr)
     \/ ~AllOk({"alloc", "insert", "alloc_cargo", "insert_cargo"}) THEN ProbeFailure
  ELSE IF \/ Ok("send") \/ obs["receive"].kr # "timed_out"
          \/ ~SameRefs("service_before", "service_after")
          \/ ~SameRefs("refs_before", "refs_after")
          \/ ~SameType("type_before", "type_after") THEN Accuse
  ELSE JudgeEnd({"destroy_cargo", "destroy"})

-----------------------------------------------------------------------------
(* Foundation probes.                                                      *)

SmokeSteps ==
  <<Do("before", "capture", "self", {}), Do("alloc", "alloc", "service", {}),
    Do("type", "type", "service", {"alloc"}), Do("refs", "refs_recv", "service", {"alloc"}),
    Do("destroy", "destroy", "service", {"alloc"}), Do("after", "capture", "self", {})>>

SmokeJudge ==
  IF ~AllOk({"alloc", "type", "refs"}) THEN ProbeFailure ELSE JudgeEndBare({"destroy"})

GetRefsSteps ==
  <<Do("before", "capture", "self", {}),
    Do("alloc", "alloc", "service", {}),
    Do("recv_initial", "refs_recv", "service", {"alloc"}),
    Do("before_make", "refs", "service", {"alloc"}),
    Do("insert", "insert", "service", {"alloc"}),
    Do("after_make", "refs", "service", {"insert"}),
    Do("plus", "mod_plus", "service", {"after_make"}),
    Do("after_plus", "refs", "service", {"plus"}),
    Do("dealloc", "dealloc", "service", {"after_plus"}),
    Do("after_dealloc", "refs", "service", {"dealloc"}),
    Do("minus", "mod_minus", "service", {"after_dealloc"}),
    Do("after_minus", "refs", "service", {"minus"}),
    Do("recv_final", "refs_recv", "service", {"alloc"}),
    Do("destroy", "destroy", "service", {"alloc"}),
    Do("after", "capture", "self", {})>>

Counted(l, n) == Ok(l) /\ obs[l].refs = n

GetRefsJudge ==
  IF Blocks(obs["before"].kr) \/ ~Ok("alloc") THEN ProbeFailure
  ELSE IF ~Counted("recv_initial", 1) \/ ~Counted("before_make", 0) THEN Accuse
  ELSE IF ~Ok("insert") THEN ProbeFailure
  ELSE IF ~Counted("after_make", 1) THEN Accuse
  ELSE IF ~Ok("plus") THEN ProbeFailure
  ELSE IF ~Counted("after_plus", 2) THEN Accuse
  ELSE IF ~Ok("dealloc") THEN ProbeFailure
  ELSE IF ~Counted("after_dealloc", 1) THEN Accuse
  ELSE IF ~Ok("minus") THEN ProbeFailure
  ELSE IF ~Counted("after_minus", 0) \/ ~Counted("recv_final", 1) THEN Accuse
  ELSE JudgeEnd({"destroy"})

TypeSteps ==
  <<Do("before", "capture", "self", {}),
    Do("alloc", "alloc", "service", {}),
    Do("type_receive", "type", "service", {"alloc"}),
    Do("insert", "insert", "service", {"alloc"}),
    Do("type_both", "type", "service", {"insert"}),
    Do("alloc_set", "alloc_set", "set", {}),
    Do("type_set", "type", "set", {"alloc_set"}),
    Do("type_self", "ask", "self", {}),
    Do("destroy", "destroy", "service", {"alloc"}),
    Do("destroy_set", "destroy", "set", {"alloc_set"}),
    Do("after", "capture", "self", {})>>

TypeJudge ==
  IF Blocks(obs["before"].kr) \/ ~AllOk({"alloc", "type_receive"}) THEN ProbeFailure
  ELSE IF obs["type_receive"].type # "receive" THEN Accuse
  ELSE IF ~AllOk({"insert", "type_both"}) THEN ProbeFailure
  ELSE IF obs["type_both"].type # "send_receive" THEN Accuse
  ELSE IF ~AllOk({"alloc_set", "type_set"}) THEN ProbeFailure
  ELSE IF obs["type_set"].type # "set" THEN Accuse
  ELSE IF ~Ok("type_self") THEN ProbeFailure
  ELSE JudgeEnd({"destroy", "destroy_set"})

\* The member port is "service".
PortSetSteps ==
  <<Do("before", "capture", "self", {}),
    Do("alloc_set", "alloc_set", "set", {}),
    Do("alloc", "alloc", "service", {}),
    Do("type_set", "type", "set", {"alloc_set"}),
    Do("insert", "insert", "service", {"alloc_set", "alloc"}),
    Do("move", "move_in", "service", {"insert"}),
    Do("send", "send_copy", "service", {"move"}),
    Do("receive", "receive", "set", {"send"}),
    Do("unmove", "move_out", "service", {"move"}),
    Do("destroy", "destroy", "service", {"alloc"}),
    Do("destroy_set", "destroy", "set", {"alloc_set"}),
    Do("after", "capture", "self", {})>>

PortSetJudge ==
  IF ~AllOk({"alloc_set", "alloc", "type_set", "insert", "move", "send"}) THEN ProbeFailure
  ELSE IF ~Ok("receive") \/ obs["receive"].type # "msg" THEN Accuse
  ELSE IF ~Ok("unmove") THEN ProbeFailure
  ELSE JudgeEndBare({"destroy", "destroy_set"})

PortNamesSteps ==
  <<Do("before", "capture", "self", {}),
    Do("alloc", "alloc", "service", {}),
    Do("during", "capture_during", "self", {}),
    Do("destroy", "destroy", "service", {"alloc"}),
    Do("after", "capture", "self", {})>>

\* baseline_has_port wants a valid capture, and so does the count: where
\* mach_port_names is unsupported the new port is never seen.
ProbeSeen == Ok("during") /\ \E t \in Types : <<"service", t>> \in obs["during"].snap

\* during_delta = 1
OneMore ==
  /\ Ok("before") /\ Ok("during")
  /\ Cardinality(obs["during"].snap) - Cardinality(obs["before"].snap) = 1

PortNamesJudge ==
  IF Blocks(obs["before"].kr) \/ ~Ok("alloc") \/ Blocks(obs["during"].kr) THEN ProbeFailure
  ELSE IF ~ProbeSeen \/ ~OneMore THEN Accuse
  ELSE JudgeEnd({"destroy"})

GetAttributesSteps ==
  <<Do("before", "capture", "self", {}),
    Do("alloc", "alloc", "service", {}),
    Do("attrs", "status", "service", {"alloc"}),
    Do("bad_flavor", "refuse", "service", {"alloc"}),
    Do("bad_name", "refuse", "free", {"alloc"}),
    Do("destroy", "destroy", "service", {"alloc"}),
    Do("after", "capture", "self", {})>>

\* count_exact and fresh_receive_state are one expectation of the answer.
GetAttributesJudge ==
  IF ~AllOk({"alloc", "attrs"}) THEN ProbeFailure
  ELSE IF obs["attrs"].refs # 0 \/ Ok("bad_flavor") \/ Ok("bad_name") THEN Accuse
  ELSE JudgeEndBare({"destroy"})

RcvTimeoutSteps ==
  <<Do("before", "capture", "self", {}),
    Do("alloc", "alloc", "service", {}),
    Do("timed", "receive", "service", {"alloc"}),
    Do("poll", "receive", "service", {"alloc"}),
    Do("destroy", "destroy", "service", {"alloc"}),
    Do("after", "capture", "self", {})>>

RcvTimeoutJudge ==
  IF ~Ok("alloc") THEN ProbeFailure
  ELSE IF obs["timed"].kr # "timed_out" \/ obs["poll"].kr # "timed_out" THEN Accuse
  ELSE JudgeEndBare({"destroy"})

TaskInfoSteps ==
  <<Do("before", "capture", "self", {}),
    Do("self", "time", "self", {}),
    Do("type", "ask", "self", {}),
    Do("basic", "ask", "self", {}),
    Do("bad_flavor", "refuse", "self", {}),
    Do("null_task", "refuse", "free", {}),
    Do("after", "capture", "self", {})>>

\* Mutant of TaskInfoJudge: an accepted null task is not looked at.
TaskInfoJudgeNull ==
  IF ~AllOk({"self", "type", "basic"}) THEN ProbeFailure
  ELSE IF obs["basic"].refs # 1 \/ Ok("bad_flavor") THEN Accuse
  ELSE JudgeEndBare({})

TaskInfoJudge ==
  IF ~AllOk({"self", "type", "basic"}) THEN ProbeFailure
  ELSE IF obs["basic"].refs # 1 \/ Ok("bad_flavor") \/ Ok("null_task") THEN Accuse
  ELSE JudgeEndBare({})

\* Mutant of HostInfoSteps: only one of the two rights is given back.
HostInfoStepsLeaky ==
  <<Do("before", "capture", "self", {}),
    Do("host_a", "host_self", "host", {}),
    Do("host_b", "host_self", "host", {}),
    Do("basic", "ask", "host", {"host_a"}),
    Do("bad_flavor", "refuse", "host", {}),
    Do("null_host", "refuse", "free", {}),
    Do("dealloc_a", "drop", "host", {"host_a"}),
    Do("dealloc_b", "ask", "host", {"host_b"}),
    Do("after", "capture", "self", {})>>

\* Each mach_host_self grants one more reference under the same name.  The guards stand
\* for calls on MACH_PORT_NULL, which the code makes and which fail.
HostInfoSteps ==
  <<Do("before", "capture", "self", {}),
    Do("host_a", "host_self", "host", {}),
    Do("host_b", "host_self", "host", {}),
    Do("basic", "ask", "host", {"host_a"}),
    Do("bad_flavor", "refuse", "host", {}),
    Do("null_host", "refuse", "free", {}),
    Do("dealloc_a", "drop", "host", {"host_a"}),
    Do("dealloc_b", "drop", "host", {"host_b"}),
    Do("after", "capture", "self", {})>>

HostInfoJudge ==
  IF ~AllOk({"host_a", "basic"}) THEN ProbeFailure
  ELSE IF Ok("bad_flavor") \/ Ok("null_host") THEN Accuse
  ELSE IF ~AllOk({"dealloc_a", "dealloc_b"}) THEN ProbeFailure
  ELSE JudgeEndBare({})

\* Answers are 1 as expected; a second time before the first is a lie.
AbsoluteTimeSteps ==
  <<Do("before", "capture", "self", {}),
    Do("t1", "time", "self", {}),
    Do("t2", "ask", "self", {}),
    Do("timebase", "ask", "self", {}),
    Do("after", "capture", "self", {})>>

AbsoluteTimeJudge ==
  IF ~Ok("t1") THEN ProbeFailure
  ELSE IF obs["t2"].refs # 1 THEN Accuse
  ELSE IF ~Ok("timebase") THEN ProbeFailure
  ELSE IF obs["timebase"].refs # 1 THEN Accuse
  ELSE JudgeEndBare({})

-----------------------------------------------------------------------------
(* The probes by name.                                                     *)

Probes == {"header_copy", "header_move", "double_move", "dead_name",
           "invalid_disposition", "smoke", "port_get_refs", "port_type", "port_set",
           "port_names", "port_get_attributes", "msg_rcv_timeout", "task_info",
           "host_info", "absolute_time"}

Steps(p) ==
  CASE p = "header_copy"         -> HeaderCopySteps
    [] p = "header_move"         -> HeaderMoveSteps
    [] p = "double_move"         -> DoubleMoveSteps
    [] p = "dead_name"           -> DeadNameSteps
    [] p = "invalid_disposition" -> InvalidDispositionSteps
    [] p = "smoke"               -> SmokeSteps
    [] p = "port_get_refs"       -> GetRefsSteps
    [] p = "port_type"           -> TypeSteps
    [] p = "port_set"            -> PortSetSteps
    [] p = "port_names"          -> PortNamesSteps
    [] p = "port_get_attributes" -> GetAttributesSteps
    [] p = "msg_rcv_timeout"     -> RcvTimeoutSteps
    [] p = "task_info"           -> TaskInfoSteps
    [] p = "host_info"           -> HostInfoSteps
    [] p = "absolute_time"       -> AbsoluteTimeSteps

Judgement(p) ==
  CASE p = "header_copy"         -> HeaderCopyJudge
    [] p = "header_move"         -> HeaderMoveJudge
    [] p = "double_move"         -> DoubleMoveJudge
    [] p = "dead_name"           -> DeadNameJudge
    [] p = "invalid_disposition" -> InvalidDispositionJudge
    [] p = "smoke"               -> SmokeJudge
    [] p = "port_get_refs"       -> GetRefsJudge
    [] p = "port_type"           -> TypeJudge
    [] p = "port_set"            -> PortSetJudge
    [] p = "port_names"          -> PortNamesJudge
    [] p = "port_get_attributes" -> GetAttributesJudge
    [] p = "msg_rcv_timeout"     -> RcvTimeoutJudge
    [] p = "task_info"           -> TaskInfoJudge
    [] p = "host_info"           -> HostInfoJudge
    [] p = "absolute_time"       -> AbsoluteTimeJudge

Labels(p) == {Steps(p)[i].as : i \in DOMAIN Steps(p)}

\* A conforming kernel, or one deviation in one call of the probe.
Conforms == [at |-> "none", kind |-> "none"]
Devs(p) ==
  {Conforms} \cup
  UNION {[at: {Steps(p)[i].as}, kind: Deviations(Steps(p)[i].call)] : i \in DOMAIN Steps(p)}

-----------------------------------------------------------------------------
(* Running a probe.                                                        *)

Current == Steps(probe)[pc]
Running == pc <= Len(Steps(probe))

\* The guards beyond return codes: header_move tries a right out only if one came
\* back, and a delivered name is given back only if it is not MACH_PORT_NULL.
Ready(s) ==
  /\ AllOk(s.needs)
  /\ s.as \in {"use_send", "use_receive", "use_refs"} => UsabilityAttempted
  /\ s.as = "first" => obs["receive"].refs >= 1
  /\ s.as = "second" => obs["receive"].refs >= 2

Deviates(kind) == dev = [at |-> Current.as, kind |-> kind]

\* The current step is made, and is one of the given calls.
Calls(calls) == Running /\ Current.call \in calls /\ Ready(Current)

Returns(o) ==
  /\ obs' = [obs EXCEPT ![Current.as] = o]
  /\ pc' = pc + 1
  /\ UNCHANGED <<probe, names, dev, verdict>>

\* A call whose guard does not hold keeps its preset result.
Skip ==
  /\ Running /\ ~Ready(Current)
  /\ pc' = pc + 1
  /\ UNCHANGED <<probe, names, dev, fails, obs, own, verdict>>

\* A call fails without a reason of its own.  A call that the kernel must refuse has no
\* such failure: no probe could tell it from the refusal it asks for.
CallFails ==
  /\ Running /\ Ready(Current)
  /\ Current.call \notin {"refuse", "send_invalid", "send_double"}
  /\ fails > 0
  /\ fails' = fails - 1
  /\ Returns(Unasked)
  /\ UNCHANGED own

\* nx_baseline_capture
Capture ==
  /\ Calls({"capture", "capture_during"})
  /\ Returns([kr |-> names, refs |-> 0, type |-> "zero",
              snap |-> IF names = "gap" \/ Deviates("skip") THEN {}
                       ELSE Listing \cup (IF Deviates("lie") THEN {<<"phantom", "receive">>}
                                                             ELSE {})])
  /\ UNCHANGED <<fails, own>>

\* mach_port_type and mach_port_get_refs of a name.
Truth(call, o) ==
  CASE call = "type" /\ Exists(o)                    -> Saw("ok", 0, TypeOf(o))
    [] call = "refs" /\ Exists(o)                    ->
         Saw("ok", IF o.right = "dead" THEN 0 ELSE o.send, "zero")
    [] call = "refs_recv" /\ o.right \in {"receive", "member"} -> Saw("ok", 1, "zero")
    [] call = "refs_dead" /\ o.right = "dead"        -> Saw("ok", o.send, "zero")
    [] OTHER                                         -> Saw("absent", 0, "zero")

Look ==
  /\ Calls({"type", "refs", "refs_recv", "refs_dead"})
  /\ LET t == Truth(Current.call, own[Current.on])
     IN Returns(IF Deviates("lie") THEN Saw("ok", t.refs + 1, "other") ELSE t)
  /\ UNCHANGED <<fails, own>>

\* Calls about the task, the host or the clock, the status of a receive right (0 is
\* a fresh one), and calls the kernel must refuse.
Ask ==
  /\ Calls({"ask", "time", "status", "refuse"})
  /\ LET o == own[Current.on]
     IN Returns(
          CASE Current.call = "refuse" -> Saw(IF Deviates("lie") THEN "ok" ELSE "absent", 0, "zero")
            [] Current.call = "status" ->
                 IF o.right = "none" THEN Saw("absent", 0, "zero")
                 ELSE Saw("ok", o.send + o.msgs + (IF Deviates("lie") THEN 1 ELSE 0), "zero")
            [] OTHER -> Saw("ok", IF Deviates("lie") THEN 0 ELSE 1, "zero"))
  /\ UNCHANGED <<fails, own>>

\* The kernel calls that change rights under one name, by n references.
Changes == {"alloc", "alloc_set", "alloc_dead", "insert", "mod_plus", "mod_minus",
            "dealloc", "drop", "drop_gone", "destroy", "move_in", "move_out", "host_self"}

Legal(call, o) ==
  CASE call \in {"insert", "move_in"}                -> o.right = "receive"
    [] call \in {"mod_plus", "mod_minus", "dealloc", "drop", "drop_gone"} -> o.send > 0
    [] call = "destroy"                              -> Exists(o)
    [] call = "move_out"                             -> o.right = "member"
    [] OTHER                                         -> TRUE

Less(i, n) == IF i > n THEN i - n ELSE 0

Effect(call, o, n) ==
  CASE call = "alloc"      -> [Nothing EXCEPT !.right = "receive"]
    [] call = "alloc_set"  -> [Nothing EXCEPT !.right = "set"]
    [] call = "alloc_dead" -> [Nothing EXCEPT !.right = "dead", !.send = 1]
    [] call \in {"insert", "mod_plus", "host_self"} -> [o EXCEPT !.send = o.send + n]
    [] call \in {"mod_minus", "dealloc", "drop", "drop_gone"} ->
         [o EXCEPT !.send = Less(o.send, n),
                   !.right = IF o.right = "dead" /\ o.send <= n THEN "none" ELSE o.right]
    [] call = "destroy"    -> Nothing
    [] call = "move_in"    -> [o EXCEPT !.right = "member"]
    [] call = "move_out"   -> [o EXCEPT !.right = "receive"]

Change ==
  /\ Calls(Changes)
  /\ LET o == own[Current.on]
         n == IF Deviates("over") THEN 2 ELSE 1
     IN IF Legal(Current.call, o)
        THEN /\ Returns(Saw("ok", 0, "zero"))
             /\ own' = IF Deviates("skip") THEN own
                       ELSE [own EXCEPT ![Current.on] = Effect(Current.call, o, n)]
        ELSE Returns(Saw("absent", 0, "zero")) /\ UNCHANGED own
  /\ UNCHANGED fails

\* The port a message is queued at holds n more of them, carrying k rights.
Queued(o, n, k) == [o EXCEPT !.msgs = o.msgs + n, !.carried = o.carried + k]
CanSend == own[Current.on].right \in {"receive", "member"} /\ own[Current.on].send > 0

\* A header right is copied or moved into the message.
SendHeader ==
  /\ Calls({"send_copy", "send_move"})
  /\ LET o == own[Current.on]
         taken == IF Current.call = "send_move" THEN ~Deviates("skip") ELSE Deviates("over")
         sent == [o EXCEPT !.send = IF taken THEN Less(o.send, 1) ELSE o.send,
                           !.msgs = IF Deviates("lost") THEN o.msgs ELSE o.msgs + 1]
     IN IF CanSend
        THEN Returns(Saw("ok", 0, "zero")) /\ own' = [own EXCEPT ![Current.on] = sent]
        ELSE Returns(Unasked) /\ UNCHANGED own
  /\ UNCHANGED fails

\* Two descriptors move one reference.  The contract leaves open whether the kernel
\* rejects the message, with or without keeping the reference, or delivers two
\* rights; it may not do one and report the other.
SendDouble ==
  /\ Calls({"send_double"})
  /\ LET service == own["service"]
         spent == [own["cargo"] EXCEPT !.send = Less(own["cargo"].send, 1)]
         rejected(c) == Returns(Unasked) /\ own' = [own EXCEPT !["cargo"] = c]
         with(s) == own' = [own EXCEPT !["service"] = s, !["cargo"] = spent]
     IN IF ~CanSend THEN rejected(own["cargo"])
        ELSE CASE Deviates("lost") -> Returns(Saw("ok", 0, "zero")) /\ with(service)
               [] Deviates("over") -> Returns(Unasked) /\ with(Queued(service, 1, 2))
               [] OTHER -> \/ rejected(own["cargo"])
                           \/ rejected(spent)
                           \/ Returns(Saw("ok", 0, "zero")) /\ with(Queued(service, 1, 2))
  /\ UNCHANGED fails

\* A descriptor with a disposition that does not exist must be refused.
SendInvalid ==
  /\ Calls({"send_invalid"})
  /\ Returns(IF CanSend /\ Deviates("lie") THEN Saw("ok", 0, "zero") ELSE Unasked)
  /\ own' = IF ~CanSend THEN own
            ELSE CASE Deviates("lie")  ->
                        [own EXCEPT !["service"] = Queued(own["service"], 1, 1)]
                   [] Deviates("over") ->
                        [own EXCEPT !["cargo"].send = Less(own["cargo"].send, 1)]
                   [] OTHER            -> own
  /\ UNCHANGED fails

\* MOVE_SEND of a dead name takes and delivers it; of a name that does not exist it
\* is refused with MACH_SEND_INVALID_RIGHT.
SendSource ==
  /\ Calls({"send_dead", "send_free"})
  /\ LET arrived == Queued(own[Current.on], 1, 1)
         refused == Saw("invalid_right", 0, "zero")
     IN IF ~CanSend THEN Returns(Unasked) /\ UNCHANGED own
        ELSE IF Current.call = "send_free"
        THEN IF Deviates("lie")
             THEN Returns(Saw("ok", 0, "zero")) /\ own' = [own EXCEPT ![Current.on] = arrived]
             ELSE Returns(refused) /\ UNCHANGED own
        ELSE IF own["source"].right # "dead" THEN Returns(refused) /\ UNCHANGED own
        ELSE /\ Returns(Saw("ok", 0, "zero"))
             /\ own' = [own EXCEPT ![Current.on] = IF Deviates("lost") THEN @ ELSE arrived,
                                   !["source"] = IF Deviates("skip") THEN @ ELSE Nothing]
  /\ UNCHANGED fails

\* mach_msg receive on a port or on the set its member is in.
From == IF Current.on = "set" THEN "service" ELSE Current.on
Arrived == own[From].msgs > 0 /\ (Current.on = "set" => own[From].right = "member")

\* The names that get rights from the received message: the moved header right may
\* come back to its own name.
Delivered(back) ==
  LET extra == IF Deviates("over") THEN 1 ELSE 0
      empty == [own EXCEPT ![From].msgs = own[From].msgs - 1, ![From].carried = 0]
      k == own[From].carried
  IN CASE Current.call = "receive_back"  -> [empty EXCEPT ![From].send = @ + back + 2 * extra]
       [] Current.call = "receive_cargo" -> [empty EXCEPT !["cargo"].send = @ + k + extra]
       [] Current.call = "receive_dead"  ->
            [empty EXCEPT !["delivered"] = [Nothing EXCEPT !.right = "dead", !.send = k + extra]]
       [] OTHER                          -> empty

Receive ==
  /\ Calls({"receive", "receive_back", "receive_cargo", "receive_dead"})
  /\ IF Arrived
     THEN /\ Returns(Saw("ok", own[From].carried, IF Deviates("lie") THEN "other" ELSE "msg"))
          /\ \E back \in {0, 1} : own' = Delivered(back)
     ELSE /\ Returns(IF Deviates("lie") THEN Saw("ok", 0, "other") ELSE Saw("timed_out", 0, "zero"))
          /\ UNCHANGED own
  /\ UNCHANGED fails

\* The chain of tests, the result object and the exit status.
Report ==
  /\ ~Running /\ verdict = NoVerdict
  /\ verdict' = Judgement(probe)
  /\ UNCHANGED <<probe, names, dev, fails, pc, obs, own>>

Over == verdict # NoVerdict /\ UNCHANGED vars

\* Mutant of Preset: the locals are not initialised.
PresetUninitialised(l) == Saw("garbage", 0, "zero")

\* msg_rcv_timeout presets its two receives to what it expects of them.
Preset(l) == IF l \in {"timed", "poll"} THEN Saw("timed_out", 0, "zero") ELSE Unasked

Init ==
  /\ probe \in Probes
  /\ names \in {"ok", "gap"}
  /\ dev \in Devs(probe)
  /\ fails = MaxFails
  /\ pc = 1
  /\ obs = [l \in Labels(probe) |-> Preset(l)]
  /\ own = [n \in Names |-> Nothing]
  /\ verdict = NoVerdict

Step == Skip \/ CallFails \/ Capture \/ Look \/ Ask \/ Change \/ SendHeader \/ SendDouble
          \/ SendInvalid \/ SendSource \/ Receive \/ Report

Next == Step \/ Over

\* Every receive has a time limit: the process runs on.
Spec == Init /\ [][Next]_vars /\ WF_vars(Step)

-----------------------------------------------------------------------------
(* Properties.                                                             *)

TypeOK ==
  /\ probe \in Probes /\ names \in {"ok", "gap"} /\ dev \in Devs(probe)
  /\ fails \in 0..MaxFails
  /\ pc \in Nat
  /\ obs \in [Labels(probe) -> Observation]
  /\ own \in [Names -> Rights]
  /\ verdict \in Verdicts

\* Deviations, of whatever kind, in the calls labelled ls.
At(ls) == [at: ls, kind: {"lie", "skip", "over", "lost"}]
Just(l, kind) == {[at |-> l, kind |-> kind]}

\* What a probe records and does not judge.
Unjudged(p) ==
  CASE p = "header_copy" -> At({"refs_received"})
    [] p = "header_move" -> At({"use_receive", "use_refs"}) \cup Just("use_send", "over")
    [] p = "double_move" -> At({"insert", "insert_cargo", "type_before", "refs_before",
                                "type_sent", "refs_sent", "receive", "first", "second",
                                "type_received", "refs_received"})
    [] p = "dead_name"   -> Just("insert", "over") \cup Just("insert2", "over")
                              \cup Just("receive", "lie")
    [] p = "invalid_disposition" -> At({"insert", "insert_cargo"}) \cup Just("receive", "over")
    [] p = "smoke"       -> At({"type", "refs"})
    [] p = "port_type"   -> At({"type_self"}) \cup Just("insert", "over")
    [] p = "port_set"    -> At({"type_set", "unmove"}) \cup Just("insert", "over")
                              \cup Just("send", "over")
    [] p = "task_info"   -> At({"type"})
    [] p = "host_info"   -> At({"basic"})
    [] OTHER             -> {}

\* What only a listing of the names can show.
NamesOnly ==
  At({"before", "after", "before2", "after2", "destroy", "destroy_cargo", "destroy_set",
      "destroy2", "first", "host_a", "host_b", "dealloc_a", "dealloc_b"})
  \cup Just("receive", "over")

Overlooked(p, n) == {Conforms} \cup Unjudged(p) \cup (IF n = "gap" THEN NamesOnly ELSE {})

\* The call labelled l was made.
Made(l) == \E i \in DOMAIN Steps(probe) : Steps(probe)[i].as = l /\ Ready(Steps(probe)[i])

\* A probe passes only on a kernel that conforms in every call the probe made and
\* judges, whichever other call fails: no order of early returns, presets and tests
\* lets a deviation through the chain.
PassIsSound == verdict = Pass /\ Made(dev.at) => dev \in Overlooked(probe, names)

\* A passing probe has given back everything it allocated, was granted or was
\* delivered, where mach_port_names can tell.
PassIsClean == verdict = Pass /\ names = "ok" => \A n \in Names : ~Exists(own[n])

\* On a kernel that conforms and fails no call every probe passes, for each choice
\* the contract leaves open; but port_names blames a kernel without mach_port_names.
NoFalseAlarm ==
  verdict \notin {NoVerdict, Pass} =>
    \/ dev # Conforms \/ fails < MaxFails
    \/ probe = "port_names" /\ names = "gap"

-----------------------------------------------------------------------------
(* The probe implements the contract of OracleProbe, without a helper.     *)

\* A call that is made only when something came back may not be made.
Deserved == dev \in Overlooked(probe, names) \cup At({"use_send", "first"})

Contract == INSTANCE OracleProbe WITH deserved <- Deserved, helper <- "none",
                                      outcome <- verdict.status

\* A sequential probe is a probe in the sense of OracleProbe: it comes to one
\* verdict, which is final, and passes only when the kernel deserves it.
ImplementsContract == Contract!Spec
=============================================================================
