------------------------ MODULE SequentialProbeProofs ------------------------
(***************************************************************************)
(* For any number of failing calls: a one-process probe passes only a      *)
(* kernel that conforms in every call it judges, a pass leaves nothing     *)
(* behind in the task, and a conforming kernel is never blamed.            *)
(*                                                                         *)
(* The first part is about any list of calls: types, presets, the two      *)
(* snapshots of the name space.  The second says what each kind of call    *)
(* returns and does.  The third follows each of the fifteen lists.         *)
(***************************************************************************)
EXTENDS SequentialProbe, FiniteSetTheorems, TLAPS

-----------------------------------------------------------------------------
(* The lists.                                                              *)

\* The labels of the captures that a baseline is compared with.
Captures == {"before", "after", "before2", "after2"}

\* A list begins and ends with a capture of the name space, no two of its calls have
\* the same label, and none is about the name that only a lying listing shows.
Listed(s, n, last) ==
  /\ n \in Nat /\ n >= 5 /\ Len(s) = n /\ DOMAIN s = 1..n
  /\ \A i \in 1..n : s[i].on \in Names /\ s[i].on # "phantom"
  /\ \A i, j \in 1..n : s[i].as = s[j].as => i = j
  /\ \A i \in 1..n : s[i].as \in Captures => s[i] = Do(s[i].as, "capture", "self", {})
  /\ s[1] = Do("before", "capture", "self", {})
  /\ s[n] = Do(last, "capture", "self", {})

\* The label of a probe's last call.
LastOf(p) == IF p = "dead_name" THEN "after2" ELSE "after"

\* The length of a list is what it says it is.
LEMMA ListedLen ==
  ASSUME NEW s, NEW n, NEW last, Listed(s, n, last) PROVE Listed(s, Len(s), last)
  BY DEF Listed

\* The list of header_copy.
LEMMA HeaderCopyListed ==
  /\ Steps("header_copy") = HeaderCopySteps
  /\ Listed(HeaderCopySteps, 13, LastOf("header_copy"))
<1>1. Steps("header_copy") = HeaderCopySteps
  BY Zenon DEF Steps
<1>2. Len(HeaderCopySteps) = 13 /\ DOMAIN HeaderCopySteps = 1..13
  BY DEF HeaderCopySteps, HeaderSteps, Do
<1>3. \A i \in 1..13 : HeaderCopySteps[i].on \in Names /\ HeaderCopySteps[i].on # "phantom"
  BY DEF HeaderCopySteps, HeaderSteps, Do, Names
<1>4. \A i, j \in 1..13 : HeaderCopySteps[i].as = HeaderCopySteps[j].as => i = j
  BY DEF HeaderCopySteps, HeaderSteps, Do
<1>5. HeaderCopySteps[1] = Do("before", "capture", "self", {})
  BY DEF HeaderCopySteps, HeaderSteps, Do
<1>6. HeaderCopySteps[13] = Do("after", "capture", "self", {})
  BY DEF HeaderCopySteps, HeaderSteps, Do
<1>7. \A i \in 1..13 : HeaderCopySteps[i].as \in Captures => i \in {1, 13}
  BY DEF HeaderCopySteps, HeaderSteps, Do, Captures
<1>8. \A i \in {1, 13} : HeaderCopySteps[i] = Do(HeaderCopySteps[i].as, "capture", "self", {})
  BY <1>5, <1>6 DEF Do
<1> QED
  BY <1>1, <1>2, <1>3, <1>4, <1>5, <1>6, <1>7,
     <1>8 DEF Listed, LastOf

\* The list of header_move.
LEMMA HeaderMoveListed ==
  /\ Steps("header_move") = HeaderMoveSteps
  /\ Listed(HeaderMoveSteps, 16, LastOf("header_move"))
<1>1. Steps("header_move") = HeaderMoveSteps
  BY Zenon DEF Steps
<1>2. Len(HeaderMoveSteps) = 16 /\ DOMAIN HeaderMoveSteps = 1..16
  BY DEF HeaderMoveSteps, HeaderSteps, Do
<1>3. \A i \in 1..16 : HeaderMoveSteps[i].on \in Names /\ HeaderMoveSteps[i].on # "phantom"
  BY DEF HeaderMoveSteps, HeaderSteps, Do, Names
<1>4. \A i, j \in 1..16 : HeaderMoveSteps[i].as = HeaderMoveSteps[j].as => i = j
  BY DEF HeaderMoveSteps, HeaderSteps, Do
<1>5. HeaderMoveSteps[1] = Do("before", "capture", "self", {})
  BY DEF HeaderMoveSteps, HeaderSteps, Do
<1>6. HeaderMoveSteps[16] = Do("after", "capture", "self", {})
  BY DEF HeaderMoveSteps, HeaderSteps, Do
<1>7. \A i \in 1..16 : HeaderMoveSteps[i].as \in Captures => i \in {1, 16}
  BY DEF HeaderMoveSteps, HeaderSteps, Do, Captures
<1>8. \A i \in {1, 16} : HeaderMoveSteps[i] = Do(HeaderMoveSteps[i].as, "capture", "self", {})
  BY <1>5, <1>6 DEF Do
<1> QED
  BY <1>1, <1>2, <1>3, <1>4, <1>5, <1>6, <1>7,
     <1>8 DEF Listed, LastOf

\* The list of double_move.
LEMMA DoubleMoveListed ==
  /\ Steps("double_move") = DoubleMoveSteps
  /\ Listed(DoubleMoveSteps, 18, LastOf("double_move"))
<1>1. Steps("double_move") = DoubleMoveSteps
  BY Zenon DEF Steps
<1>2. Len(DoubleMoveSteps) = 18 /\ DOMAIN DoubleMoveSteps = 1..18
  BY DEF DoubleMoveSteps, CargoSetup, CargoCleanup, Do
<1>3. \A i \in 1..18 : DoubleMoveSteps[i].on \in Names /\ DoubleMoveSteps[i].on # "phantom"
  BY DEF DoubleMoveSteps, CargoSetup, CargoCleanup, Do, Names
<1>4. \A i, j \in 1..18 : DoubleMoveSteps[i].as = DoubleMoveSteps[j].as => i = j
  BY DEF DoubleMoveSteps, CargoSetup, CargoCleanup, Do
<1>5. DoubleMoveSteps[1] = Do("before", "capture", "self", {})
  BY DEF DoubleMoveSteps, CargoSetup, CargoCleanup, Do
<1>6. DoubleMoveSteps[18] = Do("after", "capture", "self", {})
  BY DEF DoubleMoveSteps, CargoSetup, CargoCleanup, Do
<1>7. \A i \in 1..18 : DoubleMoveSteps[i].as \in Captures => i \in {1, 18}
  BY DEF DoubleMoveSteps, CargoSetup, CargoCleanup, Do, Captures
<1>8. \A i \in {1, 18} : DoubleMoveSteps[i] = Do(DoubleMoveSteps[i].as, "capture", "self", {})
  BY <1>5, <1>6 DEF Do
<1> QED
  BY <1>1, <1>2, <1>3, <1>4, <1>5, <1>6, <1>7,
     <1>8 DEF Listed, LastOf

\* The list of dead_name.
LEMMA DeadNameListed ==
  /\ Steps("dead_name") = DeadNameSteps
  /\ Listed(DeadNameSteps, 25, LastOf("dead_name"))
<1>1. Steps("dead_name") = DeadNameSteps
  BY Zenon DEF Steps
<1>2. Len(DeadNameSteps) = 25 /\ DOMAIN DeadNameSteps = 1..25
  BY DEF DeadNameSteps, DeadCase, NonexistentCase, Do
<1>3. \A i \in 1..25 : DeadNameSteps[i].on \in Names /\ DeadNameSteps[i].on # "phantom"
  BY DEF DeadNameSteps, DeadCase, NonexistentCase, Do, Names
<1>4. \A i, j \in 1..25 : DeadNameSteps[i].as = DeadNameSteps[j].as => i = j
  BY DEF DeadNameSteps, DeadCase, NonexistentCase, Do
<1>5. DeadNameSteps[1] = Do("before", "capture", "self", {})
  BY DEF DeadNameSteps, DeadCase, NonexistentCase, Do
<1>6. DeadNameSteps[25] = Do("after2", "capture", "self", {})
  BY DEF DeadNameSteps, DeadCase, NonexistentCase, Do
<1>7. \A i \in 1..25 : DeadNameSteps[i].as \in Captures => i \in {1, 14, 15, 25}
  BY DEF DeadNameSteps, DeadCase, NonexistentCase, Do, Captures
<1>9. DeadNameSteps[14] = Do("after", "capture", "self", {})
  BY DEF DeadNameSteps, DeadCase, NonexistentCase, Do
<1>10. DeadNameSteps[15] = Do("before2", "capture", "self", {})
  BY DEF DeadNameSteps, DeadCase, NonexistentCase, Do
<1>8. \A i \in {1, 14, 15, 25} : DeadNameSteps[i] = Do(DeadNameSteps[i].as, "capture", "self", {})
  BY <1>5, <1>6, <1>9, <1>10 DEF Do
<1> QED
  BY <1>1, <1>2, <1>3, <1>4, <1>5, <1>6, <1>7,
     <1>8 DEF Listed, LastOf

\* The list of invalid_disposition.
LEMMA InvalidDispositionListed ==
  /\ Steps("invalid_disposition") = InvalidDispositionSteps
  /\ Listed(InvalidDispositionSteps, 17, LastOf("invalid_disposition"))
<1>1. Steps("invalid_disposition") = InvalidDispositionSteps
  BY Zenon DEF Steps
<1>2. Len(InvalidDispositionSteps) = 17 /\ DOMAIN InvalidDispositionSteps = 1..17
  BY DEF InvalidDispositionSteps, CargoSetup, CargoCleanup, Do
<1>3. \A i \in 1..17 :
        InvalidDispositionSteps[i].on \in Names /\ InvalidDispositionSteps[i].on # "phantom"
  BY DEF InvalidDispositionSteps, CargoSetup, CargoCleanup, Do, Names
<1>4. \A i, j \in 1..17 : InvalidDispositionSteps[i].as = InvalidDispositionSteps[j].as => i = j
  BY DEF InvalidDispositionSteps, CargoSetup, CargoCleanup, Do
<1>5. InvalidDispositionSteps[1] = Do("before", "capture", "self", {})
  BY DEF InvalidDispositionSteps, CargoSetup, CargoCleanup, Do
<1>6. InvalidDispositionSteps[17] = Do("after", "capture", "self", {})
  BY DEF InvalidDispositionSteps, CargoSetup, CargoCleanup, Do
<1>7. \A i \in 1..17 : InvalidDispositionSteps[i].as \in Captures => i \in {1, 17}
  BY DEF InvalidDispositionSteps, CargoSetup, CargoCleanup, Do, Captures
<1>8. \A i \in {1, 17} : InvalidDispositionSteps[i] =
        Do(InvalidDispositionSteps[i].as, "capture", "self", {})
  BY <1>5, <1>6 DEF Do
<1> QED
  BY <1>1, <1>2, <1>3, <1>4, <1>5, <1>6, <1>7,
     <1>8 DEF Listed, LastOf

\* The list of smoke.
LEMMA SmokeListed ==
  /\ Steps("smoke") = SmokeSteps
  /\ Listed(SmokeSteps, 6, LastOf("smoke"))
<1>1. Steps("smoke") = SmokeSteps
  BY Zenon DEF Steps
<1>2. Listed(SmokeSteps, 6, "after")
  BY DEF SmokeSteps, Do, Listed, Names, Captures
<1> QED
  BY <1>1, <1>2 DEF LastOf

\* The list of port_get_refs.
LEMMA GetRefsListed ==
  /\ Steps("port_get_refs") = GetRefsSteps
  /\ Listed(GetRefsSteps, 15, LastOf("port_get_refs"))
<1>1. Steps("port_get_refs") = GetRefsSteps
  BY Zenon DEF Steps
<1>2. Len(GetRefsSteps) = 15 /\ DOMAIN GetRefsSteps = 1..15
  BY DEF GetRefsSteps, Do
<1>3. \A i \in 1..15 : GetRefsSteps[i].on \in Names /\ GetRefsSteps[i].on # "phantom"
  BY DEF GetRefsSteps, Do, Names
<1>4. \A i, j \in 1..15 : GetRefsSteps[i].as = GetRefsSteps[j].as => i = j
  BY DEF GetRefsSteps, Do
<1>5. GetRefsSteps[1] = Do("before", "capture", "self", {})
  BY DEF GetRefsSteps, Do
<1>6. GetRefsSteps[15] = Do("after", "capture", "self", {})
  BY DEF GetRefsSteps, Do
<1>7. \A i \in 1..15 : GetRefsSteps[i].as \in Captures => i \in {1, 15}
  BY DEF GetRefsSteps, Do, Captures
<1>8. \A i \in {1, 15} : GetRefsSteps[i] = Do(GetRefsSteps[i].as, "capture", "self", {})
  BY <1>5, <1>6 DEF Do
<1> QED
  BY <1>1, <1>2, <1>3, <1>4, <1>5, <1>6, <1>7,
     <1>8 DEF Listed, LastOf

\* The list of port_type.
LEMMA TypeListed ==
  /\ Steps("port_type") = TypeSteps
  /\ Listed(TypeSteps, 11, LastOf("port_type"))
<1>1. Steps("port_type") = TypeSteps
  BY Zenon DEF Steps
<1>2. Len(TypeSteps) = 11 /\ DOMAIN TypeSteps = 1..11
  BY DEF TypeSteps, Do
<1>3. \A i \in 1..11 : TypeSteps[i].on \in Names /\ TypeSteps[i].on # "phantom"
  BY DEF TypeSteps, Do, Names
<1>4. \A i, j \in 1..11 : TypeSteps[i].as = TypeSteps[j].as => i = j
  BY DEF TypeSteps, Do
<1>5. TypeSteps[1] = Do("before", "capture", "self", {})
  BY DEF TypeSteps, Do
<1>6. TypeSteps[11] = Do("after", "capture", "self", {})
  BY DEF TypeSteps, Do
<1>7. \A i \in 1..11 : TypeSteps[i].as \in Captures => i \in {1, 11}
  BY DEF TypeSteps, Do, Captures
<1>8. \A i \in {1, 11} : TypeSteps[i] = Do(TypeSteps[i].as, "capture", "self", {})
  BY <1>5, <1>6 DEF Do
<1> QED
  BY <1>1, <1>2, <1>3, <1>4, <1>5, <1>6, <1>7,
     <1>8 DEF Listed, LastOf

\* The list of port_set.
LEMMA PortSetListed ==
  /\ Steps("port_set") = PortSetSteps
  /\ Listed(PortSetSteps, 12, LastOf("port_set"))
<1>1. Steps("port_set") = PortSetSteps
  BY Zenon DEF Steps
<1>2. Len(PortSetSteps) = 12 /\ DOMAIN PortSetSteps = 1..12
  BY DEF PortSetSteps, Do
<1>3. \A i \in 1..12 : PortSetSteps[i].on \in Names /\ PortSetSteps[i].on # "phantom"
  BY DEF PortSetSteps, Do, Names
<1>4. \A i, j \in 1..12 : PortSetSteps[i].as = PortSetSteps[j].as => i = j
  BY DEF PortSetSteps, Do
<1>5. PortSetSteps[1] = Do("before", "capture", "self", {})
  BY DEF PortSetSteps, Do
<1>6. PortSetSteps[12] = Do("after", "capture", "self", {})
  BY DEF PortSetSteps, Do
<1>7. \A i \in 1..12 : PortSetSteps[i].as \in Captures => i \in {1, 12}
  BY DEF PortSetSteps, Do, Captures
<1>8. \A i \in {1, 12} : PortSetSteps[i] = Do(PortSetSteps[i].as, "capture", "self", {})
  BY <1>5, <1>6 DEF Do
<1> QED
  BY <1>1, <1>2, <1>3, <1>4, <1>5, <1>6, <1>7,
     <1>8 DEF Listed, LastOf

\* The list of port_names.
LEMMA PortNamesListed ==
  /\ Steps("port_names") = PortNamesSteps
  /\ Listed(PortNamesSteps, 5, LastOf("port_names"))
<1>1. Steps("port_names") = PortNamesSteps
  BY Zenon DEF Steps
<1>2. Listed(PortNamesSteps, 5, "after")
  BY DEF PortNamesSteps, Do, Listed, Names, Captures
<1> QED
  BY <1>1, <1>2 DEF LastOf

\* The list of port_get_attributes.
LEMMA GetAttributesListed ==
  /\ Steps("port_get_attributes") = GetAttributesSteps
  /\ Listed(GetAttributesSteps, 7, LastOf("port_get_attributes"))
<1>1. Steps("port_get_attributes") = GetAttributesSteps
  BY Zenon DEF Steps
<1>2. Listed(GetAttributesSteps, 7, "after")
  BY DEF GetAttributesSteps, Do, Listed, Names, Captures
<1> QED
  BY <1>1, <1>2 DEF LastOf

\* The list of msg_rcv_timeout.
LEMMA RcvTimeoutListed ==
  /\ Steps("msg_rcv_timeout") = RcvTimeoutSteps
  /\ Listed(RcvTimeoutSteps, 6, LastOf("msg_rcv_timeout"))
<1>1. Steps("msg_rcv_timeout") = RcvTimeoutSteps
  BY Zenon DEF Steps
<1>2. Listed(RcvTimeoutSteps, 6, "after")
  BY DEF RcvTimeoutSteps, Do, Listed, Names, Captures
<1> QED
  BY <1>1, <1>2 DEF LastOf

\* The list of task_info.
LEMMA TaskInfoListed ==
  /\ Steps("task_info") = TaskInfoSteps
  /\ Listed(TaskInfoSteps, 7, LastOf("task_info"))
<1>1. Steps("task_info") = TaskInfoSteps
  BY Zenon DEF Steps
<1>2. Listed(TaskInfoSteps, 7, "after")
  BY DEF TaskInfoSteps, Do, Listed, Names, Captures
<1> QED
  BY <1>1, <1>2 DEF LastOf

\* The list of host_info.
LEMMA HostInfoListed ==
  /\ Steps("host_info") = HostInfoSteps
  /\ Listed(HostInfoSteps, 9, LastOf("host_info"))
<1>1. Steps("host_info") = HostInfoSteps
  BY Zenon DEF Steps
<1>2. Listed(HostInfoSteps, 9, "after")
  BY DEF HostInfoSteps, Do, Listed, Names, Captures
<1> QED
  BY <1>1, <1>2 DEF LastOf

\* The list of absolute_time.
LEMMA AbsoluteTimeListed ==
  /\ Steps("absolute_time") = AbsoluteTimeSteps
  /\ Listed(AbsoluteTimeSteps, 5, LastOf("absolute_time"))
<1>1. Steps("absolute_time") = AbsoluteTimeSteps
  BY Zenon DEF Steps
<1>2. Listed(AbsoluteTimeSteps, 5, "after")
  BY DEF AbsoluteTimeSteps, Do, Listed, Names, Captures
<1> QED
  BY <1>1, <1>2 DEF LastOf

\* Every probe has such a list.
LEMMA EveryListed == ASSUME NEW p \in Probes PROVE Listed(Steps(p), Len(Steps(p)), LastOf(p))
<1>1. \E n : Listed(Steps(p), n, LastOf(p))
  BY HeaderCopyListed, HeaderMoveListed, DoubleMoveListed, DeadNameListed,
     InvalidDispositionListed, SmokeListed, GetRefsListed, TypeListed,
     PortSetListed, PortNamesListed, GetAttributesListed, RcvTimeoutListed,
     TaskInfoListed, HostInfoListed, AbsoluteTimeListed
     DEF Probes
<1> QED
  BY <1>1, ListedLen
-----------------------------------------------------------------------------
(* Types, places and presets.                                              *)

\* Where the probe is, and that a verdict is the one the chain of tests gives.
PlaceInv ==
  /\ pc \in 1..(Len(Steps(probe)) + 1)
  /\ verdict # NoVerdict => ~Running /\ verdict = Judgement(probe)

\* A call that is still to come has its preset result.
PresetInv ==
  \A i \in DOMAIN Steps(probe) : i >= pc => obs[Steps(probe)[i].as] = Preset(Steps(probe)[i].as)

Base == TypeOK /\ PlaceInv /\ PresetInv

\* The current call has a label and a name.
LEMMA CurrentKnown ==
  ASSUME TypeOK, PlaceInv, Running
  PROVE  /\ pc \in DOMAIN Steps(probe) /\ Current.as \in Labels(probe)
         /\ Current.on \in Names /\ Current.on # "phantom"
<1>1. Listed(Steps(probe), Len(Steps(probe)), LastOf(probe))
  BY EveryListed DEF TypeOK
<1>2. pc \in 1..Len(Steps(probe)) /\ DOMAIN Steps(probe) = 1..Len(Steps(probe))
  BY <1>1 DEF PlaceInv, Running, Listed
<1> QED
  BY <1>1, <1>2 DEF Listed, Labels, Current

\* What a name holds has one of the listed types.
LEMMA TypeOfType == ASSUME NEW o \in Rights PROVE TypeOf(o) \in Types
  BY DEF Rights, TypeOf, Types

\* What mach_port_names lists are names with types.
LEMMA ListingType == ASSUME TypeOK PROVE Listing \in SUBSET (Names \X Types)
  BY TypeOfType DEF TypeOK, Listing

\* A returned observation keeps the types.
LEMMA ReturnsType ==
  ASSUME TypeOK, PlaceInv, Running, NEW o \in Observation, Returns(o),
         fails' \in 0..MaxFails, own' \in [Names -> Rights]
  PROVE  TypeOK'
  BY CurrentKnown DEF TypeOK, PlaceInv, Returns

\* The results of calls are observations.
LEMMA SawType ==
  ASSUME NEW kr \in Codes, NEW refs \in Nat, NEW type \in Types
  PROVE  Saw(kr, refs, type) \in Observation
  BY DEF Saw, Observation

\* Every judgement is a verdict.
LEMMA JudgementType == ASSUME NEW p \in Probes PROVE Judgement(p) \in Verdicts \ {NoVerdict}
<1> USE DEF JudgeEnd, JudgeEndBare, Verdicts, NoVerdict, Pass, Accuse, Unclean, ProbeFailure, Is
<1>1. HeaderCopyJudge \in Verdicts \ {NoVerdict} /\ HeaderMoveJudge \in Verdicts \ {NoVerdict}
  BY DEF HeaderCopyJudge, HeaderMoveJudge
<1>2. DoubleMoveJudge \in Verdicts \ {NoVerdict} /\ DeadNameJudge \in Verdicts \ {NoVerdict}
  BY DEF DoubleMoveJudge, DeadNameJudge
<1>3. InvalidDispositionJudge \in Verdicts \ {NoVerdict} /\ SmokeJudge \in Verdicts \ {NoVerdict}
  BY DEF InvalidDispositionJudge, SmokeJudge
<1>4. GetRefsJudge \in Verdicts \ {NoVerdict} /\ TypeJudge \in Verdicts \ {NoVerdict}
  BY DEF GetRefsJudge, TypeJudge
<1>5. PortSetJudge \in Verdicts \ {NoVerdict} /\ PortNamesJudge \in Verdicts \ {NoVerdict}
  BY DEF PortSetJudge, PortNamesJudge
<1>6. GetAttributesJudge \in Verdicts \ {NoVerdict} /\ RcvTimeoutJudge \in Verdicts \ {NoVerdict}
  BY DEF GetAttributesJudge, RcvTimeoutJudge
<1>7. TaskInfoJudge \in Verdicts \ {NoVerdict} /\ HostInfoJudge \in Verdicts \ {NoVerdict}
  BY DEF TaskInfoJudge, HostInfoJudge
<1>8. AbsoluteTimeJudge \in Verdicts \ {NoVerdict}
  BY DEF AbsoluteTimeJudge
<1> HIDE DEF JudgeEnd, JudgeEndBare, Verdicts, NoVerdict, Pass, Accuse, Unclean, ProbeFailure, Is
<1> QED
  BY <1>1, <1>2, <1>3, <1>4, <1>5, <1>6, <1>7, <1>8, Zenon DEF Judgement, Probes

\* The initial states are typed.
LEMMA InitBase == Init => Base
<1> SUFFICES ASSUME Init PROVE Base
  OBVIOUS
<1>1. Listed(Steps(probe), Len(Steps(probe)), LastOf(probe))
  BY EveryListed DEF Init
<1>2. \A l : Preset(l) \in Observation
  BY DEF Preset, Unasked, Saw, Observation, Codes, Types
<1>3. own \in [Names -> Rights]
  BY DEF Init, Nothing, Rights
<1>4. TypeOK
  BY <1>2, <1>3, FailsAssumption DEF Init, TypeOK, Verdicts
<1>5. PlaceInv
  BY <1>1 DEF Init, PlaceInv, Listed
<1>6. PresetInv
  BY DEF Init, PresetInv, Labels
<1> QED
  BY <1>4, <1>5, <1>6 DEF Base

\* Rights are kept by the changes the kernel makes of one or two of their fields.
LEMMA RightsWith ==
  ASSUME NEW o \in Rights, NEW s \in Nat, NEW m \in Nat,
         NEW r \in {"none", "receive", "member", "set", "dead"}
  PROVE  /\ [o EXCEPT !.send = s] \in Rights /\ [o EXCEPT !.right = r] \in Rights
         /\ [o EXCEPT !.send = s, !.right = r] \in Rights
         /\ [o EXCEPT !.right = r, !.send = s] \in Rights
         /\ [o EXCEPT !.send = s, !.msgs = m] \in Rights
         /\ [o EXCEPT !.msgs = s, !.carried = m] \in Rights
  BY DEF Rights

\* The fields of rights.
LEMMA RightsFields ==
  ASSUME NEW o \in Rights
  PROVE  /\ o.send \in Nat /\ o.msgs \in Nat /\ o.carried \in Nat
         /\ o.right \in {"none", "receive", "member", "set", "dead"}
  BY DEF Rights

\* A name that holds nothing, a queue with one more message, a name with a reference less.
LEMMA RightsOf ==
  /\ Nothing \in Rights
  /\ \A o \in Rights, n, k \in Nat : Queued(o, n, k) \in Rights
  /\ \A o \in Rights, n \in Nat :
       Less(o.send, n) \in Nat /\ [o EXCEPT !.send = Less(o.send, n)] \in Rights
<1>1. Nothing \in Rights
  BY DEF Nothing, Rights
<1>2. ASSUME NEW o \in Rights, NEW n \in Nat, NEW k \in Nat PROVE Queued(o, n, k) \in Rights
  <2>1. o.msgs + n \in Nat /\ o.carried + k \in Nat
    BY RightsFields
  <2> QED
    BY <2>1, RightsWith DEF Queued
<1>3. ASSUME NEW o \in Rights, NEW n \in Nat
      PROVE  Less(o.send, n) \in Nat /\ [o EXCEPT !.send = Less(o.send, n)] \in Rights
  <2>1. Less(o.send, n) \in Nat
    BY RightsFields DEF Less
  <2> QED
    BY <2>1, RightsWith
<1> QED
  BY <1>1, <1>2, <1>3

\* A change leaves rights.
LEMMA EffectType ==
  ASSUME NEW c \in Changes, NEW o \in Rights, NEW n \in {1, 2}
  PROVE  Effect(c, o, n) \in Rights
<1>1. CASE c \in {"alloc", "alloc_set", "alloc_dead", "destroy"}
  <2>1. \A r \in {"receive", "set", "dead"} :
          /\ [Nothing EXCEPT !.right = r] \in Rights
          /\ [Nothing EXCEPT !.right = r, !.send = 1] \in Rights
    BY RightsWith, RightsOf
  <2>2. \/ \E r \in {"receive", "set"} : Effect(c, o, n) = [Nothing EXCEPT !.right = r]
        \/ Effect(c, o, n) = [Nothing EXCEPT !.right = "dead", !.send = 1]
        \/ Effect(c, o, n) = Nothing
    BY <1>1, Zenon DEF Effect
  <2> QED
    BY <2>1, <2>2, RightsOf
<1>2. CASE c \in {"insert", "mod_plus", "host_self"}
  <2>1. o.send + n \in Nat
    BY RightsFields
  <2>2. Effect(c, o, n) = [o EXCEPT !.send = o.send + n]
    BY <1>2, Zenon DEF Effect
  <2> QED
    BY <2>1, <2>2, RightsWith
<1>3. CASE c \in {"mod_minus", "dealloc", "drop", "drop_gone"}
  <2> DEFINE r == IF o.right = "dead" /\ o.send <= n THEN "none" ELSE o.right
  <2>1. Less(o.send, n) \in Nat /\ r \in {"none", "receive", "member", "set", "dead"}
    BY RightsOf, RightsFields
  <2>2. [o EXCEPT !.send = Less(o.send, n), !.right = r] \in Rights
    BY <2>1, RightsWith
  <2>3. Effect(c, o, n) = [o EXCEPT !.send = Less(o.send, n), !.right = r]
    BY <1>3, Zenon DEF Effect
  <2> QED
    BY <2>2, <2>3
<1>4. CASE c \in {"move_in", "move_out"}
  <2>1. \E r \in {"member", "receive"} : Effect(c, o, n) = [o EXCEPT !.right = r]
    BY <1>4, Zenon DEF Effect
  <2> QED
    BY <2>1, RightsWith
<1> QED
  BY <1>1, <1>2, <1>3, <1>4 DEF Changes

\* A call keeps the types.
LEMMA TypesKept ==
  ASSUME TypeOK, PlaceInv, Next PROVE TypeOK'
<1>1. CASE Skip
  BY <1>1 DEF Skip, TypeOK
<1>2. CASE CallFails
  <2>1. Unasked \in Observation
    BY SawType DEF Unasked, Codes, Types
  <2> QED
    BY <1>2, <2>1, ReturnsType, FailsAssumption DEF CallFails, TypeOK
<1>3. CASE Capture
  <2> DEFINE o == [kr |-> names, refs |-> 0, type |-> "zero",
                   snap |-> IF names = "gap" \/ Deviates("skip") THEN {}
                            ELSE Listing \cup (IF Deviates("lie") THEN {<<"phantom", "receive">>}
                                                                  ELSE {})]
  <2>1. o \in Observation
    BY ListingType DEF TypeOK, Observation, Codes, Types, Names
  <2> QED
    BY <1>3, <2>1, ReturnsType DEF Capture, Calls, TypeOK
<1>4. CASE Look
  <2> DEFINE t == Truth(Current.call, own[Current.on])
             o == IF Deviates("lie") THEN Saw("ok", t.refs + 1, "other") ELSE t
  <2>1. own[Current.on] \in Rights
    BY <1>4, CurrentKnown DEF Look, Calls, TypeOK
  <2>2. t \in Observation
    BY <2>1, TypeOfType DEF Truth, Saw, Observation, Rights, Codes, Types
  <2>3. o \in Observation
    BY <2>2 DEF Saw, Observation, Codes, Types
  <2> QED
    BY <1>4, <2>3, ReturnsType DEF Look, Calls, TypeOK
<1>5. CASE Ask
  <2>1. own[Current.on] \in Rights
    BY <1>5, CurrentKnown DEF Ask, Calls, TypeOK
  <2>2. PICK o \in Observation : Returns(o)
    BY <1>5, <2>1 DEF Ask, Saw, Observation, Rights, Codes, Types
  <2> QED
    BY <1>5, <2>2, ReturnsType DEF Ask, Calls, TypeOK
<1>6. CASE Change
  <2> DEFINE h == own[Current.on]
             n == IF Deviates("over") THEN 2 ELSE 1
  <2>1. h \in Rights /\ Current.on \in Names /\ Current.call \in Changes
    BY <1>6, CurrentKnown DEF Change, Calls, TypeOK
  <2>2. Effect(Current.call, h, n) \in Rights
    BY <2>1, EffectType
  <2>3. own' \in [Names -> Rights]
    BY <1>6, <2>1, <2>2 DEF Change, TypeOK
  <2>4. Saw("ok", 0, "zero") \in Observation /\ Saw("absent", 0, "zero") \in Observation
    BY SawType DEF Codes, Types
  <2>5. PICK o \in Observation : Returns(o)
    BY <1>6, <2>4 DEF Change
  <2> QED
    BY <1>6, <2>3, <2>5, ReturnsType DEF Change, Calls, TypeOK
<1>7. CASE SendHeader
  <2>1. own[Current.on] \in Rights /\ Current.on \in Names
    BY <1>7, CurrentKnown DEF SendHeader, Calls, TypeOK
  <2>2. PICK h \in Rights : h = own[Current.on]
    BY <2>1
  <2>5. h.msgs \in Nat /\ h.msgs + 1 \in Nat /\ h.send \in Nat /\ Less(h.send, 1) \in Nat
    BY RightsFields DEF Less
  <2>6. \A s, m \in Nat : [h EXCEPT !.send = s, !.msgs = m] \in Rights
    BY RightsWith
  <2>7. \/ own' = own
        \/ \E s, m \in Nat : own' = [own EXCEPT ![Current.on] = [h EXCEPT !.send = s, !.msgs = m]]
    BY <1>7, <2>2, <2>5 DEF SendHeader
  <2>8. own' \in [Names -> Rights]
    BY <2>1, <2>6, <2>7 DEF TypeOK
  <2>3. Saw("ok", 0, "zero") \in Observation /\ Unasked \in Observation
    BY SawType DEF Codes, Types, Unasked
  <2>4. PICK o \in Observation : Returns(o)
    BY <1>7, <2>3 DEF SendHeader
  <2> QED
    BY <1>7, <2>8, <2>4, ReturnsType DEF SendHeader, Calls, TypeOK
<1>8. CASE SendDouble
  <2>1. own["service"] \in Rights /\ own["cargo"] \in Rights
    BY DEF TypeOK, Names
  <2>2. /\ Queued(own["service"], 1, 2) \in Rights
        /\ [own["cargo"] EXCEPT !.send = Less(own["cargo"].send, 1)] \in Rights
    BY <2>1, RightsOf
  <2>3. own' \in [Names -> Rights]
    BY <1>8, <2>1, <2>2 DEF SendDouble, TypeOK
  <2>4. Saw("ok", 0, "zero") \in Observation /\ Unasked \in Observation
    BY SawType DEF Codes, Types, Unasked
  <2>5. PICK o \in Observation : Returns(o)
    BY <1>8, <2>4 DEF SendDouble
  <2> QED
    BY <1>8, <2>3, <2>5, ReturnsType DEF SendDouble, Calls, TypeOK
<1>9. CASE SendInvalid
  <2>1. own["service"] \in Rights /\ own["cargo"] \in Rights
    BY DEF TypeOK, Names
  <2>2. own' \in [Names -> Rights]
    BY <1>9, <2>1, RightsOf DEF SendInvalid, TypeOK
  <2>3. Saw("ok", 0, "zero") \in Observation /\ Unasked \in Observation
    BY SawType DEF Codes, Types, Unasked
  <2>4. PICK o \in Observation : Returns(o)
    BY <1>9, <2>3 DEF SendInvalid
  <2> QED
    BY <1>9, <2>2, <2>4, ReturnsType DEF SendInvalid, Calls, TypeOK
<1>10. CASE SendSource
  <2>1. own[Current.on] \in Rights /\ Current.on \in Names /\ own["source"] \in Rights
    BY <1>10, CurrentKnown DEF SendSource, Calls, TypeOK, Names
  <2>2. Queued(own[Current.on], 1, 1) \in Rights /\ Nothing \in Rights
    BY <2>1, RightsOf
  <2>3. own' \in [Names -> Rights]
    BY <1>10, <2>1, <2>2 DEF SendSource, TypeOK
  <2>4. /\ Saw("ok", 0, "zero") \in Observation /\ Unasked \in Observation
        /\ Saw("invalid_right", 0, "zero") \in Observation
    BY SawType DEF Codes, Types, Unasked
  <2>5. PICK o \in Observation : Returns(o)
    BY <1>10, <2>4 DEF SendSource
  <2> QED
    BY <1>10, <2>3, <2>5, ReturnsType DEF SendSource, Calls, TypeOK
<1>11. CASE Receive
  <2>1. From \in Names /\ own[From] \in Rights /\ own["cargo"] \in Rights
    BY <1>11, CurrentKnown DEF Receive, Calls, TypeOK, Names, From
  <2>2. own' \in [Names -> Rights]
    <3>1. CASE ~Arrived
      BY <1>11, <3>1 DEF Receive, TypeOK
    <3>2. CASE Arrived
      <4> DEFINE empty == [own EXCEPT ![From].msgs = own[From].msgs - 1, ![From].carried = 0]
                 extra == IF Deviates("over") THEN 1 ELSE 0
                 k == own[From].carried
      <4>1. PICK back \in {0, 1} : own' = Delivered(back)
        BY <1>11, <3>2 DEF Receive
      <4>2. own[From].msgs - 1 \in Nat /\ k \in Nat
        BY <2>1, <3>2, RightsFields DEF Arrived
      <4>3. [own[From] EXCEPT !.msgs = own[From].msgs - 1, !.carried = 0] \in Rights
        BY <2>1, <4>2, RightsWith
      <4>4. empty \in [Names -> Rights]
        BY <2>1, <4>3 DEF TypeOK
      <4>5. /\ empty[From].send + back + 2 * extra \in Nat
            /\ empty["cargo"].send + k + extra \in Nat
            /\ k + extra \in Nat
        BY <2>1, <4>2, <4>4, RightsFields DEF Names
      <4>6. /\ [empty[From] EXCEPT !.send = empty[From].send + back + 2 * extra] \in Rights
            /\ [empty["cargo"] EXCEPT !.send = empty["cargo"].send + k + extra] \in Rights
            /\ [Nothing EXCEPT !.right = "dead", !.send = k + extra] \in Rights
        BY <2>1, <4>4, <4>5, RightsWith, RightsOf DEF Names
      <4>7. CASE Current.call = "receive_back"
        BY <2>1, <4>1, <4>4, <4>6, <4>7 DEF Delivered
      <4>8. CASE Current.call = "receive_cargo"
        BY <2>1, <4>1, <4>4, <4>6, <4>8 DEF Delivered
      <4>9. CASE Current.call = "receive_dead"
        BY <2>1, <4>1, <4>4, <4>6, <4>9 DEF Delivered
      <4>10. CASE Current.call \notin {"receive_back", "receive_cargo", "receive_dead"}
        BY <2>1, <4>1, <4>4, <4>10 DEF Delivered
      <4> QED
        BY <4>7, <4>8, <4>9, <4>10
    <3> QED
      BY <3>1, <3>2
  <2>3. \A kr \in {"ok", "timed_out"}, n \in Nat, type \in {"other", "msg", "zero"} :
          Saw(kr, n, type) \in Observation
    BY SawType DEF Codes, Types
  <2>4. PICK o \in Observation : Returns(o)
    BY <1>11, <2>1, <2>3 DEF Receive, Rights
  <2> QED
    BY <1>11, <2>2, <2>4, ReturnsType DEF Receive, Calls, TypeOK
<1>12. CASE Report
  BY <1>12, JudgementType DEF Report, TypeOK
<1>13. CASE Over
  BY <1>13 DEF Over, vars, TypeOK
<1> QED
  BY <1>1, <1>2, <1>3, <1>4, <1>5, <1>6, <1>7, <1>8, <1>9, <1>10, <1>11, <1>12, <1>13
     DEF Next, Step

\* The chain of tests reads nothing but the observations.
LEMMA JudgementStays ==
  ASSUME UNCHANGED <<probe, obs>>, probe \in Probes PROVE Judgement(probe)' = Judgement(probe)
<1> USE DEF JudgeEnd, JudgeEndBare, BaselineOk, AllOk, Ok
<1>1. HeaderCopyJudge' = HeaderCopyJudge /\ HeaderMoveJudge' = HeaderMoveJudge
  BY DEF HeaderCopyJudge, HeaderMoveJudge, OneSendRight, TypeMatchesRefs, UsabilityAttempted
<1>2. DoubleMoveJudge' = DoubleMoveJudge /\ DeadNameJudge' = DeadNameJudge
  BY DEF DoubleMoveJudge, DeadNameJudge, CaseOk, ConsumedAndDelivered, NonexistentRejected,
         Absent
<1>3. InvalidDispositionJudge' = InvalidDispositionJudge /\ SmokeJudge' = SmokeJudge
  BY DEF InvalidDispositionJudge, SmokeJudge, SameRefs, SameType
<1>4. GetRefsJudge' = GetRefsJudge /\ TypeJudge' = TypeJudge
  BY DEF GetRefsJudge, TypeJudge, Counted
<1>5. PortSetJudge' = PortSetJudge /\ PortNamesJudge' = PortNamesJudge
  BY DEF PortSetJudge, PortNamesJudge, ProbeSeen, OneMore
<1>6. GetAttributesJudge' = GetAttributesJudge /\ RcvTimeoutJudge' = RcvTimeoutJudge
  BY DEF GetAttributesJudge, RcvTimeoutJudge
<1>7. TaskInfoJudge' = TaskInfoJudge /\ HostInfoJudge' = HostInfoJudge
  BY DEF TaskInfoJudge, HostInfoJudge
<1>8. AbsoluteTimeJudge' = AbsoluteTimeJudge
  BY DEF AbsoluteTimeJudge
<1> HIDE DEF JudgeEnd, JudgeEndBare, BaselineOk, AllOk, Ok
<1> QED
  BY <1>1, <1>2, <1>3, <1>4, <1>5, <1>6, <1>7, <1>8, Zenon DEF Judgement, Probes

-----------------------------------------------------------------------------
(* One step of a running probe.                                            *)

\* The probe goes on to the next call and no other observation changes.
Moves ==
  /\ pc' = pc + 1 /\ UNCHANGED <<probe, names, dev, verdict>>
  /\ fails' <= fails
  /\ \A m \in Labels(probe) : m # Current.as => obs'[m] = obs[m]

\* Calls that the kernel must refuse or may refuse do not fail for other reasons.
Certain(c) == c \in {"refuse", "send_invalid", "send_double"}

\* The current call is not made, or it fails for a reason of no interest.
Missed ==
  /\ own' = own
  /\ \/ ~Ready(Current) /\ obs'[Current.as] = Preset(Current.as)
     \/ fails' < fails /\ ~Certain(Current.call) /\ obs'[Current.as] = Unasked

\* It is made.
Called ==
  /\ Ready(Current) /\ fails' = fails
  /\ Capture \/ Look \/ Ask \/ Change \/ SendHeader \/ SendDouble \/ SendInvalid
       \/ SendSource \/ Receive

\* A step of a running probe is one of these.
LEMMA StepCases == ASSUME Base, Step, Running PROVE Moves /\ (Missed \/ Called)
<1> USE DEF Base
<1>1. pc \in DOMAIN Steps(probe) /\ Current.as \in Labels(probe) /\ DOMAIN obs = Labels(probe)
  BY CurrentKnown DEF TypeOK
<1>2. ASSUME NEW o, Returns(o)
      PROVE  /\ pc' = pc + 1 /\ UNCHANGED <<probe, names, dev, verdict>>
             /\ \A m \in Labels(probe) : m # Current.as => obs'[m] = obs[m]
             /\ obs'[Current.as] = o
  BY <1>1, <1>2 DEF Returns
<1>3. CASE Skip
  <2>1. obs[Current.as] = Preset(Current.as)
    BY <1>1 DEF PresetInv, PlaceInv, Current
  <2> QED
    BY <1>3, <2>1 DEF Skip, Moves, Missed, TypeOK
<1>4. CASE CallFails
  <2>1. /\ Returns(Unasked) /\ fails' = fails - 1 /\ UNCHANGED own /\ fails \in Nat
        /\ ~Certain(Current.call)
    BY <1>4 DEF CallFails, TypeOK, Certain
  <2> QED
    BY <2>1, <1>2 DEF Moves, Missed
<1>5. ASSUME fails' = fails, NEW o, Returns(o) PROVE Moves
  <2>1. fails' <= fails
    BY <1>5 DEF TypeOK
  <2> QED
    BY <2>1, <1>2, <1>5 DEF Moves
<1>6. CASE Capture
  BY <1>6, <1>5 DEF Capture, Calls, Called
<1>7. CASE Look
  BY <1>7, <1>5 DEF Look, Calls, Called
<1>8. CASE Ask
  BY <1>8, <1>5 DEF Ask, Calls, Called
<1>9. CASE Change
  <2>1. \E o : Returns(o)
    BY <1>9 DEF Change
  <2> QED
    BY <1>9, <1>5, <2>1 DEF Change, Calls, Called
<1>10. CASE SendHeader
  <2>1. \E o : Returns(o)
    BY <1>10 DEF SendHeader
  <2> QED
    BY <1>10, <1>5, <2>1 DEF SendHeader, Calls, Called
<1>11. CASE SendDouble
  <2>1. \E o : Returns(o)
    BY <1>11 DEF SendDouble
  <2> QED
    BY <1>11, <1>5, <2>1 DEF SendDouble, Calls, Called
<1>12. CASE SendInvalid
  BY <1>12, <1>5 DEF SendInvalid, Calls, Called
<1>13. CASE SendSource
  <2>1. \E o : Returns(o)
    BY <1>13 DEF SendSource
  <2> QED
    BY <1>13, <1>5, <2>1 DEF SendSource, Calls, Called
<1>14. CASE Receive
  <2>1. \E o : Returns(o)
    BY <1>14 DEF Receive
  <2> QED
    BY <1>14, <1>5, <2>1 DEF Receive, Calls, Called
<1>15. ~Report
  BY DEF Report
<1> QED
  BY <1>3, <1>4, <1>6, <1>7, <1>8, <1>9, <1>10, <1>11, <1>12, <1>13, <1>14, <1>15 DEF Step

\* Types, places and presets are kept.
LEMMA BaseStep == ASSUME Base, Next PROVE Base'
<1>1. TypeOK'
  BY TypesKept DEF Base
<1>2. Listed(Steps(probe), Len(Steps(probe)), LastOf(probe))
  BY EveryListed DEF Base, TypeOK
<1>3. CASE Step /\ Running
  <2>1. Moves
    BY <1>3, StepCases
  <2>2. probe' = probe /\ pc' = pc + 1 /\ verdict' = verdict /\ pc \in 1..Len(Steps(probe))
    BY <1>2, <1>3, <2>1 DEF Moves, Base, PlaceInv, Running, Listed
  <2>3. PlaceInv'
    BY <1>2, <1>3, <2>2 DEF PlaceInv, Listed, Base
  <2>4. ASSUME NEW i \in DOMAIN Steps(probe), i >= pc'
        PROVE  obs'[Steps(probe)[i].as] = Preset(Steps(probe)[i].as)
    <3>1. Steps(probe)[i].as # Current.as /\ i >= pc /\ Steps(probe)[i].as \in Labels(probe)
      BY <1>2, <2>2, <2>4 DEF Listed, Current, Labels
    <3> QED
      BY <2>1, <3>1 DEF Moves, Base, PresetInv
  <2> QED
    BY <1>1, <2>2, <2>3, <2>4 DEF Base, PresetInv
<1>4. CASE Report
  <2>1. Judgement(probe)' = Judgement(probe)
    BY <1>4, JudgementStays DEF Report, Base, TypeOK
  <2> QED
    BY <1>1, <1>4, <2>1 DEF Report, Base, PlaceInv, PresetInv, Running
<1>5. CASE Over
  <2>1. Judgement(probe)' = Judgement(probe)
    BY <1>5, JudgementStays DEF Over, vars, Base, TypeOK
  <2> QED
    BY <1>1, <1>5, <2>1 DEF Over, vars, Base, PlaceInv, PresetInv, Running
<1>6. Step => Running \/ Report
  BY DEF Step, Skip, CallFails, Capture, Look, Ask, Change, SendHeader, SendDouble,
         SendInvalid, SendSource, Receive, Calls
<1> QED
  BY <1>3, <1>4, <1>5, <1>6 DEF Next

-----------------------------------------------------------------------------
(* What each kind of call returns and does.                                *)

\* The kernel deviates in the call labelled l.
Dev(l, kind) == dev = [at |-> l, kind |-> kind]

\* A call that was not made or failed, and one that was made, returned o and left the
\* task with what held says.
Lost(l) ==
  /\ obs'[l] = Unasked /\ own' = own
  /\ Ready(Current) => fails' < fails /\ ~Certain(Current.call)
Taken(l, o, held) == Ready(Current) /\ fails' = fails /\ obs'[l] = o /\ own' = held

Fine == Saw("ok", 0, "zero")
Gone == Saw("absent", 0, "zero")

\* The labels whose preset is a failure.
Plain(l) == l \notin {"timed", "poll"}

\* The call decides which action is taken.
LEMMA CallOf ==
  ASSUME Called
  PROVE  /\ Current.call \in {"capture", "capture_during"} => Capture
         /\ Current.call \in {"type", "refs", "refs_recv", "refs_dead"} => Look
         /\ Current.call \in {"ask", "time", "status", "refuse"} => Ask
         /\ Current.call \in Changes => Change
         /\ Current.call \in {"send_copy", "send_move"} => SendHeader
         /\ Current.call = "send_double" => SendDouble
         /\ Current.call = "send_invalid" => SendInvalid
         /\ Current.call \in {"send_dead", "send_free"} => SendSource
         /\ Current.call \in {"receive", "receive_back", "receive_cargo", "receive_dead"} => Receive
  BY DEF Called, Capture, Look, Ask, Change, SendHeader, SendDouble, SendInvalid, SendSource,
         Receive, Calls, Changes

\* A call with a plain label is lost or made.
LEMMA LostOrCalled ==
  ASSUME Base, Step, Running, Plain(Current.as)
  PROVE  Lost(Current.as) \/ Called
  BY StepCases DEF Missed, Lost, Plain, Preset

\* What is returned is what is seen.
LEMMA ReturnsSeen ==
  ASSUME Base, Running, NEW o, Returns(o) PROVE obs'[Current.as] = o
<1>1. Current.as \in Labels(probe) /\ DOMAIN obs = Labels(probe)
  BY CurrentKnown DEF Base, TypeOK
<1> QED
  BY <1>1 DEF Returns

\* nx_baseline_capture
Lied(l) == IF Dev(l, "lie") THEN {<<"phantom", "receive">>} ELSE {}
Snapshot(l) == IF names = "gap" \/ Dev(l, "skip") THEN {} ELSE Listing \cup Lied(l)

Captured(l) ==
  Lost(l) \/ Taken(l, [kr |-> names, refs |-> 0, type |-> "zero", snap |-> Snapshot(l)], own)

\* Every step at a capture of the name space comes out so.
LEMMA DoCapture ==
  ASSUME Base, Step, Running, NEW l, Plain(l), NEW c \in {"capture", "capture_during"}, NEW n,
         NEW needs, Current = Do(l, c, n, needs)
  PROVE  Captured(l)
<1> USE DEF Captured
<1>1. Current.as = l /\ Current.call = c
  BY DEF Do
<1>2. CASE Called
  <2>1. Capture
    BY <1>1, <1>2, CallOf
  <2> QED
    BY <1>1, <1>2, <2>1, ReturnsSeen DEF Capture, Called, Taken, Deviates, Dev, Snapshot, Lied
<1> QED
  BY <1>1, <1>2, LostOrCalled

\* mach_port_type and mach_port_get_refs
Looked(l, c, n) ==
  \/ Lost(l)
  \/ Taken(l, IF Dev(l, "lie") THEN Saw("ok", Truth(c, own[n]).refs + 1, "other")
                               ELSE Truth(c, own[n]), own)

\* Every step at a look at a name comes out so.
LEMMA DoLook ==
  ASSUME Base, Step, Running, NEW l, Plain(l),
         NEW c \in {"type", "refs", "refs_recv", "refs_dead"}, NEW n,
         NEW needs, Current = Do(l, c, n, needs)
  PROVE  Looked(l, c, n)
<1> USE DEF Looked
<1>1. Current.as = l /\ Current.call = c /\ Current.on = n
  BY DEF Do
<1>2. CASE Called
  <2>1. Look
    BY <1>1, <1>2, CallOf
  <2> QED
    BY <1>1, <1>2, <2>1, ReturnsSeen DEF Look, Called, Taken, Deviates, Dev
<1> QED
  BY <1>1, <1>2, LostOrCalled

\* Questions about the task, the host or the clock.
Asked(l) ==
  Lost(l) \/ Taken(l, Saw("ok", IF Dev(l, "lie") THEN 0 ELSE 1, "zero"), own)

\* Every step at a question comes out so.
LEMMA DoAsk ==
  ASSUME Base, Step, Running, NEW l, Plain(l), NEW c \in {"ask", "time"}, NEW n,
         NEW needs, Current = Do(l, c, n, needs)
  PROVE  Asked(l)
<1> USE DEF Asked
<1>1. Current.as = l /\ Current.call = c
  BY DEF Do
<1>2. CASE Called
  <2>1. Ask
    BY <1>1, <1>2, CallOf
  <2>2. Returns(Saw("ok", IF Dev(l, "lie") THEN 0 ELSE 1, "zero")) /\ UNCHANGED <<fails, own>>
    BY <1>1, <2>1 DEF Ask, Deviates, Dev
  <2> QED
    BY <1>1, <1>2, <2>2, ReturnsSeen DEF Called, Taken
<1> QED
  BY <1>1, <1>2, LostOrCalled

\* mach_port_get_attributes of a receive right.
Stated(l, n) ==
  \/ Lost(l)
  \/ Taken(l, IF own[n].right = "none" THEN Gone
              ELSE Saw("ok", own[n].send + own[n].msgs + (IF Dev(l, "lie") THEN 1 ELSE 0),
                       "zero"), own)

\* Every step at a question about a receive right comes out so.
LEMMA DoStatus ==
  ASSUME Base, Step, Running, NEW l, Plain(l), NEW n,
         NEW needs, Current = Do(l, "status", n, needs)
  PROVE  Stated(l, n)
<1> USE DEF Stated
<1>1. Current.as = l /\ Current.call = "status" /\ Current.on = n
  BY DEF Do
<1>2. CASE Called
  <2>1. Ask
    BY <1>1, <1>2, CallOf
  <2>2. /\ Returns(IF own[n].right = "none" THEN Gone
                   ELSE Saw("ok", own[n].send + own[n].msgs + (IF Dev(l, "lie") THEN 1 ELSE 0),
                            "zero"))
        /\ UNCHANGED <<fails, own>>
    BY <1>1, <2>1 DEF Ask, Deviates, Dev, Gone
  <2> QED
    BY <1>1, <1>2, <2>2, ReturnsSeen DEF Called, Taken
<1> QED
  BY <1>1, <1>2, LostOrCalled

\* Calls the kernel must refuse: it accepts one only when it deviates there.
Refused(l) ==
  Lost(l) \/ Taken(l, IF Dev(l, "lie") THEN Fine ELSE Gone, own)

\* Every step at a call that must be refused comes out so.
LEMMA DoRefuse ==
  ASSUME Base, Step, Running, NEW l, Plain(l), NEW n,
         NEW needs, Current = Do(l, "refuse", n, needs)
  PROVE  Refused(l)
<1> USE DEF Refused
<1>1. Current.as = l /\ Current.call = "refuse"
  BY DEF Do
<1>2. CASE Called
  <2>1. Ask
    BY <1>1, <1>2, CallOf
  <2>2. Returns(IF Dev(l, "lie") THEN Fine ELSE Gone) /\ UNCHANGED <<fails, own>>
    BY <1>1, <2>1 DEF Ask, Deviates, Dev, Fine, Gone
  <2> QED
    BY <1>1, <1>2, <2>2, ReturnsSeen DEF Called, Taken
<1> QED
  BY <1>1, <1>2, LostOrCalled

\* The calls that change the rights under one name.
LEMMA DoChange ==
  ASSUME Base, Step, Running, NEW l, Plain(l), NEW c \in Changes, NEW n,
         NEW needs, Current = Do(l, c, n, needs)
  PROVE  \/ Lost(l)
         \/ ~Legal(c, own[n]) /\ Taken(l, Gone, own)
         \/ /\ Legal(c, own[n])
            /\ Taken(l, Fine, IF Dev(l, "skip") THEN own
                              ELSE [own EXCEPT ![n] =
                                      Effect(c, own[n], IF Dev(l, "over") THEN 2 ELSE 1)])
<1>1. Current.as = l /\ Current.call = c /\ Current.on = n
  BY DEF Do
<1>2. CASE Called
  <2>1. Change
    BY <1>1, <1>2, CallOf
  <2>2. CASE Legal(c, own[n])
    BY <1>1, <1>2, <2>1, <2>2, ReturnsSeen DEF Change, Called, Taken, Deviates, Dev, Fine
  <2>3. CASE ~Legal(c, own[n])
    BY <1>1, <1>2, <2>1, <2>3, ReturnsSeen DEF Change, Called, Taken, Gone
  <2> QED
    BY <2>2, <2>3
<1> QED
  BY <1>1, <1>2, LostOrCalled

\* What a name holds, field by field: a receive right with send rights, a port set, a dead
\* name.
Hold(r, s, m, k) == [right |-> r, send |-> s, msgs |-> m, carried |-> k]
Port(s, m, k) == Hold("receive", s, m, k)
SetName == Hold("set", 0, 0, 0)
DeadName(s) == Hold("dead", s, 0, 0)

\* Changes of one or two fields.
WithSend(o, s) == [o EXCEPT !.send = s]
WithRight(o, r) == [o EXCEPT !.right = r]
Dropped(o, s, r) == [o EXCEPT !.send = s, !.right = r]
SentFrom(o, s, m) == [o EXCEPT !.send = s, !.msgs = m]
WithQueue(o, m, k) == [o EXCEPT !.msgs = m, !.carried = k]

\* What they leave, field by field.
LEMMA HoldWith ==
  ASSUME NEW o \in Rights, NEW s \in Int, NEW m \in Int,
         NEW r \in {"none", "receive", "member", "set", "dead"}
  PROVE  /\ WithSend(o, s) = Hold(o.right, s, o.msgs, o.carried)
         /\ WithRight(o, r) = Hold(r, o.send, o.msgs, o.carried)
         /\ Dropped(o, s, r) = Hold(r, s, o.msgs, o.carried)
         /\ SentFrom(o, s, m) = Hold(o.right, s, m, o.carried)
         /\ WithQueue(o, s, m) = Hold(o.right, o.send, s, m)
<1>1. WithSend(o, s) = Hold(o.right, s, o.msgs, o.carried)
  BY DEF Rights, Hold, WithSend
<1>2. WithRight(o, r) = Hold(r, o.send, o.msgs, o.carried)
  BY DEF Rights, Hold, WithRight
<1>3. Dropped(o, s, r) = Hold(r, s, o.msgs, o.carried)
  <2>1. PICK p : p = Dropped(o, s, r)
    OBVIOUS
  <2>2. DOMAIN p = {"right", "send", "msgs", "carried"} /\ p = [x \in DOMAIN p |-> p[x]]
    BY <2>1 DEF Rights, Dropped
  <2>3. p.right = r /\ p.send = s /\ p.msgs = o.msgs /\ p.carried = o.carried
    BY <2>1 DEF Rights, Dropped
  <2> QED
    BY <2>1, <2>2, <2>3 DEF Hold
<1>4. SentFrom(o, s, m) = Hold(o.right, s, m, o.carried)
  <2>1. PICK p : p = SentFrom(o, s, m)
    OBVIOUS
  <2>2. DOMAIN p = {"right", "send", "msgs", "carried"} /\ p = [x \in DOMAIN p |-> p[x]]
    BY <2>1 DEF Rights, SentFrom
  <2>3. p.right = o.right /\ p.send = s /\ p.msgs = m /\ p.carried = o.carried
    BY <2>1 DEF Rights, SentFrom
  <2> QED
    BY <2>1, <2>2, <2>3 DEF Hold
<1>5. WithQueue(o, s, m) = Hold(o.right, o.send, s, m)
  <2>1. PICK p : p = WithQueue(o, s, m)
    OBVIOUS
  <2>2. DOMAIN p = {"right", "send", "msgs", "carried"} /\ p = [x \in DOMAIN p |-> p[x]]
    BY <2>1 DEF Rights, WithQueue
  <2>3. p.right = o.right /\ p.send = o.send /\ p.msgs = s /\ p.carried = m
    BY <2>1 DEF Rights, WithQueue
  <2> QED
    BY <2>1, <2>2, <2>3 DEF Hold
<1> QED
  BY <1>1, <1>2, <1>3, <1>4, <1>5

\* The kernel deviates only in ways that the call knows.
LEMMA DevKinds ==
  ASSUME Base, Running, NEW l, NEW c, NEW n, NEW needs, Current = Do(l, c, n, needs),
         NEW k, Dev(l, k)
  PROVE  k \in Deviations(c) \/ l = "none"
<1>1. Listed(Steps(probe), Len(Steps(probe)), LastOf(probe))
  BY EveryListed DEF Base, TypeOK
<1>2. pc \in DOMAIN Steps(probe) /\ Current.as = l /\ Current.call = c
  BY CurrentKnown DEF Base, Do
<1>3. dev.at = l /\ dev.kind = k /\ dev \in Devs(probe)
  BY DEF Dev, Base, TypeOK
<1>4. CASE dev = Conforms
  BY <1>3, <1>4 DEF Conforms
<1>5. CASE dev # Conforms
  <2>1. PICK i \in DOMAIN Steps(probe) :
          dev \in [at: {Steps(probe)[i].as}, kind: Deviations(Steps(probe)[i].call)]
    BY <1>3, <1>5 DEF Devs
  <2>2. Steps(probe)[i].as = Steps(probe)[pc].as
    BY <1>2, <1>3, <2>1 DEF Current
  <2>3. i = pc
    BY <1>1, <1>2, <2>2 DEF Listed
  <2> QED
    BY <1>2, <1>3, <2>1, <2>3 DEF Current
<1> QED
  BY <1>4, <1>5

\* mach_port_allocate
Allocates(l, c, n) ==
  \/ Lost(l)
  \/ Taken(l, Fine, IF Dev(l, "skip") THEN own
                    ELSE [own EXCEPT ![n] = CASE c = "alloc"     -> Port(0, 0, 0)
                                              [] c = "alloc_set" -> SetName
                                              [] OTHER           -> DeadName(1)])

\* Every step at an allocation comes out so.
LEMMA DoAlloc ==
  ASSUME Base, Step, Running, NEW l, Plain(l), NEW c \in {"alloc", "alloc_set", "alloc_dead"},
         NEW n, NEW needs, Current = Do(l, c, n, needs)
  PROVE  Allocates(l, c, n)
<1> USE DEF Allocates
<1>1. c \in Changes /\ Legal(c, own[n])
  BY DEF Changes, Legal
<1>2. \A i : Effect(c, own[n], i) = CASE c = "alloc"     -> Port(0, 0, 0)
                                      [] c = "alloc_set" -> SetName
                                      [] OTHER           -> DeadName(1)
  <2>1. CASE c = "alloc"
    <3>1. \A i : Effect(c, own[n], i) = [Nothing EXCEPT !.right = "receive"]
      BY <2>1, Zenon DEF Effect
    <3> QED
      BY <2>1, <3>1 DEF Nothing, Port, Hold
  <2>2. CASE c = "alloc_set"
    <3>1. \A i : Effect(c, own[n], i) = [Nothing EXCEPT !.right = "set"]
      BY <2>2, Zenon DEF Effect
    <3> QED
      BY <2>2, <3>1 DEF Nothing, SetName, Hold
  <2>3. CASE c = "alloc_dead"
    <3>1. \A i : Effect(c, own[n], i) = [Nothing EXCEPT !.right = "dead", !.send = 1]
      BY <2>3, Zenon DEF Effect
    <3> QED
      BY <2>3, <3>1 DEF Nothing, DeadName, Hold
  <2> QED
    BY <2>1, <2>2, <2>3
<1> QED
  BY <1>1, <1>2, DoChange

\* mach_port_insert_right, mach_port_mod_refs with +1, mach_host_self
Adds(l, c, n) ==
  \/ Lost(l)
  \/ ~Legal(c, own[n]) /\ Taken(l, Gone, own)
  \/ \E i \in {1, 2} :
       /\ Legal(c, own[n]) /\ (i = 2 <=> Dev(l, "over"))
       /\ c = "host_self" => ~Dev(l, "skip")
       /\ Taken(l, Fine, IF Dev(l, "skip") THEN own
                         ELSE [own EXCEPT ![n] = Hold(own[n].right, own[n].send + i,
                                                      own[n].msgs, own[n].carried)])

\* Every step at a call that adds references comes out so.
LEMMA DoAdd ==
  ASSUME Base, Step, Running, NEW l, Plain(l), l # "none",
         NEW c \in {"insert", "mod_plus", "host_self"},
         NEW n, NEW needs, Current = Do(l, c, n, needs)
  PROVE  Adds(l, c, n)
<1> USE DEF Adds
<1> DEFINE i == IF Dev(l, "over") THEN 2 ELSE 1
<1>1. c \in Changes /\ n \in Names /\ own[n] \in Rights
  BY CurrentKnown DEF Changes, Do, Base, TypeOK
<1>2. Effect(c, own[n], i) = WithSend(own[n], own[n].send + i)
  BY Zenon DEF Effect, WithSend
<1>3. own[n].send + i \in Int /\ i \in {1, 2} /\ (i = 2 <=> Dev(l, "over"))
  BY <1>1, RightsFields
<1>4. Effect(c, own[n], i) = Hold(own[n].right, own[n].send + i, own[n].msgs, own[n].carried)
  <2> HIDE DEF i
  <2> QED
    BY <1>1, <1>2, <1>3, HoldWith
<1>5. c = "host_self" => ~Dev(l, "skip")
  BY DevKinds DEF Deviations
<1>6. \/ Lost(l)
      \/ ~Legal(c, own[n]) /\ Taken(l, Gone, own)
      \/ /\ Legal(c, own[n])
         /\ Taken(l, Fine, IF Dev(l, "skip") THEN own ELSE [own EXCEPT ![n] = Effect(c, own[n], i)])
  BY <1>1, DoChange
<1> HIDE DEF i
<1> QED
  BY <1>3, <1>4, <1>5, <1>6

\* mach_port_mod_refs with -1 and mach_port_deallocate
Drops(l, c, n) ==
  \/ Lost(l)
  \/ ~(own[n].send > 0) /\ Taken(l, Gone, own)
  \/ \E i \in {1, 2} :
       /\ own[n].send > 0 /\ (i = 2 <=> Dev(l, "over"))
       /\ c # "dealloc" => ~Dev(l, "over")
       /\ Taken(l, Fine, IF Dev(l, "skip") THEN own
                         ELSE [own EXCEPT ![n] =
                                 Hold(IF own[n].right = "dead" /\ own[n].send <= i
                                      THEN "none" ELSE own[n].right,
                                      Less(own[n].send, i), own[n].msgs, own[n].carried)])

\* Every step at a call that takes references comes out so.
LEMMA DoDrop ==
  ASSUME Base, Step, Running, NEW l, Plain(l), l # "none",
         NEW c \in {"mod_minus", "dealloc", "drop", "drop_gone"},
         NEW n, NEW needs, Current = Do(l, c, n, needs)
  PROVE  Drops(l, c, n)
<1> USE DEF Drops
<1> DEFINE i == IF Dev(l, "over") THEN 2 ELSE 1
           r == IF own[n].right = "dead" /\ own[n].send <= i THEN "none" ELSE own[n].right
<1>1. /\ c \in Changes /\ n \in Names /\ own[n] \in Rights
      /\ Legal(c, own[n]) <=> own[n].send > 0
  BY CurrentKnown DEF Changes, Do, Base, TypeOK, Legal
<1>2. Effect(c, own[n], i) = Dropped(own[n], Less(own[n].send, i), r)
  BY Zenon DEF Effect, Dropped
<1>3. /\ i \in {1, 2} /\ (i = 2 <=> Dev(l, "over")) /\ Less(own[n].send, i) \in Int
      /\ r \in {"none", "receive", "member", "set", "dead"}
  BY <1>1, RightsFields DEF Less
<1>4. Effect(c, own[n], i) = Hold(r, Less(own[n].send, i), own[n].msgs, own[n].carried)
  <2> HIDE DEF i, r
  <2> QED
    BY <1>1, <1>2, <1>3, HoldWith
<1>5. c # "dealloc" => ~Dev(l, "over")
  BY DevKinds DEF Deviations
<1>6. \/ Lost(l)
      \/ ~(own[n].send > 0) /\ Taken(l, Gone, own)
      \/ /\ own[n].send > 0
         /\ Taken(l, Fine, IF Dev(l, "skip") THEN own ELSE [own EXCEPT ![n] = Effect(c, own[n], i)])
  BY <1>1, DoChange
<1> HIDE DEF i
<1> QED
  BY <1>3, <1>4, <1>5, <1>6

\* mach_port_destroy
Destroys(l, n) ==
  \/ Lost(l)
  \/ ~Exists(own[n]) /\ Taken(l, Gone, own)
  \/ /\ Exists(own[n])
     /\ Taken(l, Fine, IF Dev(l, "skip") THEN own ELSE [own EXCEPT ![n] = Nothing])

\* Every step at a destruction comes out so.
LEMMA DoDestroy ==
  ASSUME Base, Step, Running, NEW l, Plain(l), NEW n, NEW needs,
         Current = Do(l, "destroy", n, needs)
  PROVE  Destroys(l, n)
<1> USE DEF Destroys
<1>1. "destroy" \in Changes /\ (Legal("destroy", own[n]) <=> Exists(own[n]))
  BY DEF Changes, Legal
<1>2. \A i : Effect("destroy", own[n], i) = Nothing
  BY Zenon DEF Effect
<1> QED
  BY <1>1, <1>2, DoChange

\* mach_port_move_member, in and out
MovesMember(l, c, n) ==
  \/ Lost(l)
  \/ ~Legal(c, own[n]) /\ Taken(l, Gone, own)
  \/ /\ Legal(c, own[n])
     /\ Taken(l, Fine, IF Dev(l, "skip") THEN own
                       ELSE [own EXCEPT ![n] =
                               Hold(IF c = "move_in" THEN "member" ELSE "receive",
                                    own[n].send, own[n].msgs, own[n].carried)])

\* Every step at a move in or out of a port set comes out so.
LEMMA DoMove ==
  ASSUME Base, Step, Running, NEW l, Plain(l), NEW c \in {"move_in", "move_out"}, NEW n,
         NEW needs, Current = Do(l, c, n, needs)
  PROVE  MovesMember(l, c, n)
<1> USE DEF MovesMember
<1> DEFINE r == IF c = "move_in" THEN "member" ELSE "receive"
<1>1. c \in Changes /\ n \in Names /\ own[n] \in Rights
  BY CurrentKnown DEF Changes, Do, Base, TypeOK
<1>2. \A i : Effect(c, own[n], i) = WithRight(own[n], r)
  BY Zenon DEF Effect, WithRight
<1>3. \A i : Effect(c, own[n], i) = Hold(r, own[n].send, own[n].msgs, own[n].carried)
  BY <1>1, <1>2, HoldWith
<1> QED
  BY <1>1, <1>3, DoChange

\* The name can be sent to.
Sends(n) == own[n].right \in {"receive", "member"} /\ own[n].send > 0

\* A queue with one more message that carries k rights.
Fuller(o, k) == Hold(o.right, o.send, o.msgs + 1, o.carried + k)

\* That is what queueing makes of it.
LEMMA QueuedIs ==
  ASSUME Base, NEW n \in Names, NEW k \in Nat PROVE Queued(own[n], 1, k) = Fuller(own[n], k)
<1>1. own[n] \in Rights
  BY DEF Base, TypeOK
<1>2. own[n].msgs + 1 \in Nat /\ own[n].carried + k \in Nat
  BY <1>1, RightsFields
<1> QED
  <2>1. Queued(own[n], 1, k) = WithQueue(own[n], own[n].msgs + 1, own[n].carried + k)
    BY DEF Queued, WithQueue
  <2> QED
    BY <1>1, <1>2, <2>1, HoldWith DEF Fuller

\* mach_msg send that copies or moves the header right
SendsHeader(l, c, n) ==
  \/ Lost(l)
  \/ ~Sends(n) /\ Taken(l, Unasked, own)
  \/ \E s, m : /\ Sends(n)
               /\ s = IF (c = "send_move" /\ ~Dev(l, "skip"))
                         \/ (c = "send_copy" /\ Dev(l, "over"))
                      THEN Less(own[n].send, 1) ELSE own[n].send
               /\ m = IF Dev(l, "lost") THEN own[n].msgs ELSE own[n].msgs + 1
               /\ Taken(l, Fine, [own EXCEPT ![n] =
                    Hold(own[n].right, s, m, own[n].carried)])

\* Every step at a send with a header right comes out so.
LEMMA DoSendHeader ==
  ASSUME Base, Step, Running, NEW l, Plain(l), NEW c \in {"send_copy", "send_move"}, NEW n,
         NEW needs, Current = Do(l, c, n, needs)
  PROVE  SendsHeader(l, c, n)
<1> USE DEF SendsHeader
<1>1. Current.as = l /\ Current.call = c /\ Current.on = n
  BY DEF Do
<1>2. CASE Called
  <2>1. SendHeader /\ (CanSend <=> Sends(n))
    BY <1>1, <1>2, CallOf DEF CanSend, Sends
  <2>2. CASE Sends(n)
    <3> DEFINE s == IF \/ c = "send_move" /\ ~Dev(l, "skip")
                       \/ c = "send_copy" /\ Dev(l, "over")
                    THEN Less(own[n].send, 1) ELSE own[n].send
               m == IF Dev(l, "lost") THEN own[n].msgs ELSE own[n].msgs + 1
    <3>1. /\ Returns(Saw("ok", 0, "zero"))
          /\ own' = [own EXCEPT ![n] = SentFrom(own[n], s, m)]
      <4>1. CASE c = "send_move"
        BY <1>1, <2>1, <2>2, <4>1 DEF SendHeader, Deviates, Dev, SentFrom
      <4>2. CASE c = "send_copy"
        BY <1>1, <2>1, <2>2, <4>2 DEF SendHeader, Deviates, Dev, SentFrom
      <4> QED
        BY <4>1, <4>2
    <3>2. Taken(l, Fine, [own EXCEPT ![n] = SentFrom(own[n], s, m)])
      BY <1>1, <1>2, <2>1, <3>1, ReturnsSeen DEF SendHeader, Called, Taken, Fine
    <3>5. own[n] \in Rights
      BY <1>1, CurrentKnown DEF Base, TypeOK
    <3>3. s \in Int /\ m \in Int
      BY <3>5, RightsFields DEF Less
    <3>4. SentFrom(own[n], s, m) = Hold(own[n].right, s, m, own[n].carried)
      <4> HIDE DEF s, m
      <4> QED
        BY <3>3, <3>5, HoldWith
    <3> QED
      BY <2>2, <3>2, <3>4
  <2>3. CASE ~Sends(n)
    BY <1>1, <1>2, <2>1, <2>3, ReturnsSeen DEF SendHeader, Called, Taken
  <2> QED
    BY <2>2, <2>3
<1> QED
  BY <1>1, <1>2, LostOrCalled

\* mach_msg send of two descriptors that move one reference
SendsDouble(l) ==
  \/ Lost(l)
  \/ ~Sends("service") /\ Taken(l, Unasked, own)
  \/ \E spent, full :
       /\ Sends("service")
       /\ spent = Hold(own["cargo"].right, Less(own["cargo"].send, 1),
                       own["cargo"].msgs, own["cargo"].carried)
       /\ full = [own EXCEPT !["service"] = Fuller(own["service"], 2), !["cargo"] = spent]
       /\ CASE Dev(l, "lost") -> Taken(l, Fine, [own EXCEPT !["cargo"] = spent])
            [] Dev(l, "over") -> Taken(l, Unasked, full)
            [] OTHER -> \/ Taken(l, Unasked, own)
                        \/ Taken(l, Unasked, [own EXCEPT !["cargo"] = spent])
                        \/ Taken(l, Fine, full)

\* Every step at the send of double_move comes out so.
LEMMA DoSendDouble ==
  ASSUME Base, Step, Running, NEW l, Plain(l), NEW needs,
         Current = Do(l, "send_double", "service", needs)
  PROVE  SendsDouble(l)
<1> USE DEF SendsDouble
<1>1. Current.as = l /\ Current.call = "send_double" /\ Current.on = "service"
  BY DEF Do
<1>2. CASE Called
  <2>1. SendDouble /\ (CanSend <=> Sends("service"))
    BY <1>1, <1>2, CallOf DEF CanSend, Sends
  <2>2. [own EXCEPT !["cargo"] = own["cargo"]] = own /\ own \in [Names -> Rights]
    BY DEF Base, TypeOK
  <2>3. CASE Sends("service")
    <3> DEFINE spent == Hold(own["cargo"].right, Less(own["cargo"].send, 1),
                             own["cargo"].msgs, own["cargo"].carried)
               full == [own EXCEPT !["service"] = Fuller(own["service"], 2), !["cargo"] = spent]
    <3>5. /\ [own["cargo"] EXCEPT !.send = Less(own["cargo"].send, 1)] = spent
          /\ Queued(own["service"], 1, 2) = Fuller(own["service"], 2)
      <4>1. own["cargo"] \in Rights
        BY <2>2 DEF Names
      <4>2. Less(own["cargo"].send, 1) \in Int
        BY <4>1, RightsFields DEF Less
      <4>3. WithSend(own["cargo"], Less(own["cargo"].send, 1)) = spent
        BY <4>1, <4>2, HoldWith
      <4> QED
        BY <4>3, QueuedIs DEF Names, WithSend
    <3>1. [own EXCEPT !["service"] = own["service"], !["cargo"] = spent]
            = [own EXCEPT !["cargo"] = spent]
      BY <2>2
    <3>2. CASE Dev(l, "lost")
      BY <1>1, <1>2, <2>1, <2>3, <3>1, <3>2, <3>5, ReturnsSeen
         DEF SendDouble, Called, Taken, Deviates, Dev, Fine
    <3>3. CASE Dev(l, "over")
      BY <1>1, <1>2, <2>1, <2>3, <3>3, <3>5, ReturnsSeen
         DEF SendDouble, Called, Taken, Deviates, Dev
    <3>4. CASE ~Dev(l, "lost") /\ ~Dev(l, "over")
      <4>1. \/ Returns(Unasked) /\ own' = [own EXCEPT !["cargo"] = own["cargo"]]
            \/ Returns(Unasked) /\ own' = [own EXCEPT !["cargo"] = spent]
            \/ Returns(Saw("ok", 0, "zero")) /\ own' = full
        BY <1>1, <2>1, <2>3, <3>4, <3>5 DEF SendDouble, Deviates, Dev
      <4> QED
        BY <1>1, <1>2, <2>2, <2>3, <3>4, <4>1, ReturnsSeen DEF Called, Taken, Fine
    <3> QED
      BY <3>2, <3>3, <3>4
  <2>4. CASE ~Sends("service")
    <3>1. Returns(Unasked) /\ own' = own
      BY <1>1, <2>1, <2>2, <2>4 DEF SendDouble
    <3> QED
      BY <1>1, <1>2, <2>4, <3>1, ReturnsSeen DEF Called, Taken
  <2> QED
    BY <2>3, <2>4
<1> QED
  BY <1>1, <1>2, LostOrCalled

\* mach_msg send with a disposition that does not exist
SendsInvalid(l) ==
  \/ Lost(l)
  \/ ~Sends("service") /\ Taken(l, Unasked, own)
  \/ /\ Sends("service")
     /\ CASE Dev(l, "lie")  -> Taken(l, Fine, [own EXCEPT !["service"] =
                                                 Fuller(own["service"], 1)])
          [] Dev(l, "over") -> Taken(l, Unasked, [own EXCEPT !["cargo"] =
                Hold(own["cargo"].right, Less(own["cargo"].send, 1),
                     own["cargo"].msgs, own["cargo"].carried)])
          [] OTHER          -> Taken(l, Unasked, own)

\* Every step at the send of invalid_disposition comes out so.
LEMMA DoSendInvalid ==
  ASSUME Base, Step, Running, NEW l, Plain(l), NEW needs,
         Current = Do(l, "send_invalid", "service", needs)
  PROVE  SendsInvalid(l)
<1> USE DEF SendsInvalid
<1>1. Current.as = l /\ Current.call = "send_invalid" /\ Current.on = "service"
  BY DEF Do
<1>2. CASE Called
  <2>1. SendInvalid /\ (CanSend <=> Sends("service"))
    BY <1>1, <1>2, CallOf DEF CanSend, Sends
  <2>4. own \in [Names -> Rights] /\ own["cargo"] \in Rights
    BY DEF Base, TypeOK, Names
  <2>5. Less(own["cargo"].send, 1) \in Int
    BY <2>4, RightsFields DEF Less
  <2>2. WithSend(own["cargo"], Less(own["cargo"].send, 1))
          = Hold(own["cargo"].right, Less(own["cargo"].send, 1), own["cargo"].msgs,
                 own["cargo"].carried)
    BY <2>4, <2>5, HoldWith
  <2>3. /\ [own EXCEPT !["cargo"].send = Less(own["cargo"].send, 1)]
             = [own EXCEPT !["cargo"] = Hold(own["cargo"].right, Less(own["cargo"].send, 1),
                                             own["cargo"].msgs, own["cargo"].carried)]
        /\ Queued(own["service"], 1, 1) = Fuller(own["service"], 1)
    BY <2>2, QueuedIs DEF Names, WithSend
  <2>6. CASE Dev(l, "lie")
    BY <1>1, <1>2, <2>1, <2>3, <2>6, ReturnsSeen
       DEF SendInvalid, Called, Taken, Deviates, Dev, Fine
  <2>7. CASE ~Dev(l, "lie")
    BY <1>1, <1>2, <2>1, <2>3, <2>7, ReturnsSeen DEF SendInvalid, Called, Taken, Deviates, Dev
  <2> QED
    BY <2>6, <2>7
<1> QED
  BY <1>1, <1>2, LostOrCalled

\* mach_msg send of a descriptor for a dead name
SendsDead(l, n) ==
  \/ Lost(l)
  \/ ~Sends(n) /\ Taken(l, Unasked, own)
  \/ own["source"].right # "dead" /\ Taken(l, Saw("invalid_right", 0, "zero"), own)
  \/ /\ Sends(n) /\ own["source"].right = "dead"
     /\ Taken(l, Fine, [own EXCEPT
          ![n] = IF Dev(l, "lost") THEN @ ELSE Fuller(own[n], 1),
          !["source"] = IF Dev(l, "skip") THEN @ ELSE Nothing])

\* Every step at the send of the dead name comes out so.
LEMMA DoSendDead ==
  ASSUME Base, Step, Running, NEW l, Plain(l), NEW n, NEW needs,
         Current = Do(l, "send_dead", n, needs)
  PROVE  SendsDead(l, n)
<1> USE DEF SendsDead
<1>1. Current.as = l /\ Current.call = "send_dead" /\ Current.on = n
  BY DEF Do
<1>3. Queued(own[n], 1, 1) = Fuller(own[n], 1)
  BY <1>1, CurrentKnown, QueuedIs DEF Base
<1>2. CASE Called
  <2>1. SendSource /\ (CanSend <=> Sends(n))
    BY <1>1, <1>2, CallOf DEF CanSend, Sends
  <2>2. CASE ~Sends(n)
    BY <1>1, <1>2, <2>1, <2>2, ReturnsSeen DEF SendSource, Called, Taken
  <2>3. CASE Sends(n) /\ own["source"].right # "dead"
    BY <1>1, <1>2, <2>1, <2>3, ReturnsSeen DEF SendSource, Called, Taken
  <2>4. CASE Sends(n) /\ own["source"].right = "dead"
    <3>1. /\ Returns(Saw("ok", 0, "zero"))
          /\ own' = [own EXCEPT ![n] = IF Dev(l, "lost") THEN @ ELSE Fuller(own[n], 1),
                                !["source"] = IF Dev(l, "skip") THEN @ ELSE Nothing]
      BY <1>1, <1>3, <2>1, <2>4 DEF SendSource, Deviates, Dev
    <3> QED
      BY <1>1, <1>2, <2>1, <2>4, <3>1, ReturnsSeen DEF Called, Taken, Fine
  <2> QED
    BY <2>2, <2>3, <2>4
<1> QED
  BY <1>1, <1>2, LostOrCalled

\* mach_msg send of a descriptor for a name that does not exist
SendsFree(l, n) ==
  \/ Lost(l)
  \/ ~Sends(n) /\ Taken(l, Unasked, own)
  \/ ~Dev(l, "lie") /\ Sends(n) /\ Taken(l, Saw("invalid_right", 0, "zero"), own)
  \/ Dev(l, "lie") /\ Sends(n) /\ Taken(l, Fine, [own EXCEPT ![n] = Fuller(own[n], 1)])

\* Every step at the send of a name that does not exist comes out so.
LEMMA DoSendFree ==
  ASSUME Base, Step, Running, NEW l, Plain(l), NEW n, NEW needs,
         Current = Do(l, "send_free", n, needs)
  PROVE  SendsFree(l, n)
<1> USE DEF SendsFree
<1>1. Current.as = l /\ Current.call = "send_free" /\ Current.on = n
  BY DEF Do
<1>3. Queued(own[n], 1, 1) = Fuller(own[n], 1)
  BY <1>1, CurrentKnown, QueuedIs DEF Base
<1>2. CASE Called
  <2>1. SendSource /\ (CanSend <=> Sends(n))
    BY <1>1, <1>2, CallOf DEF CanSend, Sends
  <2>2. CASE ~Sends(n)
    BY <1>1, <1>2, <2>1, <2>2, ReturnsSeen DEF SendSource, Called, Taken
  <2>3. CASE Sends(n) /\ ~Dev(l, "lie")
    BY <1>1, <1>2, <2>1, <2>3, ReturnsSeen DEF SendSource, Called, Taken, Deviates, Dev
  <2>4. CASE Sends(n) /\ Dev(l, "lie")
    BY <1>1, <1>2, <1>3, <2>1, <2>4, ReturnsSeen
       DEF SendSource, Called, Taken, Deviates, Dev, Fine
  <2> QED
    BY <2>2, <2>3, <2>4
<1> QED
  BY <1>1, <1>2, LostOrCalled

\* A queue with a message less.
Emptied(o) == Hold(o.right, o.send, o.msgs - 1, 0)

\* mach_msg receive: what it returns, whatever it delivers
LEMMA DoReceiveAny ==
  ASSUME Base, Running, Called, NEW l, NEW c \in {"receive", "receive_back", "receive_cargo",
         "receive_dead"}, NEW n, NEW needs, Current = Do(l, c, n, needs),
         NEW f, f = IF n = "set" THEN "service" ELSE n,
         NEW there, there <=> (own[f].msgs > 0 /\ (n = "set" => own[f].right = "member"))
  PROVE  /\ ~there => Taken(l, IF Dev(l, "lie") THEN Saw("ok", 0, "other")
                               ELSE Saw("timed_out", 0, "zero"), own)
         /\ there => \E back \in {0, 1} :
              Taken(l, Saw("ok", own[f].carried, IF Dev(l, "lie") THEN "other" ELSE "msg"),
                    Delivered(back))
<1>1. Current.as = l /\ Current.call = c /\ Current.on = n /\ From = f /\ (Arrived <=> there)
  BY DEF Do, From, Arrived
<1>2. Receive
  BY <1>1, CallOf
<1>3. CASE ~there
  BY <1>1, <1>2, <1>3, ReturnsSeen DEF Receive, Called, Taken, Deviates, Dev
<1>4. CASE there
  <2>1. /\ Returns(Saw("ok", own[f].carried, IF Dev(l, "lie") THEN "other" ELSE "msg"))
        /\ \E back \in {0, 1} : own' = Delivered(back)
    BY <1>1, <1>2, <1>4 DEF Receive, Deviates, Dev
  <2> QED
    BY <1>1, <1>2, <1>4, <2>1, ReturnsSeen DEF Receive, Called, Taken
<1> QED
  BY <1>3, <1>4

\* A right too many.
Extra(l) == IF Dev(l, "over") THEN 1 ELSE 0

\* What a message leaves behind and brings.
LEMMA DeliveredIs ==
  ASSUME TypeOK, From \in Names, NEW back \in {0, 1}
  PROVE  LET f == From
             extra == Extra(Current.as)
         IN /\ Current.call = "receive" => Delivered(back) = [own EXCEPT ![f] = Emptied(own[f])]
            /\ Current.call = "receive_back" => Delivered(back) = [own EXCEPT ![f] =
                 Hold(own[f].right, own[f].send + back + 2 * extra, own[f].msgs - 1, 0)]
            /\ Current.call = "receive_cargo" /\ f = "service" => Delivered(back) = [own EXCEPT
                 ![f] = Emptied(own[f]), !["cargo"] =
                   Hold(own["cargo"].right, own["cargo"].send + own[f].carried + extra,
                        own["cargo"].msgs, own["cargo"].carried)]
            /\ Current.call = "receive_dead" /\ f = "service" => Delivered(back) = [own EXCEPT
                 ![f] = Emptied(own[f]), !["delivered"] = DeadName(own[f].carried + extra)]
<1> DEFINE f == From
           l == Current.as
           c == Current.call
<1>2. own \in [Names -> Rights] /\ own[f] \in Rights /\ own["cargo"] \in Rights
  BY DEF TypeOK, Names
<1> DEFINE empty == [own EXCEPT ![f].msgs = own[f].msgs - 1, ![f].carried = 0]
<1>3. empty = [own EXCEPT ![f] = Emptied(own[f])]
  <2>1. own[f].msgs - 1 \in Int
    BY <1>2, RightsFields
  <2>2. [own[f] EXCEPT !.msgs = own[f].msgs - 1, !.carried = 0] = Emptied(own[f])
    <3>1. WithQueue(own[f], own[f].msgs - 1, 0) = Emptied(own[f])
      BY <1>2, <2>1, HoldWith DEF Emptied
    <3> QED
      BY <3>1 DEF WithQueue
  <2> QED
    BY <1>2, <2>2
<1>4. ASSUME c = "receive" PROVE Delivered(back) = [own EXCEPT ![f] = Emptied(own[f])]
  BY <1>3, <1>4 DEF Delivered
<1>5. ASSUME c = "receive_back"
      PROVE  Delivered(back) = [own EXCEPT ![f] =
               Hold(own[f].right, own[f].send + back + 2 * Extra(l), own[f].msgs - 1, 0)]
  <2>1. Delivered(back) = [empty EXCEPT ![f].send = empty[f].send + back + 2 * Extra(l)]
    BY <1>5 DEF Delivered, Deviates, Dev, Extra
  <2>2. empty[f] = Emptied(own[f]) /\ empty[f].send = own[f].send
    BY <1>2, <1>3 DEF Emptied, Hold
  <2>3. ASSUME NEW s PROVE [Emptied(own[f]) EXCEPT !.send = s] =
          Hold(own[f].right, s, own[f].msgs - 1, 0)
    BY DEF Emptied, Hold
  <2>4. Delivered(back) = [empty EXCEPT ![f] =
          Hold(own[f].right, own[f].send + back + 2 * Extra(l), own[f].msgs - 1, 0)]
    BY <2>1, <2>2, <2>3
  <2> HIDE DEF empty
  <2> QED
    BY <1>2, <1>3, <2>4
<1>6. ASSUME c = "receive_cargo", f = "service"
      PROVE  Delivered(back) = [own EXCEPT ![f] = Emptied(own[f]), !["cargo"] =
               Hold(own["cargo"].right, own["cargo"].send + own[f].carried + Extra(l),
                    own["cargo"].msgs, own["cargo"].carried)]
  <2>1. Delivered(back) =
          [empty EXCEPT !["cargo"].send = empty["cargo"].send + own[f].carried + Extra(l)]
    BY <1>6 DEF Delivered, Deviates, Dev, Extra
  <2>2. empty["cargo"] = own["cargo"]
    BY <1>2, <1>3, <1>6 DEF Names
  <2>3. own["cargo"].send + own[f].carried + Extra(l) \in Int
    BY <1>2, RightsFields DEF Extra
  <2>4. Delivered(back) = [empty EXCEPT !["cargo"] =
          Hold(own["cargo"].right, own["cargo"].send + own[f].carried + Extra(l),
               own["cargo"].msgs, own["cargo"].carried)]
    <3> DEFINE s == own["cargo"].send + own[f].carried + Extra(l)
    <3>2. s \in Int
      BY <2>3
    <3>1. WithSend(own["cargo"], s) = Hold(own["cargo"].right, s, own["cargo"].msgs,
                                           own["cargo"].carried)
      <4> HIDE DEF s
      <4> QED
        BY <1>2, <3>2, HoldWith
    <3> QED
      BY <2>1, <2>2, <3>1 DEF WithSend
  <2> HIDE DEF empty
  <2> QED
    BY <1>2, <1>3, <2>4
<1>7. ASSUME c = "receive_dead", f = "service"
      PROVE  Delivered(back) = [own EXCEPT
               ![f] = Emptied(own[f]), !["delivered"] = DeadName(own[f].carried + Extra(l))]
  <2>1. Delivered(back) = [empty EXCEPT !["delivered"] =
                             [Nothing EXCEPT !.right = "dead", !.send = own[f].carried + Extra(l)]]
    BY <1>7 DEF Delivered, Deviates, Dev, Extra
  <2>2. ASSUME NEW k \in Nat PROVE [Nothing EXCEPT !.right = "dead", !.send = k] = DeadName(k)
    <3>1. [Nothing EXCEPT !.right = "dead"] = DeadName(0)
      BY DEF Nothing, DeadName, Hold
    <3>2. [DeadName(0) EXCEPT !.send = k] = DeadName(k)
      BY DEF DeadName, Hold
    <3> QED
      BY <3>1, <3>2
  <2>3. own[f].carried + Extra(l) \in Nat
    BY <1>2, RightsFields DEF Extra
  <2> HIDE DEF empty
  <2> QED
    BY <1>2, <1>3, <2>1, <2>2, <2>3
<1> QED
  BY <1>4, <1>5, <1>6, <1>7

\* The receive finds nothing: it times out, or the kernel makes a message up.
Nobody(l) ==
  Taken(l, IF Dev(l, "lie") THEN Saw("ok", 0, "other") ELSE Saw("timed_out", 0, "zero"), own)

\* What the receive reports of a message that carries k rights.
Message(l, k) == Saw("ok", k, IF Dev(l, "lie") THEN "other" ELSE "msg")

\* mach_msg receive on a port
Receives(l, n) ==
  \/ Lost(l)
  \/ ~(own[n].msgs > 0) /\ Nobody(l)
  \/ /\ own[n].msgs > 0
     /\ Taken(l, Message(l, own[n].carried), [own EXCEPT ![n] = Emptied(own[n])])

\* Every step at a receive on a port comes out so.
LEMMA DoReceive ==
  ASSUME Base, Step, Running, NEW l, Plain(l), NEW n, n # "set", NEW needs,
         Current = Do(l, "receive", n, needs)
  PROVE  Receives(l, n)
<1> USE DEF Receives
<1>1. Current.as = l /\ Current.call = "receive" /\ n \in Names /\ From = n
  BY CurrentKnown DEF Do, Base, From
<1>2. CASE Called
  <2>1. CASE own[n].msgs > 0
    <3>1. PICK back \in {0, 1} : Taken(l, Message(l, own[n].carried), Delivered(back))
      BY <1>2, <2>1, DoReceiveAny DEF Message
    <3>2. Delivered(back) = [own EXCEPT ![n] = Emptied(own[n])]
      BY <1>1, DeliveredIs DEF Base
    <3> QED
      BY <2>1, <3>1, <3>2
  <2>2. CASE ~(own[n].msgs > 0)
    BY <1>2, <2>2, DoReceiveAny DEF Nobody
  <2> QED
    BY <2>1, <2>2
<1> QED
  BY <1>1, <1>2, LostOrCalled

\* mach_msg receive on a port set
ReceivesSet(l) ==
  \/ Lost(l)
  \/ ~(own["service"].msgs > 0 /\ own["service"].right = "member") /\ Nobody(l)
  \/ /\ own["service"].msgs > 0 /\ own["service"].right = "member"
     /\ Taken(l, Message(l, own["service"].carried),
              [own EXCEPT !["service"] = Emptied(own["service"])])

\* Every step at a receive on a port set comes out so.
LEMMA DoReceiveSet ==
  ASSUME Base, Step, Running, NEW l, Plain(l), NEW needs,
         Current = Do(l, "receive", "set", needs)
  PROVE  ReceivesSet(l)
<1> USE DEF ReceivesSet
<1>1. Current.as = l /\ Current.call = "receive" /\ "service" \in Names /\ From = "service"
  BY DEF Do, Names, From
<1>2. CASE Called
  <2>1. CASE own["service"].msgs > 0 /\ own["service"].right = "member"
    <3>1. PICK back \in {0, 1} : Taken(l, Message(l, own["service"].carried), Delivered(back))
      BY <1>2, <2>1, DoReceiveAny DEF Message
    <3>2. Delivered(back) = [own EXCEPT !["service"] = Emptied(own["service"])]
      BY <1>1, DeliveredIs DEF Base
    <3> QED
      BY <2>1, <3>1, <3>2
  <2>2. CASE ~(own["service"].msgs > 0 /\ own["service"].right = "member")
    BY <1>2, <2>2, DoReceiveAny DEF Nobody
  <2> QED
    BY <2>1, <2>2
<1> QED
  BY <1>1, <1>2, LostOrCalled

\* mach_msg receive of a message whose header right may come back
ReceivesBack(l, n) ==
  \/ Lost(l)
  \/ ~(own[n].msgs > 0) /\ Nobody(l)
  \/ \E back \in {0, 1} :
       /\ own[n].msgs > 0
       /\ Taken(l, Message(l, own[n].carried), [own EXCEPT ![n] =
            Hold(own[n].right, own[n].send + back + 2 * Extra(l), own[n].msgs - 1, 0)])

\* Every step at the receive of a moved header right comes out so.
LEMMA DoReceiveBack ==
  ASSUME Base, Step, Running, NEW l, Plain(l), NEW n, n # "set", NEW needs,
         Current = Do(l, "receive_back", n, needs)
  PROVE  ReceivesBack(l, n)
<1> USE DEF ReceivesBack
<1>1. Current.as = l /\ Current.call = "receive_back" /\ n \in Names /\ From = n
  BY CurrentKnown DEF Do, Base, From
<1>2. CASE Called
  <2>1. CASE own[n].msgs > 0
    <3>1. PICK back \in {0, 1} : Taken(l, Message(l, own[n].carried), Delivered(back))
      BY <1>2, <2>1, DoReceiveAny DEF Message
    <3>2. Delivered(back) = [own EXCEPT ![n] =
            Hold(own[n].right, own[n].send + back + 2 * Extra(l), own[n].msgs - 1, 0)]
      BY <1>1, DeliveredIs DEF Base
    <3> QED
      BY <2>1, <3>1, <3>2
  <2>2. CASE ~(own[n].msgs > 0)
    BY <1>2, <2>2, DoReceiveAny DEF Nobody
  <2> QED
    BY <2>1, <2>2
<1> QED
  BY <1>1, <1>2, LostOrCalled

\* mach_msg receive of descriptors
ReceivesRights(l, c) ==
  \/ Lost(l)
  \/ ~(own["service"].msgs > 0) /\ Nobody(l)
  \/ \E k : /\ own["service"].msgs > 0
            /\ k = own["service"].carried + Extra(l)
            /\ Taken(l, Message(l, own["service"].carried),
                 IF c = "receive_cargo"
                 THEN [own EXCEPT !["service"] = Emptied(own["service"]),
                         !["cargo"] = Hold(own["cargo"].right, own["cargo"].send + k,
                                          own["cargo"].msgs, own["cargo"].carried)]
                 ELSE [own EXCEPT !["service"] = Emptied(own["service"]),
                         !["delivered"] = DeadName(k)])

\* Every step at a receive of descriptors comes out so.
LEMMA DoReceiveRights ==
  ASSUME Base, Step, Running, NEW l, Plain(l), NEW c \in {"receive_cargo", "receive_dead"},
         NEW needs, Current = Do(l, c, "service", needs)
  PROVE  ReceivesRights(l, c)
<1> USE DEF ReceivesRights
<1>1. Current.as = l /\ Current.call = c /\ "service" \in Names /\ From = "service"
  BY DEF Do, Names, From
<1>3. /\ own["cargo"].send \in Nat /\ own["service"].carried \in Nat /\ Extra(l) \in Nat
      /\ own["cargo"].send + own["service"].carried + Extra(l)
           = own["cargo"].send + (own["service"].carried + Extra(l))
  BY RightsFields DEF Base, TypeOK, Names, Extra
<1>2. CASE Called
  <2>1. CASE own["service"].msgs > 0
    <3>1. PICK back \in {0, 1} : Taken(l, Message(l, own["service"].carried), Delivered(back))
      BY <1>2, <2>1, DoReceiveAny DEF Message
    <3>2. /\ c = "receive_cargo" => Delivered(back) = [own EXCEPT
               !["service"] = Emptied(own["service"]), !["cargo"] =
                 Hold(own["cargo"].right, own["cargo"].send + own["service"].carried + Extra(l),
                      own["cargo"].msgs, own["cargo"].carried)]
          /\ c = "receive_dead" => Delivered(back) = [own EXCEPT
               !["service"] = Emptied(own["service"]),
               !["delivered"] = DeadName(own["service"].carried + Extra(l))]
      BY <1>1, DeliveredIs DEF Base
    <3> QED
      BY <1>3, <2>1, <3>1, <3>2
  <2>2. CASE ~(own["service"].msgs > 0)
    BY <1>2, <2>2, DoReceiveAny DEF Nobody
  <2> QED
    BY <2>1, <2>2
<1> QED
  BY <1>1, <1>2, LostOrCalled

\* mach_msg receive in msg_rcv_timeout, where the preset is what is expected
ReceivesTimed(l) ==
  /\ own' = own
  /\ \/ ~Ready(Current) /\ obs'[l] = Saw("timed_out", 0, "zero")
     \/ fails' < fails /\ obs'[l] = Unasked
     \/ Nobody(l)

\* Every step at a receive of msg_rcv_timeout comes out so.
LEMMA DoReceiveTimed ==
  ASSUME Base, Step, Running, NEW l \in {"timed", "poll"}, NEW n, n # "set", NEW needs,
         Current = Do(l, "receive", n, needs), ~(own[n].msgs > 0)
  PROVE  ReceivesTimed(l)
<1> USE DEF ReceivesTimed
<1>1. Current.as = l
  BY DEF Do
<1>2. CASE Called
  <2>1. Nobody(l)
    BY <1>2, DoReceiveAny DEF Nobody
  <2> QED
    BY <2>1 DEF Nobody, Taken
<1>3. CASE Missed
  BY <1>1, <1>3 DEF Missed, Preset
<1> QED
  BY <1>2, <1>3, StepCases

-----------------------------------------------------------------------------
(* What each probe has seen and what the task holds.  For every probe      *)
(* <Probe>Seen is what its chain demands of the calls made so far, and     *)
(* <Probe>Held what the task holds if it was seen, with the deviations     *)
(* that were revealed if they were there.                                  *)

Ph == <<"phantom", "receive">>

\* The kernel conforms and has failed no call.
Quiet == dev = Conforms /\ fails = MaxFails

\* The snapshots: each was lost with a call that failed, or shows the phantom exactly
\* if the kernel lied there; the first shows nothing else and the last what there is.
SnapsInv ==
  /\ own["phantom"] = Nothing
  /\ pc = 1 => \A n \in Names : own[n] = Nothing
  /\ \A i \in DOMAIN Steps(probe) :
       LET l == Steps(probe)[i].as
       IN l \in Captures /\ i < pc =>
            \/ obs[l] = Unasked /\ fails < MaxFails
            \/ obs[l].kr = names /\ (Ph \in obs[l].snap <=> names = "ok" /\ Dev(l, "lie"))
  /\ pc > 1 => obs["before"].snap \subseteq {Ph}
  /\ ~Running /\ Ok(LastOf(probe)) => obs[LastOf(probe)].snap \ {Ph} = Listing

\* No name but these holds anything.
Rest(ns) == \A n \in Names \ ns : own[n] = Nothing

\* A port after an allocation, and the references an insertion leaves.
Allocated(l) == IF Dev(l, "skip") THEN Nothing ELSE Port(0, 0, 0)
Inserted(l) == IF Dev(l, "skip") THEN 0 ELSE IF Dev(l, "over") THEN 2 ELSE 1

\* A name after its destruction, and one that is there.
Destroyed(l, o) == IF Dev(l, "skip") THEN Exists(o) ELSE o = Nothing
Shows(l, type) == Ok(l) /\ obs[l].type = type

HeaderBeginSeen ==
  /\ pc > 2 => Ok("alloc")
  /\ pc > 3 => Ok("insert")
  /\ pc > 4 => Counted("refs_before", 1)
  /\ pc > 5 => Shows("type_before", "send_receive")
  /\ pc > 6 => Ok("send")

HeaderBeginHeld ==
  /\ Rest({"service"})
  /\ pc <= 2 => own["service"] = Nothing
  /\ pc = 3 => own["service"] = Allocated("alloc")
  /\ pc > 3 => ~Dev("alloc", "skip")
  /\ pc = 4 => own["service"] = Port(Inserted("insert"), 0, 0)
  /\ pc > 4 => ~Dev("insert", "skip") /\ ~Dev("insert", "over") /\ ~Dev("refs_before", "lie")
  /\ pc \in 5..6 => own["service"] = Port(1, 0, 0)
  /\ pc > 5 => ~Dev("type_before", "lie")

HeaderCopySeen ==
  /\ HeaderBeginSeen
  /\ pc > 7 => Counted("refs_sent", 1)
  /\ pc > 8 => Shows("type_sent", "send_receive")
  /\ pc > 9 => Shows("receive", "msg")
  /\ pc > 10 => Ok("refs_received")
  /\ pc > 11 => Shows("type_received", "send_receive")
  /\ pc > 12 => Ok("destroy")

HeaderCopyHeld ==
  /\ HeaderBeginHeld
  /\ pc = 7 => own["service"] = Port(IF Dev("send", "over") THEN 0 ELSE 1,
                                     IF Dev("send", "lost") THEN 0 ELSE 1, 0)
  /\ pc > 7 => ~Dev("send", "over") /\ ~Dev("refs_sent", "lie")
  /\ pc \in 8..9 => own["service"] = Port(1, IF Dev("send", "lost") THEN 0 ELSE 1, 0)
  /\ pc > 8 => ~Dev("type_sent", "lie")
  /\ pc > 9 => ~Dev("send", "lost") /\ ~Dev("receive", "lie")
  /\ pc \in 10..12 => own["service"] = Port(1, 0, 0)
  /\ pc > 11 => ~Dev("type_received", "lie")
  /\ pc > 12 => Destroyed("destroy", own["service"])

HeaderMoveSeen ==
  /\ HeaderBeginSeen
  /\ pc > 7 => Counted("refs_sent", 0)
  /\ pc > 8 => Shows("type_sent", "receive")
  /\ pc > 9 => Shows("receive", "msg")
  /\ pc > 10 => Ok("refs_received") /\ obs["refs_received"].refs \in {0, 1}
  /\ pc > 11 => Ok("type_received") /\ TypeMatchesRefs
  /\ pc > 12 => (obs["refs_received"].refs = 1 => Ok("use_send"))
  /\ pc > 13 => (obs["refs_received"].refs = 1 => Ok("use_receive"))
  /\ pc > 15 => Ok("destroy")

HeaderMoveHeld ==
  /\ HeaderBeginHeld
  /\ pc = 7 => own["service"] = Port(IF Dev("send", "skip") THEN 1 ELSE 0,
                                     IF Dev("send", "lost") THEN 0 ELSE 1, 0)
  /\ pc > 7 => ~Dev("send", "skip") /\ ~Dev("refs_sent", "lie")
  /\ pc \in 8..9 => own["service"] = Port(0, IF Dev("send", "lost") THEN 0 ELSE 1, 0)
  /\ pc > 8 => ~Dev("type_sent", "lie")
  /\ pc > 9 => ~Dev("send", "lost") /\ ~Dev("receive", "lie")
  /\ pc = 10 => \E b \in {0, 1} : own["service"] = Port(b + 2 * Extra("receive"), 0, 0)
  /\ pc > 10 => ~Dev("receive", "over")
  /\ pc = 11 => \E b \in {0, 1} :
       /\ own["service"] = Port(b, 0, 0)
       /\ obs["refs_received"].refs = IF Dev("refs_received", "lie") THEN b + 1 ELSE b
  /\ pc > 11 => ~Dev("refs_received", "lie") /\ ~Dev("type_received", "lie")
  /\ pc = 12 => own["service"] = Port(obs["refs_received"].refs, 0, 0)
  /\ pc = 13 => IF obs["refs_received"].refs = 1
                THEN own["service"] = Port(IF Dev("use_send", "over") THEN 0 ELSE 1,
                                           IF Dev("use_send", "lost") THEN 0 ELSE 1, 0)
                ELSE own["service"] = Port(0, 0, 0)
  /\ pc > 13 => (obs["refs_received"].refs = 1 => ~Dev("use_send", "lost"))
  /\ pc \in 14..15 => \E b \in {0, 1} : own["service"] = Port(b, 0, 0)
  /\ pc > 15 => Destroyed("destroy", own["service"])

\* The two ports of the m2 probes.
CargoSeen ==
  /\ pc > 2 => Ok("alloc")
  /\ pc > 3 => Ok("insert")
  /\ pc > 4 => Ok("alloc_cargo")
  /\ pc > 5 => Ok("insert_cargo")

CargoHeld ==
  /\ Rest({"service", "cargo"})
  /\ pc <= 2 => own["service"] = Nothing
  /\ pc = 3 => own["service"] = Allocated("alloc")
  /\ pc > 3 => ~Dev("alloc", "skip")
  /\ pc <= 4 => own["cargo"] = Nothing
  /\ pc = 5 => own["cargo"] = Allocated("alloc_cargo")
  /\ pc > 5 => ~Dev("alloc_cargo", "skip")

DoubleMoveSeen ==
  /\ CargoSeen
  /\ pc > 6 => Ok("type_before")
  /\ pc > 7 => Ok("refs_before")
  /\ pc > 11 => IF Ok("send") THEN Ok("receive") ELSE obs["receive"].kr = "timed_out"
  /\ pc > 16 => Ok("destroy_cargo")
  /\ pc > 17 => Ok("destroy")

DoubleMoveHeld ==
  /\ CargoHeld
  /\ pc \in 4..8 => own["service"] = Port(Inserted("insert"), 0, 0)
  /\ pc \in 6..16 => own["cargo"].right = "receive"
  /\ pc \in 9..17 => own["service"].right = "receive"
  /\ pc \in 9..11 =>
       /\ Dev("send", "lost") => Ok("send") /\ own["service"].msgs = 0
       /\ Dev("send", "over") => ~Ok("send") /\ own["service"].msgs > 0
       /\ ~Dev("send", "lost") /\ ~Dev("send", "over") => (Ok("send") <=> own["service"].msgs > 0)
  /\ pc > 11 => ~Dev("send", "lost") /\ ~Dev("send", "over")
  /\ pc > 16 => Destroyed("destroy_cargo", own["cargo"])
  /\ pc > 17 => Destroyed("destroy", own["service"])

InvalidDispositionSeen ==
  /\ CargoSeen
  /\ pc > 6 => Ok("service_before")
  /\ pc > 7 => Ok("refs_before")
  /\ pc > 8 => Ok("type_before")
  /\ pc > 9 => ~Ok("send")
  /\ pc > 10 => SameRefs("service_before", "service_after")
  /\ pc > 11 => SameRefs("refs_before", "refs_after")
  /\ pc > 12 => SameType("type_before", "type_after")
  /\ pc > 13 => obs["receive"].kr = "timed_out"
  /\ pc > 15 => Ok("destroy_cargo")
  /\ pc > 16 => Ok("destroy")

\* What a look at a count and at a type reports.
Count(l, n) == IF Dev(l, "lie") THEN n + 1 ELSE n
Kind(l, type) == IF Dev(l, "lie") THEN "other" ELSE type

InvalidDispositionHeld ==
  /\ CargoHeld
  /\ pc \in 4..16 => own["service"] = Port(Inserted("insert"), 0, 0)
  /\ pc \in 6..9 => own["cargo"] = Port(Inserted("insert_cargo"), 0, 0)
  /\ pc \in 7..10 => obs["service_before"].refs = Count("service_before", Inserted("insert"))
  /\ pc \in 8..11 => obs["refs_before"].refs = Count("refs_before", Inserted("insert_cargo"))
  /\ pc \in 9..12 => obs["type_before"].type =
       Kind("type_before", IF Inserted("insert_cargo") = 0 THEN "receive" ELSE "send_receive")
  /\ pc > 9 => ~Dev("send", "lie")
  /\ pc \in 10..15 => own["cargo"] = Port(IF Dev("send", "over") THEN 0
                                          ELSE Inserted("insert_cargo"), 0, 0)
  /\ pc > 10 => ~Dev("service_before", "lie") /\ ~Dev("service_after", "lie")
  /\ pc > 11 => ~Dev("refs_before", "lie") /\ ~Dev("refs_after", "lie") /\ ~Dev("send", "over")
  /\ pc > 12 => ~Dev("type_before", "lie") /\ ~Dev("type_after", "lie")
  /\ pc > 13 => ~Dev("receive", "lie")
  /\ pc > 15 => Destroyed("destroy_cargo", own["cargo"])
  /\ pc > 16 => Destroyed("destroy", own["service"])

DeadNameSeen ==
  /\ pc > 2 => Ok("alloc")
  /\ pc > 3 => Ok("insert")
  /\ pc > 4 => Ok("alloc_dead")
  /\ pc > 5 => Shows("type_before", "dead")
  /\ pc > 6 => Counted("refs_before", 1)
  /\ pc > 7 => Ok("send")
  /\ pc > 8 => Absent("type_after")
  /\ pc > 9 => Absent("refs_after")
  /\ pc > 10 => Counted("receive", 1)
  /\ pc > 11 => Ok("first")
  /\ pc > 12 => Absent("dealloc_source")
  /\ pc > 13 => Ok("destroy")
  /\ pc > 16 => Ok("alloc2")
  /\ pc > 17 => Ok("insert2")
  /\ pc > 18 => Absent("type_before2")
  /\ pc > 19 => Absent("refs_before2")
  /\ pc > 20 => obs["send2"].kr = "invalid_right"
  /\ pc > 21 => Absent("type_after2")
  /\ pc > 22 => Absent("refs_after2")
  /\ pc > 23 => obs["receive2"].kr = "timed_out"
  /\ pc > 24 => Ok("destroy2")

\* The first of the two cases.
DeadHeld ==
  /\ pc <= 2 => own["service"] = Nothing
  /\ pc = 3 => own["service"] = Allocated("alloc")
  /\ pc > 3 => ~Dev("alloc", "skip")
  /\ pc \in 4..7 => own["service"] = Port(Inserted("insert"), 0, 0)
  /\ pc <= 4 => own["source"] = Nothing
  /\ pc = 5 => own["source"] = IF Dev("alloc_dead", "skip") THEN Nothing ELSE DeadName(1)
  /\ pc > 5 => ~Dev("alloc_dead", "skip") /\ ~Dev("type_before", "lie")
  /\ pc \in 6..7 => own["source"] = DeadName(1)
  /\ pc > 6 => ~Dev("refs_before", "lie")
  /\ pc > 7 => ~Dev("insert", "skip")
  /\ pc \in 8..10 => LET m == IF Dev("send", "lost") THEN 0 ELSE 1
                     IN own["service"] = Port(Inserted("insert"), m, m)
  /\ pc = 8 => own["source"] = IF Dev("send", "skip") THEN DeadName(1) ELSE Nothing
  /\ pc > 8 => ~Dev("send", "skip") /\ ~Dev("type_after", "lie") /\ own["source"] = Nothing
  /\ pc > 9 => ~Dev("refs_after", "lie")
  /\ pc <= 10 => own["delivered"] = Nothing
  /\ pc > 10 => ~Dev("send", "lost")
  /\ pc \in 11..13 => own["service"] = Port(Inserted("insert"), 0, 0)
  /\ pc = 11 => own["delivered"] = DeadName(1 + Extra("receive"))
  /\ pc > 11 => own["delivered"] = IF Dev("first", "skip") \/ Dev("receive", "over")
                                   THEN DeadName(1) ELSE Nothing
  /\ pc > 13 => Destroyed("destroy", own["service"])

\* The second.
NonexistentHeld ==
  /\ pc <= 16 => own["service2"] = Nothing
  /\ pc = 17 => own["service2"] = Allocated("alloc2")
  /\ pc > 17 => ~Dev("alloc2", "skip")
  /\ pc \in 18..24 => own["service2"] = Port(Inserted("insert2"), 0, 0)
  /\ pc > 18 => ~Dev("type_before2", "lie")
  /\ pc > 19 => ~Dev("refs_before2", "lie")
  /\ pc > 20 => ~Dev("insert2", "skip") /\ ~Dev("send2", "lie")
  /\ pc > 21 => ~Dev("type_after2", "lie")
  /\ pc > 22 => ~Dev("refs_after2", "lie")
  /\ pc > 23 => ~Dev("receive2", "lie")
  /\ pc > 24 => Destroyed("destroy2", own["service2"])

\* Nothing changes between the capture that ends the first and the one that begins the
\* second, and on a quiet kernel nothing is left by then.
BetweenHeld ==
  /\ pc > 14 /\ Quiet => obs["after"].snap = {}
  /\ pc = 15 /\ Ok("after") => obs["after"].snap \ {Ph} = Listing
  /\ pc > 15 /\ Ok("after") /\ Ok("before2") =>
       obs["after"].snap \ {Ph} = obs["before2"].snap \ {Ph}

DeadNameHeld ==
  /\ Rest({"service", "source", "delivered", "service2"})
  /\ DeadHeld /\ NonexistentHeld /\ BetweenHeld

SmokeSeen ==
  /\ pc > 2 => Ok("alloc")
  /\ pc > 3 => Ok("type")
  /\ pc > 4 => Ok("refs")
  /\ pc > 5 => Ok("destroy")

SmokeHeld ==
  /\ Rest({"service"})
  /\ pc <= 2 => own["service"] = Nothing
  /\ pc = 3 => own["service"] = Allocated("alloc")
  /\ pc > 3 => ~Dev("alloc", "skip")
  /\ pc \in 4..5 => own["service"] = Port(0, 0, 0)
  /\ pc > 5 => Destroyed("destroy", own["service"])

GetRefsSeen ==
  /\ pc > 2 => Ok("alloc")
  /\ pc > 3 => Counted("recv_initial", 1)
  /\ pc > 4 => Counted("before_make", 0)
  /\ pc > 5 => Ok("insert")
  /\ pc > 6 => Counted("after_make", 1)
  /\ pc > 7 => Ok("plus")
  /\ pc > 8 => Counted("after_plus", 2)
  /\ pc > 9 => Ok("dealloc")
  /\ pc > 10 => Counted("after_dealloc", 1)
  /\ pc > 11 => Ok("minus")
  /\ pc > 12 => Counted("after_minus", 0)
  /\ pc > 13 => Counted("recv_final", 1)
  /\ pc > 14 => Ok("destroy")

GetRefsHeld ==
  /\ Rest({"service"})
  /\ pc <= 2 => own["service"] = Nothing
  /\ pc = 3 => own["service"] = Allocated("alloc")
  /\ pc > 3 => ~Dev("alloc", "skip") /\ ~Dev("recv_initial", "lie")
  /\ pc \in 4..5 => own["service"] = Port(0, 0, 0)
  /\ pc > 4 => ~Dev("before_make", "lie")
  /\ pc = 6 => own["service"] = Port(Inserted("insert"), 0, 0)
  /\ pc > 6 => ~Dev("insert", "skip") /\ ~Dev("insert", "over") /\ ~Dev("after_make", "lie")
  /\ pc = 7 => own["service"] = Port(1, 0, 0)
  /\ pc = 8 => own["service"] = Port(1 + Inserted("plus"), 0, 0)
  /\ pc > 8 => ~Dev("plus", "skip") /\ ~Dev("plus", "over") /\ ~Dev("after_plus", "lie")
  /\ pc = 9 => own["service"] = Port(2, 0, 0)
  /\ pc = 10 => own["service"] = Port(2 - Inserted("dealloc"), 0, 0)
  /\ pc > 10 => /\ ~Dev("dealloc", "skip") /\ ~Dev("dealloc", "over")
                /\ ~Dev("after_dealloc", "lie")
  /\ pc = 11 => own["service"] = Port(1, 0, 0)
  /\ pc = 12 => own["service"] = Port(IF Dev("minus", "skip") THEN 1 ELSE 0, 0, 0)
  /\ pc > 12 => ~Dev("minus", "skip") /\ ~Dev("after_minus", "lie")
  /\ pc \in 13..14 => own["service"] = Port(0, 0, 0)
  /\ pc > 13 => ~Dev("recv_final", "lie")
  /\ pc > 14 => Destroyed("destroy", own["service"])

TypeSeen ==
  /\ pc > 2 => Ok("alloc")
  /\ pc > 3 => Shows("type_receive", "receive")
  /\ pc > 4 => Ok("insert")
  /\ pc > 5 => Shows("type_both", "send_receive")
  /\ pc > 6 => Ok("alloc_set")
  /\ pc > 7 => Shows("type_set", "set")
  /\ pc > 8 => Ok("type_self")
  /\ pc > 9 => Ok("destroy")
  /\ pc > 10 => Ok("destroy_set")

TypeHeld ==
  /\ Rest({"service", "set"})
  /\ pc <= 2 => own["service"] = Nothing
  /\ pc = 3 => own["service"] = Allocated("alloc")
  /\ pc > 3 => ~Dev("alloc", "skip") /\ ~Dev("type_receive", "lie")
  /\ pc = 4 => own["service"] = Port(0, 0, 0)
  /\ pc \in 5..9 => own["service"] = Port(Inserted("insert"), 0, 0)
  /\ pc > 5 => ~Dev("insert", "skip") /\ ~Dev("type_both", "lie")
  /\ pc <= 6 => own["set"] = Nothing
  /\ pc = 7 => own["set"] = IF Dev("alloc_set", "skip") THEN Nothing ELSE SetName
  /\ pc > 7 => ~Dev("alloc_set", "skip") /\ ~Dev("type_set", "lie")
  /\ pc \in 8..10 => own["set"] = SetName
  /\ pc > 9 => Destroyed("destroy", own["service"])
  /\ pc > 10 => Destroyed("destroy_set", own["set"])

PortSetSeen ==
  /\ pc > 2 => Ok("alloc_set")
  /\ pc > 3 => Ok("alloc")
  /\ pc > 4 => Ok("type_set")
  /\ pc > 5 => Ok("insert")
  /\ pc > 6 => Ok("move")
  /\ pc > 7 => Ok("send")
  /\ pc > 8 => Shows("receive", "msg")
  /\ pc > 9 => Ok("unmove")
  /\ pc > 10 => Ok("destroy")
  /\ pc > 11 => Ok("destroy_set")

\* The member of the port set, with its messages.
Member(l, s, m) == Hold(IF Dev(l, "skip") THEN "receive" ELSE "member", s, m, 0)

PortSetHeld ==
  /\ Rest({"service", "set"})
  /\ pc <= 2 => own["set"] = Nothing
  /\ pc \in 3..4 => own["set"] = IF Dev("alloc_set", "skip") THEN Nothing ELSE SetName
  /\ pc > 4 => ~Dev("alloc_set", "skip")
  /\ pc \in 5..11 => own["set"] = SetName
  /\ pc <= 3 => own["service"] = Nothing
  /\ pc \in 4..5 => own["service"] = Allocated("alloc")
  /\ pc > 5 => ~Dev("alloc", "skip")
  /\ pc = 6 => own["service"] = Port(Inserted("insert"), 0, 0)
  /\ pc = 7 => own["service"] = Member("move", Inserted("insert"), 0)
  /\ pc > 7 => ~Dev("insert", "skip")
  /\ pc = 8 => own["service"] = Member("move", own["service"].send,
                                       IF Dev("send", "lost") THEN 0 ELSE 1)
  /\ pc > 8 => ~Dev("move", "skip") /\ ~Dev("send", "lost") /\ ~Dev("receive", "lie")
  /\ pc = 9 => own["service"].right = "member"
  /\ pc = 10 => own["service"].right \in {"receive", "member"}
  /\ pc > 10 => Destroyed("destroy", own["service"])
  /\ pc > 11 => Destroyed("destroy_set", own["set"])

PortNamesSeen ==
  /\ pc > 2 => Ok("alloc")
  /\ pc > 3 => ProbeSeen /\ OneMore
  /\ pc > 4 => Ok("destroy")

PortNamesHeld ==
  /\ Rest({"service"})
  /\ pc <= 2 => own["service"] = Nothing
  /\ pc = 3 => own["service"] = Allocated("alloc")
  /\ pc > 3 => ~Dev("alloc", "skip") /\ ~Dev("during", "lie") /\ ~Dev("during", "skip")
  /\ pc = 4 => own["service"] = Port(0, 0, 0)
  /\ pc > 4 => Destroyed("destroy", own["service"])

GetAttributesSeen ==
  /\ pc > 2 => Ok("alloc")
  /\ pc > 3 => Counted("attrs", 0)
  /\ pc > 4 => ~Ok("bad_flavor")
  /\ pc > 5 => ~Ok("bad_name")
  /\ pc > 6 => Ok("destroy")

GetAttributesHeld ==
  /\ Rest({"service"})
  /\ pc <= 2 => own["service"] = Nothing
  /\ pc = 3 => own["service"] = Allocated("alloc")
  /\ pc > 3 => ~Dev("alloc", "skip") /\ ~Dev("attrs", "lie")
  /\ pc \in 4..6 => own["service"] = Port(0, 0, 0)
  /\ pc > 4 => ~Dev("bad_flavor", "lie")
  /\ pc > 5 => ~Dev("bad_name", "lie")
  /\ pc > 6 => Destroyed("destroy", own["service"])

RcvTimeoutSeen ==
  /\ pc > 2 => Ok("alloc")
  /\ pc > 3 => obs["timed"].kr = "timed_out"
  /\ pc > 4 => obs["poll"].kr = "timed_out"
  /\ pc > 5 => Ok("destroy")

RcvTimeoutHeld ==
  /\ Rest({"service"})
  /\ pc <= 2 => own["service"] = Nothing
  /\ pc \in 3..5 => own["service"] = Allocated("alloc")
  /\ pc > 3 => ~Dev("timed", "lie")
  /\ pc > 4 => ~Dev("poll", "lie")
  /\ pc > 5 => ~Dev("alloc", "skip") /\ Destroyed("destroy", own["service"])

TaskInfoSeen ==
  /\ pc > 2 => Ok("self")
  /\ pc > 3 => Ok("type")
  /\ pc > 4 => Counted("basic", 1)
  /\ pc > 5 => ~Ok("bad_flavor")
  /\ pc > 6 => ~Ok("null_task")

TaskInfoHeld ==
  /\ Rest({})
  /\ pc > 4 => ~Dev("basic", "lie")
  /\ pc > 5 => ~Dev("bad_flavor", "lie")
  /\ pc > 6 => ~Dev("null_task", "lie")

HostInfoSeen ==
  /\ pc > 2 => Ok("host_a")
  /\ pc \in 4..8 => Ok("host_b")
  /\ pc > 4 => Ok("basic")
  /\ pc > 5 => ~Ok("bad_flavor")
  /\ pc > 6 => ~Ok("null_host")
  /\ pc > 7 => Ok("dealloc_a")
  /\ pc > 8 => Ok("dealloc_b")

\* Send rights under the name of the host, and how many a call grants or takes.
HostRight(n) == Hold("none", n, 0, 0)
Granted(l) == IF Dev(l, "over") THEN 2 ELSE 1
Returned(l) == IF Dev(l, "skip") THEN 0 ELSE 1

HostInfoHeld ==
  /\ Rest({"host"})
  /\ pc <= 2 => own["host"] = Nothing
  /\ pc = 3 => own["host"] = HostRight(Granted("host_a"))
  /\ pc \in 4..7 => own["host"] = HostRight(Granted("host_a") + Granted("host_b"))
  /\ pc > 5 => ~Dev("bad_flavor", "lie")
  /\ pc > 6 => ~Dev("null_host", "lie")
  /\ pc = 8 => own["host"] = HostRight(Granted("host_a") + Granted("host_b")
                                         - Returned("dealloc_a"))
  /\ pc > 8 => own["host"] = HostRight(Granted("host_a") + Granted("host_b")
                                         - Returned("dealloc_a") - Returned("dealloc_b"))

AbsoluteTimeSeen ==
  /\ pc > 2 => Ok("t1")
  /\ pc > 3 => obs["t2"].refs = 1
  /\ pc > 4 => Counted("timebase", 1)

AbsoluteTimeHeld ==
  /\ Rest({})
  /\ pc > 3 => ~Dev("t2", "lie")
  /\ pc > 4 => ~Dev("timebase", "lie")

\* What was seen tells what is held, and on a quiet kernel everything is seen.
Follows(seen, held) == (seen => held) /\ (Quiet => seen)

HeaderCopyInv == probe = "header_copy" => Follows(HeaderCopySeen, HeaderCopyHeld)
HeaderMoveInv == probe = "header_move" => Follows(HeaderMoveSeen, HeaderMoveHeld)
DoubleMoveInv == probe = "double_move" => Follows(DoubleMoveSeen, DoubleMoveHeld)
DeadNameInv == probe = "dead_name" => Follows(DeadNameSeen, DeadNameHeld)
InvalidDispositionInv ==
  probe = "invalid_disposition" => Follows(InvalidDispositionSeen, InvalidDispositionHeld)
SmokeInv == probe = "smoke" => Follows(SmokeSeen, SmokeHeld)
GetRefsInv == probe = "port_get_refs" => Follows(GetRefsSeen, GetRefsHeld)
TypeInv == probe = "port_type" => Follows(TypeSeen, TypeHeld)
PortSetInv == probe = "port_set" => Follows(PortSetSeen, PortSetHeld)
\* Where mach_port_names is unsupported port_names never sees its port.
PortNamesInv ==
  probe = "port_names" =>
    (PortNamesSeen => PortNamesHeld) /\ (Quiet /\ names = "ok" => PortNamesSeen)
GetAttributesInv == probe = "port_get_attributes" => Follows(GetAttributesSeen, GetAttributesHeld)
RcvTimeoutInv == probe = "msg_rcv_timeout" => Follows(RcvTimeoutSeen, RcvTimeoutHeld)
TaskInfoInv == probe = "task_info" => Follows(TaskInfoSeen, TaskInfoHeld)
HostInfoInv == probe = "host_info" => Follows(HostInfoSeen, HostInfoHeld)
AbsoluteTimeInv == probe = "absolute_time" => Follows(AbsoluteTimeSeen, AbsoluteTimeHeld)

\* The inductive invariant.
ProbesInv ==
  /\ HeaderCopyInv /\ HeaderMoveInv /\ DoubleMoveInv
  /\ DeadNameInv /\ InvalidDispositionInv /\ SmokeInv
  /\ GetRefsInv /\ TypeInv /\ PortSetInv
  /\ PortNamesInv /\ GetAttributesInv /\ RcvTimeoutInv
  /\ TaskInfoInv /\ HostInfoInv /\ AbsoluteTimeInv

IInv == Base /\ SnapsInv /\ ProbesInv

-----------------------------------------------------------------------------
(* The probes, step by step.                                               *)

\* Where a running probe is.
LEMMA PlaceOf ==
  ASSUME Base, Running, NEW s, NEW n, NEW last, Steps(probe) = s, Listed(s, n, last)
  PROVE  pc \in 1..n
  BY DEF Base, PlaceInv, Running, Listed

\* On a quiet kernel no call that is made is lost.
LEMMA QuietStep ==
  ASSUME TypeOK, Moves, Quiet'
  PROVE  Quiet /\ dev = Conforms /\ fails' = fails /\ \A l : Lost(l) => ~Ready(Current)
<1>1. fails \in 0..MaxFails /\ fails' <= fails /\ fails' = MaxFails /\ dev' = Conforms /\ dev' = dev
  BY DEF TypeOK, Moves, Quiet
<1>2. fails = MaxFails
  BY <1>1, FailsAssumption
<1> QED
  BY <1>1, <1>2, FailsAssumption DEF Lost, Quiet

\* What is not there is not listed.
LEMMA NotListed == ASSUME own["phantom"] = Nothing PROVE Ph \notin Listing
<1> SUFFICES ASSUME NEW n \in Names, Exists(own[n]), Ph = <<n, TypeOf(own[n])>> PROVE FALSE
  BY DEF Listing
<1>1. n = "phantom"
  BY DEF Ph
<1> QED
  BY <1>1 DEF Exists, Nothing

\* A capture is lost, or it shows what is there, and the phantom if the kernel lies.
Snapped(l) ==
  /\ obs'[l].kr = names
  /\ Ph \in obs'[l].snap <=> names = "ok" /\ Dev(l, "lie")
  /\ obs'[l].snap \subseteq Listing \cup {Ph}
  /\ names = "ok" => obs'[l].snap \ {Ph} = Listing

\* Every step at a capture before, between or after the calls comes out so.
LEMMA CaptureShows ==
  ASSUME Base, SnapsInv, Step, Running, NEW l, Plain(l), l # "none", NEW n, NEW needs,
         Current = Do(l, "capture", n, needs)
  PROVE  own' = own /\ (Lost(l) \/ (fails' = fails /\ Snapped(l)))
<1>1. Captured(l)
  BY DoCapture
<1>2. ~Dev(l, "skip")
  <2>1. "skip" \notin Deviations("capture")
    BY DEF Deviations
  <2> QED
    BY <2>1, DevKinds
<1>3. Ph \notin Listing /\ names \in {"ok", "gap"}
  BY NotListed DEF SnapsInv, Base, TypeOK
<1>4. CASE Taken(l, [kr |-> names, refs |-> 0, type |-> "zero", snap |-> Snapshot(l)], own)
  <2>1. obs'[l].kr = names /\ obs'[l].snap = Snapshot(l) /\ own' = own /\ fails' = fails
    BY <1>4 DEF Taken
  <2>2. Snapshot(l) =
          IF names = "gap" THEN {} ELSE Listing \cup (IF Dev(l, "lie") THEN {Ph} ELSE {})
    BY <1>2 DEF Snapshot, Lied, Ph
  <2> QED
    BY <1>3, <2>1, <2>2 DEF Snapped
<1> QED
  BY <1>1, <1>4 DEF Captured, Lost

\* How many are no, one and two.
LEMMA Counting ==
  Cardinality({}) = 0 /\ (\A a : Cardinality({a}) = 1) /\ \A a, b : a # b => Cardinality({a, b}) = 2
<1>1. ASSUME NEW a, NEW b, a # b PROVE Cardinality({a, b}) = 2
  <2>1. IsFiniteSet({a}) /\ Cardinality({a}) = 1 /\ b \notin {a} /\ {a} \cup {b} = {a, b}
    BY <1>1, FS_Singleton
  <2> QED
    BY <2>1, FS_AddElement
<1> QED
  BY <1>1, FS_EmptySet, FS_Singleton

\* The capture of port_names between the allocation and the destruction shows one name more
\* than the first only if the port was allocated and nothing was made up or held back.
LEMMA DuringShows ==
  ASSUME Base, SnapsInv, Step, Running, probe = "port_names", pc = 3, PortNamesHeld
  PROVE  /\ ProbeSeen' /\ OneMore' =>
              ~Dev("alloc", "skip") /\ ~Dev("during", "lie") /\ ~Dev("during", "skip")
         /\ Quiet' /\ names = "ok" => ProbeSeen' /\ OneMore'
<1> DEFINE S == <<"service", "receive">>
<1>1. /\ Steps(probe) = PortNamesSteps /\ DOMAIN PortNamesSteps = 1..5
      /\ PortNamesSteps[1] = Do("before", "capture", "self", {})
  BY PortNamesListed DEF Listed
<1>2. Current = Do("during", "capture_during", "self", {})
  BY <1>1 DEF Current, PortNamesSteps
<1>3. Captured("during")
  BY <1>2, DoCapture DEF Plain
<1>4. Moves /\ TypeOK
  BY StepCases DEF Base
<1>5. obs'["before"] = obs["before"]
  BY <1>1, <1>2, <1>4 DEF Moves, Labels, PortNamesSteps, Do
<1>6. /\ \/ obs["before"] = Unasked /\ fails < MaxFails
         \/ /\ obs["before"].kr = names
            /\ Ph \in obs["before"].snap <=> names = "ok" /\ Dev("before", "lie")
      /\ obs["before"].snap \subseteq {Ph}
  BY <1>1 DEF SnapsInv, Do, Captures
<1>7. Listing = IF Dev("alloc", "skip") THEN {} ELSE {S}
  <2>1. /\ \A n \in Names \ {"service"} : ~Exists(own[n])
        /\ own["service"] = IF Dev("alloc", "skip") THEN Nothing ELSE Port(0, 0, 0)
    BY DEF PortNamesHeld, Rest, Allocated, Exists, Nothing
  <2>2. CASE Dev("alloc", "skip")
    BY <2>1, <2>2 DEF Listing, Exists, Nothing
  <2>3. CASE ~Dev("alloc", "skip")
    <3>1. /\ {m \in Names : Exists(own[m])} = {"service"}
          /\ TypeOf(own["service"]) = "receive"
      BY <2>1, <2>3 DEF Exists, Port, Hold, Names, TypeOf
    <3> QED
      BY <2>3, <3>1 DEF Listing
  <2> QED
    BY <2>2, <2>3
<1>8. S # Ph /\ \A t : <<"service", t>> # Ph
  BY DEF Ph
<1>9. ASSUME ProbeSeen', OneMore'
      PROVE  ~Dev("alloc", "skip") /\ ~Dev("during", "lie") /\ ~Dev("during", "skip")
  <2>1. /\ obs'["during"].kr = "ok" /\ obs["before"].kr = "ok"
        /\ Cardinality(obs'["during"].snap) - Cardinality(obs["before"].snap) = 1
        /\ \E t : <<"service", t>> \in obs'["during"].snap
    BY <1>5, <1>9 DEF ProbeSeen, OneMore, Ok
  <2>2. names = "ok" /\ obs'["during"].snap = Snapshot("during")
    BY <1>3, <2>1 DEF Captured, Lost, Unasked, Saw, Taken
  <2>3. ~Dev("during", "skip") /\ obs'["during"].snap = Listing \cup Lied("during")
    BY <2>1, <2>2 DEF Snapshot
  <2>4. ~Dev("alloc", "skip") /\ Listing = {S}
    BY <1>7, <1>8, <2>1, <2>3 DEF Lied, Ph
  <2>5. ASSUME Dev("during", "lie") PROVE FALSE
    <3>1. obs'["during"].snap = {S, Ph}
      BY <2>3, <2>4, <2>5 DEF Lied, Ph
    <3>2. obs["before"].snap = {}
      BY <1>6, <2>1, <2>5 DEF Dev, Unasked, Saw
    <3>4. Cardinality({S, Ph}) = 2
      <4> HIDE DEF S
      <4> QED
        BY <1>8, Counting
    <3>3. Cardinality(obs'["during"].snap) = 2 /\ Cardinality(obs["before"].snap) = 0
      BY <3>1, <3>2, <3>4, Counting
    <3> QED
      BY <2>1, <3>3
  <2> QED
    BY <2>3, <2>4, <2>5
<1>10. ASSUME Quiet', names = "ok" PROVE ProbeSeen' /\ OneMore'
  <2>1. Quiet /\ ~Lost("during")
    <3>1. Ready(Current)
      BY <1>2 DEF Ready, Do, AllOk
    <3> QED
      BY <1>4, <1>10, <3>1, QuietStep
  <2>2. fails = MaxFails /\ \A l \in {"before", "alloc", "during"} : \A k : ~Dev(l, k)
    BY <2>1 DEF Quiet, Dev, Conforms
  <2>3. obs["before"].kr = "ok" /\ obs["before"].snap = {}
    BY <1>6, <1>10, <2>2, FailsAssumption
  <2>4. obs'["during"].kr = "ok" /\ obs'["during"].snap = {S}
    BY <1>3, <1>7, <1>10, <2>1, <2>2 DEF Captured, Taken, Snapshot, Lied
  <2>5. Cardinality(obs'["during"].snap) - Cardinality(obs["before"].snap) = 1
    <3>1. Cardinality(obs'["during"].snap) = 1 /\ Cardinality(obs["before"].snap) = 0
      BY <2>3, <2>4, Counting
    <3> QED
      BY <3>1
  <2> QED
    BY <1>5, <2>3, <2>4, <2>5 DEF ProbeSeen, OneMore, Ok, Types
<1> QED
  BY <1>9, <1>10

\* A step of header_copy keeps what it has seen and what the task holds together.
LEMMA HeaderCopyStep ==
  ASSUME Base, SnapsInv, HeaderCopyInv, Step, Running, probe = "header_copy" PROVE HeaderCopyInv'
<1>1. Steps(probe) = HeaderCopySteps /\ pc \in 1..13
  BY HeaderCopyListed, PlaceOf
<1>2. Moves /\ TypeOK
  BY StepCases DEF Base
<1>3. \A m \in {"before", "alloc", "insert", "refs_before", "type_before", "send", "refs_sent",
                 "type_sent", "receive", "refs_received", "type_received", "destroy", "after"} :
        m # Current.as => obs'[m] = obs[m]
  BY <1>1, <1>2 DEF Moves, Labels, HeaderCopySteps, HeaderSteps, Do
<1>4. probe' = probe /\ pc' = pc + 1 /\ dev' = dev /\ names' = names
  BY <1>2 DEF Moves
<1>5. own \in [Names -> Rights] /\ own[Current.on] \in Rights
  BY <1>2, CurrentKnown DEF TypeOK, Base
<1> USE DEF HeaderCopySeen, HeaderCopyHeld, HeaderBeginSeen, HeaderBeginHeld, Follows, Ok, Lost,
        Taken, Unasked, Saw, Fine, Dev, Names, Nothing, Hold, Port, Shows, Counted, Allocated,
        Inserted, Destroyed, Rest
<1>6. CASE pc = 1
  <2>1. Current = Do("before", "capture", "self", {})
    BY <1>1, <1>6 DEF Current, HeaderCopySteps, HeaderSteps
  <2>2. Captured("before")
    BY <2>1, DoCapture DEF Plain
  <2>3. HeaderCopySeen' => HeaderCopySeen /\ HeaderCopyHeld /\ Ready(Current)
    BY <1>3, <1>4, <1>6, <2>1
       DEF Do, Ready, AllOk, HeaderCopyInv
  <2>4. HeaderCopySeen' => HeaderCopyHeld'
    BY <1>4, <1>5, <1>6, <2>1, <2>2, <2>3
       DEF Do, Captured
  <2>5. Quiet' => HeaderCopySeen'
    BY <1>2, <1>3, <1>4, <1>5, <1>6, <2>1, <2>2, QuietStep
       DEF Do, Ready, AllOk, Conforms, HeaderCopyInv, Captured
  <2> QED
    BY <1>4, <2>4, <2>5 DEF HeaderCopyInv
<1>7. CASE pc = 2
  <2>1. Current = Do("alloc", "alloc", "service", {})
    BY <1>1, <1>7 DEF Current, HeaderCopySteps, HeaderSteps
  <2>2. Allocates("alloc", "alloc", "service")
    BY <2>1, DoAlloc DEF Plain
  <2>3. HeaderCopySeen' => HeaderCopySeen /\ HeaderCopyHeld /\ Ready(Current)
    BY <1>3, <1>4, <1>7, <2>1
       DEF Do, Ready, AllOk, HeaderCopyInv
  <2>4. HeaderCopySeen' => HeaderCopyHeld'
    BY <1>4, <1>5, <1>7, <2>1, <2>2, <2>3
       DEF Do, Allocates
  <2>5. Quiet' => HeaderCopySeen'
    BY <1>2, <1>3, <1>4, <1>5, <1>7, <2>1, <2>2, QuietStep
       DEF Do, Ready, AllOk, Conforms, HeaderCopyInv, Allocates
  <2> QED
    BY <1>4, <2>4, <2>5 DEF HeaderCopyInv
<1>8. CASE pc = 3
  <2>1. Current = Do("insert", "insert", "service", {"alloc"})
    BY <1>1, <1>8 DEF Current, HeaderCopySteps, HeaderSteps
  <2>2. Adds("insert", "insert", "service")
    BY <2>1, DoAdd DEF Plain
  <2>3. HeaderCopySeen' => HeaderCopySeen /\ HeaderCopyHeld /\ Ready(Current)
    BY <1>3, <1>4, <1>8, <2>1
       DEF Do, Ready, AllOk, HeaderCopyInv
  <2>4. HeaderCopySeen' => HeaderCopyHeld'
    BY <1>4, <1>5, <1>8, <2>1, <2>2, <2>3
       DEF Do, Adds, Gone, Legal
  <2>5. Quiet' => HeaderCopySeen'
    BY <1>2, <1>3, <1>4, <1>5, <1>8, <2>1, <2>2, QuietStep
       DEF Do, Ready, AllOk, Conforms, HeaderCopyInv, Adds, Gone, Legal
  <2> QED
    BY <1>4, <2>4, <2>5 DEF HeaderCopyInv
<1>9. CASE pc = 4
  <2>1. Current = Do("refs_before", "refs", "service", {"insert"})
    BY <1>1, <1>9 DEF Current, HeaderCopySteps, HeaderSteps
  <2>2. Looked("refs_before", "refs", "service")
    BY <2>1, DoLook DEF Plain
  <2>3. HeaderCopySeen' => HeaderCopySeen /\ HeaderCopyHeld /\ Ready(Current)
    BY <1>3, <1>4, <1>9, <2>1
       DEF Do, Ready, AllOk, HeaderCopyInv
  <2>4. HeaderCopySeen' => HeaderCopyHeld'
    BY <1>4, <1>5, <1>9, <2>1, <2>2, <2>3
       DEF Do, Looked, Truth, TypeOf, Exists
  <2>5. Quiet' => HeaderCopySeen'
    BY <1>2, <1>3, <1>4, <1>5, <1>9, <2>1, <2>2, QuietStep
       DEF Do, Ready, AllOk, Conforms, HeaderCopyInv, Looked, Truth, TypeOf, Exists
  <2> QED
    BY <1>4, <2>4, <2>5 DEF HeaderCopyInv
<1>10. CASE pc = 5
  <2>1. Current = Do("type_before", "type", "service", {"insert"})
    BY <1>1, <1>10 DEF Current, HeaderCopySteps, HeaderSteps
  <2>2. Looked("type_before", "type", "service")
    BY <2>1, DoLook DEF Plain
  <2>3. HeaderCopySeen' => HeaderCopySeen /\ HeaderCopyHeld /\ Ready(Current)
    BY <1>3, <1>4, <1>10, <2>1
       DEF Do, Ready, AllOk, HeaderCopyInv
  <2>4. HeaderCopySeen' => HeaderCopyHeld'
    BY <1>4, <1>5, <1>10, <2>1, <2>2, <2>3
       DEF Do, Looked, Truth, TypeOf, Exists
  <2>5. Quiet' => HeaderCopySeen'
    BY <1>2, <1>3, <1>4, <1>5, <1>10, <2>1, <2>2, QuietStep
       DEF Do, Ready, AllOk, Conforms, HeaderCopyInv, Looked, Truth, TypeOf, Exists
  <2> QED
    BY <1>4, <2>4, <2>5 DEF HeaderCopyInv
<1>11. CASE pc = 6
  <2>1. Current = Do("send", "send_copy", "service", {"refs_before", "type_before"})
    BY <1>1, <1>11 DEF Current, HeaderCopySteps, HeaderSteps
  <2>2. SendsHeader("send", "send_copy", "service")
    BY <2>1, DoSendHeader DEF Plain
  <2>3. HeaderCopySeen' => HeaderCopySeen /\ HeaderCopyHeld /\ Ready(Current)
    BY <1>3, <1>4, <1>11, <2>1
       DEF Do, Ready, AllOk, HeaderCopyInv
  <2>4. HeaderCopySeen' => HeaderCopyHeld'
    BY <1>4, <1>5, <1>11, <2>1, <2>2, <2>3
       DEF Do, SendsHeader, Sends, Less
  <2>5. Quiet' => HeaderCopySeen'
    BY <1>2, <1>3, <1>4, <1>5, <1>11, <2>1, <2>2, QuietStep
       DEF Do, Ready, AllOk, Conforms, HeaderCopyInv, SendsHeader, Sends, Less
  <2> QED
    BY <1>4, <2>4, <2>5 DEF HeaderCopyInv
<1>12. CASE pc = 7
  <2>1. Current = Do("refs_sent", "refs", "service", {"send"})
    BY <1>1, <1>12 DEF Current, HeaderCopySteps, HeaderSteps
  <2>2. Looked("refs_sent", "refs", "service")
    BY <2>1, DoLook DEF Plain
  <2>3. HeaderCopySeen' => HeaderCopySeen /\ HeaderCopyHeld /\ Ready(Current)
    BY <1>3, <1>4, <1>12, <2>1
       DEF Do, Ready, AllOk, HeaderCopyInv
  <2>4. HeaderCopySeen' => HeaderCopyHeld'
    BY <1>4, <1>5, <1>12, <2>1, <2>2, <2>3
       DEF Do, Looked, Truth, TypeOf, Exists
  <2>5. Quiet' => HeaderCopySeen'
    BY <1>2, <1>3, <1>4, <1>5, <1>12, <2>1, <2>2, QuietStep
       DEF Do, Ready, AllOk, Conforms, HeaderCopyInv, Looked, Truth, TypeOf, Exists
  <2> QED
    BY <1>4, <2>4, <2>5 DEF HeaderCopyInv
<1>13. CASE pc = 8
  <2>1. Current = Do("type_sent", "type", "service", {"send"})
    BY <1>1, <1>13 DEF Current, HeaderCopySteps, HeaderSteps
  <2>2. Looked("type_sent", "type", "service")
    BY <2>1, DoLook DEF Plain
  <2>3. HeaderCopySeen' => HeaderCopySeen /\ HeaderCopyHeld /\ Ready(Current)
    BY <1>3, <1>4, <1>13, <2>1
       DEF Do, Ready, AllOk, HeaderCopyInv
  <2>4. HeaderCopySeen' => HeaderCopyHeld'
    BY <1>4, <1>5, <1>13, <2>1, <2>2, <2>3
       DEF Do, Looked, Truth, TypeOf, Exists
  <2>5. Quiet' => HeaderCopySeen'
    BY <1>2, <1>3, <1>4, <1>5, <1>13, <2>1, <2>2, QuietStep
       DEF Do, Ready, AllOk, Conforms, HeaderCopyInv, Looked, Truth, TypeOf, Exists
  <2> QED
    BY <1>4, <2>4, <2>5 DEF HeaderCopyInv
<1>14. CASE pc = 9
  <2>1. Current = Do("receive", "receive", "service", {"send"})
    BY <1>1, <1>14 DEF Current, HeaderCopySteps, HeaderSteps
  <2>2. Receives("receive", "service")
    BY <2>1, DoReceive DEF Plain
  <2>3. HeaderCopySeen' => HeaderCopySeen /\ HeaderCopyHeld /\ Ready(Current)
    BY <1>3, <1>4, <1>14, <2>1
       DEF Do, Ready, AllOk, HeaderCopyInv
  <2>4. HeaderCopySeen' => HeaderCopyHeld'
    BY <1>4, <1>5, <1>14, <2>1, <2>2, <2>3
       DEF Do, Receives, Nobody, Message, Emptied
  <2>5. Quiet' => HeaderCopySeen'
    BY <1>2, <1>3, <1>4, <1>5, <1>14, <2>1, <2>2, QuietStep
       DEF Do, Ready, AllOk, Conforms, HeaderCopyInv, Receives, Nobody, Message, Emptied
  <2> QED
    BY <1>4, <2>4, <2>5 DEF HeaderCopyInv
<1>15. CASE pc = 10
  <2>1. Current = Do("refs_received", "refs", "service", {"send"})
    BY <1>1, <1>15 DEF Current, HeaderCopySteps, HeaderSteps
  <2>2. Looked("refs_received", "refs", "service")
    BY <2>1, DoLook DEF Plain
  <2>3. HeaderCopySeen' => HeaderCopySeen /\ HeaderCopyHeld /\ Ready(Current)
    BY <1>3, <1>4, <1>15, <2>1
       DEF Do, Ready, AllOk, HeaderCopyInv
  <2>4. HeaderCopySeen' => HeaderCopyHeld'
    BY <1>4, <1>5, <1>15, <2>1, <2>2, <2>3
       DEF Do, Looked, Truth, TypeOf, Exists
  <2>5. Quiet' => HeaderCopySeen'
    BY <1>2, <1>3, <1>4, <1>5, <1>15, <2>1, <2>2, QuietStep
       DEF Do, Ready, AllOk, Conforms, HeaderCopyInv, Looked, Truth, TypeOf, Exists
  <2> QED
    BY <1>4, <2>4, <2>5 DEF HeaderCopyInv
<1>16. CASE pc = 11
  <2>1. Current = Do("type_received", "type", "service", {"send"})
    BY <1>1, <1>16 DEF Current, HeaderCopySteps, HeaderSteps
  <2>2. Looked("type_received", "type", "service")
    BY <2>1, DoLook DEF Plain
  <2>3. HeaderCopySeen' => HeaderCopySeen /\ HeaderCopyHeld /\ Ready(Current)
    BY <1>3, <1>4, <1>16, <2>1
       DEF Do, Ready, AllOk, HeaderCopyInv
  <2>4. HeaderCopySeen' => HeaderCopyHeld'
    BY <1>4, <1>5, <1>16, <2>1, <2>2, <2>3
       DEF Do, Looked, Truth, TypeOf, Exists
  <2>5. Quiet' => HeaderCopySeen'
    BY <1>2, <1>3, <1>4, <1>5, <1>16, <2>1, <2>2, QuietStep
       DEF Do, Ready, AllOk, Conforms, HeaderCopyInv, Looked, Truth, TypeOf, Exists
  <2> QED
    BY <1>4, <2>4, <2>5 DEF HeaderCopyInv
<1>17. CASE pc = 12
  <2>1. Current = Do("destroy", "destroy", "service", {"alloc"})
    BY <1>1, <1>17 DEF Current, HeaderCopySteps, HeaderSteps
  <2>2. Destroys("destroy", "service")
    BY <2>1, DoDestroy DEF Plain
  <2>3. HeaderCopySeen' => HeaderCopySeen /\ HeaderCopyHeld /\ Ready(Current)
    BY <1>3, <1>4, <1>17, <2>1
       DEF Do, Ready, AllOk, HeaderCopyInv
  <2>4. HeaderCopySeen' => HeaderCopyHeld'
    BY <1>4, <1>5, <1>17, <2>1, <2>2, <2>3
       DEF Do, Destroys, Gone, Exists
  <2>5. Quiet' => HeaderCopySeen'
    BY <1>2, <1>3, <1>4, <1>5, <1>17, <2>1, <2>2, QuietStep
       DEF Do, Ready, AllOk, Conforms, HeaderCopyInv, Destroys, Gone, Exists
  <2> QED
    BY <1>4, <2>4, <2>5 DEF HeaderCopyInv
<1>18. CASE pc = 13
  <2>1. Current = Do("after", "capture", "self", {})
    BY <1>1, <1>18 DEF Current, HeaderCopySteps, HeaderSteps
  <2>2. Captured("after")
    BY <2>1, DoCapture DEF Plain
  <2>3. HeaderCopySeen' => HeaderCopySeen /\ HeaderCopyHeld /\ Ready(Current)
    BY <1>3, <1>4, <1>18, <2>1
       DEF Do, Ready, AllOk, HeaderCopyInv
  <2>4. HeaderCopySeen' => HeaderCopyHeld'
    BY <1>4, <1>5, <1>18, <2>1, <2>2, <2>3
       DEF Do, Captured
  <2>5. Quiet' => HeaderCopySeen'
    BY <1>2, <1>3, <1>4, <1>5, <1>18, <2>1, <2>2, QuietStep
       DEF Do, Ready, AllOk, Conforms, HeaderCopyInv, Captured
  <2> QED
    BY <1>4, <2>4, <2>5 DEF HeaderCopyInv
<1> QED
  BY <1>1, <1>6, <1>7, <1>8, <1>9, <1>10, <1>11, <1>12, <1>13, <1>14, <1>15, <1>16, <1>17, <1>18

\* A step of header_move keeps what it has seen and what the task holds together.
LEMMA HeaderMoveStep ==
  ASSUME Base, SnapsInv, HeaderMoveInv, Step, Running, probe = "header_move" PROVE HeaderMoveInv'
<1>1. Steps(probe) = HeaderMoveSteps /\ pc \in 1..16
  BY HeaderMoveListed, PlaceOf
<1>2. Moves /\ TypeOK
  BY StepCases DEF Base
<1>3. \A m \in {"before", "alloc", "insert", "refs_before", "type_before", "send", "refs_sent",
                 "type_sent", "receive", "refs_received", "type_received", "use_send",
                 "use_receive", "use_refs", "destroy", "after"} :
        m # Current.as => obs'[m] = obs[m]
  BY <1>1, <1>2 DEF Moves, Labels, HeaderMoveSteps, HeaderSteps, Do
<1>4. probe' = probe /\ pc' = pc + 1 /\ dev' = dev /\ names' = names
  BY <1>2 DEF Moves
<1>5. own \in [Names -> Rights] /\ own[Current.on] \in Rights
  BY <1>2, CurrentKnown DEF TypeOK, Base
<1> USE DEF HeaderMoveSeen, HeaderMoveHeld, HeaderBeginSeen, HeaderBeginHeld, Follows, Ok, Lost,
        Taken, Unasked, Saw, Fine, Dev, Names, Nothing, Hold, Port, Shows, Counted, Allocated,
        Inserted, Destroyed, Extra, TypeMatchesRefs, Rest
<1>6. CASE pc = 1
  <2>1. Current = Do("before", "capture", "self", {})
    BY <1>1, <1>6 DEF Current, HeaderMoveSteps, HeaderSteps
  <2>2. Captured("before")
    BY <2>1, DoCapture DEF Plain
  <2>3. HeaderMoveSeen' => HeaderMoveSeen /\ HeaderMoveHeld /\ Ready(Current)
    BY <1>3, <1>4, <1>6, <2>1
       DEF Do, Ready, AllOk, HeaderMoveInv
  <2>4. HeaderMoveSeen' => HeaderMoveHeld'
    BY <1>3, <1>4, <1>5, <1>6, <2>1, <2>2, <2>3
       DEF Do, Captured
  <2>5. Quiet' => HeaderMoveSeen'
    BY <1>2, <1>3, <1>4, <1>5, <1>6, <2>1, <2>2, QuietStep
       DEF Do, Ready, AllOk, Conforms, HeaderMoveInv, Captured
  <2> QED
    BY <1>4, <2>4, <2>5 DEF HeaderMoveInv
<1>7. CASE pc = 2
  <2>1. Current = Do("alloc", "alloc", "service", {})
    BY <1>1, <1>7 DEF Current, HeaderMoveSteps, HeaderSteps
  <2>2. Allocates("alloc", "alloc", "service")
    BY <2>1, DoAlloc DEF Plain
  <2>3. HeaderMoveSeen' => HeaderMoveSeen /\ HeaderMoveHeld /\ Ready(Current)
    BY <1>3, <1>4, <1>7, <2>1
       DEF Do, Ready, AllOk, HeaderMoveInv
  <2>4. HeaderMoveSeen' => HeaderMoveHeld'
    BY <1>3, <1>4, <1>5, <1>7, <2>1, <2>2, <2>3
       DEF Do, Allocates
  <2>5. Quiet' => HeaderMoveSeen'
    BY <1>2, <1>3, <1>4, <1>5, <1>7, <2>1, <2>2, QuietStep
       DEF Do, Ready, AllOk, Conforms, HeaderMoveInv, Allocates
  <2> QED
    BY <1>4, <2>4, <2>5 DEF HeaderMoveInv
<1>8. CASE pc = 3
  <2>1. Current = Do("insert", "insert", "service", {"alloc"})
    BY <1>1, <1>8 DEF Current, HeaderMoveSteps, HeaderSteps
  <2>2. Adds("insert", "insert", "service")
    BY <2>1, DoAdd DEF Plain
  <2>3. HeaderMoveSeen' => HeaderMoveSeen /\ HeaderMoveHeld /\ Ready(Current)
    BY <1>3, <1>4, <1>8, <2>1
       DEF Do, Ready, AllOk, HeaderMoveInv
  <2>4. HeaderMoveSeen' => HeaderMoveHeld'
    BY <1>3, <1>4, <1>5, <1>8, <2>1, <2>2, <2>3
       DEF Do, Adds, Gone, Legal
  <2>5. Quiet' => HeaderMoveSeen'
    BY <1>2, <1>3, <1>4, <1>5, <1>8, <2>1, <2>2, QuietStep
       DEF Do, Ready, AllOk, Conforms, HeaderMoveInv, Adds, Gone, Legal
  <2> QED
    BY <1>4, <2>4, <2>5 DEF HeaderMoveInv
<1>9. CASE pc = 4
  <2>1. Current = Do("refs_before", "refs", "service", {"insert"})
    BY <1>1, <1>9 DEF Current, HeaderMoveSteps, HeaderSteps
  <2>2. Looked("refs_before", "refs", "service")
    BY <2>1, DoLook DEF Plain
  <2>3. HeaderMoveSeen' => HeaderMoveSeen /\ HeaderMoveHeld /\ Ready(Current)
    BY <1>3, <1>4, <1>9, <2>1
       DEF Do, Ready, AllOk, HeaderMoveInv
  <2>4. HeaderMoveSeen' => HeaderMoveHeld'
    BY <1>3, <1>4, <1>5, <1>9, <2>1, <2>2, <2>3
       DEF Do, Looked, Truth, TypeOf, Exists
  <2>5. Quiet' => HeaderMoveSeen'
    BY <1>2, <1>3, <1>4, <1>5, <1>9, <2>1, <2>2, QuietStep
       DEF Do, Ready, AllOk, Conforms, HeaderMoveInv, Looked, Truth, TypeOf, Exists
  <2> QED
    BY <1>4, <2>4, <2>5 DEF HeaderMoveInv
<1>10. CASE pc = 5
  <2>1. Current = Do("type_before", "type", "service", {"insert"})
    BY <1>1, <1>10 DEF Current, HeaderMoveSteps, HeaderSteps
  <2>2. Looked("type_before", "type", "service")
    BY <2>1, DoLook DEF Plain
  <2>3. HeaderMoveSeen' => HeaderMoveSeen /\ HeaderMoveHeld /\ Ready(Current)
    BY <1>3, <1>4, <1>10, <2>1
       DEF Do, Ready, AllOk, HeaderMoveInv
  <2>4. HeaderMoveSeen' => HeaderMoveHeld'
    BY <1>3, <1>4, <1>5, <1>10, <2>1, <2>2, <2>3
       DEF Do, Looked, Truth, TypeOf, Exists
  <2>5. Quiet' => HeaderMoveSeen'
    BY <1>2, <1>3, <1>4, <1>5, <1>10, <2>1, <2>2, QuietStep
       DEF Do, Ready, AllOk, Conforms, HeaderMoveInv, Looked, Truth, TypeOf, Exists
  <2> QED
    BY <1>4, <2>4, <2>5 DEF HeaderMoveInv
<1>11. CASE pc = 6
  <2>1. Current = Do("send", "send_move", "service", {"refs_before", "type_before"})
    BY <1>1, <1>11 DEF Current, HeaderMoveSteps, HeaderSteps
  <2>2. SendsHeader("send", "send_move", "service")
    BY <2>1, DoSendHeader DEF Plain
  <2>3. HeaderMoveSeen' => HeaderMoveSeen /\ HeaderMoveHeld /\ Ready(Current)
    BY <1>3, <1>4, <1>11, <2>1
       DEF Do, Ready, AllOk, HeaderMoveInv
  <2>4. HeaderMoveSeen' => HeaderMoveHeld'
    BY <1>3, <1>4, <1>5, <1>11, <2>1, <2>2, <2>3
       DEF Do, SendsHeader, Sends, Less
  <2>5. Quiet' => HeaderMoveSeen'
    BY <1>2, <1>3, <1>4, <1>5, <1>11, <2>1, <2>2, QuietStep
       DEF Do, Ready, AllOk, Conforms, HeaderMoveInv, SendsHeader, Sends, Less
  <2> QED
    BY <1>4, <2>4, <2>5 DEF HeaderMoveInv
<1>12. CASE pc = 7
  <2>1. Current = Do("refs_sent", "refs", "service", {"send"})
    BY <1>1, <1>12 DEF Current, HeaderMoveSteps, HeaderSteps
  <2>2. Looked("refs_sent", "refs", "service")
    BY <2>1, DoLook DEF Plain
  <2>3. HeaderMoveSeen' => HeaderMoveSeen /\ HeaderMoveHeld /\ Ready(Current)
    BY <1>3, <1>4, <1>12, <2>1
       DEF Do, Ready, AllOk, HeaderMoveInv
  <2>4. HeaderMoveSeen' => HeaderMoveHeld'
    BY <1>3, <1>4, <1>5, <1>12, <2>1, <2>2, <2>3
       DEF Do, Looked, Truth, TypeOf, Exists
  <2>5. Quiet' => HeaderMoveSeen'
    BY <1>2, <1>3, <1>4, <1>5, <1>12, <2>1, <2>2, QuietStep
       DEF Do, Ready, AllOk, Conforms, HeaderMoveInv, Looked, Truth, TypeOf, Exists
  <2> QED
    BY <1>4, <2>4, <2>5 DEF HeaderMoveInv
<1>13. CASE pc = 8
  <2>1. Current = Do("type_sent", "type", "service", {"send"})
    BY <1>1, <1>13 DEF Current, HeaderMoveSteps, HeaderSteps
  <2>2. Looked("type_sent", "type", "service")
    BY <2>1, DoLook DEF Plain
  <2>3. HeaderMoveSeen' => HeaderMoveSeen /\ HeaderMoveHeld /\ Ready(Current)
    BY <1>3, <1>4, <1>13, <2>1
       DEF Do, Ready, AllOk, HeaderMoveInv
  <2>4. HeaderMoveSeen' => HeaderMoveHeld'
    BY <1>3, <1>4, <1>5, <1>13, <2>1, <2>2, <2>3
       DEF Do, Looked, Truth, TypeOf, Exists
  <2>5. Quiet' => HeaderMoveSeen'
    BY <1>2, <1>3, <1>4, <1>5, <1>13, <2>1, <2>2, QuietStep
       DEF Do, Ready, AllOk, Conforms, HeaderMoveInv, Looked, Truth, TypeOf, Exists
  <2> QED
    BY <1>4, <2>4, <2>5 DEF HeaderMoveInv
<1>14. CASE pc = 9
  <2>1. Current = Do("receive", "receive_back", "service", {"send"})
    BY <1>1, <1>14 DEF Current, HeaderMoveSteps, HeaderSteps
  <2>2. ReceivesBack("receive", "service")
    BY <2>1, DoReceiveBack DEF Plain
  <2>3. HeaderMoveSeen' => HeaderMoveSeen /\ HeaderMoveHeld /\ Ready(Current)
    BY <1>3, <1>4, <1>14, <2>1
       DEF Do, Ready, AllOk, HeaderMoveInv
  <2>4. HeaderMoveSeen' => HeaderMoveHeld'
    BY <1>3, <1>4, <1>5, <1>14, <2>1, <2>2, <2>3
       DEF Do, ReceivesBack, Nobody, Message, Emptied
  <2>5. Quiet' => HeaderMoveSeen'
    BY <1>2, <1>3, <1>4, <1>5, <1>14, <2>1, <2>2, QuietStep
       DEF Do, Ready, AllOk, Conforms, HeaderMoveInv, ReceivesBack, Nobody, Message, Emptied
  <2> QED
    BY <1>4, <2>4, <2>5 DEF HeaderMoveInv
<1>15. CASE pc = 10
  <2>1. Current = Do("refs_received", "refs", "service", {"send"})
    BY <1>1, <1>15 DEF Current, HeaderMoveSteps, HeaderSteps
  <2>2. Looked("refs_received", "refs", "service")
    BY <2>1, DoLook DEF Plain
  <2>3. HeaderMoveSeen' => HeaderMoveSeen /\ HeaderMoveHeld /\ Ready(Current)
    BY <1>3, <1>4, <1>15, <2>1
       DEF Do, Ready, AllOk, HeaderMoveInv
  <2>4. HeaderMoveSeen' => HeaderMoveHeld'
    BY <1>3, <1>4, <1>5, <1>15, <2>1, <2>2, <2>3
       DEF Do, Looked, Truth, TypeOf, Exists
  <2>5. Quiet' => HeaderMoveSeen'
    BY <1>2, <1>3, <1>4, <1>5, <1>15, <2>1, <2>2, QuietStep
       DEF Do, Ready, AllOk, Conforms, HeaderMoveInv, Looked, Truth, TypeOf, Exists
  <2> QED
    BY <1>4, <2>4, <2>5 DEF HeaderMoveInv
<1>16. CASE pc = 11
  <2>1. Current = Do("type_received", "type", "service", {"send"})
    BY <1>1, <1>16 DEF Current, HeaderMoveSteps, HeaderSteps
  <2>2. Looked("type_received", "type", "service")
    BY <2>1, DoLook DEF Plain
  <2>3. HeaderMoveSeen' => HeaderMoveSeen /\ HeaderMoveHeld /\ Ready(Current)
    BY <1>3, <1>4, <1>16, <2>1
       DEF Do, Ready, AllOk, HeaderMoveInv
  <2>4. HeaderMoveSeen' => HeaderMoveHeld'
    BY <1>3, <1>4, <1>5, <1>16, <2>1, <2>2, <2>3
       DEF Do, Looked, Truth, TypeOf, Exists
  <2>5. Quiet' => HeaderMoveSeen'
    BY <1>2, <1>3, <1>4, <1>5, <1>16, <2>1, <2>2, QuietStep
       DEF Do, Ready, AllOk, Conforms, HeaderMoveInv, Looked, Truth, TypeOf, Exists
  <2> QED
    BY <1>4, <2>4, <2>5 DEF HeaderMoveInv
<1>17. CASE pc = 12
  <2>1. Current = Do("use_send", "send_copy", "service", {"refs_received", "type_received"})
    BY <1>1, <1>17 DEF Current, HeaderMoveSteps, HeaderSteps
  <2>2. SendsHeader("use_send", "send_copy", "service")
    BY <2>1, DoSendHeader DEF Plain
  <2>3. HeaderMoveSeen' =>
          HeaderMoveSeen /\ HeaderMoveHeld /\ (Ready(Current) <=> obs["refs_received"].refs = 1)
    BY <1>3, <1>4, <1>17, <2>1
       DEF Do, Ready, AllOk, HeaderMoveInv, UsabilityAttempted, HasSend
  <2>4. HeaderMoveSeen' => HeaderMoveHeld'
    BY <1>3, <1>4, <1>5, <1>17, <2>1, <2>2, <2>3
       DEF Do, SendsHeader, Sends, Less
  <2>5. Quiet' => HeaderMoveSeen'
    BY <1>2, <1>3, <1>4, <1>5, <1>17, <2>1, <2>2, QuietStep
       DEF Do, Ready, AllOk, Conforms, HeaderMoveInv, UsabilityAttempted, HasSend, SendsHeader,
           Sends, Less
  <2> QED
    BY <1>4, <2>4, <2>5 DEF HeaderMoveInv
<1>18. CASE pc = 13
  <2>1. Current = Do("use_receive", "receive", "service", {"use_send"})
    BY <1>1, <1>18 DEF Current, HeaderMoveSteps, HeaderSteps
  <2>2. Receives("use_receive", "service")
    BY <2>1, DoReceive DEF Plain
  <2>3. HeaderMoveSeen' =>
          HeaderMoveSeen /\ HeaderMoveHeld /\ (Ready(Current) <=> obs["refs_received"].refs = 1)
    BY <1>3, <1>4, <1>18, <2>1
       DEF Do, Ready, AllOk, HeaderMoveInv, UsabilityAttempted, HasSend
  <2>4. HeaderMoveSeen' => HeaderMoveHeld'
    BY <1>3, <1>4, <1>5, <1>18, <2>1, <2>2, <2>3
       DEF Do, Receives, Nobody, Message, Emptied
  <2>5. Quiet' => HeaderMoveSeen'
    BY <1>2, <1>3, <1>4, <1>5, <1>18, <2>1, <2>2, QuietStep
       DEF Do, Ready, AllOk, Conforms, HeaderMoveInv, UsabilityAttempted, HasSend, Receives,
           Nobody, Message, Emptied
  <2> QED
    BY <1>4, <2>4, <2>5 DEF HeaderMoveInv
<1>19. CASE pc = 14
  <2>1. Current = Do("use_refs", "refs", "service", {"refs_received", "type_received"})
    BY <1>1, <1>19 DEF Current, HeaderMoveSteps, HeaderSteps
  <2>2. Looked("use_refs", "refs", "service")
    BY <2>1, DoLook DEF Plain
  <2>3. HeaderMoveSeen' =>
          HeaderMoveSeen /\ HeaderMoveHeld /\ (Ready(Current) <=> obs["refs_received"].refs = 1)
    BY <1>3, <1>4, <1>19, <2>1
       DEF Do, Ready, AllOk, HeaderMoveInv, UsabilityAttempted, HasSend
  <2>4. HeaderMoveSeen' => HeaderMoveHeld'
    BY <1>3, <1>4, <1>5, <1>19, <2>1, <2>2, <2>3
       DEF Do, Looked, Truth, TypeOf, Exists
  <2>5. Quiet' => HeaderMoveSeen'
    BY <1>2, <1>3, <1>4, <1>5, <1>19, <2>1, <2>2, QuietStep
       DEF Do, Ready, AllOk, Conforms, HeaderMoveInv, UsabilityAttempted, HasSend, Looked,
           Truth, TypeOf, Exists
  <2> QED
    BY <1>4, <2>4, <2>5 DEF HeaderMoveInv
<1>20. CASE pc = 15
  <2>1. Current = Do("destroy", "destroy", "service", {"alloc"})
    BY <1>1, <1>20 DEF Current, HeaderMoveSteps, HeaderSteps
  <2>2. Destroys("destroy", "service")
    BY <2>1, DoDestroy DEF Plain
  <2>3. HeaderMoveSeen' => HeaderMoveSeen /\ HeaderMoveHeld /\ Ready(Current)
    BY <1>3, <1>4, <1>20, <2>1
       DEF Do, Ready, AllOk, HeaderMoveInv
  <2>4. HeaderMoveSeen' => HeaderMoveHeld'
    BY <1>3, <1>4, <1>5, <1>20, <2>1, <2>2, <2>3
       DEF Do, Destroys, Gone, Exists
  <2>5. Quiet' => HeaderMoveSeen'
    BY <1>2, <1>3, <1>4, <1>5, <1>20, <2>1, <2>2, QuietStep
       DEF Do, Ready, AllOk, Conforms, HeaderMoveInv, Destroys, Gone, Exists
  <2> QED
    BY <1>4, <2>4, <2>5 DEF HeaderMoveInv
<1>21. CASE pc = 16
  <2>1. Current = Do("after", "capture", "self", {})
    BY <1>1, <1>21 DEF Current, HeaderMoveSteps, HeaderSteps
  <2>2. Captured("after")
    BY <2>1, DoCapture DEF Plain
  <2>3. HeaderMoveSeen' => HeaderMoveSeen /\ HeaderMoveHeld /\ Ready(Current)
    BY <1>3, <1>4, <1>21, <2>1
       DEF Do, Ready, AllOk, HeaderMoveInv
  <2>4. HeaderMoveSeen' => HeaderMoveHeld'
    BY <1>3, <1>4, <1>5, <1>21, <2>1, <2>2, <2>3
       DEF Do, Captured
  <2>5. Quiet' => HeaderMoveSeen'
    BY <1>2, <1>3, <1>4, <1>5, <1>21, <2>1, <2>2, QuietStep
       DEF Do, Ready, AllOk, Conforms, HeaderMoveInv, Captured
  <2> QED
    BY <1>4, <2>4, <2>5 DEF HeaderMoveInv
<1> QED
  BY <1>1, <1>6, <1>7, <1>8, <1>9, <1>10, <1>11, <1>12, <1>13, <1>14, <1>15, <1>16, <1>17,
     <1>18, <1>19, <1>20, <1>21

\* A step of double_move keeps what it has seen and what the task holds together.
LEMMA DoubleMoveStep ==
  ASSUME Base, SnapsInv, DoubleMoveInv, Step, Running, probe = "double_move" PROVE DoubleMoveInv'
<1>1. Steps(probe) = DoubleMoveSteps /\ pc \in 1..18
  BY DoubleMoveListed, PlaceOf
<1>2. Moves /\ TypeOK
  BY StepCases DEF Base
<1>3. \A m \in {"before", "alloc", "insert", "alloc_cargo", "insert_cargo", "type_before",
                 "refs_before", "send", "type_sent", "refs_sent", "receive", "first", "second",
                 "type_received", "refs_received", "destroy_cargo", "destroy", "after"} :
        m # Current.as => obs'[m] = obs[m]
  BY <1>1, <1>2 DEF Moves, Labels, DoubleMoveSteps, CargoSetup, CargoCleanup, Do
<1>4. probe' = probe /\ pc' = pc + 1 /\ dev' = dev /\ names' = names
  BY <1>2 DEF Moves
<1>5. own \in [Names -> Rights] /\ own[Current.on] \in Rights
  BY <1>2, CurrentKnown DEF TypeOK, Base
<1> USE DEF DoubleMoveSeen, DoubleMoveHeld, CargoSeen, CargoHeld, Follows, Ok, Lost, Taken,
        Unasked, Saw, Fine, Dev, Names, Nothing, Hold, Port, Allocated, Inserted, Destroyed,
        Rest
<1>6. CASE pc = 1
  <2>1. Current = Do("before", "capture", "self", {})
    BY <1>1, <1>6 DEF Current, DoubleMoveSteps, CargoSetup, CargoCleanup
  <2>2. Captured("before")
    BY <2>1, DoCapture DEF Plain
  <2>3. DoubleMoveSeen' => DoubleMoveSeen /\ DoubleMoveHeld /\ Ready(Current)
    BY <1>3, <1>4, <1>6, <2>1
       DEF Do, Ready, AllOk, DoubleMoveInv
  <2>4. DoubleMoveSeen' => DoubleMoveHeld'
    BY <1>3, <1>4, <1>5, <1>6, <2>1, <2>2, <2>3
       DEF Do, Captured
  <2>5. Quiet' => DoubleMoveSeen'
    BY <1>2, <1>3, <1>4, <1>5, <1>6, <2>1, <2>2, QuietStep
       DEF Do, Ready, AllOk, Conforms, DoubleMoveInv, Captured
  <2> QED
    BY <1>4, <2>4, <2>5 DEF DoubleMoveInv
<1>7. CASE pc = 2
  <2>1. Current = Do("alloc", "alloc", "service", {})
    BY <1>1, <1>7 DEF Current, DoubleMoveSteps, CargoSetup, CargoCleanup
  <2>2. Allocates("alloc", "alloc", "service")
    BY <2>1, DoAlloc DEF Plain
  <2>3. DoubleMoveSeen' => DoubleMoveSeen /\ DoubleMoveHeld /\ Ready(Current)
    BY <1>3, <1>4, <1>7, <2>1
       DEF Do, Ready, AllOk, DoubleMoveInv
  <2>4. DoubleMoveSeen' => DoubleMoveHeld'
    BY <1>3, <1>4, <1>5, <1>7, <2>1, <2>2, <2>3
       DEF Do, Allocates
  <2>5. Quiet' => DoubleMoveSeen'
    BY <1>2, <1>3, <1>4, <1>5, <1>7, <2>1, <2>2, QuietStep
       DEF Do, Ready, AllOk, Conforms, DoubleMoveInv, Allocates
  <2> QED
    BY <1>4, <2>4, <2>5 DEF DoubleMoveInv
<1>8. CASE pc = 3
  <2>1. Current = Do("insert", "insert", "service", {"alloc"})
    BY <1>1, <1>8 DEF Current, DoubleMoveSteps, CargoSetup, CargoCleanup
  <2>2. Adds("insert", "insert", "service")
    BY <2>1, DoAdd DEF Plain
  <2>3. DoubleMoveSeen' => DoubleMoveSeen /\ DoubleMoveHeld /\ Ready(Current)
    BY <1>3, <1>4, <1>8, <2>1
       DEF Do, Ready, AllOk, DoubleMoveInv
  <2>4. DoubleMoveSeen' => DoubleMoveHeld'
    BY <1>3, <1>4, <1>5, <1>8, <2>1, <2>2, <2>3
       DEF Do, Adds, Gone, Legal
  <2>5. Quiet' => DoubleMoveSeen'
    BY <1>2, <1>3, <1>4, <1>5, <1>8, <2>1, <2>2, QuietStep
       DEF Do, Ready, AllOk, Conforms, DoubleMoveInv, Adds, Gone, Legal
  <2> QED
    BY <1>4, <2>4, <2>5 DEF DoubleMoveInv
<1>9. CASE pc = 4
  <2>1. Current = Do("alloc_cargo", "alloc", "cargo", {"insert"})
    BY <1>1, <1>9 DEF Current, DoubleMoveSteps, CargoSetup, CargoCleanup
  <2>2. Allocates("alloc_cargo", "alloc", "cargo")
    BY <2>1, DoAlloc DEF Plain
  <2>3. DoubleMoveSeen' => DoubleMoveSeen /\ DoubleMoveHeld /\ Ready(Current)
    BY <1>3, <1>4, <1>9, <2>1
       DEF Do, Ready, AllOk, DoubleMoveInv
  <2>4. DoubleMoveSeen' => DoubleMoveHeld'
    BY <1>3, <1>4, <1>5, <1>9, <2>1, <2>2, <2>3
       DEF Do, Allocates
  <2>5. Quiet' => DoubleMoveSeen'
    BY <1>2, <1>3, <1>4, <1>5, <1>9, <2>1, <2>2, QuietStep
       DEF Do, Ready, AllOk, Conforms, DoubleMoveInv, Allocates
  <2> QED
    BY <1>4, <2>4, <2>5 DEF DoubleMoveInv
<1>10. CASE pc = 5
  <2>1. Current = Do("insert_cargo", "insert", "cargo", {"alloc_cargo"})
    BY <1>1, <1>10 DEF Current, DoubleMoveSteps, CargoSetup, CargoCleanup
  <2>2. Adds("insert_cargo", "insert", "cargo")
    BY <2>1, DoAdd DEF Plain
  <2>3. DoubleMoveSeen' => DoubleMoveSeen /\ DoubleMoveHeld /\ Ready(Current)
    BY <1>3, <1>4, <1>10, <2>1
       DEF Do, Ready, AllOk, DoubleMoveInv
  <2>4. DoubleMoveSeen' => DoubleMoveHeld'
    BY <1>3, <1>4, <1>5, <1>10, <2>1, <2>2, <2>3
       DEF Do, Adds, Gone, Legal
  <2>5. Quiet' => DoubleMoveSeen'
    BY <1>2, <1>3, <1>4, <1>5, <1>10, <2>1, <2>2, QuietStep
       DEF Do, Ready, AllOk, Conforms, DoubleMoveInv, Adds, Gone, Legal
  <2> QED
    BY <1>4, <2>4, <2>5 DEF DoubleMoveInv
<1>11. CASE pc = 6
  <2>1. Current = Do("type_before", "type", "cargo", {"insert_cargo"})
    BY <1>1, <1>11 DEF Current, DoubleMoveSteps, CargoSetup, CargoCleanup
  <2>2. Looked("type_before", "type", "cargo")
    BY <2>1, DoLook DEF Plain
  <2>3. DoubleMoveSeen' => DoubleMoveSeen /\ DoubleMoveHeld /\ Ready(Current)
    BY <1>3, <1>4, <1>11, <2>1
       DEF Do, Ready, AllOk, DoubleMoveInv
  <2>4. DoubleMoveSeen' => DoubleMoveHeld'
    BY <1>3, <1>4, <1>5, <1>11, <2>1, <2>2, <2>3
       DEF Do, Looked, Truth, TypeOf, Exists
  <2>5. Quiet' => DoubleMoveSeen'
    BY <1>2, <1>3, <1>4, <1>5, <1>11, <2>1, <2>2, QuietStep
       DEF Do, Ready, AllOk, Conforms, DoubleMoveInv, Looked, Truth, TypeOf, Exists
  <2> QED
    BY <1>4, <2>4, <2>5 DEF DoubleMoveInv
<1>12. CASE pc = 7
  <2>1. Current = Do("refs_before", "refs", "cargo", {"insert_cargo"})
    BY <1>1, <1>12 DEF Current, DoubleMoveSteps, CargoSetup, CargoCleanup
  <2>2. Looked("refs_before", "refs", "cargo")
    BY <2>1, DoLook DEF Plain
  <2>3. DoubleMoveSeen' => DoubleMoveSeen /\ DoubleMoveHeld /\ Ready(Current)
    BY <1>3, <1>4, <1>12, <2>1
       DEF Do, Ready, AllOk, DoubleMoveInv
  <2>4. DoubleMoveSeen' => DoubleMoveHeld'
    BY <1>3, <1>4, <1>5, <1>12, <2>1, <2>2, <2>3
       DEF Do, Looked, Truth, TypeOf, Exists
  <2>5. Quiet' => DoubleMoveSeen'
    BY <1>2, <1>3, <1>4, <1>5, <1>12, <2>1, <2>2, QuietStep
       DEF Do, Ready, AllOk, Conforms, DoubleMoveInv, Looked, Truth, TypeOf, Exists
  <2> QED
    BY <1>4, <2>4, <2>5 DEF DoubleMoveInv
<1>13. CASE pc = 8
  <2>1. Current = Do("send", "send_double", "service", {"type_before", "refs_before"})
    BY <1>1, <1>13 DEF Current, DoubleMoveSteps, CargoSetup, CargoCleanup
  <2>2. SendsDouble("send")
    BY <2>1, DoSendDouble DEF Plain
  <2>3. DoubleMoveSeen' => DoubleMoveSeen /\ DoubleMoveHeld /\ Ready(Current)
    BY <1>3, <1>4, <1>13, <2>1
       DEF Do, Ready, AllOk, DoubleMoveInv
  <2>4. DoubleMoveSeen' => DoubleMoveHeld'
    BY <1>3, <1>4, <1>5, <1>13, <2>1, <2>2, <2>3
       DEF Do, SendsDouble, Sends, Less, Fuller, Certain
  <2>5. Quiet' => DoubleMoveSeen'
    BY <1>2, <1>3, <1>4, <1>5, <1>13, <2>1, <2>2, QuietStep
       DEF Do, Ready, AllOk, Conforms, DoubleMoveInv, SendsDouble, Sends, Less, Fuller, Certain
  <2> QED
    BY <1>4, <2>4, <2>5 DEF DoubleMoveInv
<1>14. CASE pc = 9
  <2>1. Current = Do("type_sent", "type", "cargo", {})
    BY <1>1, <1>14 DEF Current, DoubleMoveSteps, CargoSetup, CargoCleanup
  <2>2. Looked("type_sent", "type", "cargo")
    BY <2>1, DoLook DEF Plain
  <2>3. DoubleMoveSeen' => DoubleMoveSeen /\ DoubleMoveHeld /\ Ready(Current)
    BY <1>3, <1>4, <1>14, <2>1
       DEF Do, Ready, AllOk, DoubleMoveInv
  <2>4. DoubleMoveSeen' => DoubleMoveHeld'
    BY <1>3, <1>4, <1>5, <1>14, <2>1, <2>2, <2>3
       DEF Do, Looked, Truth, TypeOf, Exists
  <2>5. Quiet' => DoubleMoveSeen'
    BY <1>2, <1>3, <1>4, <1>5, <1>14, <2>1, <2>2, QuietStep
       DEF Do, Ready, AllOk, Conforms, DoubleMoveInv, Looked, Truth, TypeOf, Exists
  <2> QED
    BY <1>4, <2>4, <2>5 DEF DoubleMoveInv
<1>15. CASE pc = 10
  <2>1. Current = Do("refs_sent", "refs", "cargo", {})
    BY <1>1, <1>15 DEF Current, DoubleMoveSteps, CargoSetup, CargoCleanup
  <2>2. Looked("refs_sent", "refs", "cargo")
    BY <2>1, DoLook DEF Plain
  <2>3. DoubleMoveSeen' => DoubleMoveSeen /\ DoubleMoveHeld /\ Ready(Current)
    BY <1>3, <1>4, <1>15, <2>1
       DEF Do, Ready, AllOk, DoubleMoveInv
  <2>4. DoubleMoveSeen' => DoubleMoveHeld'
    BY <1>3, <1>4, <1>5, <1>15, <2>1, <2>2, <2>3
       DEF Do, Looked, Truth, TypeOf, Exists
  <2>5. Quiet' => DoubleMoveSeen'
    BY <1>2, <1>3, <1>4, <1>5, <1>15, <2>1, <2>2, QuietStep
       DEF Do, Ready, AllOk, Conforms, DoubleMoveInv, Looked, Truth, TypeOf, Exists
  <2> QED
    BY <1>4, <2>4, <2>5 DEF DoubleMoveInv
<1>16. CASE pc = 11
  <2>1. Current = Do("receive", "receive_cargo", "service", {"alloc"})
    BY <1>1, <1>16 DEF Current, DoubleMoveSteps, CargoSetup, CargoCleanup
  <2>2. ReceivesRights("receive", "receive_cargo")
    BY <2>1, DoReceiveRights DEF Plain
  <2>3. DoubleMoveSeen' => DoubleMoveSeen /\ DoubleMoveHeld /\ Ready(Current)
    BY <1>3, <1>4, <1>16, <2>1
       DEF Do, Ready, AllOk, DoubleMoveInv
  <2>4. DoubleMoveSeen' => DoubleMoveHeld'
    BY <1>3, <1>4, <1>5, <1>16, <2>1, <2>2, <2>3
       DEF Do, ReceivesRights, Nobody, Message, Emptied, Extra
  <2>5. Quiet' => DoubleMoveSeen'
    BY <1>2, <1>3, <1>4, <1>5, <1>16, <2>1, <2>2, QuietStep
       DEF Do, Ready, AllOk, Conforms, DoubleMoveInv, ReceivesRights, Nobody, Message, Emptied,
           Extra
  <2> QED
    BY <1>4, <2>4, <2>5 DEF DoubleMoveInv
<1>17. CASE pc = 12
  <2>1. Current = Do("first", "drop", "cargo", {"receive"})
    BY <1>1, <1>17 DEF Current, DoubleMoveSteps, CargoSetup, CargoCleanup
  <2>2. Drops("first", "drop", "cargo")
    BY <2>1, DoDrop DEF Plain
  <2>3. DoubleMoveSeen' => DoubleMoveSeen /\ DoubleMoveHeld
    BY <1>3, <1>4, <1>17, <2>1
       DEF Do, Ready, AllOk, DoubleMoveInv
  <2>4. DoubleMoveSeen' => DoubleMoveHeld'
    BY <1>3, <1>4, <1>5, <1>17, <2>1, <2>2, <2>3
       DEF Do, Drops, Gone, Less
  <2>5. Quiet' => DoubleMoveSeen'
    BY <1>2, <1>3, <1>4, <1>5, <1>17, <2>1, <2>2, QuietStep
       DEF Do, Ready, AllOk, Conforms, DoubleMoveInv, Drops, Gone, Less
  <2> QED
    BY <1>4, <2>4, <2>5 DEF DoubleMoveInv
<1>18. CASE pc = 13
  <2>1. Current = Do("second", "drop", "cargo", {"receive"})
    BY <1>1, <1>18 DEF Current, DoubleMoveSteps, CargoSetup, CargoCleanup
  <2>2. Drops("second", "drop", "cargo")
    BY <2>1, DoDrop DEF Plain
  <2>3. DoubleMoveSeen' => DoubleMoveSeen /\ DoubleMoveHeld
    BY <1>3, <1>4, <1>18, <2>1
       DEF Do, Ready, AllOk, DoubleMoveInv
  <2>4. DoubleMoveSeen' => DoubleMoveHeld'
    BY <1>3, <1>4, <1>5, <1>18, <2>1, <2>2, <2>3
       DEF Do, Drops, Gone, Less
  <2>5. Quiet' => DoubleMoveSeen'
    BY <1>2, <1>3, <1>4, <1>5, <1>18, <2>1, <2>2, QuietStep
       DEF Do, Ready, AllOk, Conforms, DoubleMoveInv, Drops, Gone, Less
  <2> QED
    BY <1>4, <2>4, <2>5 DEF DoubleMoveInv
<1>19. CASE pc = 14
  <2>1. Current = Do("type_received", "type", "cargo", {})
    BY <1>1, <1>19 DEF Current, DoubleMoveSteps, CargoSetup, CargoCleanup
  <2>2. Looked("type_received", "type", "cargo")
    BY <2>1, DoLook DEF Plain
  <2>3. DoubleMoveSeen' => DoubleMoveSeen /\ DoubleMoveHeld /\ Ready(Current)
    BY <1>3, <1>4, <1>19, <2>1
       DEF Do, Ready, AllOk, DoubleMoveInv
  <2>4. DoubleMoveSeen' => DoubleMoveHeld'
    BY <1>3, <1>4, <1>5, <1>19, <2>1, <2>2, <2>3
       DEF Do, Looked, Truth, TypeOf, Exists
  <2>5. Quiet' => DoubleMoveSeen'
    BY <1>2, <1>3, <1>4, <1>5, <1>19, <2>1, <2>2, QuietStep
       DEF Do, Ready, AllOk, Conforms, DoubleMoveInv, Looked, Truth, TypeOf, Exists
  <2> QED
    BY <1>4, <2>4, <2>5 DEF DoubleMoveInv
<1>20. CASE pc = 15
  <2>1. Current = Do("refs_received", "refs", "cargo", {})
    BY <1>1, <1>20 DEF Current, DoubleMoveSteps, CargoSetup, CargoCleanup
  <2>2. Looked("refs_received", "refs", "cargo")
    BY <2>1, DoLook DEF Plain
  <2>3. DoubleMoveSeen' => DoubleMoveSeen /\ DoubleMoveHeld /\ Ready(Current)
    BY <1>3, <1>4, <1>20, <2>1
       DEF Do, Ready, AllOk, DoubleMoveInv
  <2>4. DoubleMoveSeen' => DoubleMoveHeld'
    BY <1>3, <1>4, <1>5, <1>20, <2>1, <2>2, <2>3
       DEF Do, Looked, Truth, TypeOf, Exists
  <2>5. Quiet' => DoubleMoveSeen'
    BY <1>2, <1>3, <1>4, <1>5, <1>20, <2>1, <2>2, QuietStep
       DEF Do, Ready, AllOk, Conforms, DoubleMoveInv, Looked, Truth, TypeOf, Exists
  <2> QED
    BY <1>4, <2>4, <2>5 DEF DoubleMoveInv
<1>21. CASE pc = 16
  <2>1. Current = Do("destroy_cargo", "destroy", "cargo", {"alloc_cargo"})
    BY <1>1, <1>21 DEF Current, DoubleMoveSteps, CargoSetup, CargoCleanup
  <2>2. Destroys("destroy_cargo", "cargo")
    BY <2>1, DoDestroy DEF Plain
  <2>3. DoubleMoveSeen' => DoubleMoveSeen /\ DoubleMoveHeld /\ Ready(Current)
    BY <1>3, <1>4, <1>21, <2>1
       DEF Do, Ready, AllOk, DoubleMoveInv
  <2>4. DoubleMoveSeen' => DoubleMoveHeld'
    BY <1>3, <1>4, <1>5, <1>21, <2>1, <2>2, <2>3
       DEF Do, Destroys, Gone, Exists
  <2>5. Quiet' => DoubleMoveSeen'
    BY <1>2, <1>3, <1>4, <1>5, <1>21, <2>1, <2>2, QuietStep
       DEF Do, Ready, AllOk, Conforms, DoubleMoveInv, Destroys, Gone, Exists
  <2> QED
    BY <1>4, <2>4, <2>5 DEF DoubleMoveInv
<1>22. CASE pc = 17
  <2>1. Current = Do("destroy", "destroy", "service", {"alloc"})
    BY <1>1, <1>22 DEF Current, DoubleMoveSteps, CargoSetup, CargoCleanup
  <2>2. Destroys("destroy", "service")
    BY <2>1, DoDestroy DEF Plain
  <2>3. DoubleMoveSeen' => DoubleMoveSeen /\ DoubleMoveHeld /\ Ready(Current)
    BY <1>3, <1>4, <1>22, <2>1
       DEF Do, Ready, AllOk, DoubleMoveInv
  <2>4. DoubleMoveSeen' => DoubleMoveHeld'
    BY <1>3, <1>4, <1>5, <1>22, <2>1, <2>2, <2>3
       DEF Do, Destroys, Gone, Exists
  <2>5. Quiet' => DoubleMoveSeen'
    BY <1>2, <1>3, <1>4, <1>5, <1>22, <2>1, <2>2, QuietStep
       DEF Do, Ready, AllOk, Conforms, DoubleMoveInv, Destroys, Gone, Exists
  <2> QED
    BY <1>4, <2>4, <2>5 DEF DoubleMoveInv
<1>23. CASE pc = 18
  <2>1. Current = Do("after", "capture", "self", {})
    BY <1>1, <1>23 DEF Current, DoubleMoveSteps, CargoSetup, CargoCleanup
  <2>2. Captured("after")
    BY <2>1, DoCapture DEF Plain
  <2>3. DoubleMoveSeen' => DoubleMoveSeen /\ DoubleMoveHeld /\ Ready(Current)
    BY <1>3, <1>4, <1>23, <2>1
       DEF Do, Ready, AllOk, DoubleMoveInv
  <2>4. DoubleMoveSeen' => DoubleMoveHeld'
    BY <1>3, <1>4, <1>5, <1>23, <2>1, <2>2, <2>3
       DEF Do, Captured
  <2>5. Quiet' => DoubleMoveSeen'
    BY <1>2, <1>3, <1>4, <1>5, <1>23, <2>1, <2>2, QuietStep
       DEF Do, Ready, AllOk, Conforms, DoubleMoveInv, Captured
  <2> QED
    BY <1>4, <2>4, <2>5 DEF DoubleMoveInv
<1> QED
  BY <1>1, <1>6, <1>7, <1>8, <1>9, <1>10, <1>11, <1>12, <1>13, <1>14, <1>15, <1>16, <1>17,
     <1>18, <1>19, <1>20, <1>21, <1>22, <1>23

\* A step of dead_name keeps what it has seen and what the task holds together.
LEMMA DeadNameStep ==
  ASSUME Base, SnapsInv, DeadNameInv, Step, Running, probe = "dead_name" PROVE DeadNameInv'
<1>1. Steps(probe) = DeadNameSteps /\ pc \in 1..25
  BY DeadNameListed, PlaceOf
<1>2. Moves /\ TypeOK
  BY StepCases DEF Base
<1>3. \A m \in {"before", "alloc", "insert", "alloc_dead", "type_before", "refs_before", "send",
                 "type_after", "refs_after", "receive", "first", "dealloc_source", "destroy",
                 "after", "before2", "alloc2", "insert2", "type_before2", "refs_before2",
                 "send2", "type_after2", "refs_after2", "receive2", "destroy2", "after2"} :
        m # Current.as => obs'[m] = obs[m]
  BY <1>1, <1>2 DEF Moves, Labels, DeadNameSteps, DeadCase, NonexistentCase, Do
<1>4. probe' = probe /\ pc' = pc + 1 /\ dev' = dev /\ names' = names
  BY <1>2 DEF Moves
<1>5. own \in [Names -> Rights] /\ own[Current.on] \in Rights
  BY <1>2, CurrentKnown DEF TypeOK, Base
<1> USE DEF DeadNameSeen, DeadNameHeld, DeadHeld, NonexistentHeld, Follows, Ok, Lost, Taken,
        Unasked, Saw, Fine, Dev, Names, Nothing, Hold, Port, DeadName, Shows, Counted, Absent,
        Allocated, Inserted, Destroyed, Extra, Rest
<1>6. CASE pc = 1
  <2>1. Current = Do("before", "capture", "self", {})
    BY <1>1, <1>6 DEF Current, DeadNameSteps, DeadCase, NonexistentCase
  <2>2. Captured("before")
    BY <2>1, DoCapture DEF Plain
  <2>6. DeadNameSeen' => BetweenHeld'
    BY <1>4, <1>6 DEF BetweenHeld
  <2>3. DeadNameSeen' => DeadNameSeen /\ DeadNameHeld /\ Ready(Current)
    BY <1>3, <1>4, <1>6, <2>1
       DEF Do, Ready, AllOk, DeadNameInv
  <2>4. DeadNameSeen' => DeadNameHeld'
    BY <1>4, <1>5, <1>6, <2>1, <2>2, <2>3, <2>6
       DEF Do, Captured
  <2>5. Quiet' => DeadNameSeen'
    BY <1>2, <1>3, <1>4, <1>5, <1>6, <2>1, <2>2, QuietStep
       DEF Do, Ready, AllOk, Conforms, DeadNameInv, Captured
  <2> QED
    BY <1>4, <2>4, <2>5 DEF DeadNameInv
<1>7. CASE pc = 2
  <2>1. Current = Do("alloc", "alloc", "service", {})
    BY <1>1, <1>7 DEF Current, DeadNameSteps, DeadCase, NonexistentCase
  <2>2. Allocates("alloc", "alloc", "service")
    BY <2>1, DoAlloc DEF Plain
  <2>6. DeadNameSeen' => BetweenHeld'
    BY <1>4, <1>7 DEF BetweenHeld
  <2>3. DeadNameSeen' => DeadNameSeen /\ DeadNameHeld /\ Ready(Current)
    BY <1>3, <1>4, <1>7, <2>1
       DEF Do, Ready, AllOk, DeadNameInv
  <2>4. DeadNameSeen' => DeadNameHeld'
    BY <1>4, <1>5, <1>7, <2>1, <2>2, <2>3, <2>6
       DEF Do, Allocates
  <2>5. Quiet' => DeadNameSeen'
    BY <1>2, <1>3, <1>4, <1>5, <1>7, <2>1, <2>2, QuietStep
       DEF Do, Ready, AllOk, Conforms, DeadNameInv, Allocates
  <2> QED
    BY <1>4, <2>4, <2>5 DEF DeadNameInv
<1>8. CASE pc = 3
  <2>1. Current = Do("insert", "insert", "service", {"alloc"})
    BY <1>1, <1>8 DEF Current, DeadNameSteps, DeadCase, NonexistentCase
  <2>2. Adds("insert", "insert", "service")
    BY <2>1, DoAdd DEF Plain
  <2>6. DeadNameSeen' => BetweenHeld'
    BY <1>4, <1>8 DEF BetweenHeld
  <2>3. DeadNameSeen' => DeadNameSeen /\ DeadNameHeld /\ Ready(Current)
    BY <1>3, <1>4, <1>8, <2>1
       DEF Do, Ready, AllOk, DeadNameInv
  <2>4. DeadNameSeen' => DeadNameHeld'
    BY <1>4, <1>5, <1>8, <2>1, <2>2, <2>3, <2>6
       DEF Do, Adds, Gone, Legal
  <2>5. Quiet' => DeadNameSeen'
    BY <1>2, <1>3, <1>4, <1>5, <1>8, <2>1, <2>2, QuietStep
       DEF Do, Ready, AllOk, Conforms, DeadNameInv, Adds, Gone, Legal
  <2> QED
    BY <1>4, <2>4, <2>5 DEF DeadNameInv
<1>9. CASE pc = 4
  <2>1. Current = Do("alloc_dead", "alloc_dead", "source", {"insert"})
    BY <1>1, <1>9 DEF Current, DeadNameSteps, DeadCase, NonexistentCase
  <2>2. Allocates("alloc_dead", "alloc_dead", "source")
    BY <2>1, DoAlloc DEF Plain
  <2>6. DeadNameSeen' => BetweenHeld'
    BY <1>4, <1>9 DEF BetweenHeld
  <2>3. DeadNameSeen' => DeadNameSeen /\ DeadNameHeld /\ Ready(Current)
    BY <1>3, <1>4, <1>9, <2>1
       DEF Do, Ready, AllOk, DeadNameInv
  <2>4. DeadNameSeen' => DeadNameHeld'
    BY <1>4, <1>5, <1>9, <2>1, <2>2, <2>3, <2>6
       DEF Do, Allocates
  <2>5. Quiet' => DeadNameSeen'
    BY <1>2, <1>3, <1>4, <1>5, <1>9, <2>1, <2>2, QuietStep
       DEF Do, Ready, AllOk, Conforms, DeadNameInv, Allocates
  <2> QED
    BY <1>4, <2>4, <2>5 DEF DeadNameInv
<1>10. CASE pc = 5
  <2>1. Current = Do("type_before", "type", "source", {"alloc_dead"})
    BY <1>1, <1>10 DEF Current, DeadNameSteps, DeadCase, NonexistentCase
  <2>2. Looked("type_before", "type", "source")
    BY <2>1, DoLook DEF Plain
  <2>6. DeadNameSeen' => BetweenHeld'
    BY <1>4, <1>10 DEF BetweenHeld
  <2>3. DeadNameSeen' => DeadNameSeen /\ DeadNameHeld /\ Ready(Current)
    BY <1>3, <1>4, <1>10, <2>1
       DEF Do, Ready, AllOk, DeadNameInv
  <2>4. DeadNameSeen' => DeadNameHeld'
    BY <1>4, <1>5, <1>10, <2>1, <2>2, <2>3, <2>6
       DEF Do, Looked, Truth, TypeOf, Exists
  <2>5. Quiet' => DeadNameSeen'
    BY <1>2, <1>3, <1>4, <1>5, <1>10, <2>1, <2>2, QuietStep
       DEF Do, Ready, AllOk, Conforms, DeadNameInv, Looked, Truth, TypeOf, Exists
  <2> QED
    BY <1>4, <2>4, <2>5 DEF DeadNameInv
<1>11. CASE pc = 6
  <2>1. Current = Do("refs_before", "refs_dead", "source", {"alloc_dead"})
    BY <1>1, <1>11 DEF Current, DeadNameSteps, DeadCase, NonexistentCase
  <2>2. Looked("refs_before", "refs_dead", "source")
    BY <2>1, DoLook DEF Plain
  <2>6. DeadNameSeen' => BetweenHeld'
    BY <1>4, <1>11 DEF BetweenHeld
  <2>3. DeadNameSeen' => DeadNameSeen /\ DeadNameHeld /\ Ready(Current)
    BY <1>3, <1>4, <1>11, <2>1
       DEF Do, Ready, AllOk, DeadNameInv
  <2>4. DeadNameSeen' => DeadNameHeld'
    BY <1>4, <1>5, <1>11, <2>1, <2>2, <2>3, <2>6
       DEF Do, Looked, Truth, TypeOf, Exists
  <2>5. Quiet' => DeadNameSeen'
    BY <1>2, <1>3, <1>4, <1>5, <1>11, <2>1, <2>2, QuietStep
       DEF Do, Ready, AllOk, Conforms, DeadNameInv, Looked, Truth, TypeOf, Exists
  <2> QED
    BY <1>4, <2>4, <2>5 DEF DeadNameInv
<1>12. CASE pc = 7
  <2>1. Current = Do("send", "send_dead", "service", {"alloc_dead"})
    BY <1>1, <1>12 DEF Current, DeadNameSteps, DeadCase, NonexistentCase
  <2>2. SendsDead("send", "service")
    BY <2>1, DoSendDead DEF Plain
  <2>6. DeadNameSeen' => BetweenHeld'
    BY <1>4, <1>12 DEF BetweenHeld
  <2>3. DeadNameSeen' => DeadNameSeen /\ DeadNameHeld /\ Ready(Current)
    BY <1>3, <1>4, <1>12, <2>1
       DEF Do, Ready, AllOk, DeadNameInv
  <2>4. DeadNameSeen' => DeadNameHeld'
    BY <1>4, <1>5, <1>12, <2>1, <2>2, <2>3, <2>6
       DEF Do, SendsDead, Sends, Fuller
  <2>5. Quiet' => DeadNameSeen'
    BY <1>2, <1>3, <1>4, <1>5, <1>12, <2>1, <2>2, QuietStep
       DEF Do, Ready, AllOk, Conforms, DeadNameInv, SendsDead, Sends, Fuller
  <2> QED
    BY <1>4, <2>4, <2>5 DEF DeadNameInv
<1>13. CASE pc = 8
  <2>1. Current = Do("type_after", "type", "source", {"alloc_dead"})
    BY <1>1, <1>13 DEF Current, DeadNameSteps, DeadCase, NonexistentCase
  <2>2. Looked("type_after", "type", "source")
    BY <2>1, DoLook DEF Plain
  <2>6. DeadNameSeen' => BetweenHeld'
    BY <1>4, <1>13 DEF BetweenHeld
  <2>3. DeadNameSeen' => DeadNameSeen /\ DeadNameHeld /\ Ready(Current)
    BY <1>3, <1>4, <1>13, <2>1
       DEF Do, Ready, AllOk, DeadNameInv
  <2>4. DeadNameSeen' => DeadNameHeld'
    BY <1>4, <1>5, <1>13, <2>1, <2>2, <2>3, <2>6
       DEF Do, Looked, Truth, TypeOf, Exists
  <2>5. Quiet' => DeadNameSeen'
    BY <1>2, <1>3, <1>4, <1>5, <1>13, <2>1, <2>2, QuietStep
       DEF Do, Ready, AllOk, Conforms, DeadNameInv, Looked, Truth, TypeOf, Exists
  <2> QED
    BY <1>4, <2>4, <2>5 DEF DeadNameInv
<1>14. CASE pc = 9
  <2>1. Current = Do("refs_after", "refs_dead", "source", {"alloc_dead"})
    BY <1>1, <1>14 DEF Current, DeadNameSteps, DeadCase, NonexistentCase
  <2>2. Looked("refs_after", "refs_dead", "source")
    BY <2>1, DoLook DEF Plain
  <2>6. DeadNameSeen' => BetweenHeld'
    BY <1>4, <1>14 DEF BetweenHeld
  <2>3. DeadNameSeen' => DeadNameSeen /\ DeadNameHeld /\ Ready(Current)
    BY <1>3, <1>4, <1>14, <2>1
       DEF Do, Ready, AllOk, DeadNameInv
  <2>4. DeadNameSeen' => DeadNameHeld'
    BY <1>4, <1>5, <1>14, <2>1, <2>2, <2>3, <2>6
       DEF Do, Looked, Truth, TypeOf, Exists
  <2>5. Quiet' => DeadNameSeen'
    BY <1>2, <1>3, <1>4, <1>5, <1>14, <2>1, <2>2, QuietStep
       DEF Do, Ready, AllOk, Conforms, DeadNameInv, Looked, Truth, TypeOf, Exists
  <2> QED
    BY <1>4, <2>4, <2>5 DEF DeadNameInv
<1>15. CASE pc = 10
  <2>1. Current = Do("receive", "receive_dead", "service", {"alloc"})
    BY <1>1, <1>15 DEF Current, DeadNameSteps, DeadCase, NonexistentCase
  <2>2. ReceivesRights("receive", "receive_dead")
    BY <2>1, DoReceiveRights DEF Plain
  <2>6. DeadNameSeen' => BetweenHeld'
    BY <1>4, <1>15 DEF BetweenHeld
  <2>3. DeadNameSeen' => DeadNameSeen /\ DeadNameHeld /\ Ready(Current)
    BY <1>3, <1>4, <1>15, <2>1
       DEF Do, Ready, AllOk, DeadNameInv
  <2>4. DeadNameSeen' => DeadNameHeld'
    BY <1>4, <1>5, <1>15, <2>1, <2>2, <2>3, <2>6
       DEF Do, ReceivesRights, Nobody, Message, Emptied
  <2>5. Quiet' => DeadNameSeen'
    BY <1>2, <1>3, <1>4, <1>5, <1>15, <2>1, <2>2, QuietStep
       DEF Do, Ready, AllOk, Conforms, DeadNameInv, ReceivesRights, Nobody, Message, Emptied
  <2> QED
    BY <1>4, <2>4, <2>5 DEF DeadNameInv
<1>16. CASE pc = 11
  <2>1. Current = Do("first", "drop", "delivered", {"receive"})
    BY <1>1, <1>16 DEF Current, DeadNameSteps, DeadCase, NonexistentCase
  <2>2. Drops("first", "drop", "delivered")
    BY <2>1, DoDrop DEF Plain
  <2>6. DeadNameSeen' => BetweenHeld'
    BY <1>4, <1>16 DEF BetweenHeld
  <2>3. DeadNameSeen' => DeadNameSeen /\ DeadNameHeld /\ Ready(Current)
    BY <1>3, <1>4, <1>16, <2>1
       DEF Do, Ready, AllOk, DeadNameInv
  <2>4. DeadNameSeen' => DeadNameHeld'
    BY <1>4, <1>5, <1>16, <2>1, <2>2, <2>3, <2>6
       DEF Do, Drops, Gone, Less
  <2>5. Quiet' => DeadNameSeen'
    BY <1>2, <1>3, <1>4, <1>5, <1>16, <2>1, <2>2, QuietStep
       DEF Do, Ready, AllOk, Conforms, DeadNameInv, Drops, Gone, Less
  <2> QED
    BY <1>4, <2>4, <2>5 DEF DeadNameInv
<1>17. CASE pc = 12
  <2>1. Current = Do("dealloc_source", "drop_gone", "source", {"alloc_dead"})
    BY <1>1, <1>17 DEF Current, DeadNameSteps, DeadCase, NonexistentCase
  <2>2. Drops("dealloc_source", "drop_gone", "source")
    BY <2>1, DoDrop DEF Plain
  <2>6. DeadNameSeen' => BetweenHeld'
    BY <1>4, <1>17 DEF BetweenHeld
  <2>3. DeadNameSeen' => DeadNameSeen /\ DeadNameHeld /\ Ready(Current)
    BY <1>3, <1>4, <1>17, <2>1
       DEF Do, Ready, AllOk, DeadNameInv
  <2>4. DeadNameSeen' => DeadNameHeld'
    BY <1>4, <1>5, <1>17, <2>1, <2>2, <2>3, <2>6
       DEF Do, Drops, Gone, Less
  <2>5. Quiet' => DeadNameSeen'
    BY <1>2, <1>3, <1>4, <1>5, <1>17, <2>1, <2>2, QuietStep
       DEF Do, Ready, AllOk, Conforms, DeadNameInv, Drops, Gone, Less
  <2> QED
    BY <1>4, <2>4, <2>5 DEF DeadNameInv
<1>18. CASE pc = 13
  <2>1. Current = Do("destroy", "destroy", "service", {"alloc"})
    BY <1>1, <1>18 DEF Current, DeadNameSteps, DeadCase, NonexistentCase
  <2>2. Destroys("destroy", "service")
    BY <2>1, DoDestroy DEF Plain
  <2>6. DeadNameSeen' => BetweenHeld'
    BY <1>4, <1>18 DEF BetweenHeld
  <2>3. DeadNameSeen' => DeadNameSeen /\ DeadNameHeld /\ Ready(Current)
    BY <1>3, <1>4, <1>18, <2>1
       DEF Do, Ready, AllOk, DeadNameInv
  <2>4. DeadNameSeen' => DeadNameHeld'
    BY <1>4, <1>5, <1>18, <2>1, <2>2, <2>3, <2>6
       DEF Do, Destroys, Gone, Exists
  <2>5. Quiet' => DeadNameSeen'
    BY <1>2, <1>3, <1>4, <1>5, <1>18, <2>1, <2>2, QuietStep
       DEF Do, Ready, AllOk, Conforms, DeadNameInv, Destroys, Gone, Exists
  <2> QED
    BY <1>4, <2>4, <2>5 DEF DeadNameInv
<1>19. CASE pc = 14
  <2>1. Current = Do("after", "capture", "self", {})
    BY <1>1, <1>19 DEF Current, DeadNameSteps, DeadCase, NonexistentCase
  <2>2. Captured("after")
    BY <2>1, DoCapture DEF Plain
  <2>6. DeadNameSeen' => BetweenHeld'
    <3>1. own' = own /\ (Lost("after") \/ Snapped("after"))
      BY <2>1, CaptureShows DEF Plain
    <3>3. DeadNameSeen' /\ Quiet' => obs'["after"].snap = {}
      <4>1. DeadNameSeen' => DeadNameHeld
        BY <1>3, <1>4, <1>19, <2>1 DEF Do, DeadNameInv
      <4>2. ASSUME DeadNameSeen', Quiet' PROVE \A n \in Names : ~Exists(own[n])
        <5>1. DeadHeld /\ NonexistentHeld /\ Rest({"service", "source", "delivered", "service2"})
          BY <4>1, <4>2
        <5>2. own["service"] = Nothing /\ own["source"] = Nothing /\ own["delivered"] = Nothing
                /\ own["service2"] = Nothing
          BY <1>4, <1>19, <4>2, <5>1 DEF Quiet, Conforms
        <5> QED
          BY <5>1, <5>2 DEF Exists
      <4>3. DeadNameSeen' /\ Quiet' => Listing = {} /\ ~Dev("after", "lie")
        BY <1>4, <4>2 DEF Listing, Quiet, Conforms
      <4> QED
        BY <3>1, <4>3 DEF Snapped
    <3>2. Listing' = Listing
      BY <3>1 DEF Listing
    <3> QED
      BY <1>4, <1>19, <3>1, <3>2, <3>3 DEF BetweenHeld, Snapped
  <2>3. DeadNameSeen' => DeadNameSeen /\ DeadNameHeld /\ Ready(Current)
    BY <1>3, <1>4, <1>19, <2>1
       DEF Do, Ready, AllOk, DeadNameInv
  <2>4. DeadNameSeen' => DeadNameHeld'
    BY <1>4, <1>5, <1>19, <2>1, <2>2, <2>3, <2>6
       DEF Do, Captured
  <2>5. Quiet' => DeadNameSeen'
    BY <1>2, <1>3, <1>4, <1>5, <1>19, <2>1, <2>2, QuietStep
       DEF Do, Ready, AllOk, Conforms, DeadNameInv, Captured
  <2> QED
    BY <1>4, <2>4, <2>5 DEF DeadNameInv
<1>20. CASE pc = 15
  <2>1. Current = Do("before2", "capture", "self", {})
    BY <1>1, <1>20 DEF Current, DeadNameSteps, DeadCase, NonexistentCase
  <2>2. Captured("before2")
    BY <2>1, DoCapture DEF Plain
  <2>6. DeadNameSeen' => BetweenHeld'
    <3>1. Lost("before2") \/ Snapped("before2")
      BY <2>1, CaptureShows DEF Plain
    <3>2. DeadNameSeen' => BetweenHeld
      BY <1>3, <1>4, <1>20, <2>1 DEF Do, DeadNameInv
    <3>3. obs'["after"] = obs["after"]
      BY <1>3, <2>1 DEF Do
    <3> QED
      BY <1>2, <1>4, <1>20, <3>1, <3>2, <3>3, QuietStep DEF BetweenHeld, Snapped
  <2>3. DeadNameSeen' => DeadNameSeen /\ DeadNameHeld /\ Ready(Current)
    BY <1>3, <1>4, <1>20, <2>1
       DEF Do, Ready, AllOk, DeadNameInv
  <2>4. DeadNameSeen' => DeadNameHeld'
    BY <1>4, <1>5, <1>20, <2>1, <2>2, <2>3, <2>6
       DEF Do, Captured
  <2>5. Quiet' => DeadNameSeen'
    BY <1>2, <1>3, <1>4, <1>5, <1>20, <2>1, <2>2, QuietStep
       DEF Do, Ready, AllOk, Conforms, DeadNameInv, Captured
  <2> QED
    BY <1>4, <2>4, <2>5 DEF DeadNameInv
<1>21. CASE pc = 16
  <2>1. Current = Do("alloc2", "alloc", "service2", {})
    BY <1>1, <1>21 DEF Current, DeadNameSteps, DeadCase, NonexistentCase
  <2>2. Allocates("alloc2", "alloc", "service2")
    BY <2>1, DoAlloc DEF Plain
  <2>6. DeadNameSeen' => BetweenHeld'
    <3>1. DeadNameSeen' => BetweenHeld
      BY <1>3, <1>4, <1>21, <2>1 DEF Do, DeadNameInv
    <3>2. obs'["after"] = obs["after"] /\ obs'["before2"] = obs["before2"]
      BY <1>3, <2>1 DEF Do
    <3> QED
      BY <1>2, <1>4, <1>21, <3>1, <3>2, QuietStep DEF BetweenHeld
  <2>3. DeadNameSeen' => DeadNameSeen /\ DeadNameHeld /\ Ready(Current)
    BY <1>3, <1>4, <1>21, <2>1
       DEF Do, Ready, AllOk, DeadNameInv
  <2>4. DeadNameSeen' => DeadNameHeld'
    BY <1>4, <1>5, <1>21, <2>1, <2>2, <2>3, <2>6
       DEF Do, Allocates
  <2>5. Quiet' => DeadNameSeen'
    BY <1>2, <1>3, <1>4, <1>5, <1>21, <2>1, <2>2, QuietStep
       DEF Do, Ready, AllOk, Conforms, DeadNameInv, Allocates
  <2> QED
    BY <1>4, <2>4, <2>5 DEF DeadNameInv
<1>22. CASE pc = 17
  <2>1. Current = Do("insert2", "insert", "service2", {"alloc2"})
    BY <1>1, <1>22 DEF Current, DeadNameSteps, DeadCase, NonexistentCase
  <2>2. Adds("insert2", "insert", "service2")
    BY <2>1, DoAdd DEF Plain
  <2>6. DeadNameSeen' => BetweenHeld'
    <3>1. DeadNameSeen' => BetweenHeld
      BY <1>3, <1>4, <1>22, <2>1 DEF Do, DeadNameInv
    <3>2. obs'["after"] = obs["after"] /\ obs'["before2"] = obs["before2"]
      BY <1>3, <2>1 DEF Do
    <3> QED
      BY <1>2, <1>4, <1>22, <3>1, <3>2, QuietStep DEF BetweenHeld
  <2>3. DeadNameSeen' => DeadNameSeen /\ DeadNameHeld /\ Ready(Current)
    BY <1>3, <1>4, <1>22, <2>1
       DEF Do, Ready, AllOk, DeadNameInv
  <2>4. DeadNameSeen' => DeadNameHeld'
    BY <1>4, <1>5, <1>22, <2>1, <2>2, <2>3, <2>6
       DEF Do, Adds, Gone, Legal
  <2>5. Quiet' => DeadNameSeen'
    BY <1>2, <1>3, <1>4, <1>5, <1>22, <2>1, <2>2, QuietStep
       DEF Do, Ready, AllOk, Conforms, DeadNameInv, Adds, Gone, Legal
  <2> QED
    BY <1>4, <2>4, <2>5 DEF DeadNameInv
<1>23. CASE pc = 18
  <2>1. Current = Do("type_before2", "type", "free", {"insert2"})
    BY <1>1, <1>23 DEF Current, DeadNameSteps, DeadCase, NonexistentCase
  <2>2. Looked("type_before2", "type", "free")
    BY <2>1, DoLook DEF Plain
  <2>6. DeadNameSeen' => BetweenHeld'
    <3>1. DeadNameSeen' => BetweenHeld
      BY <1>3, <1>4, <1>23, <2>1 DEF Do, DeadNameInv
    <3>2. obs'["after"] = obs["after"] /\ obs'["before2"] = obs["before2"]
      BY <1>3, <2>1 DEF Do
    <3> QED
      BY <1>2, <1>4, <1>23, <3>1, <3>2, QuietStep DEF BetweenHeld
  <2>3. DeadNameSeen' => DeadNameSeen /\ DeadNameHeld /\ Ready(Current)
    BY <1>3, <1>4, <1>23, <2>1
       DEF Do, Ready, AllOk, DeadNameInv
  <2>4. DeadNameSeen' => DeadNameHeld'
    BY <1>4, <1>5, <1>23, <2>1, <2>2, <2>3, <2>6
       DEF Do, Looked, Truth, TypeOf, Exists
  <2>5. Quiet' => DeadNameSeen'
    BY <1>2, <1>3, <1>4, <1>5, <1>23, <2>1, <2>2, QuietStep
       DEF Do, Ready, AllOk, Conforms, DeadNameInv, Looked, Truth, TypeOf, Exists
  <2> QED
    BY <1>4, <2>4, <2>5 DEF DeadNameInv
<1>24. CASE pc = 19
  <2>1. Current = Do("refs_before2", "refs", "free", {"insert2"})
    BY <1>1, <1>24 DEF Current, DeadNameSteps, DeadCase, NonexistentCase
  <2>2. Looked("refs_before2", "refs", "free")
    BY <2>1, DoLook DEF Plain
  <2>6. DeadNameSeen' => BetweenHeld'
    <3>1. DeadNameSeen' => BetweenHeld
      BY <1>3, <1>4, <1>24, <2>1 DEF Do, DeadNameInv
    <3>2. obs'["after"] = obs["after"] /\ obs'["before2"] = obs["before2"]
      BY <1>3, <2>1 DEF Do
    <3> QED
      BY <1>2, <1>4, <1>24, <3>1, <3>2, QuietStep DEF BetweenHeld
  <2>3. DeadNameSeen' => DeadNameSeen /\ DeadNameHeld /\ Ready(Current)
    BY <1>3, <1>4, <1>24, <2>1
       DEF Do, Ready, AllOk, DeadNameInv
  <2>4. DeadNameSeen' => DeadNameHeld'
    BY <1>4, <1>5, <1>24, <2>1, <2>2, <2>3, <2>6
       DEF Do, Looked, Truth, TypeOf, Exists
  <2>5. Quiet' => DeadNameSeen'
    BY <1>2, <1>3, <1>4, <1>5, <1>24, <2>1, <2>2, QuietStep
       DEF Do, Ready, AllOk, Conforms, DeadNameInv, Looked, Truth, TypeOf, Exists
  <2> QED
    BY <1>4, <2>4, <2>5 DEF DeadNameInv
<1>25. CASE pc = 20
  <2>1. Current = Do("send2", "send_free", "service2", {"insert2"})
    BY <1>1, <1>25 DEF Current, DeadNameSteps, DeadCase, NonexistentCase
  <2>2. SendsFree("send2", "service2")
    BY <2>1, DoSendFree DEF Plain
  <2>6. DeadNameSeen' => BetweenHeld'
    <3>1. DeadNameSeen' => BetweenHeld
      BY <1>3, <1>4, <1>25, <2>1 DEF Do, DeadNameInv
    <3>2. obs'["after"] = obs["after"] /\ obs'["before2"] = obs["before2"]
      BY <1>3, <2>1 DEF Do
    <3> QED
      BY <1>2, <1>4, <1>25, <3>1, <3>2, QuietStep DEF BetweenHeld
  <2>3. DeadNameSeen' => DeadNameSeen /\ DeadNameHeld /\ Ready(Current)
    BY <1>3, <1>4, <1>25, <2>1
       DEF Do, Ready, AllOk, DeadNameInv
  <2>4. DeadNameSeen' => DeadNameHeld'
    BY <1>4, <1>5, <1>25, <2>1, <2>2, <2>3, <2>6
       DEF Do, SendsFree, Sends, Fuller
  <2>5. Quiet' => DeadNameSeen'
    BY <1>2, <1>3, <1>4, <1>5, <1>25, <2>1, <2>2, QuietStep
       DEF Do, Ready, AllOk, Conforms, DeadNameInv, SendsFree, Sends, Fuller
  <2> QED
    BY <1>4, <2>4, <2>5 DEF DeadNameInv
<1>26. CASE pc = 21
  <2>1. Current = Do("type_after2", "type", "free", {"insert2"})
    BY <1>1, <1>26 DEF Current, DeadNameSteps, DeadCase, NonexistentCase
  <2>2. Looked("type_after2", "type", "free")
    BY <2>1, DoLook DEF Plain
  <2>6. DeadNameSeen' => BetweenHeld'
    <3>1. DeadNameSeen' => BetweenHeld
      BY <1>3, <1>4, <1>26, <2>1 DEF Do, DeadNameInv
    <3>2. obs'["after"] = obs["after"] /\ obs'["before2"] = obs["before2"]
      BY <1>3, <2>1 DEF Do
    <3> QED
      BY <1>2, <1>4, <1>26, <3>1, <3>2, QuietStep DEF BetweenHeld
  <2>3. DeadNameSeen' => DeadNameSeen /\ DeadNameHeld /\ Ready(Current)
    BY <1>3, <1>4, <1>26, <2>1
       DEF Do, Ready, AllOk, DeadNameInv
  <2>4. DeadNameSeen' => DeadNameHeld'
    BY <1>4, <1>5, <1>26, <2>1, <2>2, <2>3, <2>6
       DEF Do, Looked, Truth, TypeOf, Exists
  <2>5. Quiet' => DeadNameSeen'
    BY <1>2, <1>3, <1>4, <1>5, <1>26, <2>1, <2>2, QuietStep
       DEF Do, Ready, AllOk, Conforms, DeadNameInv, Looked, Truth, TypeOf, Exists
  <2> QED
    BY <1>4, <2>4, <2>5 DEF DeadNameInv
<1>27. CASE pc = 22
  <2>1. Current = Do("refs_after2", "refs", "free", {"insert2"})
    BY <1>1, <1>27 DEF Current, DeadNameSteps, DeadCase, NonexistentCase
  <2>2. Looked("refs_after2", "refs", "free")
    BY <2>1, DoLook DEF Plain
  <2>6. DeadNameSeen' => BetweenHeld'
    <3>1. DeadNameSeen' => BetweenHeld
      BY <1>3, <1>4, <1>27, <2>1 DEF Do, DeadNameInv
    <3>2. obs'["after"] = obs["after"] /\ obs'["before2"] = obs["before2"]
      BY <1>3, <2>1 DEF Do
    <3> QED
      BY <1>2, <1>4, <1>27, <3>1, <3>2, QuietStep DEF BetweenHeld
  <2>3. DeadNameSeen' => DeadNameSeen /\ DeadNameHeld /\ Ready(Current)
    BY <1>3, <1>4, <1>27, <2>1
       DEF Do, Ready, AllOk, DeadNameInv
  <2>4. DeadNameSeen' => DeadNameHeld'
    BY <1>4, <1>5, <1>27, <2>1, <2>2, <2>3, <2>6
       DEF Do, Looked, Truth, TypeOf, Exists
  <2>5. Quiet' => DeadNameSeen'
    BY <1>2, <1>3, <1>4, <1>5, <1>27, <2>1, <2>2, QuietStep
       DEF Do, Ready, AllOk, Conforms, DeadNameInv, Looked, Truth, TypeOf, Exists
  <2> QED
    BY <1>4, <2>4, <2>5 DEF DeadNameInv
<1>28. CASE pc = 23
  <2>1. Current = Do("receive2", "receive", "service2", {"alloc2"})
    BY <1>1, <1>28 DEF Current, DeadNameSteps, DeadCase, NonexistentCase
  <2>2. Receives("receive2", "service2")
    BY <2>1, DoReceive DEF Plain
  <2>6. DeadNameSeen' => BetweenHeld'
    <3>1. DeadNameSeen' => BetweenHeld
      BY <1>3, <1>4, <1>28, <2>1 DEF Do, DeadNameInv
    <3>2. obs'["after"] = obs["after"] /\ obs'["before2"] = obs["before2"]
      BY <1>3, <2>1 DEF Do
    <3> QED
      BY <1>2, <1>4, <1>28, <3>1, <3>2, QuietStep DEF BetweenHeld
  <2>3. DeadNameSeen' => DeadNameSeen /\ DeadNameHeld /\ Ready(Current)
    BY <1>3, <1>4, <1>28, <2>1
       DEF Do, Ready, AllOk, DeadNameInv
  <2>4. DeadNameSeen' => DeadNameHeld'
    BY <1>4, <1>5, <1>28, <2>1, <2>2, <2>3, <2>6
       DEF Do, Receives, Nobody, Message, Emptied
  <2>5. Quiet' => DeadNameSeen'
    BY <1>2, <1>3, <1>4, <1>5, <1>28, <2>1, <2>2, QuietStep
       DEF Do, Ready, AllOk, Conforms, DeadNameInv, Receives, Nobody, Message, Emptied
  <2> QED
    BY <1>4, <2>4, <2>5 DEF DeadNameInv
<1>29. CASE pc = 24
  <2>1. Current = Do("destroy2", "destroy", "service2", {"alloc2"})
    BY <1>1, <1>29 DEF Current, DeadNameSteps, DeadCase, NonexistentCase
  <2>2. Destroys("destroy2", "service2")
    BY <2>1, DoDestroy DEF Plain
  <2>6. DeadNameSeen' => BetweenHeld'
    <3>1. DeadNameSeen' => BetweenHeld
      BY <1>3, <1>4, <1>29, <2>1 DEF Do, DeadNameInv
    <3>2. obs'["after"] = obs["after"] /\ obs'["before2"] = obs["before2"]
      BY <1>3, <2>1 DEF Do
    <3> QED
      BY <1>2, <1>4, <1>29, <3>1, <3>2, QuietStep DEF BetweenHeld
  <2>3. DeadNameSeen' => DeadNameSeen /\ DeadNameHeld /\ Ready(Current)
    BY <1>3, <1>4, <1>29, <2>1
       DEF Do, Ready, AllOk, DeadNameInv
  <2>4. DeadNameSeen' => DeadNameHeld'
    BY <1>4, <1>5, <1>29, <2>1, <2>2, <2>3, <2>6
       DEF Do, Destroys, Gone, Exists
  <2>5. Quiet' => DeadNameSeen'
    BY <1>2, <1>3, <1>4, <1>5, <1>29, <2>1, <2>2, QuietStep
       DEF Do, Ready, AllOk, Conforms, DeadNameInv, Destroys, Gone, Exists
  <2> QED
    BY <1>4, <2>4, <2>5 DEF DeadNameInv
<1>30. CASE pc = 25
  <2>1. Current = Do("after2", "capture", "self", {})
    BY <1>1, <1>30 DEF Current, DeadNameSteps, DeadCase, NonexistentCase
  <2>2. Captured("after2")
    BY <2>1, DoCapture DEF Plain
  <2>6. DeadNameSeen' => BetweenHeld'
    <3>1. DeadNameSeen' => BetweenHeld
      BY <1>3, <1>4, <1>30, <2>1 DEF Do, DeadNameInv
    <3>2. obs'["after"] = obs["after"] /\ obs'["before2"] = obs["before2"]
      BY <1>3, <2>1 DEF Do
    <3> QED
      BY <1>2, <1>4, <1>30, <3>1, <3>2, QuietStep DEF BetweenHeld
  <2>3. DeadNameSeen' => DeadNameSeen /\ DeadNameHeld /\ Ready(Current)
    BY <1>3, <1>4, <1>30, <2>1
       DEF Do, Ready, AllOk, DeadNameInv
  <2>4. DeadNameSeen' => DeadNameHeld'
    BY <1>4, <1>5, <1>30, <2>1, <2>2, <2>3, <2>6
       DEF Do, Captured
  <2>5. Quiet' => DeadNameSeen'
    BY <1>2, <1>3, <1>4, <1>5, <1>30, <2>1, <2>2, QuietStep
       DEF Do, Ready, AllOk, Conforms, DeadNameInv, Captured
  <2> QED
    BY <1>4, <2>4, <2>5 DEF DeadNameInv
<1> QED
  BY <1>1, <1>6, <1>7, <1>8, <1>9, <1>10, <1>11, <1>12, <1>13, <1>14, <1>15, <1>16, <1>17,
     <1>18, <1>19, <1>20, <1>21, <1>22, <1>23, <1>24, <1>25, <1>26, <1>27, <1>28, <1>29, <1>30

\* A step of invalid_disposition keeps what it has seen and what the task holds together.
LEMMA InvalidDispositionStep ==
  ASSUME Base, SnapsInv, InvalidDispositionInv, Step, Running, probe = "invalid_disposition"
  PROVE  InvalidDispositionInv'
<1>1. Steps(probe) = InvalidDispositionSteps /\ pc \in 1..17
  BY InvalidDispositionListed, PlaceOf
<1>2. Moves /\ TypeOK
  BY StepCases DEF Base
<1>3. \A m \in {"before", "alloc", "insert", "alloc_cargo", "insert_cargo", "service_before",
                 "refs_before", "type_before", "send", "service_after", "refs_after",
                 "type_after", "receive", "first", "destroy_cargo", "destroy", "after"} :
        m # Current.as => obs'[m] = obs[m]
  BY <1>1, <1>2 DEF Moves, Labels, InvalidDispositionSteps, CargoSetup, CargoCleanup, Do
<1>4. probe' = probe /\ pc' = pc + 1 /\ dev' = dev /\ names' = names
  BY <1>2 DEF Moves
<1>5. own \in [Names -> Rights] /\ own[Current.on] \in Rights
  BY <1>2, CurrentKnown DEF TypeOK, Base
<1> USE DEF InvalidDispositionSeen, InvalidDispositionHeld, CargoSeen, CargoHeld, Follows, Ok,
        Lost, Taken, Unasked, Saw, Fine, Dev, Names, Nothing, Hold, Port, Allocated, Inserted,
        Destroyed, Count, Kind, SameRefs, SameType, Rest
<1>6. CASE pc = 1
  <2>1. Current = Do("before", "capture", "self", {})
    BY <1>1, <1>6 DEF Current, InvalidDispositionSteps, CargoSetup, CargoCleanup
  <2>2. Captured("before")
    BY <2>1, DoCapture DEF Plain
  <2>3. InvalidDispositionSeen' =>
          InvalidDispositionSeen /\ InvalidDispositionHeld /\ Ready(Current)
    BY <1>3, <1>4, <1>6, <2>1
       DEF Do, Ready, AllOk, InvalidDispositionInv
  <2>4. InvalidDispositionSeen' => InvalidDispositionHeld'
    BY <1>3, <1>4, <1>5, <1>6, <2>1, <2>2, <2>3
       DEF Do, Captured
  <2>5. Quiet' => InvalidDispositionSeen'
    BY <1>2, <1>3, <1>4, <1>5, <1>6, <2>1, <2>2, QuietStep
       DEF Do, Ready, AllOk, Conforms, InvalidDispositionInv, Captured
  <2> QED
    BY <1>4, <2>4, <2>5 DEF InvalidDispositionInv
<1>7. CASE pc = 2
  <2>1. Current = Do("alloc", "alloc", "service", {})
    BY <1>1, <1>7 DEF Current, InvalidDispositionSteps, CargoSetup, CargoCleanup
  <2>2. Allocates("alloc", "alloc", "service")
    BY <2>1, DoAlloc DEF Plain
  <2>3. InvalidDispositionSeen' =>
          InvalidDispositionSeen /\ InvalidDispositionHeld /\ Ready(Current)
    BY <1>3, <1>4, <1>7, <2>1
       DEF Do, Ready, AllOk, InvalidDispositionInv
  <2>4. InvalidDispositionSeen' => InvalidDispositionHeld'
    BY <1>3, <1>4, <1>5, <1>7, <2>1, <2>2, <2>3
       DEF Do, Allocates
  <2>5. Quiet' => InvalidDispositionSeen'
    BY <1>2, <1>3, <1>4, <1>5, <1>7, <2>1, <2>2, QuietStep
       DEF Do, Ready, AllOk, Conforms, InvalidDispositionInv, Allocates
  <2> QED
    BY <1>4, <2>4, <2>5 DEF InvalidDispositionInv
<1>8. CASE pc = 3
  <2>1. Current = Do("insert", "insert", "service", {"alloc"})
    BY <1>1, <1>8 DEF Current, InvalidDispositionSteps, CargoSetup, CargoCleanup
  <2>2. Adds("insert", "insert", "service")
    BY <2>1, DoAdd DEF Plain
  <2>3. InvalidDispositionSeen' =>
          InvalidDispositionSeen /\ InvalidDispositionHeld /\ Ready(Current)
    BY <1>3, <1>4, <1>8, <2>1
       DEF Do, Ready, AllOk, InvalidDispositionInv
  <2>4. InvalidDispositionSeen' => InvalidDispositionHeld'
    BY <1>3, <1>4, <1>5, <1>8, <2>1, <2>2, <2>3
       DEF Do, Adds, Gone, Legal
  <2>5. Quiet' => InvalidDispositionSeen'
    BY <1>2, <1>3, <1>4, <1>5, <1>8, <2>1, <2>2, QuietStep
       DEF Do, Ready, AllOk, Conforms, InvalidDispositionInv, Adds, Gone, Legal
  <2> QED
    BY <1>4, <2>4, <2>5 DEF InvalidDispositionInv
<1>9. CASE pc = 4
  <2>1. Current = Do("alloc_cargo", "alloc", "cargo", {"insert"})
    BY <1>1, <1>9 DEF Current, InvalidDispositionSteps, CargoSetup, CargoCleanup
  <2>2. Allocates("alloc_cargo", "alloc", "cargo")
    BY <2>1, DoAlloc DEF Plain
  <2>3. InvalidDispositionSeen' =>
          InvalidDispositionSeen /\ InvalidDispositionHeld /\ Ready(Current)
    BY <1>3, <1>4, <1>9, <2>1
       DEF Do, Ready, AllOk, InvalidDispositionInv
  <2>4. InvalidDispositionSeen' => InvalidDispositionHeld'
    BY <1>3, <1>4, <1>5, <1>9, <2>1, <2>2, <2>3
       DEF Do, Allocates
  <2>5. Quiet' => InvalidDispositionSeen'
    BY <1>2, <1>3, <1>4, <1>5, <1>9, <2>1, <2>2, QuietStep
       DEF Do, Ready, AllOk, Conforms, InvalidDispositionInv, Allocates
  <2> QED
    BY <1>4, <2>4, <2>5 DEF InvalidDispositionInv
<1>10. CASE pc = 5
  <2>1. Current = Do("insert_cargo", "insert", "cargo", {"alloc_cargo"})
    BY <1>1, <1>10 DEF Current, InvalidDispositionSteps, CargoSetup, CargoCleanup
  <2>2. Adds("insert_cargo", "insert", "cargo")
    BY <2>1, DoAdd DEF Plain
  <2>3. InvalidDispositionSeen' =>
          InvalidDispositionSeen /\ InvalidDispositionHeld /\ Ready(Current)
    BY <1>3, <1>4, <1>10, <2>1
       DEF Do, Ready, AllOk, InvalidDispositionInv
  <2>4. InvalidDispositionSeen' => InvalidDispositionHeld'
    BY <1>3, <1>4, <1>5, <1>10, <2>1, <2>2, <2>3
       DEF Do, Adds, Gone, Legal
  <2>5. Quiet' => InvalidDispositionSeen'
    BY <1>2, <1>3, <1>4, <1>5, <1>10, <2>1, <2>2, QuietStep
       DEF Do, Ready, AllOk, Conforms, InvalidDispositionInv, Adds, Gone, Legal
  <2> QED
    BY <1>4, <2>4, <2>5 DEF InvalidDispositionInv
<1>11. CASE pc = 6
  <2>1. Current = Do("service_before", "refs", "service", {"insert_cargo"})
    BY <1>1, <1>11 DEF Current, InvalidDispositionSteps, CargoSetup, CargoCleanup
  <2>2. Looked("service_before", "refs", "service")
    BY <2>1, DoLook DEF Plain
  <2>3. InvalidDispositionSeen' =>
          InvalidDispositionSeen /\ InvalidDispositionHeld /\ Ready(Current)
    BY <1>3, <1>4, <1>11, <2>1
       DEF Do, Ready, AllOk, InvalidDispositionInv
  <2>4. InvalidDispositionSeen' => InvalidDispositionHeld'
    BY <1>3, <1>4, <1>5, <1>11, <2>1, <2>2, <2>3
       DEF Do, Looked, Truth, TypeOf, Exists
  <2>5. Quiet' => InvalidDispositionSeen'
    BY <1>2, <1>3, <1>4, <1>5, <1>11, <2>1, <2>2, QuietStep
       DEF Do, Ready, AllOk, Conforms, InvalidDispositionInv, Looked, Truth, TypeOf, Exists
  <2> QED
    BY <1>4, <2>4, <2>5 DEF InvalidDispositionInv
<1>12. CASE pc = 7
  <2>1. Current = Do("refs_before", "refs", "cargo", {"insert_cargo"})
    BY <1>1, <1>12 DEF Current, InvalidDispositionSteps, CargoSetup, CargoCleanup
  <2>2. Looked("refs_before", "refs", "cargo")
    BY <2>1, DoLook DEF Plain
  <2>3. InvalidDispositionSeen' =>
          InvalidDispositionSeen /\ InvalidDispositionHeld /\ Ready(Current)
    BY <1>3, <1>4, <1>12, <2>1
       DEF Do, Ready, AllOk, InvalidDispositionInv
  <2>4. InvalidDispositionSeen' => InvalidDispositionHeld'
    BY <1>3, <1>4, <1>5, <1>12, <2>1, <2>2, <2>3
       DEF Do, Looked, Truth, TypeOf, Exists
  <2>5. Quiet' => InvalidDispositionSeen'
    BY <1>2, <1>3, <1>4, <1>5, <1>12, <2>1, <2>2, QuietStep
       DEF Do, Ready, AllOk, Conforms, InvalidDispositionInv, Looked, Truth, TypeOf, Exists
  <2> QED
    BY <1>4, <2>4, <2>5 DEF InvalidDispositionInv
<1>13. CASE pc = 8
  <2>1. Current = Do("type_before", "type", "cargo", {"insert_cargo"})
    BY <1>1, <1>13 DEF Current, InvalidDispositionSteps, CargoSetup, CargoCleanup
  <2>2. Looked("type_before", "type", "cargo")
    BY <2>1, DoLook DEF Plain
  <2>3. InvalidDispositionSeen' =>
          InvalidDispositionSeen /\ InvalidDispositionHeld /\ Ready(Current)
    BY <1>3, <1>4, <1>13, <2>1
       DEF Do, Ready, AllOk, InvalidDispositionInv
  <2>4. InvalidDispositionSeen' => InvalidDispositionHeld'
    BY <1>3, <1>4, <1>5, <1>13, <2>1, <2>2, <2>3
       DEF Do, Looked, Truth, TypeOf, Exists
  <2>5. Quiet' => InvalidDispositionSeen'
    BY <1>2, <1>3, <1>4, <1>5, <1>13, <2>1, <2>2, QuietStep
       DEF Do, Ready, AllOk, Conforms, InvalidDispositionInv, Looked, Truth, TypeOf, Exists
  <2> QED
    BY <1>4, <2>4, <2>5 DEF InvalidDispositionInv
<1>14. CASE pc = 9
  <2>1. Current =
          Do("send", "send_invalid", "service", {"service_before", "refs_before", "type_before"})
    BY <1>1, <1>14 DEF Current, InvalidDispositionSteps, CargoSetup, CargoCleanup
  <2>2. SendsInvalid("send")
    BY <2>1, DoSendInvalid DEF Plain
  <2>3. InvalidDispositionSeen' =>
          InvalidDispositionSeen /\ InvalidDispositionHeld /\ Ready(Current)
    BY <1>3, <1>4, <1>14, <2>1
       DEF Do, Ready, AllOk, InvalidDispositionInv
  <2>4. InvalidDispositionSeen' => InvalidDispositionHeld'
    BY <1>3, <1>4, <1>5, <1>14, <2>1, <2>2, <2>3
       DEF Do, SendsInvalid, Sends, Less, Fuller, Certain
  <2>5. Quiet' => InvalidDispositionSeen'
    BY <1>2, <1>3, <1>4, <1>5, <1>14, <2>1, <2>2, QuietStep
       DEF Do, Ready, AllOk, Conforms, InvalidDispositionInv, SendsInvalid, Sends, Less, Fuller,
           Certain
  <2> QED
    BY <1>4, <2>4, <2>5 DEF InvalidDispositionInv
<1>15. CASE pc = 10
  <2>1. Current = Do("service_after", "refs", "service", {})
    BY <1>1, <1>15 DEF Current, InvalidDispositionSteps, CargoSetup, CargoCleanup
  <2>2. Looked("service_after", "refs", "service")
    BY <2>1, DoLook DEF Plain
  <2>3. InvalidDispositionSeen' =>
          InvalidDispositionSeen /\ InvalidDispositionHeld /\ Ready(Current)
    BY <1>3, <1>4, <1>15, <2>1
       DEF Do, Ready, AllOk, InvalidDispositionInv
  <2>4. InvalidDispositionSeen' => InvalidDispositionHeld'
    BY <1>3, <1>4, <1>5, <1>15, <2>1, <2>2, <2>3
       DEF Do, Looked, Truth, TypeOf, Exists
  <2>5. Quiet' => InvalidDispositionSeen'
    BY <1>2, <1>3, <1>4, <1>5, <1>15, <2>1, <2>2, QuietStep
       DEF Do, Ready, AllOk, Conforms, InvalidDispositionInv, Looked, Truth, TypeOf, Exists
  <2> QED
    BY <1>4, <2>4, <2>5 DEF InvalidDispositionInv
<1>16. CASE pc = 11
  <2>1. Current = Do("refs_after", "refs", "cargo", {})
    BY <1>1, <1>16 DEF Current, InvalidDispositionSteps, CargoSetup, CargoCleanup
  <2>2. Looked("refs_after", "refs", "cargo")
    BY <2>1, DoLook DEF Plain
  <2>3. InvalidDispositionSeen' =>
          InvalidDispositionSeen /\ InvalidDispositionHeld /\ Ready(Current)
    BY <1>3, <1>4, <1>16, <2>1
       DEF Do, Ready, AllOk, InvalidDispositionInv
  <2>4. InvalidDispositionSeen' => InvalidDispositionHeld'
    BY <1>3, <1>4, <1>5, <1>16, <2>1, <2>2, <2>3
       DEF Do, Looked, Truth, TypeOf, Exists
  <2>5. Quiet' => InvalidDispositionSeen'
    BY <1>2, <1>3, <1>4, <1>5, <1>16, <2>1, <2>2, QuietStep
       DEF Do, Ready, AllOk, Conforms, InvalidDispositionInv, Looked, Truth, TypeOf, Exists
  <2> QED
    BY <1>4, <2>4, <2>5 DEF InvalidDispositionInv
<1>17. CASE pc = 12
  <2>1. Current = Do("type_after", "type", "cargo", {})
    BY <1>1, <1>17 DEF Current, InvalidDispositionSteps, CargoSetup, CargoCleanup
  <2>2. Looked("type_after", "type", "cargo")
    BY <2>1, DoLook DEF Plain
  <2>3. InvalidDispositionSeen' =>
          InvalidDispositionSeen /\ InvalidDispositionHeld /\ Ready(Current)
    BY <1>3, <1>4, <1>17, <2>1
       DEF Do, Ready, AllOk, InvalidDispositionInv
  <2>4. InvalidDispositionSeen' => InvalidDispositionHeld'
    BY <1>3, <1>4, <1>5, <1>17, <2>1, <2>2, <2>3
       DEF Do, Looked, Truth, TypeOf, Exists
  <2>5. Quiet' => InvalidDispositionSeen'
    BY <1>2, <1>3, <1>4, <1>5, <1>17, <2>1, <2>2, QuietStep
       DEF Do, Ready, AllOk, Conforms, InvalidDispositionInv, Looked, Truth, TypeOf, Exists
  <2> QED
    BY <1>4, <2>4, <2>5 DEF InvalidDispositionInv
<1>18. CASE pc = 13
  <2>1. Current = Do("receive", "receive_cargo", "service", {"alloc"})
    BY <1>1, <1>18 DEF Current, InvalidDispositionSteps, CargoSetup, CargoCleanup
  <2>2. ReceivesRights("receive", "receive_cargo")
    BY <2>1, DoReceiveRights DEF Plain
  <2>3. InvalidDispositionSeen' =>
          InvalidDispositionSeen /\ InvalidDispositionHeld /\ Ready(Current)
    BY <1>3, <1>4, <1>18, <2>1
       DEF Do, Ready, AllOk, InvalidDispositionInv
  <2>4. InvalidDispositionSeen' => InvalidDispositionHeld'
    BY <1>3, <1>4, <1>5, <1>18, <2>1, <2>2, <2>3
       DEF Do, ReceivesRights, Nobody, Message, Emptied, Extra
  <2>5. Quiet' => InvalidDispositionSeen'
    BY <1>2, <1>3, <1>4, <1>5, <1>18, <2>1, <2>2, QuietStep
       DEF Do, Ready, AllOk, Conforms, InvalidDispositionInv, ReceivesRights, Nobody, Message,
           Emptied, Extra
  <2> QED
    BY <1>4, <2>4, <2>5 DEF InvalidDispositionInv
<1>19. CASE pc = 14
  <2>1. Current = Do("first", "drop", "cargo", {"receive"})
    BY <1>1, <1>19 DEF Current, InvalidDispositionSteps, CargoSetup, CargoCleanup
  <2>2. Drops("first", "drop", "cargo")
    BY <2>1, DoDrop DEF Plain
  <2>3. InvalidDispositionSeen' =>
          InvalidDispositionSeen /\ InvalidDispositionHeld /\ ~Ready(Current)
    BY <1>3, <1>4, <1>19, <2>1
       DEF Do, Ready, AllOk, InvalidDispositionInv
  <2>4. InvalidDispositionSeen' => InvalidDispositionHeld'
    BY <1>3, <1>4, <1>5, <1>19, <2>1, <2>2, <2>3
       DEF Do, Drops, Gone, Less
  <2>5. Quiet' => InvalidDispositionSeen'
    BY <1>2, <1>3, <1>4, <1>5, <1>19, <2>1, <2>2, QuietStep
       DEF Do, Ready, AllOk, Conforms, InvalidDispositionInv, Drops, Gone, Less
  <2> QED
    BY <1>4, <2>4, <2>5 DEF InvalidDispositionInv
<1>20. CASE pc = 15
  <2>1. Current = Do("destroy_cargo", "destroy", "cargo", {"alloc_cargo"})
    BY <1>1, <1>20 DEF Current, InvalidDispositionSteps, CargoSetup, CargoCleanup
  <2>2. Destroys("destroy_cargo", "cargo")
    BY <2>1, DoDestroy DEF Plain
  <2>3. InvalidDispositionSeen' =>
          InvalidDispositionSeen /\ InvalidDispositionHeld /\ Ready(Current)
    BY <1>3, <1>4, <1>20, <2>1
       DEF Do, Ready, AllOk, InvalidDispositionInv
  <2>4. InvalidDispositionSeen' => InvalidDispositionHeld'
    BY <1>3, <1>4, <1>5, <1>20, <2>1, <2>2, <2>3
       DEF Do, Destroys, Gone, Exists
  <2>5. Quiet' => InvalidDispositionSeen'
    BY <1>2, <1>3, <1>4, <1>5, <1>20, <2>1, <2>2, QuietStep
       DEF Do, Ready, AllOk, Conforms, InvalidDispositionInv, Destroys, Gone, Exists
  <2> QED
    BY <1>4, <2>4, <2>5 DEF InvalidDispositionInv
<1>21. CASE pc = 16
  <2>1. Current = Do("destroy", "destroy", "service", {"alloc"})
    BY <1>1, <1>21 DEF Current, InvalidDispositionSteps, CargoSetup, CargoCleanup
  <2>2. Destroys("destroy", "service")
    BY <2>1, DoDestroy DEF Plain
  <2>3. InvalidDispositionSeen' =>
          InvalidDispositionSeen /\ InvalidDispositionHeld /\ Ready(Current)
    BY <1>3, <1>4, <1>21, <2>1
       DEF Do, Ready, AllOk, InvalidDispositionInv
  <2>4. InvalidDispositionSeen' => InvalidDispositionHeld'
    BY <1>3, <1>4, <1>5, <1>21, <2>1, <2>2, <2>3
       DEF Do, Destroys, Gone, Exists
  <2>5. Quiet' => InvalidDispositionSeen'
    BY <1>2, <1>3, <1>4, <1>5, <1>21, <2>1, <2>2, QuietStep
       DEF Do, Ready, AllOk, Conforms, InvalidDispositionInv, Destroys, Gone, Exists
  <2> QED
    BY <1>4, <2>4, <2>5 DEF InvalidDispositionInv
<1>22. CASE pc = 17
  <2>1. Current = Do("after", "capture", "self", {})
    BY <1>1, <1>22 DEF Current, InvalidDispositionSteps, CargoSetup, CargoCleanup
  <2>2. Captured("after")
    BY <2>1, DoCapture DEF Plain
  <2>3. InvalidDispositionSeen' =>
          InvalidDispositionSeen /\ InvalidDispositionHeld /\ Ready(Current)
    BY <1>3, <1>4, <1>22, <2>1
       DEF Do, Ready, AllOk, InvalidDispositionInv
  <2>4. InvalidDispositionSeen' => InvalidDispositionHeld'
    BY <1>3, <1>4, <1>5, <1>22, <2>1, <2>2, <2>3
       DEF Do, Captured
  <2>5. Quiet' => InvalidDispositionSeen'
    BY <1>2, <1>3, <1>4, <1>5, <1>22, <2>1, <2>2, QuietStep
       DEF Do, Ready, AllOk, Conforms, InvalidDispositionInv, Captured
  <2> QED
    BY <1>4, <2>4, <2>5 DEF InvalidDispositionInv
<1> QED
  BY <1>1, <1>6, <1>7, <1>8, <1>9, <1>10, <1>11, <1>12, <1>13, <1>14, <1>15, <1>16, <1>17,
     <1>18, <1>19, <1>20, <1>21, <1>22

\* A step of smoke keeps what it has seen and what the task holds together.
LEMMA SmokeStep ==
  ASSUME Base, SnapsInv, SmokeInv, Step, Running, probe = "smoke" PROVE SmokeInv'
<1>1. Steps(probe) = SmokeSteps /\ pc \in 1..6
  BY SmokeListed, PlaceOf
<1>2. Moves /\ TypeOK
  BY StepCases DEF Base
<1>3. \A m \in {"before", "alloc", "type", "refs", "destroy", "after"} :
        m # Current.as => obs'[m] = obs[m]
  BY <1>1, <1>2 DEF Moves, Labels, SmokeSteps, Do
<1>4. probe' = probe /\ pc' = pc + 1 /\ dev' = dev /\ names' = names
  BY <1>2 DEF Moves
<1>5. own \in [Names -> Rights] /\ own[Current.on] \in Rights
  BY <1>2, CurrentKnown DEF TypeOK, Base
<1> USE DEF SmokeSeen, SmokeHeld, Follows, Ok, Lost, Taken, Unasked, Saw, Fine, Dev, Names,
        Nothing, Hold, Port, Allocated, Destroyed, Rest
<1>6. CASE pc = 1
  <2>1. Current = Do("before", "capture", "self", {})
    BY <1>1, <1>6 DEF Current, SmokeSteps
  <2>2. Captured("before")
    BY <2>1, DoCapture DEF Plain
  <2>3. SmokeSeen' => SmokeSeen /\ SmokeHeld /\ Ready(Current)
    BY <1>3, <1>4, <1>6, <2>1
       DEF Do, Ready, AllOk, SmokeInv
  <2>4. SmokeSeen' => SmokeHeld'
    BY <1>4, <1>5, <1>6, <2>1, <2>2, <2>3
       DEF Do, Captured
  <2>5. Quiet' => SmokeSeen'
    BY <1>2, <1>3, <1>4, <1>5, <1>6, <2>1, <2>2, QuietStep
       DEF Do, Ready, AllOk, Conforms, SmokeInv, Captured
  <2> QED
    BY <1>4, <2>4, <2>5 DEF SmokeInv
<1>7. CASE pc = 2
  <2>1. Current = Do("alloc", "alloc", "service", {})
    BY <1>1, <1>7 DEF Current, SmokeSteps
  <2>2. Allocates("alloc", "alloc", "service")
    BY <2>1, DoAlloc DEF Plain
  <2>3. SmokeSeen' => SmokeSeen /\ SmokeHeld /\ Ready(Current)
    BY <1>3, <1>4, <1>7, <2>1
       DEF Do, Ready, AllOk, SmokeInv
  <2>4. SmokeSeen' => SmokeHeld'
    BY <1>4, <1>5, <1>7, <2>1, <2>2, <2>3
       DEF Do, Allocates
  <2>5. Quiet' => SmokeSeen'
    BY <1>2, <1>3, <1>4, <1>5, <1>7, <2>1, <2>2, QuietStep
       DEF Do, Ready, AllOk, Conforms, SmokeInv, Allocates
  <2> QED
    BY <1>4, <2>4, <2>5 DEF SmokeInv
<1>8. CASE pc = 3
  <2>1. Current = Do("type", "type", "service", {"alloc"})
    BY <1>1, <1>8 DEF Current, SmokeSteps
  <2>2. Looked("type", "type", "service")
    BY <2>1, DoLook DEF Plain
  <2>3. SmokeSeen' => SmokeSeen /\ SmokeHeld /\ Ready(Current)
    BY <1>3, <1>4, <1>8, <2>1
       DEF Do, Ready, AllOk, SmokeInv
  <2>4. SmokeSeen' => SmokeHeld'
    BY <1>4, <1>5, <1>8, <2>1, <2>2, <2>3
       DEF Do, Looked, Truth, TypeOf, Exists
  <2>5. Quiet' => SmokeSeen'
    BY <1>2, <1>3, <1>4, <1>5, <1>8, <2>1, <2>2, QuietStep
       DEF Do, Ready, AllOk, Conforms, SmokeInv, Looked, Truth, TypeOf, Exists
  <2> QED
    BY <1>4, <2>4, <2>5 DEF SmokeInv
<1>9. CASE pc = 4
  <2>1. Current = Do("refs", "refs_recv", "service", {"alloc"})
    BY <1>1, <1>9 DEF Current, SmokeSteps
  <2>2. Looked("refs", "refs_recv", "service")
    BY <2>1, DoLook DEF Plain
  <2>3. SmokeSeen' => SmokeSeen /\ SmokeHeld /\ Ready(Current)
    BY <1>3, <1>4, <1>9, <2>1
       DEF Do, Ready, AllOk, SmokeInv
  <2>4. SmokeSeen' => SmokeHeld'
    BY <1>4, <1>5, <1>9, <2>1, <2>2, <2>3
       DEF Do, Looked, Truth, TypeOf, Exists
  <2>5. Quiet' => SmokeSeen'
    BY <1>2, <1>3, <1>4, <1>5, <1>9, <2>1, <2>2, QuietStep
       DEF Do, Ready, AllOk, Conforms, SmokeInv, Looked, Truth, TypeOf, Exists
  <2> QED
    BY <1>4, <2>4, <2>5 DEF SmokeInv
<1>10. CASE pc = 5
  <2>1. Current = Do("destroy", "destroy", "service", {"alloc"})
    BY <1>1, <1>10 DEF Current, SmokeSteps
  <2>2. Destroys("destroy", "service")
    BY <2>1, DoDestroy DEF Plain
  <2>3. SmokeSeen' => SmokeSeen /\ SmokeHeld /\ Ready(Current)
    BY <1>3, <1>4, <1>10, <2>1
       DEF Do, Ready, AllOk, SmokeInv
  <2>4. SmokeSeen' => SmokeHeld'
    BY <1>4, <1>5, <1>10, <2>1, <2>2, <2>3
       DEF Do, Destroys, Gone, Exists
  <2>5. Quiet' => SmokeSeen'
    BY <1>2, <1>3, <1>4, <1>5, <1>10, <2>1, <2>2, QuietStep
       DEF Do, Ready, AllOk, Conforms, SmokeInv, Destroys, Gone, Exists
  <2> QED
    BY <1>4, <2>4, <2>5 DEF SmokeInv
<1>11. CASE pc = 6
  <2>1. Current = Do("after", "capture", "self", {})
    BY <1>1, <1>11 DEF Current, SmokeSteps
  <2>2. Captured("after")
    BY <2>1, DoCapture DEF Plain
  <2>3. SmokeSeen' => SmokeSeen /\ SmokeHeld /\ Ready(Current)
    BY <1>3, <1>4, <1>11, <2>1
       DEF Do, Ready, AllOk, SmokeInv
  <2>4. SmokeSeen' => SmokeHeld'
    BY <1>4, <1>5, <1>11, <2>1, <2>2, <2>3
       DEF Do, Captured
  <2>5. Quiet' => SmokeSeen'
    BY <1>2, <1>3, <1>4, <1>5, <1>11, <2>1, <2>2, QuietStep
       DEF Do, Ready, AllOk, Conforms, SmokeInv, Captured
  <2> QED
    BY <1>4, <2>4, <2>5 DEF SmokeInv
<1> QED
  BY <1>1, <1>6, <1>7, <1>8, <1>9, <1>10, <1>11

\* A step of port_get_refs keeps what it has seen and what the task holds together.
LEMMA GetRefsStep ==
  ASSUME Base, SnapsInv, GetRefsInv, Step, Running, probe = "port_get_refs" PROVE GetRefsInv'
<1>1. Steps(probe) = GetRefsSteps /\ pc \in 1..15
  BY GetRefsListed, PlaceOf
<1>2. Moves /\ TypeOK
  BY StepCases DEF Base
<1>3. \A m \in {"before", "alloc", "recv_initial", "before_make", "insert", "after_make", "plus",
                 "after_plus", "dealloc", "after_dealloc", "minus", "after_minus", "recv_final",
                 "destroy", "after"} :
        m # Current.as => obs'[m] = obs[m]
  BY <1>1, <1>2 DEF Moves, Labels, GetRefsSteps, Do
<1>4. probe' = probe /\ pc' = pc + 1 /\ dev' = dev /\ names' = names
  BY <1>2 DEF Moves
<1>5. own \in [Names -> Rights] /\ own[Current.on] \in Rights
  BY <1>2, CurrentKnown DEF TypeOK, Base
<1> USE DEF GetRefsSeen, GetRefsHeld, Follows, Ok, Lost, Taken, Unasked, Saw, Fine, Dev, Names,
        Nothing, Hold, Port, Counted, Allocated, Inserted, Destroyed, Rest
<1>6. CASE pc = 1
  <2>1. Current = Do("before", "capture", "self", {})
    BY <1>1, <1>6 DEF Current, GetRefsSteps
  <2>2. Captured("before")
    BY <2>1, DoCapture DEF Plain
  <2>3. GetRefsSeen' => GetRefsSeen /\ GetRefsHeld /\ Ready(Current)
    BY <1>3, <1>4, <1>6, <2>1
       DEF Do, Ready, AllOk, GetRefsInv
  <2>4. GetRefsSeen' => GetRefsHeld'
    BY <1>4, <1>5, <1>6, <2>1, <2>2, <2>3
       DEF Do, Captured
  <2>5. Quiet' => GetRefsSeen'
    BY <1>2, <1>3, <1>4, <1>5, <1>6, <2>1, <2>2, QuietStep
       DEF Do, Ready, AllOk, Conforms, GetRefsInv, Captured
  <2> QED
    BY <1>4, <2>4, <2>5 DEF GetRefsInv
<1>7. CASE pc = 2
  <2>1. Current = Do("alloc", "alloc", "service", {})
    BY <1>1, <1>7 DEF Current, GetRefsSteps
  <2>2. Allocates("alloc", "alloc", "service")
    BY <2>1, DoAlloc DEF Plain
  <2>3. GetRefsSeen' => GetRefsSeen /\ GetRefsHeld /\ Ready(Current)
    BY <1>3, <1>4, <1>7, <2>1
       DEF Do, Ready, AllOk, GetRefsInv
  <2>4. GetRefsSeen' => GetRefsHeld'
    BY <1>4, <1>5, <1>7, <2>1, <2>2, <2>3
       DEF Do, Allocates
  <2>5. Quiet' => GetRefsSeen'
    BY <1>2, <1>3, <1>4, <1>5, <1>7, <2>1, <2>2, QuietStep
       DEF Do, Ready, AllOk, Conforms, GetRefsInv, Allocates
  <2> QED
    BY <1>4, <2>4, <2>5 DEF GetRefsInv
<1>8. CASE pc = 3
  <2>1. Current = Do("recv_initial", "refs_recv", "service", {"alloc"})
    BY <1>1, <1>8 DEF Current, GetRefsSteps
  <2>2. Looked("recv_initial", "refs_recv", "service")
    BY <2>1, DoLook DEF Plain
  <2>3. GetRefsSeen' => GetRefsSeen /\ GetRefsHeld /\ Ready(Current)
    BY <1>3, <1>4, <1>8, <2>1
       DEF Do, Ready, AllOk, GetRefsInv
  <2>4. GetRefsSeen' => GetRefsHeld'
    BY <1>4, <1>5, <1>8, <2>1, <2>2, <2>3
       DEF Do, Looked, Truth, TypeOf, Exists
  <2>5. Quiet' => GetRefsSeen'
    BY <1>2, <1>3, <1>4, <1>5, <1>8, <2>1, <2>2, QuietStep
       DEF Do, Ready, AllOk, Conforms, GetRefsInv, Looked, Truth, TypeOf, Exists
  <2> QED
    BY <1>4, <2>4, <2>5 DEF GetRefsInv
<1>9. CASE pc = 4
  <2>1. Current = Do("before_make", "refs", "service", {"alloc"})
    BY <1>1, <1>9 DEF Current, GetRefsSteps
  <2>2. Looked("before_make", "refs", "service")
    BY <2>1, DoLook DEF Plain
  <2>3. GetRefsSeen' => GetRefsSeen /\ GetRefsHeld /\ Ready(Current)
    BY <1>3, <1>4, <1>9, <2>1
       DEF Do, Ready, AllOk, GetRefsInv
  <2>4. GetRefsSeen' => GetRefsHeld'
    BY <1>4, <1>5, <1>9, <2>1, <2>2, <2>3
       DEF Do, Looked, Truth, TypeOf, Exists
  <2>5. Quiet' => GetRefsSeen'
    BY <1>2, <1>3, <1>4, <1>5, <1>9, <2>1, <2>2, QuietStep
       DEF Do, Ready, AllOk, Conforms, GetRefsInv, Looked, Truth, TypeOf, Exists
  <2> QED
    BY <1>4, <2>4, <2>5 DEF GetRefsInv
<1>10. CASE pc = 5
  <2>1. Current = Do("insert", "insert", "service", {"alloc"})
    BY <1>1, <1>10 DEF Current, GetRefsSteps
  <2>2. Adds("insert", "insert", "service")
    BY <2>1, DoAdd DEF Plain
  <2>3. GetRefsSeen' => GetRefsSeen /\ GetRefsHeld /\ Ready(Current)
    BY <1>3, <1>4, <1>10, <2>1
       DEF Do, Ready, AllOk, GetRefsInv
  <2>4. GetRefsSeen' => GetRefsHeld'
    BY <1>4, <1>5, <1>10, <2>1, <2>2, <2>3
       DEF Do, Adds, Gone, Legal
  <2>5. Quiet' => GetRefsSeen'
    BY <1>2, <1>3, <1>4, <1>5, <1>10, <2>1, <2>2, QuietStep
       DEF Do, Ready, AllOk, Conforms, GetRefsInv, Adds, Gone, Legal
  <2> QED
    BY <1>4, <2>4, <2>5 DEF GetRefsInv
<1>11. CASE pc = 6
  <2>1. Current = Do("after_make", "refs", "service", {"insert"})
    BY <1>1, <1>11 DEF Current, GetRefsSteps
  <2>2. Looked("after_make", "refs", "service")
    BY <2>1, DoLook DEF Plain
  <2>3. GetRefsSeen' => GetRefsSeen /\ GetRefsHeld /\ Ready(Current)
    BY <1>3, <1>4, <1>11, <2>1
       DEF Do, Ready, AllOk, GetRefsInv
  <2>4. GetRefsSeen' => GetRefsHeld'
    BY <1>4, <1>5, <1>11, <2>1, <2>2, <2>3
       DEF Do, Looked, Truth, TypeOf, Exists
  <2>5. Quiet' => GetRefsSeen'
    BY <1>2, <1>3, <1>4, <1>5, <1>11, <2>1, <2>2, QuietStep
       DEF Do, Ready, AllOk, Conforms, GetRefsInv, Looked, Truth, TypeOf, Exists
  <2> QED
    BY <1>4, <2>4, <2>5 DEF GetRefsInv
<1>12. CASE pc = 7
  <2>1. Current = Do("plus", "mod_plus", "service", {"after_make"})
    BY <1>1, <1>12 DEF Current, GetRefsSteps
  <2>2. Adds("plus", "mod_plus", "service")
    BY <2>1, DoAdd DEF Plain
  <2>3. GetRefsSeen' => GetRefsSeen /\ GetRefsHeld /\ Ready(Current)
    BY <1>3, <1>4, <1>12, <2>1
       DEF Do, Ready, AllOk, GetRefsInv
  <2>4. GetRefsSeen' => GetRefsHeld'
    BY <1>4, <1>5, <1>12, <2>1, <2>2, <2>3
       DEF Do, Adds, Gone, Legal
  <2>5. Quiet' => GetRefsSeen'
    BY <1>2, <1>3, <1>4, <1>5, <1>12, <2>1, <2>2, QuietStep
       DEF Do, Ready, AllOk, Conforms, GetRefsInv, Adds, Gone, Legal
  <2> QED
    BY <1>4, <2>4, <2>5 DEF GetRefsInv
<1>13. CASE pc = 8
  <2>1. Current = Do("after_plus", "refs", "service", {"plus"})
    BY <1>1, <1>13 DEF Current, GetRefsSteps
  <2>2. Looked("after_plus", "refs", "service")
    BY <2>1, DoLook DEF Plain
  <2>3. GetRefsSeen' => GetRefsSeen /\ GetRefsHeld /\ Ready(Current)
    BY <1>3, <1>4, <1>13, <2>1
       DEF Do, Ready, AllOk, GetRefsInv
  <2>4. GetRefsSeen' => GetRefsHeld'
    BY <1>4, <1>5, <1>13, <2>1, <2>2, <2>3
       DEF Do, Looked, Truth, TypeOf, Exists
  <2>5. Quiet' => GetRefsSeen'
    BY <1>2, <1>3, <1>4, <1>5, <1>13, <2>1, <2>2, QuietStep
       DEF Do, Ready, AllOk, Conforms, GetRefsInv, Looked, Truth, TypeOf, Exists
  <2> QED
    BY <1>4, <2>4, <2>5 DEF GetRefsInv
<1>14. CASE pc = 9
  <2>1. Current = Do("dealloc", "dealloc", "service", {"after_plus"})
    BY <1>1, <1>14 DEF Current, GetRefsSteps
  <2>2. Drops("dealloc", "dealloc", "service")
    BY <2>1, DoDrop DEF Plain
  <2>3. GetRefsSeen' => GetRefsSeen /\ GetRefsHeld /\ Ready(Current)
    BY <1>3, <1>4, <1>14, <2>1
       DEF Do, Ready, AllOk, GetRefsInv
  <2>4. GetRefsSeen' => GetRefsHeld'
    BY <1>4, <1>5, <1>14, <2>1, <2>2, <2>3
       DEF Do, Drops, Gone, Less
  <2>5. Quiet' => GetRefsSeen'
    BY <1>2, <1>3, <1>4, <1>5, <1>14, <2>1, <2>2, QuietStep
       DEF Do, Ready, AllOk, Conforms, GetRefsInv, Drops, Gone, Less
  <2> QED
    BY <1>4, <2>4, <2>5 DEF GetRefsInv
<1>15. CASE pc = 10
  <2>1. Current = Do("after_dealloc", "refs", "service", {"dealloc"})
    BY <1>1, <1>15 DEF Current, GetRefsSteps
  <2>2. Looked("after_dealloc", "refs", "service")
    BY <2>1, DoLook DEF Plain
  <2>3. GetRefsSeen' => GetRefsSeen /\ GetRefsHeld /\ Ready(Current)
    BY <1>3, <1>4, <1>15, <2>1
       DEF Do, Ready, AllOk, GetRefsInv
  <2>4. GetRefsSeen' => GetRefsHeld'
    BY <1>4, <1>5, <1>15, <2>1, <2>2, <2>3
       DEF Do, Looked, Truth, TypeOf, Exists
  <2>5. Quiet' => GetRefsSeen'
    BY <1>2, <1>3, <1>4, <1>5, <1>15, <2>1, <2>2, QuietStep
       DEF Do, Ready, AllOk, Conforms, GetRefsInv, Looked, Truth, TypeOf, Exists
  <2> QED
    BY <1>4, <2>4, <2>5 DEF GetRefsInv
<1>16. CASE pc = 11
  <2>1. Current = Do("minus", "mod_minus", "service", {"after_dealloc"})
    BY <1>1, <1>16 DEF Current, GetRefsSteps
  <2>2. Drops("minus", "mod_minus", "service")
    BY <2>1, DoDrop DEF Plain
  <2>3. GetRefsSeen' => GetRefsSeen /\ GetRefsHeld /\ Ready(Current)
    BY <1>3, <1>4, <1>16, <2>1
       DEF Do, Ready, AllOk, GetRefsInv
  <2>4. GetRefsSeen' => GetRefsHeld'
    BY <1>4, <1>5, <1>16, <2>1, <2>2, <2>3
       DEF Do, Drops, Gone, Less
  <2>5. Quiet' => GetRefsSeen'
    BY <1>2, <1>3, <1>4, <1>5, <1>16, <2>1, <2>2, QuietStep
       DEF Do, Ready, AllOk, Conforms, GetRefsInv, Drops, Gone, Less
  <2> QED
    BY <1>4, <2>4, <2>5 DEF GetRefsInv
<1>17. CASE pc = 12
  <2>1. Current = Do("after_minus", "refs", "service", {"minus"})
    BY <1>1, <1>17 DEF Current, GetRefsSteps
  <2>2. Looked("after_minus", "refs", "service")
    BY <2>1, DoLook DEF Plain
  <2>3. GetRefsSeen' => GetRefsSeen /\ GetRefsHeld /\ Ready(Current)
    BY <1>3, <1>4, <1>17, <2>1
       DEF Do, Ready, AllOk, GetRefsInv
  <2>4. GetRefsSeen' => GetRefsHeld'
    BY <1>4, <1>5, <1>17, <2>1, <2>2, <2>3
       DEF Do, Looked, Truth, TypeOf, Exists
  <2>5. Quiet' => GetRefsSeen'
    BY <1>2, <1>3, <1>4, <1>5, <1>17, <2>1, <2>2, QuietStep
       DEF Do, Ready, AllOk, Conforms, GetRefsInv, Looked, Truth, TypeOf, Exists
  <2> QED
    BY <1>4, <2>4, <2>5 DEF GetRefsInv
<1>18. CASE pc = 13
  <2>1. Current = Do("recv_final", "refs_recv", "service", {"alloc"})
    BY <1>1, <1>18 DEF Current, GetRefsSteps
  <2>2. Looked("recv_final", "refs_recv", "service")
    BY <2>1, DoLook DEF Plain
  <2>3. GetRefsSeen' => GetRefsSeen /\ GetRefsHeld /\ Ready(Current)
    BY <1>3, <1>4, <1>18, <2>1
       DEF Do, Ready, AllOk, GetRefsInv
  <2>4. GetRefsSeen' => GetRefsHeld'
    BY <1>4, <1>5, <1>18, <2>1, <2>2, <2>3
       DEF Do, Looked, Truth, TypeOf, Exists
  <2>5. Quiet' => GetRefsSeen'
    BY <1>2, <1>3, <1>4, <1>5, <1>18, <2>1, <2>2, QuietStep
       DEF Do, Ready, AllOk, Conforms, GetRefsInv, Looked, Truth, TypeOf, Exists
  <2> QED
    BY <1>4, <2>4, <2>5 DEF GetRefsInv
<1>19. CASE pc = 14
  <2>1. Current = Do("destroy", "destroy", "service", {"alloc"})
    BY <1>1, <1>19 DEF Current, GetRefsSteps
  <2>2. Destroys("destroy", "service")
    BY <2>1, DoDestroy DEF Plain
  <2>3. GetRefsSeen' => GetRefsSeen /\ GetRefsHeld /\ Ready(Current)
    BY <1>3, <1>4, <1>19, <2>1
       DEF Do, Ready, AllOk, GetRefsInv
  <2>4. GetRefsSeen' => GetRefsHeld'
    BY <1>4, <1>5, <1>19, <2>1, <2>2, <2>3
       DEF Do, Destroys, Gone, Exists
  <2>5. Quiet' => GetRefsSeen'
    BY <1>2, <1>3, <1>4, <1>5, <1>19, <2>1, <2>2, QuietStep
       DEF Do, Ready, AllOk, Conforms, GetRefsInv, Destroys, Gone, Exists
  <2> QED
    BY <1>4, <2>4, <2>5 DEF GetRefsInv
<1>20. CASE pc = 15
  <2>1. Current = Do("after", "capture", "self", {})
    BY <1>1, <1>20 DEF Current, GetRefsSteps
  <2>2. Captured("after")
    BY <2>1, DoCapture DEF Plain
  <2>3. GetRefsSeen' => GetRefsSeen /\ GetRefsHeld /\ Ready(Current)
    BY <1>3, <1>4, <1>20, <2>1
       DEF Do, Ready, AllOk, GetRefsInv
  <2>4. GetRefsSeen' => GetRefsHeld'
    BY <1>4, <1>5, <1>20, <2>1, <2>2, <2>3
       DEF Do, Captured
  <2>5. Quiet' => GetRefsSeen'
    BY <1>2, <1>3, <1>4, <1>5, <1>20, <2>1, <2>2, QuietStep
       DEF Do, Ready, AllOk, Conforms, GetRefsInv, Captured
  <2> QED
    BY <1>4, <2>4, <2>5 DEF GetRefsInv
<1> QED
  BY <1>1, <1>6, <1>7, <1>8, <1>9, <1>10, <1>11, <1>12, <1>13, <1>14, <1>15, <1>16, <1>17,
     <1>18, <1>19, <1>20

\* A step of port_type keeps what it has seen and what the task holds together.
LEMMA TypeStep ==
  ASSUME Base, SnapsInv, TypeInv, Step, Running, probe = "port_type" PROVE TypeInv'
<1>1. Steps(probe) = TypeSteps /\ pc \in 1..11
  BY TypeListed, PlaceOf
<1>2. Moves /\ TypeOK
  BY StepCases DEF Base
<1>3. \A m \in {"before", "alloc", "type_receive", "insert", "type_both", "alloc_set",
                 "type_set", "type_self", "destroy", "destroy_set", "after"} :
        m # Current.as => obs'[m] = obs[m]
  BY <1>1, <1>2 DEF Moves, Labels, TypeSteps, Do
<1>4. probe' = probe /\ pc' = pc + 1 /\ dev' = dev /\ names' = names
  BY <1>2 DEF Moves
<1>5. own \in [Names -> Rights] /\ own[Current.on] \in Rights
  BY <1>2, CurrentKnown DEF TypeOK, Base
<1> USE DEF TypeSeen, TypeHeld, Follows, Ok, Lost, Taken, Unasked, Saw, Fine, Dev, Names,
        Nothing, Hold, Port, SetName, Shows, Allocated, Inserted, Destroyed, Rest
<1>6. CASE pc = 1
  <2>1. Current = Do("before", "capture", "self", {})
    BY <1>1, <1>6 DEF Current, TypeSteps
  <2>2. Captured("before")
    BY <2>1, DoCapture DEF Plain
  <2>3. TypeSeen' => TypeSeen /\ TypeHeld /\ Ready(Current)
    BY <1>3, <1>4, <1>6, <2>1
       DEF Do, Ready, AllOk, TypeInv
  <2>4. TypeSeen' => TypeHeld'
    BY <1>4, <1>5, <1>6, <2>1, <2>2, <2>3
       DEF Do, Captured
  <2>5. Quiet' => TypeSeen'
    BY <1>2, <1>3, <1>4, <1>5, <1>6, <2>1, <2>2, QuietStep
       DEF Do, Ready, AllOk, Conforms, TypeInv, Captured
  <2> QED
    BY <1>4, <2>4, <2>5 DEF TypeInv
<1>7. CASE pc = 2
  <2>1. Current = Do("alloc", "alloc", "service", {})
    BY <1>1, <1>7 DEF Current, TypeSteps
  <2>2. Allocates("alloc", "alloc", "service")
    BY <2>1, DoAlloc DEF Plain
  <2>3. TypeSeen' => TypeSeen /\ TypeHeld /\ Ready(Current)
    BY <1>3, <1>4, <1>7, <2>1
       DEF Do, Ready, AllOk, TypeInv
  <2>4. TypeSeen' => TypeHeld'
    BY <1>4, <1>5, <1>7, <2>1, <2>2, <2>3
       DEF Do, Allocates
  <2>5. Quiet' => TypeSeen'
    BY <1>2, <1>3, <1>4, <1>5, <1>7, <2>1, <2>2, QuietStep
       DEF Do, Ready, AllOk, Conforms, TypeInv, Allocates
  <2> QED
    BY <1>4, <2>4, <2>5 DEF TypeInv
<1>8. CASE pc = 3
  <2>1. Current = Do("type_receive", "type", "service", {"alloc"})
    BY <1>1, <1>8 DEF Current, TypeSteps
  <2>2. Looked("type_receive", "type", "service")
    BY <2>1, DoLook DEF Plain
  <2>3. TypeSeen' => TypeSeen /\ TypeHeld /\ Ready(Current)
    BY <1>3, <1>4, <1>8, <2>1
       DEF Do, Ready, AllOk, TypeInv
  <2>4. TypeSeen' => TypeHeld'
    BY <1>4, <1>5, <1>8, <2>1, <2>2, <2>3
       DEF Do, Looked, Truth, TypeOf, Exists
  <2>5. Quiet' => TypeSeen'
    BY <1>2, <1>3, <1>4, <1>5, <1>8, <2>1, <2>2, QuietStep
       DEF Do, Ready, AllOk, Conforms, TypeInv, Looked, Truth, TypeOf, Exists
  <2> QED
    BY <1>4, <2>4, <2>5 DEF TypeInv
<1>9. CASE pc = 4
  <2>1. Current = Do("insert", "insert", "service", {"alloc"})
    BY <1>1, <1>9 DEF Current, TypeSteps
  <2>2. Adds("insert", "insert", "service")
    BY <2>1, DoAdd DEF Plain
  <2>3. TypeSeen' => TypeSeen /\ TypeHeld /\ Ready(Current)
    BY <1>3, <1>4, <1>9, <2>1
       DEF Do, Ready, AllOk, TypeInv
  <2>4. TypeSeen' => TypeHeld'
    BY <1>4, <1>5, <1>9, <2>1, <2>2, <2>3
       DEF Do, Adds, Gone, Legal
  <2>5. Quiet' => TypeSeen'
    BY <1>2, <1>3, <1>4, <1>5, <1>9, <2>1, <2>2, QuietStep
       DEF Do, Ready, AllOk, Conforms, TypeInv, Adds, Gone, Legal
  <2> QED
    BY <1>4, <2>4, <2>5 DEF TypeInv
<1>10. CASE pc = 5
  <2>1. Current = Do("type_both", "type", "service", {"insert"})
    BY <1>1, <1>10 DEF Current, TypeSteps
  <2>2. Looked("type_both", "type", "service")
    BY <2>1, DoLook DEF Plain
  <2>3. TypeSeen' => TypeSeen /\ TypeHeld /\ Ready(Current)
    BY <1>3, <1>4, <1>10, <2>1
       DEF Do, Ready, AllOk, TypeInv
  <2>4. TypeSeen' => TypeHeld'
    BY <1>4, <1>5, <1>10, <2>1, <2>2, <2>3
       DEF Do, Looked, Truth, TypeOf, Exists
  <2>5. Quiet' => TypeSeen'
    BY <1>2, <1>3, <1>4, <1>5, <1>10, <2>1, <2>2, QuietStep
       DEF Do, Ready, AllOk, Conforms, TypeInv, Looked, Truth, TypeOf, Exists
  <2> QED
    BY <1>4, <2>4, <2>5 DEF TypeInv
<1>11. CASE pc = 6
  <2>1. Current = Do("alloc_set", "alloc_set", "set", {})
    BY <1>1, <1>11 DEF Current, TypeSteps
  <2>2. Allocates("alloc_set", "alloc_set", "set")
    BY <2>1, DoAlloc DEF Plain
  <2>3. TypeSeen' => TypeSeen /\ TypeHeld /\ Ready(Current)
    BY <1>3, <1>4, <1>11, <2>1
       DEF Do, Ready, AllOk, TypeInv
  <2>4. TypeSeen' => TypeHeld'
    BY <1>4, <1>5, <1>11, <2>1, <2>2, <2>3
       DEF Do, Allocates
  <2>5. Quiet' => TypeSeen'
    BY <1>2, <1>3, <1>4, <1>5, <1>11, <2>1, <2>2, QuietStep
       DEF Do, Ready, AllOk, Conforms, TypeInv, Allocates
  <2> QED
    BY <1>4, <2>4, <2>5 DEF TypeInv
<1>12. CASE pc = 7
  <2>1. Current = Do("type_set", "type", "set", {"alloc_set"})
    BY <1>1, <1>12 DEF Current, TypeSteps
  <2>2. Looked("type_set", "type", "set")
    BY <2>1, DoLook DEF Plain
  <2>3. TypeSeen' => TypeSeen /\ TypeHeld /\ Ready(Current)
    BY <1>3, <1>4, <1>12, <2>1
       DEF Do, Ready, AllOk, TypeInv
  <2>4. TypeSeen' => TypeHeld'
    BY <1>4, <1>5, <1>12, <2>1, <2>2, <2>3
       DEF Do, Looked, Truth, TypeOf, Exists
  <2>5. Quiet' => TypeSeen'
    BY <1>2, <1>3, <1>4, <1>5, <1>12, <2>1, <2>2, QuietStep
       DEF Do, Ready, AllOk, Conforms, TypeInv, Looked, Truth, TypeOf, Exists
  <2> QED
    BY <1>4, <2>4, <2>5 DEF TypeInv
<1>13. CASE pc = 8
  <2>1. Current = Do("type_self", "ask", "self", {})
    BY <1>1, <1>13 DEF Current, TypeSteps
  <2>2. Asked("type_self")
    BY <2>1, DoAsk DEF Plain
  <2>3. TypeSeen' => TypeSeen /\ TypeHeld /\ Ready(Current)
    BY <1>3, <1>4, <1>13, <2>1
       DEF Do, Ready, AllOk, TypeInv
  <2>4. TypeSeen' => TypeHeld'
    BY <1>4, <1>5, <1>13, <2>1, <2>2, <2>3
       DEF Do, Asked
  <2>5. Quiet' => TypeSeen'
    BY <1>2, <1>3, <1>4, <1>5, <1>13, <2>1, <2>2, QuietStep
       DEF Do, Ready, AllOk, Conforms, TypeInv, Asked
  <2> QED
    BY <1>4, <2>4, <2>5 DEF TypeInv
<1>14. CASE pc = 9
  <2>1. Current = Do("destroy", "destroy", "service", {"alloc"})
    BY <1>1, <1>14 DEF Current, TypeSteps
  <2>2. Destroys("destroy", "service")
    BY <2>1, DoDestroy DEF Plain
  <2>3. TypeSeen' => TypeSeen /\ TypeHeld /\ Ready(Current)
    BY <1>3, <1>4, <1>14, <2>1
       DEF Do, Ready, AllOk, TypeInv
  <2>4. TypeSeen' => TypeHeld'
    BY <1>4, <1>5, <1>14, <2>1, <2>2, <2>3
       DEF Do, Destroys, Gone, Exists
  <2>5. Quiet' => TypeSeen'
    BY <1>2, <1>3, <1>4, <1>5, <1>14, <2>1, <2>2, QuietStep
       DEF Do, Ready, AllOk, Conforms, TypeInv, Destroys, Gone, Exists
  <2> QED
    BY <1>4, <2>4, <2>5 DEF TypeInv
<1>15. CASE pc = 10
  <2>1. Current = Do("destroy_set", "destroy", "set", {"alloc_set"})
    BY <1>1, <1>15 DEF Current, TypeSteps
  <2>2. Destroys("destroy_set", "set")
    BY <2>1, DoDestroy DEF Plain
  <2>3. TypeSeen' => TypeSeen /\ TypeHeld /\ Ready(Current)
    BY <1>3, <1>4, <1>15, <2>1
       DEF Do, Ready, AllOk, TypeInv
  <2>4. TypeSeen' => TypeHeld'
    BY <1>4, <1>5, <1>15, <2>1, <2>2, <2>3
       DEF Do, Destroys, Gone, Exists
  <2>5. Quiet' => TypeSeen'
    BY <1>2, <1>3, <1>4, <1>5, <1>15, <2>1, <2>2, QuietStep
       DEF Do, Ready, AllOk, Conforms, TypeInv, Destroys, Gone, Exists
  <2> QED
    BY <1>4, <2>4, <2>5 DEF TypeInv
<1>16. CASE pc = 11
  <2>1. Current = Do("after", "capture", "self", {})
    BY <1>1, <1>16 DEF Current, TypeSteps
  <2>2. Captured("after")
    BY <2>1, DoCapture DEF Plain
  <2>3. TypeSeen' => TypeSeen /\ TypeHeld /\ Ready(Current)
    BY <1>3, <1>4, <1>16, <2>1
       DEF Do, Ready, AllOk, TypeInv
  <2>4. TypeSeen' => TypeHeld'
    BY <1>4, <1>5, <1>16, <2>1, <2>2, <2>3
       DEF Do, Captured
  <2>5. Quiet' => TypeSeen'
    BY <1>2, <1>3, <1>4, <1>5, <1>16, <2>1, <2>2, QuietStep
       DEF Do, Ready, AllOk, Conforms, TypeInv, Captured
  <2> QED
    BY <1>4, <2>4, <2>5 DEF TypeInv
<1> QED
  BY <1>1, <1>6, <1>7, <1>8, <1>9, <1>10, <1>11, <1>12, <1>13, <1>14, <1>15, <1>16

\* A step of port_set keeps what it has seen and what the task holds together.
LEMMA PortSetStep ==
  ASSUME Base, SnapsInv, PortSetInv, Step, Running, probe = "port_set" PROVE PortSetInv'
<1>1. Steps(probe) = PortSetSteps /\ pc \in 1..12
  BY PortSetListed, PlaceOf
<1>2. Moves /\ TypeOK
  BY StepCases DEF Base
<1>3. \A m \in {"before", "alloc_set", "alloc", "type_set", "insert", "move", "send", "receive",
                 "unmove", "destroy", "destroy_set", "after"} :
        m # Current.as => obs'[m] = obs[m]
  BY <1>1, <1>2 DEF Moves, Labels, PortSetSteps, Do
<1>4. probe' = probe /\ pc' = pc + 1 /\ dev' = dev /\ names' = names
  BY <1>2 DEF Moves
<1>5. own \in [Names -> Rights] /\ own[Current.on] \in Rights
  BY <1>2, CurrentKnown DEF TypeOK, Base
<1> USE DEF PortSetSeen, PortSetHeld, Follows, Ok, Lost, Taken, Unasked, Saw, Fine, Dev, Names,
        Nothing, Hold, Port, SetName, Shows, Allocated, Inserted, Destroyed, Member, Rest
<1>6. CASE pc = 1
  <2>1. Current = Do("before", "capture", "self", {})
    BY <1>1, <1>6 DEF Current, PortSetSteps
  <2>2. Captured("before")
    BY <2>1, DoCapture DEF Plain
  <2>3. PortSetSeen' => PortSetSeen /\ PortSetHeld /\ Ready(Current)
    BY <1>3, <1>4, <1>6, <2>1
       DEF Do, Ready, AllOk, PortSetInv
  <2>4. PortSetSeen' => PortSetHeld'
    BY <1>4, <1>5, <1>6, <2>1, <2>2, <2>3
       DEF Do, Captured
  <2>5. Quiet' => PortSetSeen'
    BY <1>2, <1>3, <1>4, <1>5, <1>6, <2>1, <2>2, QuietStep
       DEF Do, Ready, AllOk, Conforms, PortSetInv, Captured
  <2> QED
    BY <1>4, <2>4, <2>5 DEF PortSetInv
<1>7. CASE pc = 2
  <2>1. Current = Do("alloc_set", "alloc_set", "set", {})
    BY <1>1, <1>7 DEF Current, PortSetSteps
  <2>2. Allocates("alloc_set", "alloc_set", "set")
    BY <2>1, DoAlloc DEF Plain
  <2>3. PortSetSeen' => PortSetSeen /\ PortSetHeld /\ Ready(Current)
    BY <1>3, <1>4, <1>7, <2>1
       DEF Do, Ready, AllOk, PortSetInv
  <2>4. PortSetSeen' => PortSetHeld'
    BY <1>4, <1>5, <1>7, <2>1, <2>2, <2>3
       DEF Do, Allocates
  <2>5. Quiet' => PortSetSeen'
    BY <1>2, <1>3, <1>4, <1>5, <1>7, <2>1, <2>2, QuietStep
       DEF Do, Ready, AllOk, Conforms, PortSetInv, Allocates
  <2> QED
    BY <1>4, <2>4, <2>5 DEF PortSetInv
<1>8. CASE pc = 3
  <2>1. Current = Do("alloc", "alloc", "service", {})
    BY <1>1, <1>8 DEF Current, PortSetSteps
  <2>2. Allocates("alloc", "alloc", "service")
    BY <2>1, DoAlloc DEF Plain
  <2>3. PortSetSeen' => PortSetSeen /\ PortSetHeld /\ Ready(Current)
    BY <1>3, <1>4, <1>8, <2>1
       DEF Do, Ready, AllOk, PortSetInv
  <2>4. PortSetSeen' => PortSetHeld'
    BY <1>4, <1>5, <1>8, <2>1, <2>2, <2>3
       DEF Do, Allocates
  <2>5. Quiet' => PortSetSeen'
    BY <1>2, <1>3, <1>4, <1>5, <1>8, <2>1, <2>2, QuietStep
       DEF Do, Ready, AllOk, Conforms, PortSetInv, Allocates
  <2> QED
    BY <1>4, <2>4, <2>5 DEF PortSetInv
<1>9. CASE pc = 4
  <2>1. Current = Do("type_set", "type", "set", {"alloc_set"})
    BY <1>1, <1>9 DEF Current, PortSetSteps
  <2>2. Looked("type_set", "type", "set")
    BY <2>1, DoLook DEF Plain
  <2>3. PortSetSeen' => PortSetSeen /\ PortSetHeld /\ Ready(Current)
    BY <1>3, <1>4, <1>9, <2>1
       DEF Do, Ready, AllOk, PortSetInv
  <2>4. PortSetSeen' => PortSetHeld'
    BY <1>4, <1>5, <1>9, <2>1, <2>2, <2>3
       DEF Do, Looked, Truth, TypeOf, Exists
  <2>5. Quiet' => PortSetSeen'
    BY <1>2, <1>3, <1>4, <1>5, <1>9, <2>1, <2>2, QuietStep
       DEF Do, Ready, AllOk, Conforms, PortSetInv, Looked, Truth, TypeOf, Exists
  <2> QED
    BY <1>4, <2>4, <2>5 DEF PortSetInv
<1>10. CASE pc = 5
  <2>1. Current = Do("insert", "insert", "service", {"alloc_set", "alloc"})
    BY <1>1, <1>10 DEF Current, PortSetSteps
  <2>2. Adds("insert", "insert", "service")
    BY <2>1, DoAdd DEF Plain
  <2>3. PortSetSeen' => PortSetSeen /\ PortSetHeld /\ Ready(Current)
    BY <1>3, <1>4, <1>10, <2>1
       DEF Do, Ready, AllOk, PortSetInv
  <2>4. PortSetSeen' => PortSetHeld'
    BY <1>4, <1>5, <1>10, <2>1, <2>2, <2>3
       DEF Do, Adds, Gone, Legal
  <2>5. Quiet' => PortSetSeen'
    BY <1>2, <1>3, <1>4, <1>5, <1>10, <2>1, <2>2, QuietStep
       DEF Do, Ready, AllOk, Conforms, PortSetInv, Adds, Gone, Legal
  <2> QED
    BY <1>4, <2>4, <2>5 DEF PortSetInv
<1>11. CASE pc = 6
  <2>1. Current = Do("move", "move_in", "service", {"insert"})
    BY <1>1, <1>11 DEF Current, PortSetSteps
  <2>2. MovesMember("move", "move_in", "service")
    BY <2>1, DoMove DEF Plain
  <2>3. PortSetSeen' => PortSetSeen /\ PortSetHeld /\ Ready(Current)
    BY <1>3, <1>4, <1>11, <2>1
       DEF Do, Ready, AllOk, PortSetInv
  <2>4. PortSetSeen' => PortSetHeld'
    BY <1>4, <1>5, <1>11, <2>1, <2>2, <2>3
       DEF Do, MovesMember, Gone, Legal
  <2>5. Quiet' => PortSetSeen'
    BY <1>2, <1>3, <1>4, <1>5, <1>11, <2>1, <2>2, QuietStep
       DEF Do, Ready, AllOk, Conforms, PortSetInv, MovesMember, Gone, Legal
  <2> QED
    BY <1>4, <2>4, <2>5 DEF PortSetInv
<1>12. CASE pc = 7
  <2>1. Current = Do("send", "send_copy", "service", {"move"})
    BY <1>1, <1>12 DEF Current, PortSetSteps
  <2>2. SendsHeader("send", "send_copy", "service")
    BY <2>1, DoSendHeader DEF Plain
  <2>3. PortSetSeen' => PortSetSeen /\ PortSetHeld /\ Ready(Current)
    BY <1>3, <1>4, <1>12, <2>1
       DEF Do, Ready, AllOk, PortSetInv
  <2>4. PortSetSeen' => PortSetHeld'
    BY <1>4, <1>5, <1>12, <2>1, <2>2, <2>3
       DEF Do, SendsHeader, Sends, Less
  <2>5. Quiet' => PortSetSeen'
    BY <1>2, <1>3, <1>4, <1>5, <1>12, <2>1, <2>2, QuietStep
       DEF Do, Ready, AllOk, Conforms, PortSetInv, SendsHeader, Sends, Less
  <2> QED
    BY <1>4, <2>4, <2>5 DEF PortSetInv
<1>13. CASE pc = 8
  <2>1. Current = Do("receive", "receive", "set", {"send"})
    BY <1>1, <1>13 DEF Current, PortSetSteps
  <2>2. ReceivesSet("receive")
    BY <2>1, DoReceiveSet DEF Plain
  <2>3. PortSetSeen' => PortSetSeen /\ PortSetHeld /\ Ready(Current)
    BY <1>3, <1>4, <1>13, <2>1
       DEF Do, Ready, AllOk, PortSetInv
  <2>4. PortSetSeen' => PortSetHeld'
    BY <1>4, <1>5, <1>13, <2>1, <2>2, <2>3
       DEF Do, ReceivesSet, Nobody, Message, Emptied
  <2>5. Quiet' => PortSetSeen'
    BY <1>2, <1>3, <1>4, <1>5, <1>13, <2>1, <2>2, QuietStep
       DEF Do, Ready, AllOk, Conforms, PortSetInv, ReceivesSet, Nobody, Message, Emptied
  <2> QED
    BY <1>4, <2>4, <2>5 DEF PortSetInv
<1>14. CASE pc = 9
  <2>1. Current = Do("unmove", "move_out", "service", {"move"})
    BY <1>1, <1>14 DEF Current, PortSetSteps
  <2>2. MovesMember("unmove", "move_out", "service")
    BY <2>1, DoMove DEF Plain
  <2>3. PortSetSeen' => PortSetSeen /\ PortSetHeld /\ Ready(Current)
    BY <1>3, <1>4, <1>14, <2>1
       DEF Do, Ready, AllOk, PortSetInv
  <2>4. PortSetSeen' => PortSetHeld'
    BY <1>4, <1>5, <1>14, <2>1, <2>2, <2>3
       DEF Do, MovesMember, Gone, Legal
  <2>5. Quiet' => PortSetSeen'
    BY <1>2, <1>3, <1>4, <1>5, <1>14, <2>1, <2>2, QuietStep
       DEF Do, Ready, AllOk, Conforms, PortSetInv, MovesMember, Gone, Legal
  <2> QED
    BY <1>4, <2>4, <2>5 DEF PortSetInv
<1>15. CASE pc = 10
  <2>1. Current = Do("destroy", "destroy", "service", {"alloc"})
    BY <1>1, <1>15 DEF Current, PortSetSteps
  <2>2. Destroys("destroy", "service")
    BY <2>1, DoDestroy DEF Plain
  <2>3. PortSetSeen' => PortSetSeen /\ PortSetHeld /\ Ready(Current)
    BY <1>3, <1>4, <1>15, <2>1
       DEF Do, Ready, AllOk, PortSetInv
  <2>4. PortSetSeen' => PortSetHeld'
    BY <1>4, <1>5, <1>15, <2>1, <2>2, <2>3
       DEF Do, Destroys, Gone, Exists
  <2>5. Quiet' => PortSetSeen'
    BY <1>2, <1>3, <1>4, <1>5, <1>15, <2>1, <2>2, QuietStep
       DEF Do, Ready, AllOk, Conforms, PortSetInv, Destroys, Gone, Exists
  <2> QED
    BY <1>4, <2>4, <2>5 DEF PortSetInv
<1>16. CASE pc = 11
  <2>1. Current = Do("destroy_set", "destroy", "set", {"alloc_set"})
    BY <1>1, <1>16 DEF Current, PortSetSteps
  <2>2. Destroys("destroy_set", "set")
    BY <2>1, DoDestroy DEF Plain
  <2>3. PortSetSeen' => PortSetSeen /\ PortSetHeld /\ Ready(Current)
    BY <1>3, <1>4, <1>16, <2>1
       DEF Do, Ready, AllOk, PortSetInv
  <2>4. PortSetSeen' => PortSetHeld'
    BY <1>4, <1>5, <1>16, <2>1, <2>2, <2>3
       DEF Do, Destroys, Gone, Exists
  <2>5. Quiet' => PortSetSeen'
    BY <1>2, <1>3, <1>4, <1>5, <1>16, <2>1, <2>2, QuietStep
       DEF Do, Ready, AllOk, Conforms, PortSetInv, Destroys, Gone, Exists
  <2> QED
    BY <1>4, <2>4, <2>5 DEF PortSetInv
<1>17. CASE pc = 12
  <2>1. Current = Do("after", "capture", "self", {})
    BY <1>1, <1>17 DEF Current, PortSetSteps
  <2>2. Captured("after")
    BY <2>1, DoCapture DEF Plain
  <2>3. PortSetSeen' => PortSetSeen /\ PortSetHeld /\ Ready(Current)
    BY <1>3, <1>4, <1>17, <2>1
       DEF Do, Ready, AllOk, PortSetInv
  <2>4. PortSetSeen' => PortSetHeld'
    BY <1>4, <1>5, <1>17, <2>1, <2>2, <2>3
       DEF Do, Captured
  <2>5. Quiet' => PortSetSeen'
    BY <1>2, <1>3, <1>4, <1>5, <1>17, <2>1, <2>2, QuietStep
       DEF Do, Ready, AllOk, Conforms, PortSetInv, Captured
  <2> QED
    BY <1>4, <2>4, <2>5 DEF PortSetInv
<1> QED
  BY <1>1, <1>6, <1>7, <1>8, <1>9, <1>10, <1>11, <1>12, <1>13, <1>14, <1>15, <1>16, <1>17

\* A step of port_names keeps what it has seen and what the task holds together.
LEMMA PortNamesStep ==
  ASSUME Base, SnapsInv, PortNamesInv, Step, Running, probe = "port_names" PROVE PortNamesInv'
<1>1. Steps(probe) = PortNamesSteps /\ pc \in 1..5
  BY PortNamesListed, PlaceOf
<1>2. Moves /\ TypeOK
  BY StepCases DEF Base
<1>3. \A m \in {"before", "alloc", "during", "destroy", "after"} :
        m # Current.as => obs'[m] = obs[m]
  BY <1>1, <1>2 DEF Moves, Labels, PortNamesSteps, Do
<1>4. probe' = probe /\ pc' = pc + 1 /\ dev' = dev /\ names' = names
  BY <1>2 DEF Moves
<1>5. own \in [Names -> Rights] /\ own[Current.on] \in Rights
  BY <1>2, CurrentKnown DEF TypeOK, Base
<1> USE DEF PortNamesSeen, PortNamesHeld, Follows, Ok, Lost, Taken, Unasked, Saw, Fine, Dev,
        Names, Nothing, Hold, Port, Allocated, Destroyed, Rest
<1>6. CASE pc = 1
  <2>1. Current = Do("before", "capture", "self", {})
    BY <1>1, <1>6 DEF Current, PortNamesSteps
  <2>2. Captured("before")
    BY <2>1, DoCapture DEF Plain
  <2>3. PortNamesSeen' => PortNamesSeen /\ PortNamesHeld /\ Ready(Current)
    BY <1>3, <1>4, <1>6, <2>1
       DEF Do, Ready, AllOk, PortNamesInv
  <2>4. PortNamesSeen' => PortNamesHeld'
    BY <1>4, <1>5, <1>6, <2>1, <2>2, <2>3
       DEF Do, Captured
  <2>5. Quiet' /\ names = "ok" => PortNamesSeen'
    BY <1>2, <1>3, <1>4, <1>5, <1>6, <2>1, <2>2, QuietStep
       DEF Do, Ready, AllOk, Conforms, PortNamesInv, Captured
  <2> QED
    BY <1>4, <2>4, <2>5 DEF PortNamesInv
<1>7. CASE pc = 2
  <2>1. Current = Do("alloc", "alloc", "service", {})
    BY <1>1, <1>7 DEF Current, PortNamesSteps
  <2>2. Allocates("alloc", "alloc", "service")
    BY <2>1, DoAlloc DEF Plain
  <2>3. PortNamesSeen' => PortNamesSeen /\ PortNamesHeld /\ Ready(Current)
    BY <1>3, <1>4, <1>7, <2>1
       DEF Do, Ready, AllOk, PortNamesInv
  <2>4. PortNamesSeen' => PortNamesHeld'
    BY <1>4, <1>5, <1>7, <2>1, <2>2, <2>3
       DEF Do, Allocates
  <2>5. Quiet' /\ names = "ok" => PortNamesSeen'
    BY <1>2, <1>3, <1>4, <1>5, <1>7, <2>1, <2>2, QuietStep
       DEF Do, Ready, AllOk, Conforms, PortNamesInv, Allocates
  <2> QED
    BY <1>4, <2>4, <2>5 DEF PortNamesInv
<1>8. CASE pc = 3
  <2>1. Current = Do("during", "capture_during", "self", {})
    BY <1>1, <1>8 DEF Current, PortNamesSteps
  <2>2. Captured("during")
    BY <2>1, DoCapture DEF Plain
  <2>6. /\ PortNamesHeld /\ ProbeSeen' /\ OneMore' =>
             ~Dev("alloc", "skip") /\ ~Dev("during", "lie") /\ ~Dev("during", "skip")
        /\ PortNamesHeld /\ Quiet' /\ names = "ok" => ProbeSeen' /\ OneMore'
    BY <1>8, DuringShows
  <2>3. PortNamesSeen' => PortNamesSeen /\ PortNamesHeld /\ Ready(Current)
    BY <1>3, <1>4, <1>8, <2>1
       DEF Do, Ready, AllOk, PortNamesInv
  <2>4. PortNamesSeen' => PortNamesHeld'
    BY <1>4, <1>5, <1>8, <2>1, <2>2, <2>3, <2>6
       DEF Do, Captured
  <2>5. Quiet' /\ names = "ok" => PortNamesSeen'
    BY <1>2, <1>3, <1>4, <1>5, <1>8, <2>1, <2>6, <2>2, QuietStep
       DEF Do, Ready, AllOk, Conforms, PortNamesInv, Captured
  <2> QED
    BY <1>4, <2>4, <2>5 DEF PortNamesInv
<1>9. CASE pc = 4
  <2>1. Current = Do("destroy", "destroy", "service", {"alloc"})
    BY <1>1, <1>9 DEF Current, PortNamesSteps
  <2>2. Destroys("destroy", "service")
    BY <2>1, DoDestroy DEF Plain
  <2>6. (ProbeSeen' <=> ProbeSeen) /\ (OneMore' <=> OneMore)
    BY <1>3, <2>1 DEF Do, ProbeSeen, OneMore
  <2>3. PortNamesSeen' => PortNamesSeen /\ PortNamesHeld /\ Ready(Current)
    BY <1>3, <1>4, <1>9, <2>1, <2>6
       DEF Do, Ready, AllOk, PortNamesInv
  <2>4. PortNamesSeen' => PortNamesHeld'
    BY <1>4, <1>5, <1>9, <2>1, <2>2, <2>3
       DEF Do, Destroys, Gone, Exists
  <2>5. Quiet' /\ names = "ok" => PortNamesSeen'
    BY <1>2, <1>3, <1>4, <1>5, <1>9, <2>1, <2>6, <2>2, QuietStep
       DEF Do, Ready, AllOk, Conforms, PortNamesInv, Destroys, Gone, Exists
  <2> QED
    BY <1>4, <2>4, <2>5 DEF PortNamesInv
<1>10. CASE pc = 5
  <2>1. Current = Do("after", "capture", "self", {})
    BY <1>1, <1>10 DEF Current, PortNamesSteps
  <2>2. Captured("after")
    BY <2>1, DoCapture DEF Plain
  <2>6. (ProbeSeen' <=> ProbeSeen) /\ (OneMore' <=> OneMore)
    BY <1>3, <2>1 DEF Do, ProbeSeen, OneMore
  <2>3. PortNamesSeen' => PortNamesSeen /\ PortNamesHeld /\ Ready(Current)
    BY <1>3, <1>4, <1>10, <2>1, <2>6
       DEF Do, Ready, AllOk, PortNamesInv
  <2>4. PortNamesSeen' => PortNamesHeld'
    BY <1>4, <1>5, <1>10, <2>1, <2>2, <2>3
       DEF Do, Captured
  <2>5. Quiet' /\ names = "ok" => PortNamesSeen'
    BY <1>2, <1>3, <1>4, <1>5, <1>10, <2>1, <2>6, <2>2, QuietStep
       DEF Do, Ready, AllOk, Conforms, PortNamesInv, Captured
  <2> QED
    BY <1>4, <2>4, <2>5 DEF PortNamesInv
<1> QED
  BY <1>1, <1>6, <1>7, <1>8, <1>9, <1>10

\* A step of port_get_attributes keeps what it has seen and what the task holds together.
LEMMA GetAttributesStep ==
  ASSUME Base, SnapsInv, GetAttributesInv, Step, Running, probe = "port_get_attributes"
  PROVE  GetAttributesInv'
<1>1. Steps(probe) = GetAttributesSteps /\ pc \in 1..7
  BY GetAttributesListed, PlaceOf
<1>2. Moves /\ TypeOK
  BY StepCases DEF Base
<1>3. \A m \in {"before", "alloc", "attrs", "bad_flavor", "bad_name", "destroy", "after"} :
        m # Current.as => obs'[m] = obs[m]
  BY <1>1, <1>2 DEF Moves, Labels, GetAttributesSteps, Do
<1>4. probe' = probe /\ pc' = pc + 1 /\ dev' = dev /\ names' = names
  BY <1>2 DEF Moves
<1>5. own \in [Names -> Rights] /\ own[Current.on] \in Rights
  BY <1>2, CurrentKnown DEF TypeOK, Base
<1> USE DEF GetAttributesSeen, GetAttributesHeld, Follows, Ok, Lost, Taken, Unasked, Saw, Fine,
        Dev, Names, Nothing, Hold, Port, Counted, Allocated, Destroyed, Rest
<1>6. CASE pc = 1
  <2>1. Current = Do("before", "capture", "self", {})
    BY <1>1, <1>6 DEF Current, GetAttributesSteps
  <2>2. Captured("before")
    BY <2>1, DoCapture DEF Plain
  <2>3. GetAttributesSeen' => GetAttributesSeen /\ GetAttributesHeld /\ Ready(Current)
    BY <1>3, <1>4, <1>6, <2>1
       DEF Do, Ready, AllOk, GetAttributesInv
  <2>4. GetAttributesSeen' => GetAttributesHeld'
    BY <1>4, <1>5, <1>6, <2>1, <2>2, <2>3
       DEF Do, Captured
  <2>5. Quiet' => GetAttributesSeen'
    BY <1>2, <1>3, <1>4, <1>5, <1>6, <2>1, <2>2, QuietStep
       DEF Do, Ready, AllOk, Conforms, GetAttributesInv, Captured
  <2> QED
    BY <1>4, <2>4, <2>5 DEF GetAttributesInv
<1>7. CASE pc = 2
  <2>1. Current = Do("alloc", "alloc", "service", {})
    BY <1>1, <1>7 DEF Current, GetAttributesSteps
  <2>2. Allocates("alloc", "alloc", "service")
    BY <2>1, DoAlloc DEF Plain
  <2>3. GetAttributesSeen' => GetAttributesSeen /\ GetAttributesHeld /\ Ready(Current)
    BY <1>3, <1>4, <1>7, <2>1
       DEF Do, Ready, AllOk, GetAttributesInv
  <2>4. GetAttributesSeen' => GetAttributesHeld'
    BY <1>4, <1>5, <1>7, <2>1, <2>2, <2>3
       DEF Do, Allocates
  <2>5. Quiet' => GetAttributesSeen'
    BY <1>2, <1>3, <1>4, <1>5, <1>7, <2>1, <2>2, QuietStep
       DEF Do, Ready, AllOk, Conforms, GetAttributesInv, Allocates
  <2> QED
    BY <1>4, <2>4, <2>5 DEF GetAttributesInv
<1>8. CASE pc = 3
  <2>1. Current = Do("attrs", "status", "service", {"alloc"})
    BY <1>1, <1>8 DEF Current, GetAttributesSteps
  <2>2. Stated("attrs", "service")
    BY <2>1, DoStatus DEF Plain
  <2>3. GetAttributesSeen' => GetAttributesSeen /\ GetAttributesHeld /\ Ready(Current)
    BY <1>3, <1>4, <1>8, <2>1
       DEF Do, Ready, AllOk, GetAttributesInv
  <2>4. GetAttributesSeen' => GetAttributesHeld'
    BY <1>4, <1>5, <1>8, <2>1, <2>2, <2>3
       DEF Do, Stated, Gone
  <2>5. Quiet' => GetAttributesSeen'
    BY <1>2, <1>3, <1>4, <1>5, <1>8, <2>1, <2>2, QuietStep
       DEF Do, Ready, AllOk, Conforms, GetAttributesInv, Stated, Gone
  <2> QED
    BY <1>4, <2>4, <2>5 DEF GetAttributesInv
<1>9. CASE pc = 4
  <2>1. Current = Do("bad_flavor", "refuse", "service", {"alloc"})
    BY <1>1, <1>9 DEF Current, GetAttributesSteps
  <2>2. Refused("bad_flavor")
    BY <2>1, DoRefuse DEF Plain
  <2>3. GetAttributesSeen' => GetAttributesSeen /\ GetAttributesHeld /\ Ready(Current)
    BY <1>3, <1>4, <1>9, <2>1
       DEF Do, Ready, AllOk, GetAttributesInv
  <2>4. GetAttributesSeen' => GetAttributesHeld'
    BY <1>4, <1>5, <1>9, <2>1, <2>2, <2>3
       DEF Do, Refused, Gone, Certain
  <2>5. Quiet' => GetAttributesSeen'
    BY <1>2, <1>3, <1>4, <1>5, <1>9, <2>1, <2>2, QuietStep
       DEF Do, Ready, AllOk, Conforms, GetAttributesInv, Refused, Gone, Certain
  <2> QED
    BY <1>4, <2>4, <2>5 DEF GetAttributesInv
<1>10. CASE pc = 5
  <2>1. Current = Do("bad_name", "refuse", "free", {"alloc"})
    BY <1>1, <1>10 DEF Current, GetAttributesSteps
  <2>2. Refused("bad_name")
    BY <2>1, DoRefuse DEF Plain
  <2>3. GetAttributesSeen' => GetAttributesSeen /\ GetAttributesHeld /\ Ready(Current)
    BY <1>3, <1>4, <1>10, <2>1
       DEF Do, Ready, AllOk, GetAttributesInv
  <2>4. GetAttributesSeen' => GetAttributesHeld'
    BY <1>4, <1>5, <1>10, <2>1, <2>2, <2>3
       DEF Do, Refused, Gone, Certain
  <2>5. Quiet' => GetAttributesSeen'
    BY <1>2, <1>3, <1>4, <1>5, <1>10, <2>1, <2>2, QuietStep
       DEF Do, Ready, AllOk, Conforms, GetAttributesInv, Refused, Gone, Certain
  <2> QED
    BY <1>4, <2>4, <2>5 DEF GetAttributesInv
<1>11. CASE pc = 6
  <2>1. Current = Do("destroy", "destroy", "service", {"alloc"})
    BY <1>1, <1>11 DEF Current, GetAttributesSteps
  <2>2. Destroys("destroy", "service")
    BY <2>1, DoDestroy DEF Plain
  <2>3. GetAttributesSeen' => GetAttributesSeen /\ GetAttributesHeld /\ Ready(Current)
    BY <1>3, <1>4, <1>11, <2>1
       DEF Do, Ready, AllOk, GetAttributesInv
  <2>4. GetAttributesSeen' => GetAttributesHeld'
    BY <1>4, <1>5, <1>11, <2>1, <2>2, <2>3
       DEF Do, Destroys, Gone, Exists
  <2>5. Quiet' => GetAttributesSeen'
    BY <1>2, <1>3, <1>4, <1>5, <1>11, <2>1, <2>2, QuietStep
       DEF Do, Ready, AllOk, Conforms, GetAttributesInv, Destroys, Gone, Exists
  <2> QED
    BY <1>4, <2>4, <2>5 DEF GetAttributesInv
<1>12. CASE pc = 7
  <2>1. Current = Do("after", "capture", "self", {})
    BY <1>1, <1>12 DEF Current, GetAttributesSteps
  <2>2. Captured("after")
    BY <2>1, DoCapture DEF Plain
  <2>3. GetAttributesSeen' => GetAttributesSeen /\ GetAttributesHeld /\ Ready(Current)
    BY <1>3, <1>4, <1>12, <2>1
       DEF Do, Ready, AllOk, GetAttributesInv
  <2>4. GetAttributesSeen' => GetAttributesHeld'
    BY <1>4, <1>5, <1>12, <2>1, <2>2, <2>3
       DEF Do, Captured
  <2>5. Quiet' => GetAttributesSeen'
    BY <1>2, <1>3, <1>4, <1>5, <1>12, <2>1, <2>2, QuietStep
       DEF Do, Ready, AllOk, Conforms, GetAttributesInv, Captured
  <2> QED
    BY <1>4, <2>4, <2>5 DEF GetAttributesInv
<1> QED
  BY <1>1, <1>6, <1>7, <1>8, <1>9, <1>10, <1>11, <1>12

\* A step of msg_rcv_timeout keeps what it has seen and what the task holds together.
LEMMA RcvTimeoutStep ==
  ASSUME Base, SnapsInv, RcvTimeoutInv, Step, Running, probe = "msg_rcv_timeout"
  PROVE  RcvTimeoutInv'
<1>1. Steps(probe) = RcvTimeoutSteps /\ pc \in 1..6
  BY RcvTimeoutListed, PlaceOf
<1>2. Moves /\ TypeOK
  BY StepCases DEF Base
<1>3. \A m \in {"before", "alloc", "timed", "poll", "destroy", "after"} :
        m # Current.as => obs'[m] = obs[m]
  BY <1>1, <1>2 DEF Moves, Labels, RcvTimeoutSteps, Do
<1>4. probe' = probe /\ pc' = pc + 1 /\ dev' = dev /\ names' = names
  BY <1>2 DEF Moves
<1>5. own \in [Names -> Rights] /\ own[Current.on] \in Rights
  BY <1>2, CurrentKnown DEF TypeOK, Base
<1> USE DEF RcvTimeoutSeen, RcvTimeoutHeld, Follows, Ok, Lost, Taken, Unasked, Saw, Fine, Dev,
        Names, Nothing, Hold, Port, Allocated, Destroyed, Rest
<1>6. CASE pc = 1
  <2>1. Current = Do("before", "capture", "self", {})
    BY <1>1, <1>6 DEF Current, RcvTimeoutSteps
  <2>2. Captured("before")
    BY <2>1, DoCapture DEF Plain
  <2>3. RcvTimeoutSeen' => RcvTimeoutSeen /\ RcvTimeoutHeld /\ Ready(Current)
    BY <1>3, <1>4, <1>6, <2>1
       DEF Do, Ready, AllOk, RcvTimeoutInv
  <2>4. RcvTimeoutSeen' => RcvTimeoutHeld'
    BY <1>4, <1>5, <1>6, <2>1, <2>2, <2>3
       DEF Do, Captured
  <2>5. Quiet' => RcvTimeoutSeen'
    BY <1>2, <1>3, <1>4, <1>5, <1>6, <2>1, <2>2, QuietStep
       DEF Do, Ready, AllOk, Conforms, RcvTimeoutInv, Captured
  <2> QED
    BY <1>4, <2>4, <2>5 DEF RcvTimeoutInv
<1>7. CASE pc = 2
  <2>1. Current = Do("alloc", "alloc", "service", {})
    BY <1>1, <1>7 DEF Current, RcvTimeoutSteps
  <2>2. Allocates("alloc", "alloc", "service")
    BY <2>1, DoAlloc DEF Plain
  <2>3. RcvTimeoutSeen' => RcvTimeoutSeen /\ RcvTimeoutHeld /\ Ready(Current)
    BY <1>3, <1>4, <1>7, <2>1
       DEF Do, Ready, AllOk, RcvTimeoutInv
  <2>4. RcvTimeoutSeen' => RcvTimeoutHeld'
    BY <1>4, <1>5, <1>7, <2>1, <2>2, <2>3
       DEF Do, Allocates
  <2>5. Quiet' => RcvTimeoutSeen'
    BY <1>2, <1>3, <1>4, <1>5, <1>7, <2>1, <2>2, QuietStep
       DEF Do, Ready, AllOk, Conforms, RcvTimeoutInv, Allocates
  <2> QED
    BY <1>4, <2>4, <2>5 DEF RcvTimeoutInv
<1>8. CASE pc = 3
  <2>1. Current = Do("timed", "receive", "service", {"alloc"})
    BY <1>1, <1>8 DEF Current, RcvTimeoutSteps
  <2>2. RcvTimeoutSeen /\ RcvTimeoutHeld => ReceivesTimed("timed")
    BY <1>8, <2>1, DoReceiveTimed
  <2>3. RcvTimeoutSeen' => RcvTimeoutSeen /\ RcvTimeoutHeld /\ Ready(Current)
    BY <1>3, <1>4, <1>8, <2>1
       DEF Do, Ready, AllOk, RcvTimeoutInv
  <2>4. RcvTimeoutSeen' => RcvTimeoutHeld'
    BY <1>4, <1>5, <1>8, <2>1, <2>2, <2>3
       DEF Do, ReceivesTimed, Nobody
  <2>6. Quiet' => Quiet /\ RcvTimeoutSeen /\ RcvTimeoutHeld /\ fails' = fails
    BY <1>2, QuietStep DEF RcvTimeoutInv
  <2>7. Quiet' => ~(fails' < fails) /\ ~Dev("timed", "lie")
    BY <1>2, <2>6, FailsAssumption DEF TypeOK, Quiet, Conforms
  <2>5. Quiet' => RcvTimeoutSeen'
    BY <1>2, <1>3, <1>4, <1>5, <1>8, <2>1, <2>2, <2>6, <2>7
       DEF Do, Ready, AllOk, Conforms, RcvTimeoutInv, Quiet, ReceivesTimed, Nobody
  <2> QED
    BY <1>4, <2>4, <2>5 DEF RcvTimeoutInv
<1>9. CASE pc = 4
  <2>1. Current = Do("poll", "receive", "service", {"alloc"})
    BY <1>1, <1>9 DEF Current, RcvTimeoutSteps
  <2>2. RcvTimeoutSeen /\ RcvTimeoutHeld => ReceivesTimed("poll")
    BY <1>9, <2>1, DoReceiveTimed
  <2>3. RcvTimeoutSeen' => RcvTimeoutSeen /\ RcvTimeoutHeld /\ Ready(Current)
    BY <1>3, <1>4, <1>9, <2>1
       DEF Do, Ready, AllOk, RcvTimeoutInv
  <2>4. RcvTimeoutSeen' => RcvTimeoutHeld'
    BY <1>4, <1>5, <1>9, <2>1, <2>2, <2>3
       DEF Do, ReceivesTimed, Nobody
  <2>6. Quiet' => Quiet /\ RcvTimeoutSeen /\ RcvTimeoutHeld /\ fails' = fails
    BY <1>2, QuietStep DEF RcvTimeoutInv
  <2>7. Quiet' => ~(fails' < fails) /\ ~Dev("poll", "lie")
    BY <1>2, <2>6, FailsAssumption DEF TypeOK, Quiet, Conforms
  <2>5. Quiet' => RcvTimeoutSeen'
    BY <1>2, <1>3, <1>4, <1>5, <1>9, <2>1, <2>2, <2>6, <2>7
       DEF Do, Ready, AllOk, Conforms, RcvTimeoutInv, Quiet, ReceivesTimed, Nobody
  <2> QED
    BY <1>4, <2>4, <2>5 DEF RcvTimeoutInv
<1>10. CASE pc = 5
  <2>1. Current = Do("destroy", "destroy", "service", {"alloc"})
    BY <1>1, <1>10 DEF Current, RcvTimeoutSteps
  <2>2. Destroys("destroy", "service")
    BY <2>1, DoDestroy DEF Plain
  <2>3. RcvTimeoutSeen' => RcvTimeoutSeen /\ RcvTimeoutHeld /\ Ready(Current)
    BY <1>3, <1>4, <1>10, <2>1
       DEF Do, Ready, AllOk, RcvTimeoutInv
  <2>4. RcvTimeoutSeen' => RcvTimeoutHeld'
    BY <1>4, <1>5, <1>10, <2>1, <2>2, <2>3
       DEF Do, Destroys, Gone, Exists
  <2>5. Quiet' => RcvTimeoutSeen'
    BY <1>2, <1>3, <1>4, <1>5, <1>10, <2>1, <2>2, QuietStep
       DEF Do, Ready, AllOk, Conforms, RcvTimeoutInv, Destroys, Gone, Exists
  <2> QED
    BY <1>4, <2>4, <2>5 DEF RcvTimeoutInv
<1>11. CASE pc = 6
  <2>1. Current = Do("after", "capture", "self", {})
    BY <1>1, <1>11 DEF Current, RcvTimeoutSteps
  <2>2. Captured("after")
    BY <2>1, DoCapture DEF Plain
  <2>3. RcvTimeoutSeen' => RcvTimeoutSeen /\ RcvTimeoutHeld /\ Ready(Current)
    BY <1>3, <1>4, <1>11, <2>1
       DEF Do, Ready, AllOk, RcvTimeoutInv
  <2>4. RcvTimeoutSeen' => RcvTimeoutHeld'
    BY <1>4, <1>5, <1>11, <2>1, <2>2, <2>3
       DEF Do, Captured
  <2>5. Quiet' => RcvTimeoutSeen'
    BY <1>2, <1>3, <1>4, <1>5, <1>11, <2>1, <2>2, QuietStep
       DEF Do, Ready, AllOk, Conforms, RcvTimeoutInv, Captured
  <2> QED
    BY <1>4, <2>4, <2>5 DEF RcvTimeoutInv
<1> QED
  BY <1>1, <1>6, <1>7, <1>8, <1>9, <1>10, <1>11

\* A step of task_info keeps what it has seen and what the task holds together.
LEMMA TaskInfoStep ==
  ASSUME Base, SnapsInv, TaskInfoInv, Step, Running, probe = "task_info" PROVE TaskInfoInv'
<1>1. Steps(probe) = TaskInfoSteps /\ pc \in 1..7
  BY TaskInfoListed, PlaceOf
<1>2. Moves /\ TypeOK
  BY StepCases DEF Base
<1>3. \A m \in {"before", "self", "type", "basic", "bad_flavor", "null_task", "after"} :
        m # Current.as => obs'[m] = obs[m]
  BY <1>1, <1>2 DEF Moves, Labels, TaskInfoSteps, Do
<1>4. probe' = probe /\ pc' = pc + 1 /\ dev' = dev /\ names' = names
  BY <1>2 DEF Moves
<1>5. own \in [Names -> Rights] /\ own[Current.on] \in Rights
  BY <1>2, CurrentKnown DEF TypeOK, Base
<1> USE DEF TaskInfoSeen, TaskInfoHeld, Follows, Ok, Lost, Taken, Unasked, Saw, Fine, Dev,
        Names, Nothing, Hold, Counted, Rest
<1>6. CASE pc = 1
  <2>1. Current = Do("before", "capture", "self", {})
    BY <1>1, <1>6 DEF Current, TaskInfoSteps
  <2>2. Captured("before")
    BY <2>1, DoCapture DEF Plain
  <2>3. TaskInfoSeen' => TaskInfoSeen /\ TaskInfoHeld /\ Ready(Current)
    BY <1>3, <1>4, <1>6, <2>1
       DEF Do, Ready, AllOk, TaskInfoInv
  <2>4. TaskInfoSeen' => TaskInfoHeld'
    BY <1>4, <1>5, <1>6, <2>1, <2>2, <2>3
       DEF Do, Captured
  <2>5. Quiet' => TaskInfoSeen'
    BY <1>2, <1>3, <1>4, <1>5, <1>6, <2>1, <2>2, QuietStep
       DEF Do, Ready, AllOk, Conforms, TaskInfoInv, Captured
  <2> QED
    BY <1>4, <2>4, <2>5 DEF TaskInfoInv
<1>7. CASE pc = 2
  <2>1. Current = Do("self", "time", "self", {})
    BY <1>1, <1>7 DEF Current, TaskInfoSteps
  <2>2. Asked("self")
    BY <2>1, DoAsk DEF Plain
  <2>3. TaskInfoSeen' => TaskInfoSeen /\ TaskInfoHeld /\ Ready(Current)
    BY <1>3, <1>4, <1>7, <2>1
       DEF Do, Ready, AllOk, TaskInfoInv
  <2>4. TaskInfoSeen' => TaskInfoHeld'
    BY <1>4, <1>5, <1>7, <2>1, <2>2, <2>3
       DEF Do, Asked
  <2>5. Quiet' => TaskInfoSeen'
    BY <1>2, <1>3, <1>4, <1>5, <1>7, <2>1, <2>2, QuietStep
       DEF Do, Ready, AllOk, Conforms, TaskInfoInv, Asked
  <2> QED
    BY <1>4, <2>4, <2>5 DEF TaskInfoInv
<1>8. CASE pc = 3
  <2>1. Current = Do("type", "ask", "self", {})
    BY <1>1, <1>8 DEF Current, TaskInfoSteps
  <2>2. Asked("type")
    BY <2>1, DoAsk DEF Plain
  <2>3. TaskInfoSeen' => TaskInfoSeen /\ TaskInfoHeld /\ Ready(Current)
    BY <1>3, <1>4, <1>8, <2>1
       DEF Do, Ready, AllOk, TaskInfoInv
  <2>4. TaskInfoSeen' => TaskInfoHeld'
    BY <1>4, <1>5, <1>8, <2>1, <2>2, <2>3
       DEF Do, Asked
  <2>5. Quiet' => TaskInfoSeen'
    BY <1>2, <1>3, <1>4, <1>5, <1>8, <2>1, <2>2, QuietStep
       DEF Do, Ready, AllOk, Conforms, TaskInfoInv, Asked
  <2> QED
    BY <1>4, <2>4, <2>5 DEF TaskInfoInv
<1>9. CASE pc = 4
  <2>1. Current = Do("basic", "ask", "self", {})
    BY <1>1, <1>9 DEF Current, TaskInfoSteps
  <2>2. Asked("basic")
    BY <2>1, DoAsk DEF Plain
  <2>3. TaskInfoSeen' => TaskInfoSeen /\ TaskInfoHeld /\ Ready(Current)
    BY <1>3, <1>4, <1>9, <2>1
       DEF Do, Ready, AllOk, TaskInfoInv
  <2>4. TaskInfoSeen' => TaskInfoHeld'
    BY <1>4, <1>5, <1>9, <2>1, <2>2, <2>3
       DEF Do, Asked
  <2>5. Quiet' => TaskInfoSeen'
    BY <1>2, <1>3, <1>4, <1>5, <1>9, <2>1, <2>2, QuietStep
       DEF Do, Ready, AllOk, Conforms, TaskInfoInv, Asked
  <2> QED
    BY <1>4, <2>4, <2>5 DEF TaskInfoInv
<1>10. CASE pc = 5
  <2>1. Current = Do("bad_flavor", "refuse", "self", {})
    BY <1>1, <1>10 DEF Current, TaskInfoSteps
  <2>2. Refused("bad_flavor")
    BY <2>1, DoRefuse DEF Plain
  <2>3. TaskInfoSeen' => TaskInfoSeen /\ TaskInfoHeld /\ Ready(Current)
    BY <1>3, <1>4, <1>10, <2>1
       DEF Do, Ready, AllOk, TaskInfoInv
  <2>4. TaskInfoSeen' => TaskInfoHeld'
    BY <1>4, <1>5, <1>10, <2>1, <2>2, <2>3
       DEF Do, Refused, Gone, Certain
  <2>5. Quiet' => TaskInfoSeen'
    BY <1>2, <1>3, <1>4, <1>5, <1>10, <2>1, <2>2, QuietStep
       DEF Do, Ready, AllOk, Conforms, TaskInfoInv, Refused, Gone, Certain
  <2> QED
    BY <1>4, <2>4, <2>5 DEF TaskInfoInv
<1>11. CASE pc = 6
  <2>1. Current = Do("null_task", "refuse", "free", {})
    BY <1>1, <1>11 DEF Current, TaskInfoSteps
  <2>2. Refused("null_task")
    BY <2>1, DoRefuse DEF Plain
  <2>3. TaskInfoSeen' => TaskInfoSeen /\ TaskInfoHeld /\ Ready(Current)
    BY <1>3, <1>4, <1>11, <2>1
       DEF Do, Ready, AllOk, TaskInfoInv
  <2>4. TaskInfoSeen' => TaskInfoHeld'
    BY <1>4, <1>5, <1>11, <2>1, <2>2, <2>3
       DEF Do, Refused, Gone, Certain
  <2>5. Quiet' => TaskInfoSeen'
    BY <1>2, <1>3, <1>4, <1>5, <1>11, <2>1, <2>2, QuietStep
       DEF Do, Ready, AllOk, Conforms, TaskInfoInv, Refused, Gone, Certain
  <2> QED
    BY <1>4, <2>4, <2>5 DEF TaskInfoInv
<1>12. CASE pc = 7
  <2>1. Current = Do("after", "capture", "self", {})
    BY <1>1, <1>12 DEF Current, TaskInfoSteps
  <2>2. Captured("after")
    BY <2>1, DoCapture DEF Plain
  <2>3. TaskInfoSeen' => TaskInfoSeen /\ TaskInfoHeld /\ Ready(Current)
    BY <1>3, <1>4, <1>12, <2>1
       DEF Do, Ready, AllOk, TaskInfoInv
  <2>4. TaskInfoSeen' => TaskInfoHeld'
    BY <1>4, <1>5, <1>12, <2>1, <2>2, <2>3
       DEF Do, Captured
  <2>5. Quiet' => TaskInfoSeen'
    BY <1>2, <1>3, <1>4, <1>5, <1>12, <2>1, <2>2, QuietStep
       DEF Do, Ready, AllOk, Conforms, TaskInfoInv, Captured
  <2> QED
    BY <1>4, <2>4, <2>5 DEF TaskInfoInv
<1> QED
  BY <1>1, <1>6, <1>7, <1>8, <1>9, <1>10, <1>11, <1>12

\* A step of host_info keeps what it has seen and what the task holds together.
LEMMA HostInfoStep ==
  ASSUME Base, SnapsInv, HostInfoInv, Step, Running, probe = "host_info" PROVE HostInfoInv'
<1>1. Steps(probe) = HostInfoSteps /\ pc \in 1..9
  BY HostInfoListed, PlaceOf
<1>2. Moves /\ TypeOK
  BY StepCases DEF Base
<1>3. \A m \in {"before", "host_a", "host_b", "basic", "bad_flavor", "null_host", "dealloc_a",
                 "dealloc_b", "after"} :
        m # Current.as => obs'[m] = obs[m]
  BY <1>1, <1>2 DEF Moves, Labels, HostInfoSteps, Do
<1>4. probe' = probe /\ pc' = pc + 1 /\ dev' = dev /\ names' = names
  BY <1>2 DEF Moves
<1>5. own \in [Names -> Rights] /\ own[Current.on] \in Rights
  BY <1>2, CurrentKnown DEF TypeOK, Base
<1> USE DEF HostInfoSeen, HostInfoHeld, Follows, Ok, Lost, Taken, Unasked, Saw, Fine, Dev,
        Names, Nothing, Hold, Granted, Returned, HostRight, Rest
<1>6. CASE pc = 1
  <2>1. Current = Do("before", "capture", "self", {})
    BY <1>1, <1>6 DEF Current, HostInfoSteps
  <2>2. Captured("before")
    BY <2>1, DoCapture DEF Plain
  <2>3. HostInfoSeen' => HostInfoSeen /\ HostInfoHeld /\ Ready(Current)
    BY <1>3, <1>4, <1>6, <2>1
       DEF Do, Ready, AllOk, HostInfoInv
  <2>4. HostInfoSeen' => HostInfoHeld'
    BY <1>4, <1>5, <1>6, <2>1, <2>2, <2>3
       DEF Do, Captured
  <2>5. Quiet' => HostInfoSeen'
    BY <1>2, <1>3, <1>4, <1>5, <1>6, <2>1, <2>2, QuietStep
       DEF Do, Ready, AllOk, Conforms, HostInfoInv, Captured
  <2> QED
    BY <1>4, <2>4, <2>5 DEF HostInfoInv
<1>7. CASE pc = 2
  <2>1. Current = Do("host_a", "host_self", "host", {})
    BY <1>1, <1>7 DEF Current, HostInfoSteps
  <2>2. Adds("host_a", "host_self", "host")
    BY <2>1, DoAdd DEF Plain
  <2>3. HostInfoSeen' => HostInfoSeen /\ HostInfoHeld /\ Ready(Current)
    BY <1>3, <1>4, <1>7, <2>1
       DEF Do, Ready, AllOk, HostInfoInv
  <2>4. HostInfoSeen' => HostInfoHeld'
    BY <1>4, <1>5, <1>7, <2>1, <2>2, <2>3
       DEF Do, Adds, Gone, Legal
  <2>5. Quiet' => HostInfoSeen'
    BY <1>2, <1>3, <1>4, <1>5, <1>7, <2>1, <2>2, QuietStep
       DEF Do, Ready, AllOk, Conforms, HostInfoInv, Adds, Gone, Legal
  <2> QED
    BY <1>4, <2>4, <2>5 DEF HostInfoInv
<1>8. CASE pc = 3
  <2>1. Current = Do("host_b", "host_self", "host", {})
    BY <1>1, <1>8 DEF Current, HostInfoSteps
  <2>2. Adds("host_b", "host_self", "host")
    BY <2>1, DoAdd DEF Plain
  <2>3. HostInfoSeen' => HostInfoSeen /\ HostInfoHeld /\ Ready(Current)
    BY <1>3, <1>4, <1>8, <2>1
       DEF Do, Ready, AllOk, HostInfoInv
  <2>4. HostInfoSeen' => HostInfoHeld'
    BY <1>4, <1>5, <1>8, <2>1, <2>2, <2>3
       DEF Do, Adds, Gone, Legal
  <2>5. Quiet' => HostInfoSeen'
    BY <1>2, <1>3, <1>4, <1>5, <1>8, <2>1, <2>2, QuietStep
       DEF Do, Ready, AllOk, Conforms, HostInfoInv, Adds, Gone, Legal
  <2> QED
    BY <1>4, <2>4, <2>5 DEF HostInfoInv
<1>9. CASE pc = 4
  <2>1. Current = Do("basic", "ask", "host", {"host_a"})
    BY <1>1, <1>9 DEF Current, HostInfoSteps
  <2>2. Asked("basic")
    BY <2>1, DoAsk DEF Plain
  <2>3. HostInfoSeen' => HostInfoSeen /\ HostInfoHeld /\ Ready(Current)
    BY <1>3, <1>4, <1>9, <2>1
       DEF Do, Ready, AllOk, HostInfoInv
  <2>4. HostInfoSeen' => HostInfoHeld'
    BY <1>4, <1>5, <1>9, <2>1, <2>2, <2>3
       DEF Do, Asked
  <2>5. Quiet' => HostInfoSeen'
    BY <1>2, <1>3, <1>4, <1>5, <1>9, <2>1, <2>2, QuietStep
       DEF Do, Ready, AllOk, Conforms, HostInfoInv, Asked
  <2> QED
    BY <1>4, <2>4, <2>5 DEF HostInfoInv
<1>10. CASE pc = 5
  <2>1. Current = Do("bad_flavor", "refuse", "host", {})
    BY <1>1, <1>10 DEF Current, HostInfoSteps
  <2>2. Refused("bad_flavor")
    BY <2>1, DoRefuse DEF Plain
  <2>3. HostInfoSeen' => HostInfoSeen /\ HostInfoHeld /\ Ready(Current)
    BY <1>3, <1>4, <1>10, <2>1
       DEF Do, Ready, AllOk, HostInfoInv
  <2>4. HostInfoSeen' => HostInfoHeld'
    BY <1>4, <1>5, <1>10, <2>1, <2>2, <2>3
       DEF Do, Refused, Gone, Certain
  <2>5. Quiet' => HostInfoSeen'
    BY <1>2, <1>3, <1>4, <1>5, <1>10, <2>1, <2>2, QuietStep
       DEF Do, Ready, AllOk, Conforms, HostInfoInv, Refused, Gone, Certain
  <2> QED
    BY <1>4, <2>4, <2>5 DEF HostInfoInv
<1>11. CASE pc = 6
  <2>1. Current = Do("null_host", "refuse", "free", {})
    BY <1>1, <1>11 DEF Current, HostInfoSteps
  <2>2. Refused("null_host")
    BY <2>1, DoRefuse DEF Plain
  <2>3. HostInfoSeen' => HostInfoSeen /\ HostInfoHeld /\ Ready(Current)
    BY <1>3, <1>4, <1>11, <2>1
       DEF Do, Ready, AllOk, HostInfoInv
  <2>4. HostInfoSeen' => HostInfoHeld'
    BY <1>4, <1>5, <1>11, <2>1, <2>2, <2>3
       DEF Do, Refused, Gone, Certain
  <2>5. Quiet' => HostInfoSeen'
    BY <1>2, <1>3, <1>4, <1>5, <1>11, <2>1, <2>2, QuietStep
       DEF Do, Ready, AllOk, Conforms, HostInfoInv, Refused, Gone, Certain
  <2> QED
    BY <1>4, <2>4, <2>5 DEF HostInfoInv
<1>12. CASE pc = 7
  <2>1. Current = Do("dealloc_a", "drop", "host", {"host_a"})
    BY <1>1, <1>12 DEF Current, HostInfoSteps
  <2>2. Drops("dealloc_a", "drop", "host")
    BY <2>1, DoDrop DEF Plain
  <2>3. HostInfoSeen' => HostInfoSeen /\ HostInfoHeld /\ Ready(Current)
    BY <1>3, <1>4, <1>12, <2>1
       DEF Do, Ready, AllOk, HostInfoInv
  <2>4. HostInfoSeen' => HostInfoHeld'
    BY <1>4, <1>5, <1>12, <2>1, <2>2, <2>3
       DEF Do, Drops, Gone, Less
  <2>5. Quiet' => HostInfoSeen'
    BY <1>2, <1>3, <1>4, <1>5, <1>12, <2>1, <2>2, QuietStep
       DEF Do, Ready, AllOk, Conforms, HostInfoInv, Drops, Gone, Less
  <2> QED
    BY <1>4, <2>4, <2>5 DEF HostInfoInv
<1>13. CASE pc = 8
  <2>1. Current = Do("dealloc_b", "drop", "host", {"host_b"})
    BY <1>1, <1>13 DEF Current, HostInfoSteps
  <2>2. Drops("dealloc_b", "drop", "host")
    BY <2>1, DoDrop DEF Plain
  <2>3. HostInfoSeen' => HostInfoSeen /\ HostInfoHeld /\ Ready(Current)
    BY <1>3, <1>4, <1>13, <2>1, <2>2
       DEF Do, Ready, AllOk, HostInfoInv, Drops, Gone, Less
  <2>4. HostInfoSeen' => HostInfoHeld'
    BY <1>4, <1>5, <1>13, <2>1, <2>2, <2>3
       DEF Do, Drops, Gone, Less
  <2>5. Quiet' => HostInfoSeen'
    BY <1>2, <1>3, <1>4, <1>5, <1>13, <2>1, <2>2, QuietStep
       DEF Do, Ready, AllOk, Conforms, HostInfoInv, Drops, Gone, Less
  <2> QED
    BY <1>4, <2>4, <2>5 DEF HostInfoInv
<1>14. CASE pc = 9
  <2>1. Current = Do("after", "capture", "self", {})
    BY <1>1, <1>14 DEF Current, HostInfoSteps
  <2>2. Captured("after")
    BY <2>1, DoCapture DEF Plain
  <2>3. HostInfoSeen' => HostInfoSeen /\ HostInfoHeld /\ Ready(Current)
    BY <1>3, <1>4, <1>14, <2>1
       DEF Do, Ready, AllOk, HostInfoInv
  <2>4. HostInfoSeen' => HostInfoHeld'
    BY <1>4, <1>5, <1>14, <2>1, <2>2, <2>3
       DEF Do, Captured
  <2>5. Quiet' => HostInfoSeen'
    BY <1>2, <1>3, <1>4, <1>5, <1>14, <2>1, <2>2, QuietStep
       DEF Do, Ready, AllOk, Conforms, HostInfoInv, Captured
  <2> QED
    BY <1>4, <2>4, <2>5 DEF HostInfoInv
<1> QED
  BY <1>1, <1>6, <1>7, <1>8, <1>9, <1>10, <1>11, <1>12, <1>13, <1>14

\* A step of absolute_time keeps what it has seen and what the task holds together.
LEMMA AbsoluteTimeStep ==
  ASSUME Base, SnapsInv, AbsoluteTimeInv, Step, Running, probe = "absolute_time"
  PROVE  AbsoluteTimeInv'
<1>1. Steps(probe) = AbsoluteTimeSteps /\ pc \in 1..5
  BY AbsoluteTimeListed, PlaceOf
<1>2. Moves /\ TypeOK
  BY StepCases DEF Base
<1>3. \A m \in {"before", "t1", "t2", "timebase", "after"} :
        m # Current.as => obs'[m] = obs[m]
  BY <1>1, <1>2 DEF Moves, Labels, AbsoluteTimeSteps, Do
<1>4. probe' = probe /\ pc' = pc + 1 /\ dev' = dev /\ names' = names
  BY <1>2 DEF Moves
<1>5. own \in [Names -> Rights] /\ own[Current.on] \in Rights
  BY <1>2, CurrentKnown DEF TypeOK, Base
<1> USE DEF AbsoluteTimeSeen, AbsoluteTimeHeld, Follows, Ok, Lost, Taken, Unasked, Saw, Fine,
        Dev, Names, Nothing, Hold, Counted, Rest
<1>6. CASE pc = 1
  <2>1. Current = Do("before", "capture", "self", {})
    BY <1>1, <1>6 DEF Current, AbsoluteTimeSteps
  <2>2. Captured("before")
    BY <2>1, DoCapture DEF Plain
  <2>3. AbsoluteTimeSeen' => AbsoluteTimeSeen /\ AbsoluteTimeHeld /\ Ready(Current)
    BY <1>3, <1>4, <1>6, <2>1
       DEF Do, Ready, AllOk, AbsoluteTimeInv
  <2>4. AbsoluteTimeSeen' => AbsoluteTimeHeld'
    BY <1>4, <1>5, <1>6, <2>1, <2>2, <2>3
       DEF Do, Captured
  <2>5. Quiet' => AbsoluteTimeSeen'
    BY <1>2, <1>3, <1>4, <1>5, <1>6, <2>1, <2>2, QuietStep
       DEF Do, Ready, AllOk, Conforms, AbsoluteTimeInv, Captured
  <2> QED
    BY <1>4, <2>4, <2>5 DEF AbsoluteTimeInv
<1>7. CASE pc = 2
  <2>1. Current = Do("t1", "time", "self", {})
    BY <1>1, <1>7 DEF Current, AbsoluteTimeSteps
  <2>2. Asked("t1")
    BY <2>1, DoAsk DEF Plain
  <2>3. AbsoluteTimeSeen' => AbsoluteTimeSeen /\ AbsoluteTimeHeld /\ Ready(Current)
    BY <1>3, <1>4, <1>7, <2>1
       DEF Do, Ready, AllOk, AbsoluteTimeInv
  <2>4. AbsoluteTimeSeen' => AbsoluteTimeHeld'
    BY <1>4, <1>5, <1>7, <2>1, <2>2, <2>3
       DEF Do, Asked
  <2>5. Quiet' => AbsoluteTimeSeen'
    BY <1>2, <1>3, <1>4, <1>5, <1>7, <2>1, <2>2, QuietStep
       DEF Do, Ready, AllOk, Conforms, AbsoluteTimeInv, Asked
  <2> QED
    BY <1>4, <2>4, <2>5 DEF AbsoluteTimeInv
<1>8. CASE pc = 3
  <2>1. Current = Do("t2", "ask", "self", {})
    BY <1>1, <1>8 DEF Current, AbsoluteTimeSteps
  <2>2. Asked("t2")
    BY <2>1, DoAsk DEF Plain
  <2>3. AbsoluteTimeSeen' => AbsoluteTimeSeen /\ AbsoluteTimeHeld /\ Ready(Current)
    BY <1>3, <1>4, <1>8, <2>1
       DEF Do, Ready, AllOk, AbsoluteTimeInv
  <2>4. AbsoluteTimeSeen' => AbsoluteTimeHeld'
    BY <1>4, <1>5, <1>8, <2>1, <2>2, <2>3
       DEF Do, Asked
  <2>5. Quiet' => AbsoluteTimeSeen'
    BY <1>2, <1>3, <1>4, <1>5, <1>8, <2>1, <2>2, QuietStep
       DEF Do, Ready, AllOk, Conforms, AbsoluteTimeInv, Asked
  <2> QED
    BY <1>4, <2>4, <2>5 DEF AbsoluteTimeInv
<1>9. CASE pc = 4
  <2>1. Current = Do("timebase", "ask", "self", {})
    BY <1>1, <1>9 DEF Current, AbsoluteTimeSteps
  <2>2. Asked("timebase")
    BY <2>1, DoAsk DEF Plain
  <2>3. AbsoluteTimeSeen' => AbsoluteTimeSeen /\ AbsoluteTimeHeld /\ Ready(Current)
    BY <1>3, <1>4, <1>9, <2>1
       DEF Do, Ready, AllOk, AbsoluteTimeInv
  <2>4. AbsoluteTimeSeen' => AbsoluteTimeHeld'
    BY <1>4, <1>5, <1>9, <2>1, <2>2, <2>3
       DEF Do, Asked
  <2>5. Quiet' => AbsoluteTimeSeen'
    BY <1>2, <1>3, <1>4, <1>5, <1>9, <2>1, <2>2, QuietStep
       DEF Do, Ready, AllOk, Conforms, AbsoluteTimeInv, Asked
  <2> QED
    BY <1>4, <2>4, <2>5 DEF AbsoluteTimeInv
<1>10. CASE pc = 5
  <2>1. Current = Do("after", "capture", "self", {})
    BY <1>1, <1>10 DEF Current, AbsoluteTimeSteps
  <2>2. Captured("after")
    BY <2>1, DoCapture DEF Plain
  <2>3. AbsoluteTimeSeen' => AbsoluteTimeSeen /\ AbsoluteTimeHeld /\ Ready(Current)
    BY <1>3, <1>4, <1>10, <2>1
       DEF Do, Ready, AllOk, AbsoluteTimeInv
  <2>4. AbsoluteTimeSeen' => AbsoluteTimeHeld'
    BY <1>4, <1>5, <1>10, <2>1, <2>2, <2>3
       DEF Do, Captured
  <2>5. Quiet' => AbsoluteTimeSeen'
    BY <1>2, <1>3, <1>4, <1>5, <1>10, <2>1, <2>2, QuietStep
       DEF Do, Ready, AllOk, Conforms, AbsoluteTimeInv, Captured
  <2> QED
    BY <1>4, <2>4, <2>5 DEF AbsoluteTimeInv
<1> QED
  BY <1>1, <1>6, <1>7, <1>8, <1>9, <1>10

-----------------------------------------------------------------------------
(* The snapshots.                                                          *)

\* No call gives the task the name that only a lying listing shows.
LEMMA PhantomStays == ASSUME Base, Step, Running PROVE own'["phantom"] = own["phantom"]
<1>1. own \in [Names -> Rights] /\ Current.on # "phantom" /\ "phantom" \in Names
  BY CurrentKnown DEF Base, TypeOK, Names
<1>2. Missed \/ Called
  BY StepCases
<1>3. CASE Missed
  BY <1>3 DEF Missed
<1>4. CASE Capture
  BY <1>4 DEF Capture
<1>5. CASE Look
  BY <1>5 DEF Look
<1>6. CASE Ask
  BY <1>6 DEF Ask
<1>7. CASE Change
  <2>1. own' = own \/ \E x : own' = [own EXCEPT ![Current.on] = x]
    BY <1>7 DEF Change
  <2> QED
    BY <1>1, <2>1
<1>8. CASE SendHeader
  <2>1. own' = own \/ \E x : own' = [own EXCEPT ![Current.on] = x]
    BY <1>8 DEF SendHeader
  <2> QED
    BY <1>1, <2>1
<1>9. CASE SendDouble
  <2>1. \/ \E x : own' = [own EXCEPT !["cargo"] = x]
        \/ \E x, y : own' = [own EXCEPT !["service"] = x, !["cargo"] = y]
    BY <1>9 DEF SendDouble
  <2> QED
    BY <1>1, <2>1
<1>10. CASE SendInvalid
  <2>1. CASE CanSend /\ Deviates("lie")
    BY <1>1, <1>10, <2>1 DEF SendInvalid
  <2>2. CASE CanSend /\ ~Deviates("lie") /\ Deviates("over")
    BY <1>1, <1>10, <2>2 DEF SendInvalid, Deviates
  <2>3. CASE ~CanSend \/ ~(Deviates("lie") \/ Deviates("over"))
    BY <1>10, <2>3 DEF SendInvalid
  <2> QED
    BY <2>1, <2>2, <2>3
<1>11. CASE SendSource
  <2>1. \/ own' = own
        \/ \E x : own' = [own EXCEPT ![Current.on] = x]
        \/ \E x, y : own' = [own EXCEPT ![Current.on] = x, !["source"] = y]
    BY <1>11 DEF SendSource
  <2> QED
    BY <1>1, <2>1
<1>12. CASE Receive
  <2>1. own' = own \/ \E back \in {0, 1} : own' = Delivered(back)
    BY <1>12 DEF Receive
  <2>2. From # "phantom"
    BY <1>1 DEF From
  <2>3. \A back : Delivered(back)["phantom"] = own["phantom"]
    BY <1>1, <2>2 DEF Delivered
  <2> QED
    BY <2>1, <2>3
<1> QED
  BY <1>2, <1>3, <1>4, <1>5, <1>6, <1>7, <1>8, <1>9, <1>10, <1>11, <1>12 DEF Called

\* A capture is always made.
LEMMA CaptureReady ==
  ASSUME NEW l \in Captures, Current = Do(l, "capture", "self", {}) PROVE Ready(Current)
  BY DEF Captures, Ready, AllOk, Do

\* The parts of SnapsInv.
SnapOk(l) ==
  \/ obs[l] = Unasked /\ fails < MaxFails
  \/ obs[l].kr = names /\ (Ph \in obs[l].snap <=> names = "ok" /\ Dev(l, "lie"))

\* A step keeps the snapshots as they are, or takes one.
LEMMA SnapsStep == ASSUME Base, SnapsInv, Step, Running PROVE SnapsInv'
<1> DEFINE s == Steps(probe)
<1>1. Listed(s, Len(s), LastOf(probe)) /\ fails \in 0..MaxFails
  BY EveryListed DEF Base, TypeOK
<1>2. Moves
  BY StepCases
<1>3. probe' = probe /\ names' = names /\ dev' = dev /\ pc' = pc + 1 /\ fails' <= fails
  BY <1>2 DEF Moves
<1>4. pc \in 1..Len(s) /\ Len(s) \in Nat /\ DOMAIN s = 1..Len(s) /\ s' = s
  BY <1>1, <1>3 DEF Listed, Base, PlaceInv, Running
<1>5. fails' \in 0..MaxFails
  BY BaseStep DEF Base, TypeOK, Next
<1>6. own'["phantom"] = Nothing
  BY PhantomStays DEF SnapsInv
<1>7. ASSUME Current.as \in Captures
      PROVE  /\ Current = Do(Current.as, "capture", "self", {})
             /\ own' = own
             /\ \/ obs'[Current.as] = Unasked /\ fails' < MaxFails
                \/ Snapped(Current.as)
  <2>1. Current = Do(Current.as, "capture", "self", {})
    BY <1>1, <1>4, <1>7 DEF Listed, Current
  <2>2. Ready(Current)
    BY <1>7, <2>1, CaptureReady
  <2>3. own' = own /\ (Lost(Current.as) \/ (fails' = fails /\ Snapped(Current.as)))
    BY <1>7, <2>1, CaptureShows DEF Captures, Plain
  <2>4. fails' < fails => fails' < MaxFails
    BY <1>1, <1>5, FailsAssumption
  <2> QED
    BY <2>1, <2>2, <2>3, <2>4 DEF Lost
<1>8. ASSUME NEW i \in DOMAIN s, s[i].as \in Captures, i < pc'
      PROVE  SnapOk(s[i].as)'
  <2>1. CASE i = pc
    <3>1. s[i].as = Current.as
      BY <2>1 DEF Current
    <3> QED
      BY <1>3, <1>7, <1>8, <3>1 DEF Snapped, SnapOk, Dev
  <2>2. CASE i # pc
    <3>1. i < pc /\ s[i].as # Current.as /\ s[i].as \in Labels(probe)
      BY <1>1, <1>3, <1>4, <1>8, <2>2 DEF Listed, Current, Labels
    <3>2. obs'[s[i].as] = obs[s[i].as]
      BY <1>2, <3>1 DEF Moves
    <3>3. SnapOk(s[i].as)
      BY <1>8, <3>1 DEF SnapsInv, SnapOk
    <3>4. fails < MaxFails => fails' < MaxFails
      BY <1>1, <1>3, <1>5, FailsAssumption
    <3> QED
      BY <1>3, <3>2, <3>3, <3>4 DEF SnapOk, Dev
  <2> QED
    BY <2>1, <2>2
<1>9. obs'["before"].snap \subseteq {Ph}
  <2>0. s[1].as = "before" /\ 1 \in DOMAIN s
    BY <1>1, <1>4 DEF Listed, Do
  <2>1. CASE pc = 1
    <3>1. Current.as = "before" /\ \A n \in Names : own[n] = Nothing
      BY <2>0, <2>1 DEF Current, SnapsInv
    <3>2. Listing = {}
      BY <3>1 DEF Listing, Exists, Nothing
    <3>3. obs'["before"] = Unasked \/ obs'["before"].snap \subseteq Listing \cup {Ph}
      BY <1>7, <3>1 DEF Captures, Snapped
    <3> QED
      BY <3>2, <3>3 DEF Unasked, Saw
  <2>2. CASE pc > 1
    <3>1. Current.as # "before" /\ "before" \in Labels(probe)
      BY <1>1, <1>4, <2>0, <2>2 DEF Listed, Current, Labels
    <3> QED
      BY <1>2, <2>2, <3>1 DEF Moves, SnapsInv
  <2> QED
    BY <1>4, <2>1, <2>2
<1>10. ASSUME ~Running', Ok(LastOf(probe))'
       PROVE  obs'[LastOf(probe)].snap \ {Ph} = Listing'
  <2>1. pc = Len(s) /\ Current.as = LastOf(probe) /\ LastOf(probe) \in Captures
    <3>1. pc = Len(s)
      <4>1. ~(pc + 1 <= Len(s))
        BY <1>3, <1>10 DEF Running
      <4>2. pc \in 1..Len(s) /\ Len(s) \in Nat
        BY <1>4
      <4>3. \A n \in Nat : \A i \in 1..n : i + 1 <= n \/ i = n
        OBVIOUS
      <4> QED
        BY <4>1, <4>2, <4>3
    <3>2. s[Len(s)] = Do(LastOf(probe), "capture", "self", {})
      BY <1>1 DEF Listed
    <3> QED
      BY <3>1, <3>2 DEF Current, Do, LastOf, Captures
  <2>2. Listing' = Listing
    BY <1>7, <2>1 DEF Listing
  <2>3. obs'[LastOf(probe)].kr = "ok" /\ obs'[LastOf(probe)] # Unasked
    BY <1>3, <1>10 DEF Ok, Unasked, Saw
  <2> QED
    BY <1>7, <2>1, <2>2, <2>3 DEF Snapped
<1> HIDE DEF s
<1>11. pc' # 1
  BY <1>3, <1>4
<1>12. \A i \in DOMAIN s : LET l == s[i].as IN l \in Captures /\ i < pc' => SnapOk(l)'
  BY <1>8
<1>13. ~Running' /\ Ok(LastOf(probe))' => obs'[LastOf(probe)'].snap \ {Ph} = Listing'
  BY <1>3, <1>10 DEF LastOf
<1> QED
  BY <1>3, <1>4, <1>6, <1>9, <1>11, <1>12, <1>13 DEF SnapsInv, SnapOk, s, LastOf, Dev, Ok

-----------------------------------------------------------------------------
(* The invariant.                                                          *)

\* At the start nothing is seen or held.
LEMMA InitProbes == Init => SnapsInv /\ ProbesInv
<1> SUFFICES ASSUME Init PROVE SnapsInv /\ ProbesInv
  OBVIOUS
<1>1. pc = 1 /\ (\A n \in Names : own[n] = Nothing) /\ Base
  BY InitBase DEF Init
<1>2. Listed(Steps(probe), Len(Steps(probe)), LastOf(probe))
  BY EveryListed DEF Init
<1>3. SnapsInv
  <2>1. Running /\ \A i \in DOMAIN Steps(probe) : ~(i < pc)
    BY <1>1, <1>2 DEF Listed, Running
  <2> QED
    BY <1>1, <2>1 DEF SnapsInv, Names
<1>4. HeaderCopyInv
  BY <1>1
     DEF HeaderCopyInv, Names, Follows, HeaderCopySeen, HeaderCopyHeld, HeaderBeginSeen,
         HeaderBeginHeld, Rest
<1>5. HeaderMoveInv
  BY <1>1
     DEF HeaderMoveInv, Names, Follows, HeaderMoveSeen, HeaderMoveHeld, HeaderBeginSeen,
         HeaderBeginHeld, Rest
<1>6. DoubleMoveInv
  BY <1>1
     DEF DoubleMoveInv, Names, Follows, DoubleMoveSeen, DoubleMoveHeld, CargoSeen, CargoHeld,
         Rest
<1>7. DeadNameInv
  BY <1>1
     DEF DeadNameInv, Names, Follows, DeadNameSeen, DeadNameHeld, DeadHeld, NonexistentHeld,
         BetweenHeld, Rest
<1>8. InvalidDispositionInv
  BY <1>1
     DEF InvalidDispositionInv, Names, Follows, InvalidDispositionSeen, InvalidDispositionHeld,
         CargoSeen, CargoHeld, Rest
<1>9. SmokeInv
  BY <1>1
     DEF SmokeInv, Names, Follows, SmokeSeen, SmokeHeld, Rest
<1>10. GetRefsInv
  BY <1>1
     DEF GetRefsInv, Names, Follows, GetRefsSeen, GetRefsHeld, Rest
<1>11. TypeInv
  BY <1>1
     DEF TypeInv, Names, Follows, TypeSeen, TypeHeld, Rest
<1>12. PortSetInv
  BY <1>1
     DEF PortSetInv, Names, Follows, PortSetSeen, PortSetHeld, Rest
<1>13. PortNamesInv
  BY <1>1
     DEF PortNamesInv, Names, PortNamesSeen, PortNamesHeld, Rest
<1>14. GetAttributesInv
  BY <1>1
     DEF GetAttributesInv, Names, Follows, GetAttributesSeen, GetAttributesHeld, Rest
<1>15. RcvTimeoutInv
  BY <1>1
     DEF RcvTimeoutInv, Names, Follows, RcvTimeoutSeen, RcvTimeoutHeld, Rest
<1>16. TaskInfoInv
  BY <1>1
     DEF TaskInfoInv, Names, Follows, TaskInfoSeen, TaskInfoHeld, Rest
<1>17. HostInfoInv
  BY <1>1
     DEF HostInfoInv, Names, Follows, HostInfoSeen, HostInfoHeld, Rest
<1>18. AbsoluteTimeInv
  BY <1>1
     DEF AbsoluteTimeInv, Names, Follows, AbsoluteTimeSeen, AbsoluteTimeHeld, Rest
<1> QED
  BY <1>3, <1>4, <1>5, <1>6, <1>7, <1>8, <1>9, <1>10, <1>11, <1>12, <1>13, <1>14, <1>15, <1>16,
     <1>17, <1>18
     DEF ProbesInv

\* What the invariant is about.
state == <<probe, names, dev, fails, pc, obs, own>>

\* A report and a stuttering step change nothing of it.
LEMMA ProbesStay == ASSUME UNCHANGED state, SnapsInv, ProbesInv PROVE SnapsInv' /\ ProbesInv'
<1> USE DEF state
<1>1. SnapsInv'
  BY DEF SnapsInv, Running, Ok, Listing, Dev
<1>2. HeaderCopyInv'
  BY
     DEF ProbesInv, HeaderCopyInv, HeaderCopySeen, HeaderCopyHeld, HeaderBeginSeen,
         HeaderBeginHeld, Shows, Counted, Allocated, Inserted, Destroyed, Rest, Quiet, Ok, Dev,
         Follows
<1>3. HeaderMoveInv'
  BY
     DEF ProbesInv, HeaderMoveInv, HeaderMoveSeen, HeaderMoveHeld, HeaderBeginSeen,
         HeaderBeginHeld, Shows, Counted, Allocated, Inserted, Destroyed, Extra,
         TypeMatchesRefs, Rest, Quiet, Ok, Dev, Follows
<1>4. DoubleMoveInv'
  BY
     DEF ProbesInv, DoubleMoveInv, DoubleMoveSeen, DoubleMoveHeld, CargoSeen, CargoHeld,
         Allocated, Inserted, Destroyed, Rest, Quiet, Ok, Dev, Follows
<1>5. DeadNameInv'
  BY
     DEF ProbesInv, DeadNameInv, DeadNameSeen, DeadNameHeld, DeadHeld, NonexistentHeld,
         BetweenHeld, Shows, Counted, Absent, Allocated, Inserted, Destroyed, Extra, Rest,
         Quiet, Ok, Dev, Follows, Listing
<1>6. InvalidDispositionInv'
  BY
     DEF ProbesInv, InvalidDispositionInv, InvalidDispositionSeen, InvalidDispositionHeld,
         CargoSeen, CargoHeld, Allocated, Inserted, Destroyed, Count, Kind, SameRefs, SameType,
         Rest, Quiet, Ok, Dev, Follows
<1>7. SmokeInv'
  BY
     DEF ProbesInv, SmokeInv, SmokeSeen, SmokeHeld, Allocated, Destroyed, Rest, Quiet, Ok, Dev,
         Follows
<1>8. GetRefsInv'
  BY
     DEF ProbesInv, GetRefsInv, GetRefsSeen, GetRefsHeld, Counted, Allocated, Inserted,
         Destroyed, Rest, Quiet, Ok, Dev, Follows
<1>9. TypeInv'
  BY
     DEF ProbesInv, TypeInv, TypeSeen, TypeHeld, Shows, Allocated, Inserted, Destroyed, Rest,
         Quiet, Ok, Dev, Follows
<1>10. PortSetInv'
  BY
     DEF ProbesInv, PortSetInv, PortSetSeen, PortSetHeld, Shows, Allocated, Inserted, Destroyed,
         Member, Rest, Quiet, Ok, Dev, Follows
<1>11. PortNamesInv'
  BY
     DEF ProbesInv, PortNamesInv, PortNamesSeen, PortNamesHeld, Allocated, Destroyed, Rest,
         Quiet, Ok, Dev, ProbeSeen, OneMore
<1>12. GetAttributesInv'
  BY
     DEF ProbesInv, GetAttributesInv, GetAttributesSeen, GetAttributesHeld, Counted, Allocated,
         Destroyed, Rest, Quiet, Ok, Dev, Follows
<1>13. RcvTimeoutInv'
  BY
     DEF ProbesInv, RcvTimeoutInv, RcvTimeoutSeen, RcvTimeoutHeld, Allocated, Destroyed, Rest,
         Quiet, Ok, Dev, Follows
<1>14. TaskInfoInv'
  BY
     DEF ProbesInv, TaskInfoInv, TaskInfoSeen, TaskInfoHeld, Counted, Rest, Quiet, Ok, Dev,
         Follows
<1>15. HostInfoInv'
  BY
     DEF ProbesInv, HostInfoInv, HostInfoSeen, HostInfoHeld, Granted, Returned, HostRight, Rest,
         Quiet, Ok, Dev, Follows
<1>16. AbsoluteTimeInv'
  BY
     DEF ProbesInv, AbsoluteTimeInv, AbsoluteTimeSeen, AbsoluteTimeHeld, Counted, Rest, Quiet,
         Ok, Dev, Follows
<1> QED
  BY <1>1, <1>2, <1>3, <1>4, <1>5, <1>6, <1>7, <1>8, <1>9, <1>10, <1>11, <1>12, <1>13, <1>14,
     <1>15, <1>16
     DEF ProbesInv

\* A call of any probe keeps the invariant.
LEMMA ProbesStep == ASSUME IInv, Step, Running PROVE ProbesInv'
<1>1. Base /\ SnapsInv /\ ProbesInv /\ probe' = probe /\ probe \in Probes
  BY StepCases DEF IInv, Base, TypeOK, Moves
<1>2. HeaderCopyInv'
  BY <1>1, HeaderCopyStep DEF ProbesInv, HeaderCopyInv
<1>3. HeaderMoveInv'
  BY <1>1, HeaderMoveStep DEF ProbesInv, HeaderMoveInv
<1>4. DoubleMoveInv'
  BY <1>1, DoubleMoveStep DEF ProbesInv, DoubleMoveInv
<1>5. DeadNameInv'
  BY <1>1, DeadNameStep DEF ProbesInv, DeadNameInv
<1>6. InvalidDispositionInv'
  BY <1>1, InvalidDispositionStep DEF ProbesInv, InvalidDispositionInv
<1>7. SmokeInv'
  BY <1>1, SmokeStep DEF ProbesInv, SmokeInv
<1>8. GetRefsInv'
  BY <1>1, GetRefsStep DEF ProbesInv, GetRefsInv
<1>9. TypeInv'
  BY <1>1, TypeStep DEF ProbesInv, TypeInv
<1>10. PortSetInv'
  BY <1>1, PortSetStep DEF ProbesInv, PortSetInv
<1>11. PortNamesInv'
  BY <1>1, PortNamesStep DEF ProbesInv, PortNamesInv
<1>12. GetAttributesInv'
  BY <1>1, GetAttributesStep DEF ProbesInv, GetAttributesInv
<1>13. RcvTimeoutInv'
  BY <1>1, RcvTimeoutStep DEF ProbesInv, RcvTimeoutInv
<1>14. TaskInfoInv'
  BY <1>1, TaskInfoStep DEF ProbesInv, TaskInfoInv
<1>15. HostInfoInv'
  BY <1>1, HostInfoStep DEF ProbesInv, HostInfoInv
<1>16. AbsoluteTimeInv'
  BY <1>1, AbsoluteTimeStep DEF ProbesInv, AbsoluteTimeInv
<1> QED
  BY <1>2, <1>3, <1>4, <1>5, <1>6, <1>7, <1>8, <1>9, <1>10, <1>11, <1>12, <1>13, <1>14, <1>15,
     <1>16
     DEF ProbesInv

\* The invariant holds in every reachable state.
THEOREM Invariance == Spec => []IInv
<1>1. Init => IInv
  BY InitBase, InitProbes DEF IInv
<1>2. ASSUME IInv, [Next]_vars PROVE IInv'
  <2>1. CASE Step /\ Running
    BY <1>2, <2>1, BaseStep, SnapsStep, ProbesStep DEF IInv, Next
  <2>2. CASE Next /\ ~(Step /\ Running)
    <3>1. UNCHANGED state
      BY <2>2 DEF Next, Step, Skip, CallFails, Capture, Look, Ask, Change, SendHeader, SendDouble,
                  SendInvalid, SendSource, Receive, Calls, Report, Over, vars, state
    <3> QED
      BY <1>2, <2>2, <3>1, BaseStep, ProbesStay DEF IInv
  <2>3. CASE UNCHANGED vars
    <3>1. UNCHANGED state
      BY <2>3 DEF vars, state
    <3>2. Judgement(probe)' = Judgement(probe)
      BY <1>2, <3>1, JudgementStays DEF IInv, Base, TypeOK, state
    <3>3. Base'
      BY <1>2, <2>3, <3>2 DEF IInv, Base, vars, TypeOK, PlaceInv, PresetInv, Running
    <3> QED
      BY <1>2, <3>1, <3>3, ProbesStay DEF IInv
  <2> QED
    BY <1>2, <2>1, <2>2, <2>3
<1> QED
  BY <1>1, <1>2, PTL DEF Spec

\* The types.
THEOREM TypeCorrect == Spec => []TypeOK
<1>1. IInv => TypeOK
  BY DEF IInv, Base
<1> QED
  BY <1>1, Invariance, PTL

-----------------------------------------------------------------------------
(* What the chains of tests conclude.                                      *)

\* Where a probe that is through its calls is.
LEMMA EndOf ==
  ASSUME Base, ~Running, NEW s, NEW n, NEW last, Steps(probe) = s, Listed(s, n, last)
  PROVE  pc = n + 1
  BY DEF Base, PlaceInv, Running, Listed

\* The snapshots of a probe that is through its calls.
LEMMA EndSnaps ==
  ASSUME IInv, ~Running
  PROVE  /\ SnapOk("before") /\ obs["before"].snap \subseteq {Ph} /\ SnapOk(LastOf(probe))
         /\ Ok(LastOf(probe)) => obs[LastOf(probe)].snap \ {Ph} = Listing
<1>1. Listed(Steps(probe), Len(Steps(probe)), LastOf(probe))
  BY EveryListed DEF IInv, Base, TypeOK
<1> DEFINE s == Steps(probe)
           n == Len(s)
<1>2. pc = n + 1 /\ n \in Nat /\ n >= 5 /\ DOMAIN s = 1..n
  BY <1>1, EndOf DEF IInv, Listed
<1>3. s[1].as = "before" /\ s[n].as = LastOf(probe)
  BY <1>1 DEF Listed, Do
<1>4. SnapsInv
  BY DEF IInv
<1>5. 1 \in DOMAIN s /\ n \in DOMAIN s /\ 1 < pc /\ n < pc
  BY <1>2
<1>6. {"before", LastOf(probe)} \subseteq Captures
  BY DEF Captures, LastOf
<1>7. \A i \in DOMAIN s : s[i].as \in Captures /\ i < pc => SnapOk(s[i].as)
  BY <1>4 DEF SnapsInv, SnapOk
<1>8. SnapOk("before") /\ SnapOk(LastOf(probe))
  <2> HIDE DEF s, n
  <2> QED
    BY <1>3, <1>5, <1>6, <1>7
<1> QED
  BY <1>4, <1>5, <1>8 DEF SnapsInv

\* Two captures that compare equal: neither was made up, and what the first shows the second
\* shows.
LEMMA BothShow ==
  ASSUME NEW b, NEW a, a # b, SnapOk(b), SnapOk(a), BaselineOk(b, a), names = "ok"
  PROVE  Ok(a) /\ Ok(b) /\ obs[a].snap = obs[b].snap /\ ~Dev(b, "lie") /\ ~Dev(a, "lie")
<1>1. Ok(a) /\ Ok(b) /\ obs[a].snap = obs[b].snap
  BY DEF BaselineOk, BaselineCompare, SnapOk, Ok, Unasked, Saw
<1>2. (Ph \in obs[b].snap <=> Dev(b, "lie")) /\ (Ph \in obs[a].snap <=> Dev(a, "lie"))
  BY <1>1 DEF SnapOk, Ok, Unasked, Saw
<1>3. ~(Dev(b, "lie") /\ Dev(a, "lie"))
  BY DEF Dev
<1> QED
  BY <1>1, <1>2, <1>3

\* What is not listed is not there.
LEMMA NoneThere == ASSUME Listing = {} PROVE \A n \in Names : ~Exists(own[n])
  BY DEF Listing

\* Of what is not there nothing is listed.
LEMMA NoneListed == ASSUME \A n \in Names : ~Exists(own[n]) PROVE Listing = {}
  BY DEF Listing

\* A comparison that comes out equal leaves nothing in the task, where names are listed.
LEMMA BaselineClean ==
  ASSUME IInv, ~Running, LastOf(probe) = "after", BaselineOk("before", "after"), names = "ok"
  PROVE  (\A n \in Names : ~Exists(own[n])) /\ ~Dev("before", "lie") /\ ~Dev("after", "lie")
<1>1. /\ SnapOk("before") /\ SnapOk("after") /\ obs["before"].snap \subseteq {Ph}
      /\ Ok("after") => obs["after"].snap \ {Ph} = Listing
  BY EndSnaps
<1>2. /\ Ok("after") /\ obs["after"].snap = obs["before"].snap
      /\ ~Dev("before", "lie") /\ ~Dev("after", "lie")
  BY <1>1, BothShow
<1> QED
  BY <1>1, <1>2, NoneThere

\* A quiet kernel's snapshots are what there is.
LEMMA QuietShows ==
  ASSUME NEW l, l # "none", SnapOk(l), Quiet PROVE obs[l].kr = names /\ Ph \notin obs[l].snap
<1>1. ~(fails < MaxFails) /\ ~Dev(l, "lie")
  BY FailsAssumption DEF Quiet, Dev, Conforms
<1> QED
  BY <1>1 DEF SnapOk

\* On a quiet kernel that leaves nothing behind the comparison comes out equal.
LEMMA BaselineQuiet ==
  ASSUME IInv, ~Running, LastOf(probe) = "after", Quiet, \A n \in Names : ~Exists(own[n])
  PROVE  BaselineOk("before", "after") /\ ~Blocks(obs["before"].kr) /\ ~Blocks(obs["after"].kr)
<1>1. /\ SnapOk("before") /\ SnapOk("after") /\ obs["before"].snap \subseteq {Ph}
      /\ Ok("after") => obs["after"].snap \ {Ph} = Listing
  BY EndSnaps
<1>2. /\ obs["before"].kr = names /\ Ph \notin obs["before"].snap
      /\ obs["after"].kr = names /\ Ph \notin obs["after"].snap
  BY <1>1, QuietShows
<1>3. Listing = {} /\ names \in {"ok", "gap"}
  BY NoneListed DEF IInv, Base, TypeOK
<1> QED
  BY <1>1, <1>2, <1>3 DEF BaselineOk, BaselineCompare, Blocks, Ok

\* The kinds of deviation of each call.
LEMMA DeviationsAre ==
  /\ \A c \in {"capture", "type", "refs", "refs_recv", "refs_dead", "ask", "status", "refuse",
               "receive", "send_free"} : Deviations(c) = {"lie"}
  /\ Deviations("capture_during") = {"lie", "skip"}
  /\ \A c \in {"insert", "mod_plus", "dealloc"} : Deviations(c) = {"skip", "over"}
  /\ \A c \in {"alloc", "alloc_set", "alloc_dead", "mod_minus", "drop", "destroy", "move_in",
               "move_out"} : Deviations(c) = {"skip"}
  /\ Deviations("host_self") = {"over"}
  /\ \A c \in {"send_copy", "send_double"} : Deviations(c) = {"lost", "over"}
  /\ \A c \in {"send_move", "send_dead"} : Deviations(c) = {"lost", "skip"}
  /\ Deviations("send_invalid") = {"lie", "over"}
  /\ \A c \in {"receive_back", "receive_cargo", "receive_dead"} : Deviations(c) = {"lie", "over"}
  /\ \A c \in {"time", "drop_gone"} : Deviations(c) = {}
  BY DEF Deviations

\* Such deviations, as sets.
LEMMA DevIn ==
  ASSUME NEW l, NEW k \in {"lie", "skip", "over", "lost"}, Dev(l, k)
  PROVE  dev.at = l /\ dev \in Just(l, k) /\ \A ls : l \in ls => dev \in At(ls)
  BY DEF Dev, Just, At

\* The four snapshots of dead_name.
LEMMA DeadNameSnaps ==
  ASSUME IInv, ~Running, probe = "dead_name", DeadNameHeld
  PROVE  /\ SnapOk("before") /\ SnapOk("after") /\ SnapOk("before2") /\ SnapOk("after2")
         /\ obs["before"].snap \subseteq {Ph}
         /\ Ok("after2") => obs["after2"].snap \ {Ph} = Listing
         /\ Ok("after") /\ Ok("before2") =>
              obs["after"].snap \ {Ph} = obs["before2"].snap \ {Ph}
         /\ Quiet => obs["after"].snap = {}
<1>1. pc = 26 /\ Steps(probe) = DeadNameSteps /\ DOMAIN DeadNameSteps = 1..25
  <2>1. Steps(probe) = DeadNameSteps /\ Listed(DeadNameSteps, 25, "after2")
    BY DeadNameListed DEF LastOf
  <2>2. pc = 25 + 1
    BY <2>1, EndOf DEF IInv
  <2> QED
    BY <2>1, <2>2 DEF Listed
<1>2. /\ SnapOk("before") /\ SnapOk("after2") /\ obs["before"].snap \subseteq {Ph}
      /\ Ok("after2") => obs["after2"].snap \ {Ph} = Listing
  BY EndSnaps DEF LastOf
<1>3. DeadNameSteps[14].as = "after" /\ DeadNameSteps[15].as = "before2"
  BY DEF DeadNameSteps, DeadCase, NonexistentCase, Do
<1>4. \A i \in DOMAIN Steps(probe) : Steps(probe)[i].as \in Captures /\ i < pc =>
        SnapOk(Steps(probe)[i].as)
  BY DEF IInv, SnapsInv, SnapOk
<1>5. SnapOk("after") /\ SnapOk("before2")
  BY <1>1, <1>3, <1>4 DEF Captures
<1> QED
  BY <1>1, <1>2, <1>5 DEF DeadNameHeld, BetweenHeld

\* Both comparisons of dead_name come out equal: nothing is left.
LEMMA DeadNameClean ==
  ASSUME IInv, ~Running, probe = "dead_name", DeadNameHeld, names = "ok",
         BaselineOk("before", "after"), BaselineOk("before2", "after2")
  PROVE  /\ \A n \in Names : ~Exists(own[n])
         /\ ~Dev("before", "lie") /\ ~Dev("after", "lie")
         /\ ~Dev("before2", "lie") /\ ~Dev("after2", "lie")
<1>1. /\ SnapOk("before") /\ SnapOk("after") /\ SnapOk("before2") /\ SnapOk("after2")
      /\ obs["before"].snap \subseteq {Ph}
      /\ Ok("after2") => obs["after2"].snap \ {Ph} = Listing
      /\ Ok("after") /\ Ok("before2") => obs["after"].snap \ {Ph} = obs["before2"].snap \ {Ph}
  BY DeadNameSnaps
<1>2. /\ Ok("after") /\ obs["after"].snap = obs["before"].snap
      /\ ~Dev("before", "lie") /\ ~Dev("after", "lie")
  BY <1>1, BothShow
<1>3. /\ Ok("after2") /\ Ok("before2") /\ obs["after2"].snap = obs["before2"].snap
      /\ ~Dev("before2", "lie") /\ ~Dev("after2", "lie")
  BY <1>1, BothShow
<1>4. Listing = {}
  BY <1>1, <1>2, <1>3
<1> QED
  BY <1>2, <1>3, <1>4, NoneThere

\* On a quiet kernel both comparisons of dead_name come out equal.
LEMMA DeadNameQuiet ==
  ASSUME IInv, ~Running, probe = "dead_name", DeadNameHeld, Quiet,
         \A n \in Names : ~Exists(own[n])
  PROVE  /\ BaselineOk("before", "after") /\ ~Blocks(obs["before"].kr) /\ ~Blocks(obs["after"].kr)
         /\ BaselineOk("before2", "after2")
         /\ ~Blocks(obs["before2"].kr) /\ ~Blocks(obs["after2"].kr)
<1>1. /\ SnapOk("before") /\ SnapOk("after") /\ SnapOk("before2") /\ SnapOk("after2")
      /\ obs["before"].snap \subseteq {Ph} /\ obs["after"].snap = {}
      /\ Ok("after2") => obs["after2"].snap \ {Ph} = Listing
      /\ Ok("after") /\ Ok("before2") => obs["after"].snap \ {Ph} = obs["before2"].snap \ {Ph}
  BY DeadNameSnaps
<1>2. \A l \in {"before", "after", "before2", "after2"} : obs[l].kr = names /\ Ph \notin obs[l].snap
  BY <1>1, QuietShows
<1>3. Listing = {} /\ names \in {"ok", "gap"}
  BY NoneListed DEF IInv, Base, TypeOK
<1>4. names = "ok" => /\ obs["before"].snap = {} /\ obs["before2"].snap = {}
                      /\ obs["after2"].snap = {}
  BY <1>1, <1>2, <1>3 DEF Ok
<1> QED
  BY <1>1, <1>2, <1>3, <1>4 DEF BaselineOk, BaselineCompare, Blocks

\* The deviations that header_copy may meet.
LEMMA HeaderCopyDevs ==
  ASSUME dev \in Devs("header_copy")
  PROVE  \/ dev = Conforms \/ Dev("before", "lie") \/ Dev("alloc", "skip")
         \/ Dev("insert", "skip") \/ Dev("insert", "over") \/ Dev("refs_before", "lie")
         \/ Dev("type_before", "lie") \/ Dev("send", "lost") \/ Dev("send", "over")
         \/ Dev("refs_sent", "lie") \/ Dev("type_sent", "lie") \/ Dev("receive", "lie")
         \/ Dev("refs_received", "lie") \/ Dev("type_received", "lie") \/ Dev("destroy", "skip")
         \/ Dev("after", "lie")
<1>1. Steps("header_copy") = HeaderCopySteps /\ DOMAIN HeaderCopySteps = 1..13
  BY HeaderCopyListed DEF Listed
<1>2. SUFFICES ASSUME NEW i \in 1..13, NEW z \in Deviations(HeaderCopySteps[i].call),
                      dev = [at |-> HeaderCopySteps[i].as, kind |-> z]
      PROVE  \/ Dev("before", "lie") \/ Dev("alloc", "skip") \/ Dev("insert", "skip")
             \/ Dev("insert", "over") \/ Dev("refs_before", "lie") \/ Dev("type_before", "lie")
             \/ Dev("send", "lost") \/ Dev("send", "over") \/ Dev("refs_sent", "lie")
             \/ Dev("type_sent", "lie") \/ Dev("receive", "lie") \/ Dev("refs_received", "lie")
             \/ Dev("type_received", "lie") \/ Dev("destroy", "skip") \/ Dev("after", "lie")
  BY <1>1 DEF Devs
<1>3. i = 1 => Dev("before", "lie")
  BY <1>2, DeviationsAre DEF HeaderCopySteps, HeaderSteps, Do, Dev
<1>4. i = 2 => Dev("alloc", "skip")
  BY <1>2, DeviationsAre DEF HeaderCopySteps, HeaderSteps, Do, Dev
<1>5. i = 3 => Dev("insert", "skip") \/ Dev("insert", "over")
  BY <1>2, DeviationsAre DEF HeaderCopySteps, HeaderSteps, Do, Dev
<1>6. i = 4 => Dev("refs_before", "lie")
  BY <1>2, DeviationsAre DEF HeaderCopySteps, HeaderSteps, Do, Dev
<1>7. i = 5 => Dev("type_before", "lie")
  BY <1>2, DeviationsAre DEF HeaderCopySteps, HeaderSteps, Do, Dev
<1>8. i = 6 => Dev("send", "lost") \/ Dev("send", "over")
  BY <1>2, DeviationsAre DEF HeaderCopySteps, HeaderSteps, Do, Dev
<1>9. i = 7 => Dev("refs_sent", "lie")
  BY <1>2, DeviationsAre DEF HeaderCopySteps, HeaderSteps, Do, Dev
<1>10. i = 8 => Dev("type_sent", "lie")
  BY <1>2, DeviationsAre DEF HeaderCopySteps, HeaderSteps, Do, Dev
<1>11. i = 9 => Dev("receive", "lie")
  BY <1>2, DeviationsAre DEF HeaderCopySteps, HeaderSteps, Do, Dev
<1>12. i = 10 => Dev("refs_received", "lie")
  BY <1>2, DeviationsAre DEF HeaderCopySteps, HeaderSteps, Do, Dev
<1>13. i = 11 => Dev("type_received", "lie")
  BY <1>2, DeviationsAre DEF HeaderCopySteps, HeaderSteps, Do, Dev
<1>14. i = 12 => Dev("destroy", "skip")
  BY <1>2, DeviationsAre DEF HeaderCopySteps, HeaderSteps, Do, Dev
<1>15. i = 13 => Dev("after", "lie")
  BY <1>2, DeviationsAre DEF HeaderCopySteps, HeaderSteps, Do, Dev
<1> QED
  BY <1>3, <1>4, <1>5, <1>6, <1>7, <1>8, <1>9, <1>10, <1>11, <1>12, <1>13, <1>14, <1>15

\* header_copy passes only when it has seen all it demands and its baselines compare equal.
LEMMA HeaderCopyPasses ==
  ASSUME IInv, ~Running, probe = "header_copy", Judgement("header_copy") = Pass
  PROVE  pc = 14 /\ HeaderCopySeen /\ HeaderCopyHeld /\ BaselineOk("before", "after")
<1>1. pc = 14
  BY HeaderCopyListed, EndOf DEF IInv
<1>2. HeaderCopyJudge = Pass
  BY Zenon DEF Judgement
<1>3. HeaderCopySeen /\ BaselineOk("before", "after")
  BY <1>1, <1>2
     DEF HeaderCopyJudge, OneSendRight, JudgeEnd, Pass, Accuse, Unclean, ProbeFailure, Is,
         AllOk, Ok, HeaderCopySeen, HeaderBeginSeen, Shows, Counted
<1>4. HeaderCopyHeld
  BY <1>3 DEF IInv, ProbesInv, HeaderCopyInv, Follows
<1> QED
  BY <1>1, <1>3, <1>4

\* A pass of header_copy is sound.
LEMMA HeaderCopySound ==
  ASSUME IInv, ~Running, probe = "header_copy", Judgement("header_copy") = Pass
  PROVE  dev \in Overlooked("header_copy", names)
<1>1. pc = 14 /\ HeaderCopySeen /\ HeaderCopyHeld /\ BaselineOk("before", "after")
  BY HeaderCopyPasses
<1>2. \/ dev = Conforms \/ Dev("before", "lie") \/ Dev("alloc", "skip")
      \/ Dev("insert", "skip") \/ Dev("insert", "over") \/ Dev("refs_before", "lie")
      \/ Dev("type_before", "lie") \/ Dev("send", "lost") \/ Dev("send", "over")
      \/ Dev("refs_sent", "lie") \/ Dev("type_sent", "lie") \/ Dev("receive", "lie")
      \/ Dev("refs_received", "lie") \/ Dev("type_received", "lie") \/ Dev("destroy", "skip")
      \/ Dev("after", "lie")
  BY HeaderCopyDevs DEF IInv, Base, TypeOK
<1>3. dev = Conforms => dev \in Overlooked("header_copy", names)
  BY DEF Overlooked
<1>4. /\ ~Dev("alloc", "skip") /\ ~Dev("insert", "skip") /\ ~Dev("insert", "over")
      /\ ~Dev("refs_before", "lie") /\ ~Dev("type_before", "lie") /\ ~Dev("send", "lost")
      /\ ~Dev("send", "over") /\ ~Dev("refs_sent", "lie") /\ ~Dev("type_sent", "lie")
      /\ ~Dev("receive", "lie") /\ ~Dev("type_received", "lie")
  BY <1>1
     DEF HeaderCopyHeld, HeaderBeginSeen, HeaderBeginHeld
<1>5. ASSUME \/ Dev("refs_received", "lie")
      PROVE  dev \in Overlooked("header_copy", names)
  <2>1. dev \in Unjudged("header_copy")
    BY <1>5, DevIn DEF Unjudged
  <2> QED
    BY <2>1 DEF Overlooked
<1>6. ASSUME names = "gap",
             \/ Dev("before", "lie") \/ Dev("destroy", "skip") \/ Dev("after", "lie")
      PROVE  dev \in Overlooked("header_copy", names)
  <2>1. dev \in NamesOnly
    BY <1>6, DevIn DEF NamesOnly
  <2> QED
    BY <1>6, <2>1 DEF Overlooked
<1>7. ASSUME names = "ok"
      PROVE  /\ ~Dev("before", "lie") /\ ~Dev("destroy", "skip") /\ ~Dev("after", "lie")
  <2>1. (\A m \in Names : ~Exists(own[m])) /\ ~Dev("before", "lie") /\ ~Dev("after", "lie")
    BY <1>1, <1>7, BaselineClean DEF LastOf
  <2> QED
    BY <1>1, <2>1
       DEF HeaderCopyHeld, HeaderBeginSeen, HeaderBeginHeld, Names, Exists, Destroyed
<1>8. names \in {"ok", "gap"}
  BY DEF IInv, Base, TypeOK
<1> QED
  BY <1>2, <1>3, <1>4, <1>5, <1>6, <1>7, <1>8

\* header_copy passes a kernel that conforms and fails no call.
LEMMA HeaderCopyNoAlarm ==
  ASSUME IInv, ~Running, probe = "header_copy", Quiet
  PROVE  Judgement("header_copy") = Pass
<1>1. pc = 14
  BY HeaderCopyListed, EndOf DEF IInv
<1>2. HeaderCopySeen /\ HeaderCopyHeld
  BY DEF IInv, ProbesInv, HeaderCopyInv, Follows
<1>3. \A m \in Names : ~Exists(own[m])
  BY <1>1, <1>2
     DEF HeaderCopyHeld, HeaderBeginSeen, HeaderBeginHeld, Quiet, Conforms, Dev, Exists, Names,
         Nothing, Hold, Destroyed, Rest
<1>4. BaselineOk("before", "after") /\ ~Blocks(obs["before"].kr) /\ ~Blocks(obs["after"].kr)
  BY <1>3, BaselineQuiet DEF LastOf
<1>5. HeaderCopyJudge = Pass
  BY <1>1, <1>2, <1>4
     DEF HeaderCopyJudge, OneSendRight, JudgeEnd, AllOk, Ok, HeaderCopySeen, HeaderBeginSeen,
         Shows, Counted
<1> QED
  BY <1>5, Zenon DEF Judgement

\* The deviations that header_move may meet.
LEMMA HeaderMoveDevs ==
  ASSUME dev \in Devs("header_move")
  PROVE  \/ dev = Conforms \/ Dev("before", "lie") \/ Dev("alloc", "skip")
         \/ Dev("insert", "skip") \/ Dev("insert", "over") \/ Dev("refs_before", "lie")
         \/ Dev("type_before", "lie") \/ Dev("send", "lost") \/ Dev("send", "skip")
         \/ Dev("refs_sent", "lie") \/ Dev("type_sent", "lie") \/ Dev("receive", "lie")
         \/ Dev("receive", "over") \/ Dev("refs_received", "lie") \/ Dev("type_received", "lie")
         \/ Dev("use_send", "lost") \/ Dev("use_send", "over") \/ Dev("use_receive", "lie")
         \/ Dev("use_refs", "lie") \/ Dev("destroy", "skip") \/ Dev("after", "lie")
<1>1. Steps("header_move") = HeaderMoveSteps /\ DOMAIN HeaderMoveSteps = 1..16
  BY HeaderMoveListed DEF Listed
<1>2. SUFFICES ASSUME NEW i \in 1..16, NEW z \in Deviations(HeaderMoveSteps[i].call),
                      dev = [at |-> HeaderMoveSteps[i].as, kind |-> z]
      PROVE  \/ Dev("before", "lie") \/ Dev("alloc", "skip") \/ Dev("insert", "skip")
             \/ Dev("insert", "over") \/ Dev("refs_before", "lie") \/ Dev("type_before", "lie")
             \/ Dev("send", "lost") \/ Dev("send", "skip") \/ Dev("refs_sent", "lie")
             \/ Dev("type_sent", "lie") \/ Dev("receive", "lie") \/ Dev("receive", "over")
             \/ Dev("refs_received", "lie") \/ Dev("type_received", "lie")
             \/ Dev("use_send", "lost")
             \/ Dev("use_send", "over") \/ Dev("use_receive", "lie") \/ Dev("use_refs", "lie")
             \/ Dev("destroy", "skip") \/ Dev("after", "lie")
  BY <1>1 DEF Devs
<1>3. i = 1 => Dev("before", "lie")
  BY <1>2, DeviationsAre DEF HeaderMoveSteps, HeaderSteps, Do, Dev
<1>4. i = 2 => Dev("alloc", "skip")
  BY <1>2, DeviationsAre DEF HeaderMoveSteps, HeaderSteps, Do, Dev
<1>5. i = 3 => Dev("insert", "skip") \/ Dev("insert", "over")
  BY <1>2, DeviationsAre DEF HeaderMoveSteps, HeaderSteps, Do, Dev
<1>6. i = 4 => Dev("refs_before", "lie")
  BY <1>2, DeviationsAre DEF HeaderMoveSteps, HeaderSteps, Do, Dev
<1>7. i = 5 => Dev("type_before", "lie")
  BY <1>2, DeviationsAre DEF HeaderMoveSteps, HeaderSteps, Do, Dev
<1>8. i = 6 => Dev("send", "lost") \/ Dev("send", "skip")
  BY <1>2, DeviationsAre DEF HeaderMoveSteps, HeaderSteps, Do, Dev
<1>9. i = 7 => Dev("refs_sent", "lie")
  BY <1>2, DeviationsAre DEF HeaderMoveSteps, HeaderSteps, Do, Dev
<1>10. i = 8 => Dev("type_sent", "lie")
  BY <1>2, DeviationsAre DEF HeaderMoveSteps, HeaderSteps, Do, Dev
<1>11. i = 9 => Dev("receive", "lie") \/ Dev("receive", "over")
  BY <1>2, DeviationsAre DEF HeaderMoveSteps, HeaderSteps, Do, Dev
<1>12. i = 10 => Dev("refs_received", "lie")
  BY <1>2, DeviationsAre DEF HeaderMoveSteps, HeaderSteps, Do, Dev
<1>13. i = 11 => Dev("type_received", "lie")
  BY <1>2, DeviationsAre DEF HeaderMoveSteps, HeaderSteps, Do, Dev
<1>14. i = 12 => Dev("use_send", "lost") \/ Dev("use_send", "over")
  BY <1>2, DeviationsAre DEF HeaderMoveSteps, HeaderSteps, Do, Dev
<1>15. i = 13 => Dev("use_receive", "lie")
  BY <1>2, DeviationsAre DEF HeaderMoveSteps, HeaderSteps, Do, Dev
<1>16. i = 14 => Dev("use_refs", "lie")
  BY <1>2, DeviationsAre DEF HeaderMoveSteps, HeaderSteps, Do, Dev
<1>17. i = 15 => Dev("destroy", "skip")
  BY <1>2, DeviationsAre DEF HeaderMoveSteps, HeaderSteps, Do, Dev
<1>18. i = 16 => Dev("after", "lie")
  BY <1>2, DeviationsAre DEF HeaderMoveSteps, HeaderSteps, Do, Dev
<1> QED
  BY <1>3, <1>4, <1>5, <1>6, <1>7, <1>8, <1>9, <1>10, <1>11, <1>12, <1>13, <1>14, <1>15, <1>16,
     <1>17, <1>18

\* header_move passes only when it has seen all it demands and its baselines compare equal.
LEMMA HeaderMovePasses ==
  ASSUME IInv, ~Running, probe = "header_move", Judgement("header_move") = Pass
  PROVE  pc = 17 /\ HeaderMoveSeen /\ HeaderMoveHeld /\ BaselineOk("before", "after")
<1>1. pc = 17
  BY HeaderMoveListed, EndOf DEF IInv
<1>2. HeaderMoveJudge = Pass
  BY Zenon DEF Judgement
<1>3. HeaderMoveSeen /\ BaselineOk("before", "after")
  <2>1. obs["refs_received"].refs \in Nat
    BY HeaderMoveListed
       DEF IInv, Base, TypeOK, Observation, Labels, HeaderMoveSteps, HeaderSteps, Do
  <2> QED
    BY <1>1, <1>2, <2>1
       DEF HeaderMoveJudge, OneSendRight, UsabilityAttempted, HasSend, JudgeEnd, Pass, Accuse,
           Unclean, ProbeFailure, Is, AllOk, Ok, HeaderMoveSeen, HeaderBeginSeen, Shows,
           Counted, TypeMatchesRefs
<1>4. HeaderMoveHeld
  BY <1>3 DEF IInv, ProbesInv, HeaderMoveInv, Follows
<1> QED
  BY <1>1, <1>3, <1>4

\* A pass of header_move is sound, but for a call it may not have made.
LEMMA HeaderMoveSound ==
  ASSUME IInv, ~Running, probe = "header_move", Judgement("header_move") = Pass
  PROVE  dev \in Overlooked("header_move", names) \/ Dev("use_send", "lost")
<1>1. pc = 17 /\ HeaderMoveSeen /\ HeaderMoveHeld /\ BaselineOk("before", "after")
  BY HeaderMovePasses
<1>2. \/ dev = Conforms \/ Dev("before", "lie") \/ Dev("alloc", "skip")
      \/ Dev("insert", "skip") \/ Dev("insert", "over") \/ Dev("refs_before", "lie")
      \/ Dev("type_before", "lie") \/ Dev("send", "lost") \/ Dev("send", "skip")
      \/ Dev("refs_sent", "lie") \/ Dev("type_sent", "lie") \/ Dev("receive", "lie")
      \/ Dev("receive", "over") \/ Dev("refs_received", "lie") \/ Dev("type_received", "lie")
      \/ Dev("use_send", "lost") \/ Dev("use_send", "over") \/ Dev("use_receive", "lie")
      \/ Dev("use_refs", "lie") \/ Dev("destroy", "skip") \/ Dev("after", "lie")
  BY HeaderMoveDevs DEF IInv, Base, TypeOK
<1>3. dev = Conforms => dev \in Overlooked("header_move", names)
  BY DEF Overlooked
<1>4. /\ ~Dev("alloc", "skip") /\ ~Dev("insert", "skip") /\ ~Dev("insert", "over")
      /\ ~Dev("refs_before", "lie") /\ ~Dev("type_before", "lie") /\ ~Dev("send", "lost")
      /\ ~Dev("send", "skip") /\ ~Dev("refs_sent", "lie") /\ ~Dev("type_sent", "lie")
      /\ ~Dev("receive", "lie") /\ ~Dev("receive", "over") /\ ~Dev("refs_received", "lie")
      /\ ~Dev("type_received", "lie")
  BY <1>1
     DEF HeaderMoveHeld, HeaderBeginSeen, HeaderBeginHeld
<1>5. ASSUME \/ Dev("use_send", "over") \/ Dev("use_receive", "lie") \/ Dev("use_refs", "lie")
      PROVE  dev \in Overlooked("header_move", names)
  <2>1. dev \in Unjudged("header_move")
    BY <1>5, DevIn DEF Unjudged
  <2> QED
    BY <2>1 DEF Overlooked
<1>6. ASSUME names = "gap",
             \/ Dev("before", "lie") \/ Dev("destroy", "skip") \/ Dev("after", "lie")
      PROVE  dev \in Overlooked("header_move", names)
  <2>1. dev \in NamesOnly
    BY <1>6, DevIn DEF NamesOnly
  <2> QED
    BY <1>6, <2>1 DEF Overlooked
<1>7. ASSUME names = "ok"
      PROVE  /\ ~Dev("before", "lie") /\ ~Dev("destroy", "skip") /\ ~Dev("after", "lie")
  <2>1. (\A m \in Names : ~Exists(own[m])) /\ ~Dev("before", "lie") /\ ~Dev("after", "lie")
    BY <1>1, <1>7, BaselineClean DEF LastOf
  <2> QED
    BY <1>1, <2>1
       DEF HeaderMoveHeld, HeaderBeginSeen, HeaderBeginHeld, Names, Exists, Destroyed
<1>8. names \in {"ok", "gap"}
  BY DEF IInv, Base, TypeOK
<1> QED
  BY <1>2, <1>3, <1>4, <1>5, <1>6, <1>7, <1>8

\* If that call was made the kernel conformed in it.
LEMMA HeaderMoveMade ==
  ASSUME IInv, ~Running, probe = "header_move", Judgement("header_move") = Pass, Made("use_send")
  PROVE  ~Dev("use_send", "lost")
<1>1. pc = 17 /\ HeaderMoveSeen /\ HeaderMoveHeld /\ BaselineOk("before", "after")
  BY HeaderMovePasses
<1>2. ASSUME Dev("use_send", "lost") PROVE FALSE
  <2>1. PICK i \in 1..16 : HeaderMoveSteps[i].as = "use_send" /\ Ready(HeaderMoveSteps[i])
    BY HeaderMoveListed DEF Made, Listed
  <2>2. HeaderMoveSteps[12] =
          Do("use_send", "send_copy", "service", {"refs_received", "type_received"})
    BY DEF HeaderMoveSteps, HeaderSteps
  <2>3. i = 12
    BY <2>1, <2>2, HeaderMoveListed DEF Listed, Do
  <2>4. Ready(Do("use_send", "send_copy", "service", {"refs_received", "type_received"}))
    BY <2>1, <2>2, <2>3
  <2> QED
    BY <1>1, <1>2, <2>4 DEF Ready, Do, AllOk, Ok, UsabilityAttempted, HeaderMoveSeen, HeaderMoveHeld
<1> QED
  BY <1>2

\* header_move passes a kernel that conforms and fails no call.
LEMMA HeaderMoveNoAlarm ==
  ASSUME IInv, ~Running, probe = "header_move", Quiet
  PROVE  Judgement("header_move") = Pass
<1>1. pc = 17
  BY HeaderMoveListed, EndOf DEF IInv
<1>2. HeaderMoveSeen /\ HeaderMoveHeld
  BY DEF IInv, ProbesInv, HeaderMoveInv, Follows
<1>3. \A m \in Names : ~Exists(own[m])
  BY <1>1, <1>2
     DEF HeaderMoveHeld, HeaderBeginSeen, HeaderBeginHeld, Quiet, Conforms, Dev, Exists, Names,
         Nothing, Hold, Destroyed, Rest
<1>4. BaselineOk("before", "after") /\ ~Blocks(obs["before"].kr) /\ ~Blocks(obs["after"].kr)
  BY <1>3, BaselineQuiet DEF LastOf
<1>5. HeaderMoveJudge = Pass
  BY <1>1, <1>2, <1>4
     DEF HeaderMoveJudge, OneSendRight, UsabilityAttempted, HasSend, JudgeEnd, AllOk, Ok,
         HeaderMoveSeen, HeaderBeginSeen, Shows, Counted, TypeMatchesRefs
<1> QED
  BY <1>5, Zenon DEF Judgement

\* The deviations that double_move may meet.
LEMMA DoubleMoveDevs ==
  ASSUME dev \in Devs("double_move")
  PROVE  \/ dev = Conforms \/ Dev("before", "lie") \/ Dev("alloc", "skip")
         \/ Dev("insert", "skip") \/ Dev("insert", "over") \/ Dev("alloc_cargo", "skip")
         \/ Dev("insert_cargo", "skip") \/ Dev("insert_cargo", "over") \/ Dev("type_before", "lie")
         \/ Dev("refs_before", "lie") \/ Dev("send", "lost") \/ Dev("send", "over")
         \/ Dev("type_sent", "lie") \/ Dev("refs_sent", "lie") \/ Dev("receive", "lie")
         \/ Dev("receive", "over") \/ Dev("first", "skip") \/ Dev("second", "skip")
         \/ Dev("type_received", "lie") \/ Dev("refs_received", "lie")
         \/ Dev("destroy_cargo", "skip")
         \/ Dev("destroy", "skip") \/ Dev("after", "lie")
<1>1. Steps("double_move") = DoubleMoveSteps /\ DOMAIN DoubleMoveSteps = 1..18
  BY DoubleMoveListed DEF Listed
<1>2. SUFFICES ASSUME NEW i \in 1..18, NEW z \in Deviations(DoubleMoveSteps[i].call),
                      dev = [at |-> DoubleMoveSteps[i].as, kind |-> z]
      PROVE  \/ Dev("before", "lie") \/ Dev("alloc", "skip") \/ Dev("insert", "skip")
             \/ Dev("insert", "over") \/ Dev("alloc_cargo", "skip") \/ Dev("insert_cargo", "skip")
             \/ Dev("insert_cargo", "over") \/ Dev("type_before", "lie")
             \/ Dev("refs_before", "lie")
             \/ Dev("send", "lost") \/ Dev("send", "over") \/ Dev("type_sent", "lie")
             \/ Dev("refs_sent", "lie") \/ Dev("receive", "lie") \/ Dev("receive", "over")
             \/ Dev("first", "skip") \/ Dev("second", "skip") \/ Dev("type_received", "lie")
             \/ Dev("refs_received", "lie") \/ Dev("destroy_cargo", "skip")
             \/ Dev("destroy", "skip")
             \/ Dev("after", "lie")
  BY <1>1 DEF Devs
<1>3. i = 1 => Dev("before", "lie")
  BY <1>2, DeviationsAre DEF DoubleMoveSteps, CargoSetup, CargoCleanup, Do, Dev
<1>4. i = 2 => Dev("alloc", "skip")
  BY <1>2, DeviationsAre DEF DoubleMoveSteps, CargoSetup, CargoCleanup, Do, Dev
<1>5. i = 3 => Dev("insert", "skip") \/ Dev("insert", "over")
  BY <1>2, DeviationsAre DEF DoubleMoveSteps, CargoSetup, CargoCleanup, Do, Dev
<1>6. i = 4 => Dev("alloc_cargo", "skip")
  BY <1>2, DeviationsAre DEF DoubleMoveSteps, CargoSetup, CargoCleanup, Do, Dev
<1>7. i = 5 => Dev("insert_cargo", "skip") \/ Dev("insert_cargo", "over")
  BY <1>2, DeviationsAre DEF DoubleMoveSteps, CargoSetup, CargoCleanup, Do, Dev
<1>8. i = 6 => Dev("type_before", "lie")
  BY <1>2, DeviationsAre DEF DoubleMoveSteps, CargoSetup, CargoCleanup, Do, Dev
<1>9. i = 7 => Dev("refs_before", "lie")
  BY <1>2, DeviationsAre DEF DoubleMoveSteps, CargoSetup, CargoCleanup, Do, Dev
<1>10. i = 8 => Dev("send", "lost") \/ Dev("send", "over")
  BY <1>2, DeviationsAre DEF DoubleMoveSteps, CargoSetup, CargoCleanup, Do, Dev
<1>11. i = 9 => Dev("type_sent", "lie")
  BY <1>2, DeviationsAre DEF DoubleMoveSteps, CargoSetup, CargoCleanup, Do, Dev
<1>12. i = 10 => Dev("refs_sent", "lie")
  BY <1>2, DeviationsAre DEF DoubleMoveSteps, CargoSetup, CargoCleanup, Do, Dev
<1>13. i = 11 => Dev("receive", "lie") \/ Dev("receive", "over")
  BY <1>2, DeviationsAre DEF DoubleMoveSteps, CargoSetup, CargoCleanup, Do, Dev
<1>14. i = 12 => Dev("first", "skip")
  BY <1>2, DeviationsAre DEF DoubleMoveSteps, CargoSetup, CargoCleanup, Do, Dev
<1>15. i = 13 => Dev("second", "skip")
  BY <1>2, DeviationsAre DEF DoubleMoveSteps, CargoSetup, CargoCleanup, Do, Dev
<1>16. i = 14 => Dev("type_received", "lie")
  BY <1>2, DeviationsAre DEF DoubleMoveSteps, CargoSetup, CargoCleanup, Do, Dev
<1>17. i = 15 => Dev("refs_received", "lie")
  BY <1>2, DeviationsAre DEF DoubleMoveSteps, CargoSetup, CargoCleanup, Do, Dev
<1>18. i = 16 => Dev("destroy_cargo", "skip")
  BY <1>2, DeviationsAre DEF DoubleMoveSteps, CargoSetup, CargoCleanup, Do, Dev
<1>19. i = 17 => Dev("destroy", "skip")
  BY <1>2, DeviationsAre DEF DoubleMoveSteps, CargoSetup, CargoCleanup, Do, Dev
<1>20. i = 18 => Dev("after", "lie")
  BY <1>2, DeviationsAre DEF DoubleMoveSteps, CargoSetup, CargoCleanup, Do, Dev
<1> QED
  BY <1>3, <1>4, <1>5, <1>6, <1>7, <1>8, <1>9, <1>10, <1>11, <1>12, <1>13, <1>14, <1>15, <1>16,
     <1>17, <1>18, <1>19, <1>20

\* double_move passes only when it has seen all it demands and its baselines compare equal.
LEMMA DoubleMovePasses ==
  ASSUME IInv, ~Running, probe = "double_move", Judgement("double_move") = Pass
  PROVE  pc = 19 /\ DoubleMoveSeen /\ DoubleMoveHeld /\ BaselineOk("before", "after")
<1>1. pc = 19
  BY DoubleMoveListed, EndOf DEF IInv
<1>2. DoubleMoveJudge = Pass
  BY Zenon DEF Judgement
<1>3. DoubleMoveSeen /\ BaselineOk("before", "after")
  BY <1>1, <1>2
     DEF DoubleMoveJudge, JudgeEnd, Pass, Accuse, Unclean, ProbeFailure, Is, AllOk, Ok,
         DoubleMoveSeen, CargoSeen
<1>4. DoubleMoveHeld
  BY <1>3 DEF IInv, ProbesInv, DoubleMoveInv, Follows
<1> QED
  BY <1>1, <1>3, <1>4

\* A pass of double_move is sound.
LEMMA DoubleMoveSound ==
  ASSUME IInv, ~Running, probe = "double_move", Judgement("double_move") = Pass
  PROVE  dev \in Overlooked("double_move", names)
<1>1. pc = 19 /\ DoubleMoveSeen /\ DoubleMoveHeld /\ BaselineOk("before", "after")
  BY DoubleMovePasses
<1>2. \/ dev = Conforms \/ Dev("before", "lie") \/ Dev("alloc", "skip")
      \/ Dev("insert", "skip") \/ Dev("insert", "over") \/ Dev("alloc_cargo", "skip")
      \/ Dev("insert_cargo", "skip") \/ Dev("insert_cargo", "over") \/ Dev("type_before", "lie")
      \/ Dev("refs_before", "lie") \/ Dev("send", "lost") \/ Dev("send", "over")
      \/ Dev("type_sent", "lie") \/ Dev("refs_sent", "lie") \/ Dev("receive", "lie")
      \/ Dev("receive", "over") \/ Dev("first", "skip") \/ Dev("second", "skip")
      \/ Dev("type_received", "lie") \/ Dev("refs_received", "lie") \/ Dev("destroy_cargo", "skip")
      \/ Dev("destroy", "skip") \/ Dev("after", "lie")
  BY DoubleMoveDevs DEF IInv, Base, TypeOK
<1>3. dev = Conforms => dev \in Overlooked("double_move", names)
  BY DEF Overlooked
<1>4. /\ ~Dev("alloc", "skip") /\ ~Dev("alloc_cargo", "skip") /\ ~Dev("send", "lost")
      /\ ~Dev("send", "over")
  BY <1>1
     DEF DoubleMoveHeld, CargoSeen, CargoHeld
<1>5. ASSUME \/ Dev("insert", "skip") \/ Dev("insert", "over") \/ Dev("insert_cargo", "skip")
             \/ Dev("insert_cargo", "over") \/ Dev("type_before", "lie")
             \/ Dev("refs_before", "lie")
             \/ Dev("type_sent", "lie") \/ Dev("refs_sent", "lie") \/ Dev("receive", "lie")
             \/ Dev("receive", "over") \/ Dev("first", "skip") \/ Dev("second", "skip")
             \/ Dev("type_received", "lie") \/ Dev("refs_received", "lie")
      PROVE  dev \in Overlooked("double_move", names)
  <2>1. dev \in Unjudged("double_move")
    BY <1>5, DevIn DEF Unjudged
  <2> QED
    BY <2>1 DEF Overlooked
<1>6. ASSUME names = "gap",
             \/ Dev("before", "lie") \/ Dev("destroy_cargo", "skip") \/ Dev("destroy", "skip")
             \/ Dev("after", "lie")
      PROVE  dev \in Overlooked("double_move", names)
  <2>1. dev \in NamesOnly
    BY <1>6, DevIn DEF NamesOnly
  <2> QED
    BY <1>6, <2>1 DEF Overlooked
<1>7. ASSUME names = "ok"
      PROVE  /\ ~Dev("before", "lie") /\ ~Dev("destroy_cargo", "skip") /\ ~Dev("destroy", "skip")
             /\ ~Dev("after", "lie")
  <2>1. (\A m \in Names : ~Exists(own[m])) /\ ~Dev("before", "lie") /\ ~Dev("after", "lie")
    BY <1>1, <1>7, BaselineClean DEF LastOf
  <2> QED
    BY <1>1, <2>1
       DEF DoubleMoveHeld, CargoSeen, CargoHeld, Names, Exists, Destroyed
<1>8. names \in {"ok", "gap"}
  BY DEF IInv, Base, TypeOK
<1> QED
  BY <1>2, <1>3, <1>4, <1>5, <1>6, <1>7, <1>8

\* double_move passes a kernel that conforms and fails no call.
LEMMA DoubleMoveNoAlarm ==
  ASSUME IInv, ~Running, probe = "double_move", Quiet
  PROVE  Judgement("double_move") = Pass
<1>1. pc = 19
  BY DoubleMoveListed, EndOf DEF IInv
<1>2. DoubleMoveSeen /\ DoubleMoveHeld
  BY DEF IInv, ProbesInv, DoubleMoveInv, Follows
<1>3. \A m \in Names : ~Exists(own[m])
  BY <1>1, <1>2
     DEF DoubleMoveHeld, CargoSeen, CargoHeld, Quiet, Conforms, Dev, Exists, Names, Nothing,
         Hold, Destroyed, Rest
<1>4. BaselineOk("before", "after") /\ ~Blocks(obs["before"].kr) /\ ~Blocks(obs["after"].kr)
  BY <1>3, BaselineQuiet DEF LastOf
<1>5. DoubleMoveJudge = Pass
  BY <1>1, <1>2, <1>4
     DEF DoubleMoveJudge, JudgeEnd, AllOk, Ok, DoubleMoveSeen, CargoSeen
<1> QED
  BY <1>5, Zenon DEF Judgement

\* The deviations that dead_name may meet.
LEMMA DeadNameDevs ==
  ASSUME dev \in Devs("dead_name")
  PROVE  \/ dev = Conforms \/ Dev("before", "lie") \/ Dev("alloc", "skip")
         \/ Dev("insert", "skip") \/ Dev("insert", "over") \/ Dev("alloc_dead", "skip")
         \/ Dev("type_before", "lie") \/ Dev("refs_before", "lie") \/ Dev("send", "lost")
         \/ Dev("send", "skip") \/ Dev("type_after", "lie") \/ Dev("refs_after", "lie")
         \/ Dev("receive", "lie") \/ Dev("receive", "over") \/ Dev("first", "skip")
         \/ Dev("destroy", "skip") \/ Dev("after", "lie") \/ Dev("before2", "lie")
         \/ Dev("alloc2", "skip") \/ Dev("insert2", "skip") \/ Dev("insert2", "over")
         \/ Dev("type_before2", "lie") \/ Dev("refs_before2", "lie") \/ Dev("send2", "lie")
         \/ Dev("type_after2", "lie") \/ Dev("refs_after2", "lie") \/ Dev("receive2", "lie")
         \/ Dev("destroy2", "skip") \/ Dev("after2", "lie")
<1>1. Steps("dead_name") = DeadNameSteps /\ DOMAIN DeadNameSteps = 1..25
  BY DeadNameListed DEF Listed
<1>2. SUFFICES ASSUME NEW i \in 1..25, NEW z \in Deviations(DeadNameSteps[i].call),
                      dev = [at |-> DeadNameSteps[i].as, kind |-> z]
      PROVE  \/ Dev("before", "lie") \/ Dev("alloc", "skip") \/ Dev("insert", "skip")
             \/ Dev("insert", "over") \/ Dev("alloc_dead", "skip") \/ Dev("type_before", "lie")
             \/ Dev("refs_before", "lie") \/ Dev("send", "lost") \/ Dev("send", "skip")
             \/ Dev("type_after", "lie") \/ Dev("refs_after", "lie") \/ Dev("receive", "lie")
             \/ Dev("receive", "over") \/ Dev("first", "skip") \/ Dev("destroy", "skip")
             \/ Dev("after", "lie") \/ Dev("before2", "lie") \/ Dev("alloc2", "skip")
             \/ Dev("insert2", "skip") \/ Dev("insert2", "over") \/ Dev("type_before2", "lie")
             \/ Dev("refs_before2", "lie") \/ Dev("send2", "lie") \/ Dev("type_after2", "lie")
             \/ Dev("refs_after2", "lie") \/ Dev("receive2", "lie") \/ Dev("destroy2", "skip")
             \/ Dev("after2", "lie")
  BY <1>1 DEF Devs
<1>3. i = 1 => Dev("before", "lie")
  BY <1>2, DeviationsAre DEF DeadNameSteps, DeadCase, NonexistentCase, Do, Dev
<1>4. i = 2 => Dev("alloc", "skip")
  BY <1>2, DeviationsAre DEF DeadNameSteps, DeadCase, NonexistentCase, Do, Dev
<1>5. i = 3 => Dev("insert", "skip") \/ Dev("insert", "over")
  BY <1>2, DeviationsAre DEF DeadNameSteps, DeadCase, NonexistentCase, Do, Dev
<1>6. i = 4 => Dev("alloc_dead", "skip")
  BY <1>2, DeviationsAre DEF DeadNameSteps, DeadCase, NonexistentCase, Do, Dev
<1>7. i = 5 => Dev("type_before", "lie")
  BY <1>2, DeviationsAre DEF DeadNameSteps, DeadCase, NonexistentCase, Do, Dev
<1>8. i = 6 => Dev("refs_before", "lie")
  BY <1>2, DeviationsAre DEF DeadNameSteps, DeadCase, NonexistentCase, Do, Dev
<1>9. i = 7 => Dev("send", "lost") \/ Dev("send", "skip")
  BY <1>2, DeviationsAre DEF DeadNameSteps, DeadCase, NonexistentCase, Do, Dev
<1>10. i = 8 => Dev("type_after", "lie")
  BY <1>2, DeviationsAre DEF DeadNameSteps, DeadCase, NonexistentCase, Do, Dev
<1>11. i = 9 => Dev("refs_after", "lie")
  BY <1>2, DeviationsAre DEF DeadNameSteps, DeadCase, NonexistentCase, Do, Dev
<1>12. i = 10 => Dev("receive", "lie") \/ Dev("receive", "over")
  BY <1>2, DeviationsAre DEF DeadNameSteps, DeadCase, NonexistentCase, Do, Dev
<1>13. i = 11 => Dev("first", "skip")
  BY <1>2, DeviationsAre DEF DeadNameSteps, DeadCase, NonexistentCase, Do, Dev
<1>14. i = 12 => FALSE
  BY <1>2, DeviationsAre DEF DeadNameSteps, DeadCase, NonexistentCase, Do, Dev
<1>15. i = 13 => Dev("destroy", "skip")
  BY <1>2, DeviationsAre DEF DeadNameSteps, DeadCase, NonexistentCase, Do, Dev
<1>16. i = 14 => Dev("after", "lie")
  BY <1>2, DeviationsAre DEF DeadNameSteps, DeadCase, NonexistentCase, Do, Dev
<1>17. i = 15 => Dev("before2", "lie")
  BY <1>2, DeviationsAre DEF DeadNameSteps, DeadCase, NonexistentCase, Do, Dev
<1>18. i = 16 => Dev("alloc2", "skip")
  BY <1>2, DeviationsAre DEF DeadNameSteps, DeadCase, NonexistentCase, Do, Dev
<1>19. i = 17 => Dev("insert2", "skip") \/ Dev("insert2", "over")
  BY <1>2, DeviationsAre DEF DeadNameSteps, DeadCase, NonexistentCase, Do, Dev
<1>20. i = 18 => Dev("type_before2", "lie")
  BY <1>2, DeviationsAre DEF DeadNameSteps, DeadCase, NonexistentCase, Do, Dev
<1>21. i = 19 => Dev("refs_before2", "lie")
  BY <1>2, DeviationsAre DEF DeadNameSteps, DeadCase, NonexistentCase, Do, Dev
<1>22. i = 20 => Dev("send2", "lie")
  BY <1>2, DeviationsAre DEF DeadNameSteps, DeadCase, NonexistentCase, Do, Dev
<1>23. i = 21 => Dev("type_after2", "lie")
  BY <1>2, DeviationsAre DEF DeadNameSteps, DeadCase, NonexistentCase, Do, Dev
<1>24. i = 22 => Dev("refs_after2", "lie")
  BY <1>2, DeviationsAre DEF DeadNameSteps, DeadCase, NonexistentCase, Do, Dev
<1>25. i = 23 => Dev("receive2", "lie")
  BY <1>2, DeviationsAre DEF DeadNameSteps, DeadCase, NonexistentCase, Do, Dev
<1>26. i = 24 => Dev("destroy2", "skip")
  BY <1>2, DeviationsAre DEF DeadNameSteps, DeadCase, NonexistentCase, Do, Dev
<1>27. i = 25 => Dev("after2", "lie")
  BY <1>2, DeviationsAre DEF DeadNameSteps, DeadCase, NonexistentCase, Do, Dev
<1> QED
  BY <1>3, <1>4, <1>5, <1>6, <1>7, <1>8, <1>9, <1>10, <1>11, <1>12, <1>13, <1>14, <1>15, <1>16,
     <1>17, <1>18, <1>19, <1>20, <1>21, <1>22, <1>23, <1>24, <1>25, <1>26, <1>27

\* dead_name passes only when it has seen all it demands and its baselines compare equal.
LEMMA DeadNamePasses ==
  ASSUME IInv, ~Running, probe = "dead_name", Judgement("dead_name") = Pass
  PROVE  /\ pc = 26 /\ DeadNameSeen /\ DeadNameHeld /\ BaselineOk("before", "after")
         /\ BaselineOk("before2", "after2")
<1>1. pc = 26
  BY DeadNameListed, EndOf DEF IInv
<1>2. DeadNameJudge = Pass
  BY Zenon DEF Judgement
<1>3. DeadNameSeen /\ BaselineOk("before", "after") /\ BaselineOk("before2", "after2")
  BY <1>1, <1>2
     DEF DeadNameJudge, CaseOk, ConsumedAndDelivered, NonexistentRejected, Pass, Accuse,
         Unclean, ProbeFailure, Is, AllOk, Ok, DeadNameSeen, Shows, Counted, Absent
<1>4. DeadNameHeld
  BY <1>3 DEF IInv, ProbesInv, DeadNameInv, Follows
<1> QED
  BY <1>1, <1>3, <1>4

\* A pass of dead_name is sound.
LEMMA DeadNameSound ==
  ASSUME IInv, ~Running, probe = "dead_name", Judgement("dead_name") = Pass
  PROVE  dev \in Overlooked("dead_name", names)
<1>1. /\ pc = 26 /\ DeadNameSeen /\ DeadNameHeld /\ BaselineOk("before", "after")
      /\ BaselineOk("before2", "after2")
  BY DeadNamePasses
<1>2. \/ dev = Conforms \/ Dev("before", "lie") \/ Dev("alloc", "skip")
      \/ Dev("insert", "skip") \/ Dev("insert", "over") \/ Dev("alloc_dead", "skip")
      \/ Dev("type_before", "lie") \/ Dev("refs_before", "lie") \/ Dev("send", "lost")
      \/ Dev("send", "skip") \/ Dev("type_after", "lie") \/ Dev("refs_after", "lie")
      \/ Dev("receive", "lie") \/ Dev("receive", "over") \/ Dev("first", "skip")
      \/ Dev("destroy", "skip") \/ Dev("after", "lie") \/ Dev("before2", "lie")
      \/ Dev("alloc2", "skip") \/ Dev("insert2", "skip") \/ Dev("insert2", "over")
      \/ Dev("type_before2", "lie") \/ Dev("refs_before2", "lie") \/ Dev("send2", "lie")
      \/ Dev("type_after2", "lie") \/ Dev("refs_after2", "lie") \/ Dev("receive2", "lie")
      \/ Dev("destroy2", "skip") \/ Dev("after2", "lie")
  BY DeadNameDevs DEF IInv, Base, TypeOK
<1>3. dev = Conforms => dev \in Overlooked("dead_name", names)
  BY DEF Overlooked
<1>4. /\ ~Dev("alloc", "skip") /\ ~Dev("insert", "skip") /\ ~Dev("alloc_dead", "skip")
      /\ ~Dev("type_before", "lie") /\ ~Dev("refs_before", "lie") /\ ~Dev("send", "lost")
      /\ ~Dev("send", "skip") /\ ~Dev("type_after", "lie") /\ ~Dev("refs_after", "lie")
      /\ ~Dev("alloc2", "skip") /\ ~Dev("insert2", "skip") /\ ~Dev("type_before2", "lie")
      /\ ~Dev("refs_before2", "lie") /\ ~Dev("send2", "lie") /\ ~Dev("type_after2", "lie")
      /\ ~Dev("refs_after2", "lie") /\ ~Dev("receive2", "lie")
  BY <1>1
     DEF DeadNameHeld, DeadHeld, NonexistentHeld
<1>5. ASSUME \/ Dev("insert", "over") \/ Dev("receive", "lie") \/ Dev("insert2", "over")
      PROVE  dev \in Overlooked("dead_name", names)
  <2>1. dev \in Unjudged("dead_name")
    BY <1>5, DevIn DEF Unjudged
  <2> QED
    BY <2>1 DEF Overlooked
<1>6. ASSUME names = "gap",
             \/ Dev("before", "lie") \/ Dev("receive", "over") \/ Dev("first", "skip")
             \/ Dev("destroy", "skip") \/ Dev("after", "lie") \/ Dev("before2", "lie")
             \/ Dev("destroy2", "skip") \/ Dev("after2", "lie")
      PROVE  dev \in Overlooked("dead_name", names)
  <2>1. dev \in NamesOnly
    BY <1>6, DevIn DEF NamesOnly
  <2> QED
    BY <1>6, <2>1 DEF Overlooked
<1>7. ASSUME names = "ok"
      PROVE  /\ ~Dev("before", "lie") /\ ~Dev("receive", "over") /\ ~Dev("first", "skip")
             /\ ~Dev("destroy", "skip") /\ ~Dev("after", "lie") /\ ~Dev("before2", "lie")
             /\ ~Dev("destroy2", "skip") /\ ~Dev("after2", "lie")
  <2>1. (\A m \in Names : ~Exists(own[m])) /\ ~Dev("before", "lie") /\ ~Dev("after", "lie")
        /\ ~Dev("before2", "lie") /\ ~Dev("after2", "lie")
    BY <1>1, <1>7, DeadNameClean DEF LastOf
  <2> QED
    BY <1>1, <2>1
       DEF DeadNameHeld, DeadHeld, NonexistentHeld, Names, Exists, Destroyed, Hold, DeadName
<1>8. names \in {"ok", "gap"}
  BY DEF IInv, Base, TypeOK
<1> QED
  BY <1>2, <1>3, <1>4, <1>5, <1>6, <1>7, <1>8

\* dead_name passes a kernel that conforms and fails no call.
LEMMA DeadNameNoAlarm ==
  ASSUME IInv, ~Running, probe = "dead_name", Quiet
  PROVE  Judgement("dead_name") = Pass
<1>1. pc = 26
  BY DeadNameListed, EndOf DEF IInv
<1>2. DeadNameSeen /\ DeadNameHeld
  BY DEF IInv, ProbesInv, DeadNameInv, Follows
<1>3. \A m \in Names : ~Exists(own[m])
  BY <1>1, <1>2
     DEF DeadNameHeld, DeadHeld, NonexistentHeld, Quiet, Conforms, Dev, Exists, Names, Nothing,
         Hold, Destroyed, Rest
<1>4. /\ BaselineOk("before", "after") /\ ~Blocks(obs["before"].kr) /\ ~Blocks(obs["after"].kr)
      /\ BaselineOk("before2", "after2") /\ ~Blocks(obs["before2"].kr) /\ ~Blocks(obs["after2"].kr)
  BY <1>3, <1>1, <1>2, DeadNameQuiet DEF LastOf
<1>5. DeadNameJudge = Pass
  BY <1>1, <1>2, <1>4
     DEF DeadNameJudge, CaseOk, ConsumedAndDelivered, NonexistentRejected, AllOk, Ok,
         DeadNameSeen, Shows, Counted, Absent
<1> QED
  BY <1>5, Zenon DEF Judgement

\* The deviations that invalid_disposition may meet.
LEMMA InvalidDispositionDevs ==
  ASSUME dev \in Devs("invalid_disposition")
  PROVE  \/ dev = Conforms \/ Dev("before", "lie") \/ Dev("alloc", "skip")
         \/ Dev("insert", "skip") \/ Dev("insert", "over") \/ Dev("alloc_cargo", "skip")
         \/ Dev("insert_cargo", "skip") \/ Dev("insert_cargo", "over")
         \/ Dev("service_before", "lie")
         \/ Dev("refs_before", "lie") \/ Dev("type_before", "lie") \/ Dev("send", "lie")
         \/ Dev("send", "over") \/ Dev("service_after", "lie") \/ Dev("refs_after", "lie")
         \/ Dev("type_after", "lie") \/ Dev("receive", "lie") \/ Dev("receive", "over")
         \/ Dev("first", "skip") \/ Dev("destroy_cargo", "skip") \/ Dev("destroy", "skip")
         \/ Dev("after", "lie")
<1>1. /\ Steps("invalid_disposition") = InvalidDispositionSteps
      /\ DOMAIN InvalidDispositionSteps = 1..17
  BY InvalidDispositionListed DEF Listed
<1>2. SUFFICES ASSUME NEW i \in 1..17, NEW z \in Deviations(InvalidDispositionSteps[i].call),
                      dev = [at |-> InvalidDispositionSteps[i].as, kind |-> z]
      PROVE  \/ Dev("before", "lie") \/ Dev("alloc", "skip") \/ Dev("insert", "skip")
             \/ Dev("insert", "over") \/ Dev("alloc_cargo", "skip") \/ Dev("insert_cargo", "skip")
             \/ Dev("insert_cargo", "over") \/ Dev("service_before", "lie")
             \/ Dev("refs_before", "lie")
             \/ Dev("type_before", "lie") \/ Dev("send", "lie") \/ Dev("send", "over")
             \/ Dev("service_after", "lie") \/ Dev("refs_after", "lie") \/ Dev("type_after", "lie")
             \/ Dev("receive", "lie") \/ Dev("receive", "over") \/ Dev("first", "skip")
             \/ Dev("destroy_cargo", "skip") \/ Dev("destroy", "skip") \/ Dev("after", "lie")
  BY <1>1 DEF Devs
<1>3. i = 1 => Dev("before", "lie")
  BY <1>2, DeviationsAre DEF InvalidDispositionSteps, CargoSetup, CargoCleanup, Do, Dev
<1>4. i = 2 => Dev("alloc", "skip")
  BY <1>2, DeviationsAre DEF InvalidDispositionSteps, CargoSetup, CargoCleanup, Do, Dev
<1>5. i = 3 => Dev("insert", "skip") \/ Dev("insert", "over")
  BY <1>2, DeviationsAre DEF InvalidDispositionSteps, CargoSetup, CargoCleanup, Do, Dev
<1>6. i = 4 => Dev("alloc_cargo", "skip")
  BY <1>2, DeviationsAre DEF InvalidDispositionSteps, CargoSetup, CargoCleanup, Do, Dev
<1>7. i = 5 => Dev("insert_cargo", "skip") \/ Dev("insert_cargo", "over")
  BY <1>2, DeviationsAre DEF InvalidDispositionSteps, CargoSetup, CargoCleanup, Do, Dev
<1>8. i = 6 => Dev("service_before", "lie")
  BY <1>2, DeviationsAre DEF InvalidDispositionSteps, CargoSetup, CargoCleanup, Do, Dev
<1>9. i = 7 => Dev("refs_before", "lie")
  BY <1>2, DeviationsAre DEF InvalidDispositionSteps, CargoSetup, CargoCleanup, Do, Dev
<1>10. i = 8 => Dev("type_before", "lie")
  BY <1>2, DeviationsAre DEF InvalidDispositionSteps, CargoSetup, CargoCleanup, Do, Dev
<1>11. i = 9 => Dev("send", "lie") \/ Dev("send", "over")
  BY <1>2, DeviationsAre DEF InvalidDispositionSteps, CargoSetup, CargoCleanup, Do, Dev
<1>12. i = 10 => Dev("service_after", "lie")
  BY <1>2, DeviationsAre DEF InvalidDispositionSteps, CargoSetup, CargoCleanup, Do, Dev
<1>13. i = 11 => Dev("refs_after", "lie")
  BY <1>2, DeviationsAre DEF InvalidDispositionSteps, CargoSetup, CargoCleanup, Do, Dev
<1>14. i = 12 => Dev("type_after", "lie")
  BY <1>2, DeviationsAre DEF InvalidDispositionSteps, CargoSetup, CargoCleanup, Do, Dev
<1>15. i = 13 => Dev("receive", "lie") \/ Dev("receive", "over")
  BY <1>2, DeviationsAre DEF InvalidDispositionSteps, CargoSetup, CargoCleanup, Do, Dev
<1>16. i = 14 => Dev("first", "skip")
  BY <1>2, DeviationsAre DEF InvalidDispositionSteps, CargoSetup, CargoCleanup, Do, Dev
<1>17. i = 15 => Dev("destroy_cargo", "skip")
  BY <1>2, DeviationsAre DEF InvalidDispositionSteps, CargoSetup, CargoCleanup, Do, Dev
<1>18. i = 16 => Dev("destroy", "skip")
  BY <1>2, DeviationsAre DEF InvalidDispositionSteps, CargoSetup, CargoCleanup, Do, Dev
<1>19. i = 17 => Dev("after", "lie")
  BY <1>2, DeviationsAre DEF InvalidDispositionSteps, CargoSetup, CargoCleanup, Do, Dev
<1> QED
  BY <1>3, <1>4, <1>5, <1>6, <1>7, <1>8, <1>9, <1>10, <1>11, <1>12, <1>13, <1>14, <1>15, <1>16,
     <1>17, <1>18, <1>19

\* invalid_disposition passes only when it has seen all it demands and its baselines compare equal.
LEMMA InvalidDispositionPasses ==
  ASSUME IInv, ~Running, probe = "invalid_disposition", Judgement("invalid_disposition") = Pass
  PROVE  /\ pc = 18 /\ InvalidDispositionSeen /\ InvalidDispositionHeld
         /\ BaselineOk("before", "after")
<1>1. pc = 18
  BY InvalidDispositionListed, EndOf DEF IInv
<1>2. InvalidDispositionJudge = Pass
  BY Zenon DEF Judgement
<1>3. InvalidDispositionSeen /\ BaselineOk("before", "after")
  BY <1>1, <1>2
     DEF InvalidDispositionJudge, JudgeEnd, Pass, Accuse, Unclean, ProbeFailure, Is, AllOk, Ok,
         InvalidDispositionSeen, CargoSeen, SameRefs, SameType
<1>4. InvalidDispositionHeld
  BY <1>3 DEF IInv, ProbesInv, InvalidDispositionInv, Follows
<1> QED
  BY <1>1, <1>3, <1>4

\* A pass of invalid_disposition is sound, but for a call it may not have made.
LEMMA InvalidDispositionSound ==
  ASSUME IInv, ~Running, probe = "invalid_disposition", Judgement("invalid_disposition") = Pass
  PROVE  dev \in Overlooked("invalid_disposition", names) \/ Dev("first", "skip")
<1>1. pc = 18 /\ InvalidDispositionSeen /\ InvalidDispositionHeld /\ BaselineOk("before", "after")
  BY InvalidDispositionPasses
<1>2. \/ dev = Conforms \/ Dev("before", "lie") \/ Dev("alloc", "skip")
      \/ Dev("insert", "skip") \/ Dev("insert", "over") \/ Dev("alloc_cargo", "skip")
      \/ Dev("insert_cargo", "skip") \/ Dev("insert_cargo", "over") \/ Dev("service_before", "lie")
      \/ Dev("refs_before", "lie") \/ Dev("type_before", "lie") \/ Dev("send", "lie")
      \/ Dev("send", "over") \/ Dev("service_after", "lie") \/ Dev("refs_after", "lie")
      \/ Dev("type_after", "lie") \/ Dev("receive", "lie") \/ Dev("receive", "over")
      \/ Dev("first", "skip") \/ Dev("destroy_cargo", "skip") \/ Dev("destroy", "skip")
      \/ Dev("after", "lie")
  BY InvalidDispositionDevs DEF IInv, Base, TypeOK
<1>3. dev = Conforms => dev \in Overlooked("invalid_disposition", names)
  BY DEF Overlooked
<1>4. /\ ~Dev("alloc", "skip") /\ ~Dev("alloc_cargo", "skip") /\ ~Dev("service_before", "lie")
      /\ ~Dev("refs_before", "lie") /\ ~Dev("type_before", "lie") /\ ~Dev("send", "lie")
      /\ ~Dev("send", "over") /\ ~Dev("service_after", "lie") /\ ~Dev("refs_after", "lie")
      /\ ~Dev("type_after", "lie") /\ ~Dev("receive", "lie")
  BY <1>1
     DEF InvalidDispositionHeld, CargoSeen, CargoHeld
<1>5. ASSUME \/ Dev("insert", "skip") \/ Dev("insert", "over") \/ Dev("insert_cargo", "skip")
             \/ Dev("insert_cargo", "over") \/ Dev("receive", "over")
      PROVE  dev \in Overlooked("invalid_disposition", names)
  <2>1. dev \in Unjudged("invalid_disposition")
    BY <1>5, DevIn DEF Unjudged
  <2> QED
    BY <2>1 DEF Overlooked
<1>6. ASSUME names = "gap",
             \/ Dev("before", "lie") \/ Dev("destroy_cargo", "skip") \/ Dev("destroy", "skip")
             \/ Dev("after", "lie")
      PROVE  dev \in Overlooked("invalid_disposition", names)
  <2>1. dev \in NamesOnly
    BY <1>6, DevIn DEF NamesOnly
  <2> QED
    BY <1>6, <2>1 DEF Overlooked
<1>7. ASSUME names = "ok"
      PROVE  /\ ~Dev("before", "lie") /\ ~Dev("destroy_cargo", "skip") /\ ~Dev("destroy", "skip")
             /\ ~Dev("after", "lie")
  <2>1. (\A m \in Names : ~Exists(own[m])) /\ ~Dev("before", "lie") /\ ~Dev("after", "lie")
    BY <1>1, <1>7, BaselineClean DEF LastOf
  <2> QED
    BY <1>1, <2>1
       DEF InvalidDispositionHeld, CargoSeen, CargoHeld, Names, Exists, Destroyed
<1>8. names \in {"ok", "gap"}
  BY DEF IInv, Base, TypeOK
<1> QED
  BY <1>2, <1>3, <1>4, <1>5, <1>6, <1>7, <1>8

\* If that call was made the kernel conformed in it.
LEMMA InvalidDispositionMade ==
  ASSUME IInv, ~Running, probe = "invalid_disposition", Judgement("invalid_disposition") = Pass,
         Made("first")
  PROVE  ~Dev("first", "skip")
<1>1. pc = 18 /\ InvalidDispositionSeen /\ InvalidDispositionHeld /\ BaselineOk("before", "after")
  BY InvalidDispositionPasses
<1>2. ASSUME Dev("first", "skip") PROVE FALSE
  <2>1. PICK i \in 1..17 :
          InvalidDispositionSteps[i].as = "first" /\ Ready(InvalidDispositionSteps[i])
    BY InvalidDispositionListed DEF Made, Listed
  <2>2. InvalidDispositionSteps[14] = Do("first", "drop", "cargo", {"receive"})
    BY DEF InvalidDispositionSteps, CargoSetup, CargoCleanup
  <2>3. i = 14
    BY <2>1, <2>2, InvalidDispositionListed DEF Listed, Do
  <2>4. Ready(Do("first", "drop", "cargo", {"receive"}))
    BY <2>1, <2>2, <2>3
  <2> QED
    BY <1>1, <1>2, <2>4 DEF Ready, Do, AllOk, Ok, InvalidDispositionSeen, InvalidDispositionHeld
<1> QED
  BY <1>2

\* invalid_disposition passes a kernel that conforms and fails no call.
LEMMA InvalidDispositionNoAlarm ==
  ASSUME IInv, ~Running, probe = "invalid_disposition", Quiet
  PROVE  Judgement("invalid_disposition") = Pass
<1>1. pc = 18
  BY InvalidDispositionListed, EndOf DEF IInv
<1>2. InvalidDispositionSeen /\ InvalidDispositionHeld
  BY DEF IInv, ProbesInv, InvalidDispositionInv, Follows
<1>3. \A m \in Names : ~Exists(own[m])
  BY <1>1, <1>2
     DEF InvalidDispositionHeld, CargoSeen, CargoHeld, Quiet, Conforms, Dev, Exists, Names,
         Nothing, Hold, Destroyed, Rest
<1>4. BaselineOk("before", "after") /\ ~Blocks(obs["before"].kr) /\ ~Blocks(obs["after"].kr)
  BY <1>3, BaselineQuiet DEF LastOf
<1>5. InvalidDispositionJudge = Pass
  BY <1>1, <1>2, <1>4
     DEF InvalidDispositionJudge, JudgeEnd, AllOk, Ok, InvalidDispositionSeen, CargoSeen,
         SameRefs, SameType
<1> QED
  BY <1>5, Zenon DEF Judgement

\* The deviations that smoke may meet.
LEMMA SmokeDevs ==
  ASSUME dev \in Devs("smoke")
  PROVE  \/ dev = Conforms \/ Dev("before", "lie") \/ Dev("alloc", "skip")
         \/ Dev("type", "lie") \/ Dev("refs", "lie") \/ Dev("destroy", "skip")
         \/ Dev("after", "lie")
<1>1. Steps("smoke") = SmokeSteps /\ DOMAIN SmokeSteps = 1..6
  BY SmokeListed DEF Listed
<1>2. SUFFICES ASSUME NEW i \in 1..6, NEW z \in Deviations(SmokeSteps[i].call),
                      dev = [at |-> SmokeSteps[i].as, kind |-> z]
      PROVE  \/ Dev("before", "lie") \/ Dev("alloc", "skip") \/ Dev("type", "lie")
             \/ Dev("refs", "lie") \/ Dev("destroy", "skip") \/ Dev("after", "lie")
  BY <1>1 DEF Devs
<1>3. i = 1 => Dev("before", "lie")
  BY <1>2, DeviationsAre DEF SmokeSteps, Do, Dev
<1>4. i = 2 => Dev("alloc", "skip")
  BY <1>2, DeviationsAre DEF SmokeSteps, Do, Dev
<1>5. i = 3 => Dev("type", "lie")
  BY <1>2, DeviationsAre DEF SmokeSteps, Do, Dev
<1>6. i = 4 => Dev("refs", "lie")
  BY <1>2, DeviationsAre DEF SmokeSteps, Do, Dev
<1>7. i = 5 => Dev("destroy", "skip")
  BY <1>2, DeviationsAre DEF SmokeSteps, Do, Dev
<1>8. i = 6 => Dev("after", "lie")
  BY <1>2, DeviationsAre DEF SmokeSteps, Do, Dev
<1> QED
  BY <1>3, <1>4, <1>5, <1>6, <1>7, <1>8

\* smoke passes only when it has seen all it demands and its baselines compare equal.
LEMMA SmokePasses ==
  ASSUME IInv, ~Running, probe = "smoke", Judgement("smoke") = Pass
  PROVE  pc = 7 /\ SmokeSeen /\ SmokeHeld /\ BaselineOk("before", "after")
<1>1. pc = 7
  BY SmokeListed, EndOf DEF IInv
<1>2. SmokeJudge = Pass
  BY Zenon DEF Judgement
<1>3. SmokeSeen /\ BaselineOk("before", "after")
  BY <1>1, <1>2
     DEF SmokeJudge, JudgeEndBare, Pass, Accuse, Unclean, ProbeFailure, Is, AllOk, Ok, SmokeSeen
<1>4. SmokeHeld
  BY <1>3 DEF IInv, ProbesInv, SmokeInv, Follows
<1> QED
  BY <1>1, <1>3, <1>4

\* A pass of smoke is sound.
LEMMA SmokeSound ==
  ASSUME IInv, ~Running, probe = "smoke", Judgement("smoke") = Pass
  PROVE  dev \in Overlooked("smoke", names)
<1>1. pc = 7 /\ SmokeSeen /\ SmokeHeld /\ BaselineOk("before", "after")
  BY SmokePasses
<1>2. \/ dev = Conforms \/ Dev("before", "lie") \/ Dev("alloc", "skip")
      \/ Dev("type", "lie") \/ Dev("refs", "lie") \/ Dev("destroy", "skip")
      \/ Dev("after", "lie")
  BY SmokeDevs DEF IInv, Base, TypeOK
<1>3. dev = Conforms => dev \in Overlooked("smoke", names)
  BY DEF Overlooked
<1>4. /\ ~Dev("alloc", "skip")
  BY <1>1
     DEF SmokeHeld
<1>5. ASSUME \/ Dev("type", "lie") \/ Dev("refs", "lie")
      PROVE  dev \in Overlooked("smoke", names)
  <2>1. dev \in Unjudged("smoke")
    BY <1>5, DevIn DEF Unjudged
  <2> QED
    BY <2>1 DEF Overlooked
<1>6. ASSUME names = "gap",
             \/ Dev("before", "lie") \/ Dev("destroy", "skip") \/ Dev("after", "lie")
      PROVE  dev \in Overlooked("smoke", names)
  <2>1. dev \in NamesOnly
    BY <1>6, DevIn DEF NamesOnly
  <2> QED
    BY <1>6, <2>1 DEF Overlooked
<1>7. ASSUME names = "ok"
      PROVE  /\ ~Dev("before", "lie") /\ ~Dev("destroy", "skip") /\ ~Dev("after", "lie")
  <2>1. (\A m \in Names : ~Exists(own[m])) /\ ~Dev("before", "lie") /\ ~Dev("after", "lie")
    BY <1>1, <1>7, BaselineClean DEF LastOf
  <2> QED
    BY <1>1, <2>1
       DEF SmokeHeld, Names, Exists, Destroyed
<1>8. names \in {"ok", "gap"}
  BY DEF IInv, Base, TypeOK
<1> QED
  BY <1>2, <1>3, <1>4, <1>5, <1>6, <1>7, <1>8

\* smoke passes a kernel that conforms and fails no call.
LEMMA SmokeNoAlarm ==
  ASSUME IInv, ~Running, probe = "smoke", Quiet
  PROVE  Judgement("smoke") = Pass
<1>1. pc = 7
  BY SmokeListed, EndOf DEF IInv
<1>2. SmokeSeen /\ SmokeHeld
  BY DEF IInv, ProbesInv, SmokeInv, Follows
<1>3. \A m \in Names : ~Exists(own[m])
  BY <1>1, <1>2
     DEF SmokeHeld, Quiet, Conforms, Dev, Exists, Names, Nothing, Hold, Destroyed, Rest
<1>4. BaselineOk("before", "after") /\ ~Blocks(obs["before"].kr) /\ ~Blocks(obs["after"].kr)
  BY <1>3, BaselineQuiet DEF LastOf
<1>5. SmokeJudge = Pass
  BY <1>1, <1>2, <1>4
     DEF SmokeJudge, JudgeEndBare, AllOk, Ok, SmokeSeen
<1> QED
  BY <1>5, Zenon DEF Judgement

\* The deviations that port_get_refs may meet.
LEMMA GetRefsDevs ==
  ASSUME dev \in Devs("port_get_refs")
  PROVE  \/ dev = Conforms \/ Dev("before", "lie") \/ Dev("alloc", "skip")
         \/ Dev("recv_initial", "lie") \/ Dev("before_make", "lie") \/ Dev("insert", "skip")
         \/ Dev("insert", "over") \/ Dev("after_make", "lie") \/ Dev("plus", "skip")
         \/ Dev("plus", "over") \/ Dev("after_plus", "lie") \/ Dev("dealloc", "skip")
         \/ Dev("dealloc", "over") \/ Dev("after_dealloc", "lie") \/ Dev("minus", "skip")
         \/ Dev("after_minus", "lie") \/ Dev("recv_final", "lie") \/ Dev("destroy", "skip")
         \/ Dev("after", "lie")
<1>1. Steps("port_get_refs") = GetRefsSteps /\ DOMAIN GetRefsSteps = 1..15
  BY GetRefsListed DEF Listed
<1>2. SUFFICES ASSUME NEW i \in 1..15, NEW z \in Deviations(GetRefsSteps[i].call),
                      dev = [at |-> GetRefsSteps[i].as, kind |-> z]
      PROVE  \/ Dev("before", "lie") \/ Dev("alloc", "skip") \/ Dev("recv_initial", "lie")
             \/ Dev("before_make", "lie") \/ Dev("insert", "skip") \/ Dev("insert", "over")
             \/ Dev("after_make", "lie") \/ Dev("plus", "skip") \/ Dev("plus", "over")
             \/ Dev("after_plus", "lie") \/ Dev("dealloc", "skip") \/ Dev("dealloc", "over")
             \/ Dev("after_dealloc", "lie") \/ Dev("minus", "skip") \/ Dev("after_minus", "lie")
             \/ Dev("recv_final", "lie") \/ Dev("destroy", "skip") \/ Dev("after", "lie")
  BY <1>1 DEF Devs
<1>3. i = 1 => Dev("before", "lie")
  BY <1>2, DeviationsAre DEF GetRefsSteps, Do, Dev
<1>4. i = 2 => Dev("alloc", "skip")
  BY <1>2, DeviationsAre DEF GetRefsSteps, Do, Dev
<1>5. i = 3 => Dev("recv_initial", "lie")
  BY <1>2, DeviationsAre DEF GetRefsSteps, Do, Dev
<1>6. i = 4 => Dev("before_make", "lie")
  BY <1>2, DeviationsAre DEF GetRefsSteps, Do, Dev
<1>7. i = 5 => Dev("insert", "skip") \/ Dev("insert", "over")
  BY <1>2, DeviationsAre DEF GetRefsSteps, Do, Dev
<1>8. i = 6 => Dev("after_make", "lie")
  BY <1>2, DeviationsAre DEF GetRefsSteps, Do, Dev
<1>9. i = 7 => Dev("plus", "skip") \/ Dev("plus", "over")
  BY <1>2, DeviationsAre DEF GetRefsSteps, Do, Dev
<1>10. i = 8 => Dev("after_plus", "lie")
  BY <1>2, DeviationsAre DEF GetRefsSteps, Do, Dev
<1>11. i = 9 => Dev("dealloc", "skip") \/ Dev("dealloc", "over")
  BY <1>2, DeviationsAre DEF GetRefsSteps, Do, Dev
<1>12. i = 10 => Dev("after_dealloc", "lie")
  BY <1>2, DeviationsAre DEF GetRefsSteps, Do, Dev
<1>13. i = 11 => Dev("minus", "skip")
  BY <1>2, DeviationsAre DEF GetRefsSteps, Do, Dev
<1>14. i = 12 => Dev("after_minus", "lie")
  BY <1>2, DeviationsAre DEF GetRefsSteps, Do, Dev
<1>15. i = 13 => Dev("recv_final", "lie")
  BY <1>2, DeviationsAre DEF GetRefsSteps, Do, Dev
<1>16. i = 14 => Dev("destroy", "skip")
  BY <1>2, DeviationsAre DEF GetRefsSteps, Do, Dev
<1>17. i = 15 => Dev("after", "lie")
  BY <1>2, DeviationsAre DEF GetRefsSteps, Do, Dev
<1> QED
  BY <1>3, <1>4, <1>5, <1>6, <1>7, <1>8, <1>9, <1>10, <1>11, <1>12, <1>13, <1>14, <1>15, <1>16,
     <1>17

\* port_get_refs passes only when it has seen all it demands and its baselines compare equal.
LEMMA GetRefsPasses ==
  ASSUME IInv, ~Running, probe = "port_get_refs", Judgement("port_get_refs") = Pass
  PROVE  pc = 16 /\ GetRefsSeen /\ GetRefsHeld /\ BaselineOk("before", "after")
<1>1. pc = 16
  BY GetRefsListed, EndOf DEF IInv
<1>2. GetRefsJudge = Pass
  BY Zenon DEF Judgement
<1>3. GetRefsSeen /\ BaselineOk("before", "after")
  BY <1>1, <1>2
     DEF GetRefsJudge, JudgeEnd, Pass, Accuse, Unclean, ProbeFailure, Is, AllOk, Ok,
         GetRefsSeen, Counted
<1>4. GetRefsHeld
  BY <1>3 DEF IInv, ProbesInv, GetRefsInv, Follows
<1> QED
  BY <1>1, <1>3, <1>4

\* A pass of port_get_refs is sound.
LEMMA GetRefsSound ==
  ASSUME IInv, ~Running, probe = "port_get_refs", Judgement("port_get_refs") = Pass
  PROVE  dev \in Overlooked("port_get_refs", names)
<1>1. pc = 16 /\ GetRefsSeen /\ GetRefsHeld /\ BaselineOk("before", "after")
  BY GetRefsPasses
<1>2. \/ dev = Conforms \/ Dev("before", "lie") \/ Dev("alloc", "skip")
      \/ Dev("recv_initial", "lie") \/ Dev("before_make", "lie") \/ Dev("insert", "skip")
      \/ Dev("insert", "over") \/ Dev("after_make", "lie") \/ Dev("plus", "skip")
      \/ Dev("plus", "over") \/ Dev("after_plus", "lie") \/ Dev("dealloc", "skip")
      \/ Dev("dealloc", "over") \/ Dev("after_dealloc", "lie") \/ Dev("minus", "skip")
      \/ Dev("after_minus", "lie") \/ Dev("recv_final", "lie") \/ Dev("destroy", "skip")
      \/ Dev("after", "lie")
  BY GetRefsDevs DEF IInv, Base, TypeOK
<1>3. dev = Conforms => dev \in Overlooked("port_get_refs", names)
  BY DEF Overlooked
<1>4. /\ ~Dev("alloc", "skip") /\ ~Dev("recv_initial", "lie") /\ ~Dev("before_make", "lie")
      /\ ~Dev("insert", "skip") /\ ~Dev("insert", "over") /\ ~Dev("after_make", "lie")
      /\ ~Dev("plus", "skip") /\ ~Dev("plus", "over") /\ ~Dev("after_plus", "lie")
      /\ ~Dev("dealloc", "skip") /\ ~Dev("dealloc", "over") /\ ~Dev("after_dealloc", "lie")
      /\ ~Dev("minus", "skip") /\ ~Dev("after_minus", "lie") /\ ~Dev("recv_final", "lie")
  BY <1>1
     DEF GetRefsHeld
<1>6. ASSUME names = "gap",
             \/ Dev("before", "lie") \/ Dev("destroy", "skip") \/ Dev("after", "lie")
      PROVE  dev \in Overlooked("port_get_refs", names)
  <2>1. dev \in NamesOnly
    BY <1>6, DevIn DEF NamesOnly
  <2> QED
    BY <1>6, <2>1 DEF Overlooked
<1>7. ASSUME names = "ok"
      PROVE  /\ ~Dev("before", "lie") /\ ~Dev("destroy", "skip") /\ ~Dev("after", "lie")
  <2>1. (\A m \in Names : ~Exists(own[m])) /\ ~Dev("before", "lie") /\ ~Dev("after", "lie")
    BY <1>1, <1>7, BaselineClean DEF LastOf
  <2> QED
    BY <1>1, <2>1
       DEF GetRefsHeld, Names, Exists, Destroyed
<1>8. names \in {"ok", "gap"}
  BY DEF IInv, Base, TypeOK
<1> QED
  BY <1>2, <1>3, <1>4, <1>6, <1>7, <1>8

\* port_get_refs passes a kernel that conforms and fails no call.
LEMMA GetRefsNoAlarm ==
  ASSUME IInv, ~Running, probe = "port_get_refs", Quiet
  PROVE  Judgement("port_get_refs") = Pass
<1>1. pc = 16
  BY GetRefsListed, EndOf DEF IInv
<1>2. GetRefsSeen /\ GetRefsHeld
  BY DEF IInv, ProbesInv, GetRefsInv, Follows
<1>3. \A m \in Names : ~Exists(own[m])
  BY <1>1, <1>2
     DEF GetRefsHeld, Quiet, Conforms, Dev, Exists, Names, Nothing, Hold, Destroyed, Rest
<1>4. BaselineOk("before", "after") /\ ~Blocks(obs["before"].kr) /\ ~Blocks(obs["after"].kr)
  BY <1>3, BaselineQuiet DEF LastOf
<1>5. GetRefsJudge = Pass
  BY <1>1, <1>2, <1>4
     DEF GetRefsJudge, JudgeEnd, AllOk, Ok, GetRefsSeen, Counted
<1> QED
  BY <1>5, Zenon DEF Judgement

\* The deviations that port_type may meet.
LEMMA TypeDevs ==
  ASSUME dev \in Devs("port_type")
  PROVE  \/ dev = Conforms \/ Dev("before", "lie") \/ Dev("alloc", "skip")
         \/ Dev("type_receive", "lie") \/ Dev("insert", "skip") \/ Dev("insert", "over")
         \/ Dev("type_both", "lie") \/ Dev("alloc_set", "skip") \/ Dev("type_set", "lie")
         \/ Dev("type_self", "lie") \/ Dev("destroy", "skip") \/ Dev("destroy_set", "skip")
         \/ Dev("after", "lie")
<1>1. Steps("port_type") = TypeSteps /\ DOMAIN TypeSteps = 1..11
  BY TypeListed DEF Listed
<1>2. SUFFICES ASSUME NEW i \in 1..11, NEW z \in Deviations(TypeSteps[i].call),
                      dev = [at |-> TypeSteps[i].as, kind |-> z]
      PROVE  \/ Dev("before", "lie") \/ Dev("alloc", "skip") \/ Dev("type_receive", "lie")
             \/ Dev("insert", "skip") \/ Dev("insert", "over") \/ Dev("type_both", "lie")
             \/ Dev("alloc_set", "skip") \/ Dev("type_set", "lie") \/ Dev("type_self", "lie")
             \/ Dev("destroy", "skip") \/ Dev("destroy_set", "skip") \/ Dev("after", "lie")
  BY <1>1 DEF Devs
<1>3. i = 1 => Dev("before", "lie")
  BY <1>2, DeviationsAre DEF TypeSteps, Do, Dev
<1>4. i = 2 => Dev("alloc", "skip")
  BY <1>2, DeviationsAre DEF TypeSteps, Do, Dev
<1>5. i = 3 => Dev("type_receive", "lie")
  BY <1>2, DeviationsAre DEF TypeSteps, Do, Dev
<1>6. i = 4 => Dev("insert", "skip") \/ Dev("insert", "over")
  BY <1>2, DeviationsAre DEF TypeSteps, Do, Dev
<1>7. i = 5 => Dev("type_both", "lie")
  BY <1>2, DeviationsAre DEF TypeSteps, Do, Dev
<1>8. i = 6 => Dev("alloc_set", "skip")
  BY <1>2, DeviationsAre DEF TypeSteps, Do, Dev
<1>9. i = 7 => Dev("type_set", "lie")
  BY <1>2, DeviationsAre DEF TypeSteps, Do, Dev
<1>10. i = 8 => Dev("type_self", "lie")
  BY <1>2, DeviationsAre DEF TypeSteps, Do, Dev
<1>11. i = 9 => Dev("destroy", "skip")
  BY <1>2, DeviationsAre DEF TypeSteps, Do, Dev
<1>12. i = 10 => Dev("destroy_set", "skip")
  BY <1>2, DeviationsAre DEF TypeSteps, Do, Dev
<1>13. i = 11 => Dev("after", "lie")
  BY <1>2, DeviationsAre DEF TypeSteps, Do, Dev
<1> QED
  BY <1>3, <1>4, <1>5, <1>6, <1>7, <1>8, <1>9, <1>10, <1>11, <1>12, <1>13

\* port_type passes only when it has seen all it demands and its baselines compare equal.
LEMMA TypePasses ==
  ASSUME IInv, ~Running, probe = "port_type", Judgement("port_type") = Pass
  PROVE  pc = 12 /\ TypeSeen /\ TypeHeld /\ BaselineOk("before", "after")
<1>1. pc = 12
  BY TypeListed, EndOf DEF IInv
<1>2. TypeJudge = Pass
  BY Zenon DEF Judgement
<1>3. TypeSeen /\ BaselineOk("before", "after")
  BY <1>1, <1>2
     DEF TypeJudge, JudgeEnd, Pass, Accuse, Unclean, ProbeFailure, Is, AllOk, Ok, TypeSeen,
         Shows
<1>4. TypeHeld
  BY <1>3 DEF IInv, ProbesInv, TypeInv, Follows
<1> QED
  BY <1>1, <1>3, <1>4

\* A pass of port_type is sound.
LEMMA TypeSound ==
  ASSUME IInv, ~Running, probe = "port_type", Judgement("port_type") = Pass
  PROVE  dev \in Overlooked("port_type", names)
<1>1. pc = 12 /\ TypeSeen /\ TypeHeld /\ BaselineOk("before", "after")
  BY TypePasses
<1>2. \/ dev = Conforms \/ Dev("before", "lie") \/ Dev("alloc", "skip")
      \/ Dev("type_receive", "lie") \/ Dev("insert", "skip") \/ Dev("insert", "over")
      \/ Dev("type_both", "lie") \/ Dev("alloc_set", "skip") \/ Dev("type_set", "lie")
      \/ Dev("type_self", "lie") \/ Dev("destroy", "skip") \/ Dev("destroy_set", "skip")
      \/ Dev("after", "lie")
  BY TypeDevs DEF IInv, Base, TypeOK
<1>3. dev = Conforms => dev \in Overlooked("port_type", names)
  BY DEF Overlooked
<1>4. /\ ~Dev("alloc", "skip") /\ ~Dev("type_receive", "lie") /\ ~Dev("insert", "skip")
      /\ ~Dev("type_both", "lie") /\ ~Dev("alloc_set", "skip") /\ ~Dev("type_set", "lie")
  BY <1>1
     DEF TypeHeld
<1>5. ASSUME \/ Dev("insert", "over") \/ Dev("type_self", "lie")
      PROVE  dev \in Overlooked("port_type", names)
  <2>1. dev \in Unjudged("port_type")
    BY <1>5, DevIn DEF Unjudged
  <2> QED
    BY <2>1 DEF Overlooked
<1>6. ASSUME names = "gap",
             \/ Dev("before", "lie") \/ Dev("destroy", "skip") \/ Dev("destroy_set", "skip")
             \/ Dev("after", "lie")
      PROVE  dev \in Overlooked("port_type", names)
  <2>1. dev \in NamesOnly
    BY <1>6, DevIn DEF NamesOnly
  <2> QED
    BY <1>6, <2>1 DEF Overlooked
<1>7. ASSUME names = "ok"
      PROVE  /\ ~Dev("before", "lie") /\ ~Dev("destroy", "skip") /\ ~Dev("destroy_set", "skip")
             /\ ~Dev("after", "lie")
  <2>1. (\A m \in Names : ~Exists(own[m])) /\ ~Dev("before", "lie") /\ ~Dev("after", "lie")
    BY <1>1, <1>7, BaselineClean DEF LastOf
  <2> QED
    BY <1>1, <2>1
       DEF TypeHeld, Names, Exists, Destroyed
<1>8. names \in {"ok", "gap"}
  BY DEF IInv, Base, TypeOK
<1> QED
  BY <1>2, <1>3, <1>4, <1>5, <1>6, <1>7, <1>8

\* port_type passes a kernel that conforms and fails no call.
LEMMA TypeNoAlarm ==
  ASSUME IInv, ~Running, probe = "port_type", Quiet
  PROVE  Judgement("port_type") = Pass
<1>1. pc = 12
  BY TypeListed, EndOf DEF IInv
<1>2. TypeSeen /\ TypeHeld
  BY DEF IInv, ProbesInv, TypeInv, Follows
<1>3. \A m \in Names : ~Exists(own[m])
  BY <1>1, <1>2
     DEF TypeHeld, Quiet, Conforms, Dev, Exists, Names, Nothing, Hold, Destroyed, Rest
<1>4. BaselineOk("before", "after") /\ ~Blocks(obs["before"].kr) /\ ~Blocks(obs["after"].kr)
  BY <1>3, BaselineQuiet DEF LastOf
<1>5. TypeJudge = Pass
  BY <1>1, <1>2, <1>4
     DEF TypeJudge, JudgeEnd, AllOk, Ok, TypeSeen, Shows
<1> QED
  BY <1>5, Zenon DEF Judgement

\* The deviations that port_set may meet.
LEMMA PortSetDevs ==
  ASSUME dev \in Devs("port_set")
  PROVE  \/ dev = Conforms \/ Dev("before", "lie") \/ Dev("alloc_set", "skip")
         \/ Dev("alloc", "skip") \/ Dev("type_set", "lie") \/ Dev("insert", "skip")
         \/ Dev("insert", "over") \/ Dev("move", "skip") \/ Dev("send", "lost")
         \/ Dev("send", "over") \/ Dev("receive", "lie") \/ Dev("unmove", "skip")
         \/ Dev("destroy", "skip") \/ Dev("destroy_set", "skip") \/ Dev("after", "lie")
<1>1. Steps("port_set") = PortSetSteps /\ DOMAIN PortSetSteps = 1..12
  BY PortSetListed DEF Listed
<1>2. SUFFICES ASSUME NEW i \in 1..12, NEW z \in Deviations(PortSetSteps[i].call),
                      dev = [at |-> PortSetSteps[i].as, kind |-> z]
      PROVE  \/ Dev("before", "lie") \/ Dev("alloc_set", "skip") \/ Dev("alloc", "skip")
             \/ Dev("type_set", "lie") \/ Dev("insert", "skip") \/ Dev("insert", "over")
             \/ Dev("move", "skip") \/ Dev("send", "lost") \/ Dev("send", "over")
             \/ Dev("receive", "lie") \/ Dev("unmove", "skip") \/ Dev("destroy", "skip")
             \/ Dev("destroy_set", "skip") \/ Dev("after", "lie")
  BY <1>1 DEF Devs
<1>3. i = 1 => Dev("before", "lie")
  BY <1>2, DeviationsAre DEF PortSetSteps, Do, Dev
<1>4. i = 2 => Dev("alloc_set", "skip")
  BY <1>2, DeviationsAre DEF PortSetSteps, Do, Dev
<1>5. i = 3 => Dev("alloc", "skip")
  BY <1>2, DeviationsAre DEF PortSetSteps, Do, Dev
<1>6. i = 4 => Dev("type_set", "lie")
  BY <1>2, DeviationsAre DEF PortSetSteps, Do, Dev
<1>7. i = 5 => Dev("insert", "skip") \/ Dev("insert", "over")
  BY <1>2, DeviationsAre DEF PortSetSteps, Do, Dev
<1>8. i = 6 => Dev("move", "skip")
  BY <1>2, DeviationsAre DEF PortSetSteps, Do, Dev
<1>9. i = 7 => Dev("send", "lost") \/ Dev("send", "over")
  BY <1>2, DeviationsAre DEF PortSetSteps, Do, Dev
<1>10. i = 8 => Dev("receive", "lie")
  BY <1>2, DeviationsAre DEF PortSetSteps, Do, Dev
<1>11. i = 9 => Dev("unmove", "skip")
  BY <1>2, DeviationsAre DEF PortSetSteps, Do, Dev
<1>12. i = 10 => Dev("destroy", "skip")
  BY <1>2, DeviationsAre DEF PortSetSteps, Do, Dev
<1>13. i = 11 => Dev("destroy_set", "skip")
  BY <1>2, DeviationsAre DEF PortSetSteps, Do, Dev
<1>14. i = 12 => Dev("after", "lie")
  BY <1>2, DeviationsAre DEF PortSetSteps, Do, Dev
<1> QED
  BY <1>3, <1>4, <1>5, <1>6, <1>7, <1>8, <1>9, <1>10, <1>11, <1>12, <1>13, <1>14

\* port_set passes only when it has seen all it demands and its baselines compare equal.
LEMMA PortSetPasses ==
  ASSUME IInv, ~Running, probe = "port_set", Judgement("port_set") = Pass
  PROVE  pc = 13 /\ PortSetSeen /\ PortSetHeld /\ BaselineOk("before", "after")
<1>1. pc = 13
  BY PortSetListed, EndOf DEF IInv
<1>2. PortSetJudge = Pass
  BY Zenon DEF Judgement
<1>3. PortSetSeen /\ BaselineOk("before", "after")
  BY <1>1, <1>2
     DEF PortSetJudge, JudgeEndBare, Pass, Accuse, Unclean, ProbeFailure, Is, AllOk, Ok,
         PortSetSeen, Shows
<1>4. PortSetHeld
  BY <1>3 DEF IInv, ProbesInv, PortSetInv, Follows
<1> QED
  BY <1>1, <1>3, <1>4

\* A pass of port_set is sound.
LEMMA PortSetSound ==
  ASSUME IInv, ~Running, probe = "port_set", Judgement("port_set") = Pass
  PROVE  dev \in Overlooked("port_set", names)
<1>1. pc = 13 /\ PortSetSeen /\ PortSetHeld /\ BaselineOk("before", "after")
  BY PortSetPasses
<1>2. \/ dev = Conforms \/ Dev("before", "lie") \/ Dev("alloc_set", "skip")
      \/ Dev("alloc", "skip") \/ Dev("type_set", "lie") \/ Dev("insert", "skip")
      \/ Dev("insert", "over") \/ Dev("move", "skip") \/ Dev("send", "lost")
      \/ Dev("send", "over") \/ Dev("receive", "lie") \/ Dev("unmove", "skip")
      \/ Dev("destroy", "skip") \/ Dev("destroy_set", "skip") \/ Dev("after", "lie")
  BY PortSetDevs DEF IInv, Base, TypeOK
<1>3. dev = Conforms => dev \in Overlooked("port_set", names)
  BY DEF Overlooked
<1>4. /\ ~Dev("alloc_set", "skip") /\ ~Dev("alloc", "skip") /\ ~Dev("insert", "skip")
      /\ ~Dev("move", "skip") /\ ~Dev("send", "lost") /\ ~Dev("receive", "lie")
  BY <1>1
     DEF PortSetHeld
<1>5. ASSUME \/ Dev("type_set", "lie") \/ Dev("insert", "over") \/ Dev("send", "over")
             \/ Dev("unmove", "skip")
      PROVE  dev \in Overlooked("port_set", names)
  <2>1. dev \in Unjudged("port_set")
    BY <1>5, DevIn DEF Unjudged
  <2> QED
    BY <2>1 DEF Overlooked
<1>6. ASSUME names = "gap",
             \/ Dev("before", "lie") \/ Dev("destroy", "skip") \/ Dev("destroy_set", "skip")
             \/ Dev("after", "lie")
      PROVE  dev \in Overlooked("port_set", names)
  <2>1. dev \in NamesOnly
    BY <1>6, DevIn DEF NamesOnly
  <2> QED
    BY <1>6, <2>1 DEF Overlooked
<1>7. ASSUME names = "ok"
      PROVE  /\ ~Dev("before", "lie") /\ ~Dev("destroy", "skip") /\ ~Dev("destroy_set", "skip")
             /\ ~Dev("after", "lie")
  <2>1. (\A m \in Names : ~Exists(own[m])) /\ ~Dev("before", "lie") /\ ~Dev("after", "lie")
    BY <1>1, <1>7, BaselineClean DEF LastOf
  <2> QED
    BY <1>1, <2>1
       DEF PortSetHeld, Names, Exists, Destroyed
<1>8. names \in {"ok", "gap"}
  BY DEF IInv, Base, TypeOK
<1> QED
  BY <1>2, <1>3, <1>4, <1>5, <1>6, <1>7, <1>8

\* port_set passes a kernel that conforms and fails no call.
LEMMA PortSetNoAlarm ==
  ASSUME IInv, ~Running, probe = "port_set", Quiet
  PROVE  Judgement("port_set") = Pass
<1>1. pc = 13
  BY PortSetListed, EndOf DEF IInv
<1>2. PortSetSeen /\ PortSetHeld
  BY DEF IInv, ProbesInv, PortSetInv, Follows
<1>3. \A m \in Names : ~Exists(own[m])
  BY <1>1, <1>2
     DEF PortSetHeld, Quiet, Conforms, Dev, Exists, Names, Nothing, Hold, Destroyed, Rest
<1>4. BaselineOk("before", "after") /\ ~Blocks(obs["before"].kr) /\ ~Blocks(obs["after"].kr)
  BY <1>3, BaselineQuiet DEF LastOf
<1>5. PortSetJudge = Pass
  BY <1>1, <1>2, <1>4
     DEF PortSetJudge, JudgeEndBare, AllOk, Ok, PortSetSeen, Shows
<1> QED
  BY <1>5, Zenon DEF Judgement

\* The deviations that port_names may meet.
LEMMA PortNamesDevs ==
  ASSUME dev \in Devs("port_names")
  PROVE  \/ dev = Conforms \/ Dev("before", "lie") \/ Dev("alloc", "skip")
         \/ Dev("during", "lie") \/ Dev("during", "skip") \/ Dev("destroy", "skip")
         \/ Dev("after", "lie")
<1>1. Steps("port_names") = PortNamesSteps /\ DOMAIN PortNamesSteps = 1..5
  BY PortNamesListed DEF Listed
<1>2. SUFFICES ASSUME NEW i \in 1..5, NEW z \in Deviations(PortNamesSteps[i].call),
                      dev = [at |-> PortNamesSteps[i].as, kind |-> z]
      PROVE  \/ Dev("before", "lie") \/ Dev("alloc", "skip") \/ Dev("during", "lie")
             \/ Dev("during", "skip") \/ Dev("destroy", "skip") \/ Dev("after", "lie")
  BY <1>1 DEF Devs
<1>3. i = 1 => Dev("before", "lie")
  BY <1>2, DeviationsAre DEF PortNamesSteps, Do, Dev
<1>4. i = 2 => Dev("alloc", "skip")
  BY <1>2, DeviationsAre DEF PortNamesSteps, Do, Dev
<1>5. i = 3 => Dev("during", "lie") \/ Dev("during", "skip")
  BY <1>2, DeviationsAre DEF PortNamesSteps, Do, Dev
<1>6. i = 4 => Dev("destroy", "skip")
  BY <1>2, DeviationsAre DEF PortNamesSteps, Do, Dev
<1>7. i = 5 => Dev("after", "lie")
  BY <1>2, DeviationsAre DEF PortNamesSteps, Do, Dev
<1> QED
  BY <1>3, <1>4, <1>5, <1>6, <1>7

\* port_names passes only when it has seen all it demands and its baselines compare equal.
LEMMA PortNamesPasses ==
  ASSUME IInv, ~Running, probe = "port_names", Judgement("port_names") = Pass
  PROVE  pc = 6 /\ PortNamesSeen /\ PortNamesHeld /\ BaselineOk("before", "after")
<1>1. pc = 6
  BY PortNamesListed, EndOf DEF IInv
<1>2. PortNamesJudge = Pass
  BY Zenon DEF Judgement
<1>3. PortNamesSeen /\ BaselineOk("before", "after")
  BY <1>1, <1>2
     DEF PortNamesJudge, JudgeEnd, Pass, Accuse, Unclean, ProbeFailure, Is, AllOk, Ok,
         PortNamesSeen
<1>4. PortNamesHeld
  BY <1>3 DEF IInv, ProbesInv, PortNamesInv
<1> QED
  BY <1>1, <1>3, <1>4

\* A pass of port_names is sound.
LEMMA PortNamesSound ==
  ASSUME IInv, ~Running, probe = "port_names", Judgement("port_names") = Pass
  PROVE  dev \in Overlooked("port_names", names)
<1>1. pc = 6 /\ PortNamesSeen /\ PortNamesHeld /\ BaselineOk("before", "after")
  BY PortNamesPasses
<1>2. \/ dev = Conforms \/ Dev("before", "lie") \/ Dev("alloc", "skip")
      \/ Dev("during", "lie") \/ Dev("during", "skip") \/ Dev("destroy", "skip")
      \/ Dev("after", "lie")
  BY PortNamesDevs DEF IInv, Base, TypeOK
<1>3. dev = Conforms => dev \in Overlooked("port_names", names)
  BY DEF Overlooked
<1>4. /\ ~Dev("alloc", "skip") /\ ~Dev("during", "lie") /\ ~Dev("during", "skip")
  BY <1>1
     DEF PortNamesHeld
<1>6. ASSUME names = "gap",
             \/ Dev("before", "lie") \/ Dev("destroy", "skip") \/ Dev("after", "lie")
      PROVE  dev \in Overlooked("port_names", names)
  <2>1. dev \in NamesOnly
    BY <1>6, DevIn DEF NamesOnly
  <2> QED
    BY <1>6, <2>1 DEF Overlooked
<1>7. ASSUME names = "ok"
      PROVE  /\ ~Dev("before", "lie") /\ ~Dev("destroy", "skip") /\ ~Dev("after", "lie")
  <2>1. (\A m \in Names : ~Exists(own[m])) /\ ~Dev("before", "lie") /\ ~Dev("after", "lie")
    BY <1>1, <1>7, BaselineClean DEF LastOf
  <2> QED
    BY <1>1, <2>1
       DEF PortNamesHeld, Names, Exists, Destroyed
<1>8. names \in {"ok", "gap"}
  BY DEF IInv, Base, TypeOK
<1> QED
  BY <1>2, <1>3, <1>4, <1>6, <1>7, <1>8

\* port_names passes a kernel that conforms and fails no call.
LEMMA PortNamesNoAlarm ==
  ASSUME IInv, ~Running, probe = "port_names", Quiet, names = "ok"
  PROVE  Judgement("port_names") = Pass
<1>1. pc = 6
  BY PortNamesListed, EndOf DEF IInv
<1>2. PortNamesSeen /\ PortNamesHeld
  BY DEF IInv, ProbesInv, PortNamesInv
<1>3. \A m \in Names : ~Exists(own[m])
  BY <1>1, <1>2
     DEF PortNamesHeld, Quiet, Conforms, Dev, Exists, Names, Nothing, Hold, Destroyed, Rest
<1>4. BaselineOk("before", "after") /\ ~Blocks(obs["before"].kr) /\ ~Blocks(obs["after"].kr)
  BY <1>3, BaselineQuiet DEF LastOf
<1>5. PortNamesJudge = Pass
  BY <1>1, <1>2, <1>4
     DEF PortNamesJudge, JudgeEnd, AllOk, Ok, ProbeSeen, Blocks, PortNamesSeen
<1> QED
  BY <1>5, Zenon DEF Judgement

\* The deviations that port_get_attributes may meet.
LEMMA GetAttributesDevs ==
  ASSUME dev \in Devs("port_get_attributes")
  PROVE  \/ dev = Conforms \/ Dev("before", "lie") \/ Dev("alloc", "skip")
         \/ Dev("attrs", "lie") \/ Dev("bad_flavor", "lie") \/ Dev("bad_name", "lie")
         \/ Dev("destroy", "skip") \/ Dev("after", "lie")
<1>1. Steps("port_get_attributes") = GetAttributesSteps /\ DOMAIN GetAttributesSteps = 1..7
  BY GetAttributesListed DEF Listed
<1>2. SUFFICES ASSUME NEW i \in 1..7, NEW z \in Deviations(GetAttributesSteps[i].call),
                      dev = [at |-> GetAttributesSteps[i].as, kind |-> z]
      PROVE  \/ Dev("before", "lie") \/ Dev("alloc", "skip") \/ Dev("attrs", "lie")
             \/ Dev("bad_flavor", "lie") \/ Dev("bad_name", "lie") \/ Dev("destroy", "skip")
             \/ Dev("after", "lie")
  BY <1>1 DEF Devs
<1>3. i = 1 => Dev("before", "lie")
  BY <1>2, DeviationsAre DEF GetAttributesSteps, Do, Dev
<1>4. i = 2 => Dev("alloc", "skip")
  BY <1>2, DeviationsAre DEF GetAttributesSteps, Do, Dev
<1>5. i = 3 => Dev("attrs", "lie")
  BY <1>2, DeviationsAre DEF GetAttributesSteps, Do, Dev
<1>6. i = 4 => Dev("bad_flavor", "lie")
  BY <1>2, DeviationsAre DEF GetAttributesSteps, Do, Dev
<1>7. i = 5 => Dev("bad_name", "lie")
  BY <1>2, DeviationsAre DEF GetAttributesSteps, Do, Dev
<1>8. i = 6 => Dev("destroy", "skip")
  BY <1>2, DeviationsAre DEF GetAttributesSteps, Do, Dev
<1>9. i = 7 => Dev("after", "lie")
  BY <1>2, DeviationsAre DEF GetAttributesSteps, Do, Dev
<1> QED
  BY <1>3, <1>4, <1>5, <1>6, <1>7, <1>8, <1>9

\* port_get_attributes passes only when it has seen all it demands and its baselines compare equal.
LEMMA GetAttributesPasses ==
  ASSUME IInv, ~Running, probe = "port_get_attributes", Judgement("port_get_attributes") = Pass
  PROVE  pc = 8 /\ GetAttributesSeen /\ GetAttributesHeld /\ BaselineOk("before", "after")
<1>1. pc = 8
  BY GetAttributesListed, EndOf DEF IInv
<1>2. GetAttributesJudge = Pass
  BY Zenon DEF Judgement
<1>3. GetAttributesSeen /\ BaselineOk("before", "after")
  BY <1>1, <1>2
     DEF GetAttributesJudge, JudgeEndBare, Pass, Accuse, Unclean, ProbeFailure, Is, AllOk, Ok,
         GetAttributesSeen, Counted
<1>4. GetAttributesHeld
  BY <1>3 DEF IInv, ProbesInv, GetAttributesInv, Follows
<1> QED
  BY <1>1, <1>3, <1>4

\* A pass of port_get_attributes is sound.
LEMMA GetAttributesSound ==
  ASSUME IInv, ~Running, probe = "port_get_attributes", Judgement("port_get_attributes") = Pass
  PROVE  dev \in Overlooked("port_get_attributes", names)
<1>1. pc = 8 /\ GetAttributesSeen /\ GetAttributesHeld /\ BaselineOk("before", "after")
  BY GetAttributesPasses
<1>2. \/ dev = Conforms \/ Dev("before", "lie") \/ Dev("alloc", "skip")
      \/ Dev("attrs", "lie") \/ Dev("bad_flavor", "lie") \/ Dev("bad_name", "lie")
      \/ Dev("destroy", "skip") \/ Dev("after", "lie")
  BY GetAttributesDevs DEF IInv, Base, TypeOK
<1>3. dev = Conforms => dev \in Overlooked("port_get_attributes", names)
  BY DEF Overlooked
<1>4. /\ ~Dev("alloc", "skip") /\ ~Dev("attrs", "lie") /\ ~Dev("bad_flavor", "lie")
      /\ ~Dev("bad_name", "lie")
  BY <1>1
     DEF GetAttributesHeld
<1>6. ASSUME names = "gap",
             \/ Dev("before", "lie") \/ Dev("destroy", "skip") \/ Dev("after", "lie")
      PROVE  dev \in Overlooked("port_get_attributes", names)
  <2>1. dev \in NamesOnly
    BY <1>6, DevIn DEF NamesOnly
  <2> QED
    BY <1>6, <2>1 DEF Overlooked
<1>7. ASSUME names = "ok"
      PROVE  /\ ~Dev("before", "lie") /\ ~Dev("destroy", "skip") /\ ~Dev("after", "lie")
  <2>1. (\A m \in Names : ~Exists(own[m])) /\ ~Dev("before", "lie") /\ ~Dev("after", "lie")
    BY <1>1, <1>7, BaselineClean DEF LastOf
  <2> QED
    BY <1>1, <2>1
       DEF GetAttributesHeld, Names, Exists, Destroyed
<1>8. names \in {"ok", "gap"}
  BY DEF IInv, Base, TypeOK
<1> QED
  BY <1>2, <1>3, <1>4, <1>6, <1>7, <1>8

\* port_get_attributes passes a kernel that conforms and fails no call.
LEMMA GetAttributesNoAlarm ==
  ASSUME IInv, ~Running, probe = "port_get_attributes", Quiet
  PROVE  Judgement("port_get_attributes") = Pass
<1>1. pc = 8
  BY GetAttributesListed, EndOf DEF IInv
<1>2. GetAttributesSeen /\ GetAttributesHeld
  BY DEF IInv, ProbesInv, GetAttributesInv, Follows
<1>3. \A m \in Names : ~Exists(own[m])
  BY <1>1, <1>2
     DEF GetAttributesHeld, Quiet, Conforms, Dev, Exists, Names, Nothing, Hold, Destroyed, Rest
<1>4. BaselineOk("before", "after") /\ ~Blocks(obs["before"].kr) /\ ~Blocks(obs["after"].kr)
  BY <1>3, BaselineQuiet DEF LastOf
<1>5. GetAttributesJudge = Pass
  BY <1>1, <1>2, <1>4
     DEF GetAttributesJudge, JudgeEndBare, AllOk, Ok, GetAttributesSeen, Counted
<1> QED
  BY <1>5, Zenon DEF Judgement

\* The deviations that msg_rcv_timeout may meet.
LEMMA RcvTimeoutDevs ==
  ASSUME dev \in Devs("msg_rcv_timeout")
  PROVE  \/ dev = Conforms \/ Dev("before", "lie") \/ Dev("alloc", "skip")
         \/ Dev("timed", "lie") \/ Dev("poll", "lie") \/ Dev("destroy", "skip")
         \/ Dev("after", "lie")
<1>1. Steps("msg_rcv_timeout") = RcvTimeoutSteps /\ DOMAIN RcvTimeoutSteps = 1..6
  BY RcvTimeoutListed DEF Listed
<1>2. SUFFICES ASSUME NEW i \in 1..6, NEW z \in Deviations(RcvTimeoutSteps[i].call),
                      dev = [at |-> RcvTimeoutSteps[i].as, kind |-> z]
      PROVE  \/ Dev("before", "lie") \/ Dev("alloc", "skip") \/ Dev("timed", "lie")
             \/ Dev("poll", "lie") \/ Dev("destroy", "skip") \/ Dev("after", "lie")
  BY <1>1 DEF Devs
<1>3. i = 1 => Dev("before", "lie")
  BY <1>2, DeviationsAre DEF RcvTimeoutSteps, Do, Dev
<1>4. i = 2 => Dev("alloc", "skip")
  BY <1>2, DeviationsAre DEF RcvTimeoutSteps, Do, Dev
<1>5. i = 3 => Dev("timed", "lie")
  BY <1>2, DeviationsAre DEF RcvTimeoutSteps, Do, Dev
<1>6. i = 4 => Dev("poll", "lie")
  BY <1>2, DeviationsAre DEF RcvTimeoutSteps, Do, Dev
<1>7. i = 5 => Dev("destroy", "skip")
  BY <1>2, DeviationsAre DEF RcvTimeoutSteps, Do, Dev
<1>8. i = 6 => Dev("after", "lie")
  BY <1>2, DeviationsAre DEF RcvTimeoutSteps, Do, Dev
<1> QED
  BY <1>3, <1>4, <1>5, <1>6, <1>7, <1>8

\* msg_rcv_timeout passes only when it has seen all it demands and its baselines compare equal.
LEMMA RcvTimeoutPasses ==
  ASSUME IInv, ~Running, probe = "msg_rcv_timeout", Judgement("msg_rcv_timeout") = Pass
  PROVE  pc = 7 /\ RcvTimeoutSeen /\ RcvTimeoutHeld /\ BaselineOk("before", "after")
<1>1. pc = 7
  BY RcvTimeoutListed, EndOf DEF IInv
<1>2. RcvTimeoutJudge = Pass
  BY Zenon DEF Judgement
<1>3. RcvTimeoutSeen /\ BaselineOk("before", "after")
  BY <1>1, <1>2
     DEF RcvTimeoutJudge, JudgeEndBare, Pass, Accuse, Unclean, ProbeFailure, Is, AllOk, Ok,
         RcvTimeoutSeen
<1>4. RcvTimeoutHeld
  BY <1>3 DEF IInv, ProbesInv, RcvTimeoutInv, Follows
<1> QED
  BY <1>1, <1>3, <1>4

\* A pass of msg_rcv_timeout is sound.
LEMMA RcvTimeoutSound ==
  ASSUME IInv, ~Running, probe = "msg_rcv_timeout", Judgement("msg_rcv_timeout") = Pass
  PROVE  dev \in Overlooked("msg_rcv_timeout", names)
<1>1. pc = 7 /\ RcvTimeoutSeen /\ RcvTimeoutHeld /\ BaselineOk("before", "after")
  BY RcvTimeoutPasses
<1>2. \/ dev = Conforms \/ Dev("before", "lie") \/ Dev("alloc", "skip")
      \/ Dev("timed", "lie") \/ Dev("poll", "lie") \/ Dev("destroy", "skip")
      \/ Dev("after", "lie")
  BY RcvTimeoutDevs DEF IInv, Base, TypeOK
<1>3. dev = Conforms => dev \in Overlooked("msg_rcv_timeout", names)
  BY DEF Overlooked
<1>4. /\ ~Dev("alloc", "skip") /\ ~Dev("timed", "lie") /\ ~Dev("poll", "lie")
  BY <1>1
     DEF RcvTimeoutHeld
<1>6. ASSUME names = "gap",
             \/ Dev("before", "lie") \/ Dev("destroy", "skip") \/ Dev("after", "lie")
      PROVE  dev \in Overlooked("msg_rcv_timeout", names)
  <2>1. dev \in NamesOnly
    BY <1>6, DevIn DEF NamesOnly
  <2> QED
    BY <1>6, <2>1 DEF Overlooked
<1>7. ASSUME names = "ok"
      PROVE  /\ ~Dev("before", "lie") /\ ~Dev("destroy", "skip") /\ ~Dev("after", "lie")
  <2>1. (\A m \in Names : ~Exists(own[m])) /\ ~Dev("before", "lie") /\ ~Dev("after", "lie")
    BY <1>1, <1>7, BaselineClean DEF LastOf
  <2> QED
    BY <1>1, <2>1
       DEF RcvTimeoutHeld, Names, Exists, Destroyed
<1>8. names \in {"ok", "gap"}
  BY DEF IInv, Base, TypeOK
<1> QED
  BY <1>2, <1>3, <1>4, <1>6, <1>7, <1>8

\* msg_rcv_timeout passes a kernel that conforms and fails no call.
LEMMA RcvTimeoutNoAlarm ==
  ASSUME IInv, ~Running, probe = "msg_rcv_timeout", Quiet
  PROVE  Judgement("msg_rcv_timeout") = Pass
<1>1. pc = 7
  BY RcvTimeoutListed, EndOf DEF IInv
<1>2. RcvTimeoutSeen /\ RcvTimeoutHeld
  BY DEF IInv, ProbesInv, RcvTimeoutInv, Follows
<1>3. \A m \in Names : ~Exists(own[m])
  BY <1>1, <1>2
     DEF RcvTimeoutHeld, Quiet, Conforms, Dev, Exists, Names, Nothing, Hold, Destroyed, Rest
<1>4. BaselineOk("before", "after") /\ ~Blocks(obs["before"].kr) /\ ~Blocks(obs["after"].kr)
  BY <1>3, BaselineQuiet DEF LastOf
<1>5. RcvTimeoutJudge = Pass
  BY <1>1, <1>2, <1>4
     DEF RcvTimeoutJudge, JudgeEndBare, AllOk, Ok, RcvTimeoutSeen
<1> QED
  BY <1>5, Zenon DEF Judgement

\* The deviations that task_info may meet.
LEMMA TaskInfoDevs ==
  ASSUME dev \in Devs("task_info")
  PROVE  \/ dev = Conforms \/ Dev("before", "lie") \/ Dev("type", "lie")
         \/ Dev("basic", "lie") \/ Dev("bad_flavor", "lie") \/ Dev("null_task", "lie")
         \/ Dev("after", "lie")
<1>1. Steps("task_info") = TaskInfoSteps /\ DOMAIN TaskInfoSteps = 1..7
  BY TaskInfoListed DEF Listed
<1>2. SUFFICES ASSUME NEW i \in 1..7, NEW z \in Deviations(TaskInfoSteps[i].call),
                      dev = [at |-> TaskInfoSteps[i].as, kind |-> z]
      PROVE  \/ Dev("before", "lie") \/ Dev("type", "lie") \/ Dev("basic", "lie")
             \/ Dev("bad_flavor", "lie") \/ Dev("null_task", "lie") \/ Dev("after", "lie")
  BY <1>1 DEF Devs
<1>3. i = 1 => Dev("before", "lie")
  BY <1>2, DeviationsAre DEF TaskInfoSteps, Do, Dev
<1>4. i = 2 => FALSE
  BY <1>2, DeviationsAre DEF TaskInfoSteps, Do, Dev
<1>5. i = 3 => Dev("type", "lie")
  BY <1>2, DeviationsAre DEF TaskInfoSteps, Do, Dev
<1>6. i = 4 => Dev("basic", "lie")
  BY <1>2, DeviationsAre DEF TaskInfoSteps, Do, Dev
<1>7. i = 5 => Dev("bad_flavor", "lie")
  BY <1>2, DeviationsAre DEF TaskInfoSteps, Do, Dev
<1>8. i = 6 => Dev("null_task", "lie")
  BY <1>2, DeviationsAre DEF TaskInfoSteps, Do, Dev
<1>9. i = 7 => Dev("after", "lie")
  BY <1>2, DeviationsAre DEF TaskInfoSteps, Do, Dev
<1> QED
  BY <1>3, <1>4, <1>5, <1>6, <1>7, <1>8, <1>9

\* task_info passes only when it has seen all it demands and its baselines compare equal.
LEMMA TaskInfoPasses ==
  ASSUME IInv, ~Running, probe = "task_info", Judgement("task_info") = Pass
  PROVE  pc = 8 /\ TaskInfoSeen /\ TaskInfoHeld /\ BaselineOk("before", "after")
<1>1. pc = 8
  BY TaskInfoListed, EndOf DEF IInv
<1>2. TaskInfoJudge = Pass
  BY Zenon DEF Judgement
<1>3. TaskInfoSeen /\ BaselineOk("before", "after")
  BY <1>1, <1>2
     DEF TaskInfoJudge, JudgeEndBare, Pass, Accuse, Unclean, ProbeFailure, Is, AllOk, Ok,
         TaskInfoSeen, Counted
<1>4. TaskInfoHeld
  BY <1>3 DEF IInv, ProbesInv, TaskInfoInv, Follows
<1> QED
  BY <1>1, <1>3, <1>4

\* A pass of task_info is sound.
LEMMA TaskInfoSound ==
  ASSUME IInv, ~Running, probe = "task_info", Judgement("task_info") = Pass
  PROVE  dev \in Overlooked("task_info", names)
<1>1. pc = 8 /\ TaskInfoSeen /\ TaskInfoHeld /\ BaselineOk("before", "after")
  BY TaskInfoPasses
<1>2. \/ dev = Conforms \/ Dev("before", "lie") \/ Dev("type", "lie")
      \/ Dev("basic", "lie") \/ Dev("bad_flavor", "lie") \/ Dev("null_task", "lie")
      \/ Dev("after", "lie")
  BY TaskInfoDevs DEF IInv, Base, TypeOK
<1>3. dev = Conforms => dev \in Overlooked("task_info", names)
  BY DEF Overlooked
<1>4. /\ ~Dev("basic", "lie") /\ ~Dev("bad_flavor", "lie") /\ ~Dev("null_task", "lie")
  BY <1>1
     DEF TaskInfoHeld
<1>5. ASSUME \/ Dev("type", "lie")
      PROVE  dev \in Overlooked("task_info", names)
  <2>1. dev \in Unjudged("task_info")
    BY <1>5, DevIn DEF Unjudged
  <2> QED
    BY <2>1 DEF Overlooked
<1>6. ASSUME names = "gap",
             \/ Dev("before", "lie") \/ Dev("after", "lie")
      PROVE  dev \in Overlooked("task_info", names)
  <2>1. dev \in NamesOnly
    BY <1>6, DevIn DEF NamesOnly
  <2> QED
    BY <1>6, <2>1 DEF Overlooked
<1>7. ASSUME names = "ok"
      PROVE  /\ ~Dev("before", "lie") /\ ~Dev("after", "lie")
  <2>1. (\A m \in Names : ~Exists(own[m])) /\ ~Dev("before", "lie") /\ ~Dev("after", "lie")
    BY <1>1, <1>7, BaselineClean DEF LastOf
  <2> QED
    BY <1>1, <2>1
       DEF TaskInfoHeld, Names, Exists
<1>8. names \in {"ok", "gap"}
  BY DEF IInv, Base, TypeOK
<1> QED
  BY <1>2, <1>3, <1>4, <1>5, <1>6, <1>7, <1>8

\* task_info passes a kernel that conforms and fails no call.
LEMMA TaskInfoNoAlarm ==
  ASSUME IInv, ~Running, probe = "task_info", Quiet
  PROVE  Judgement("task_info") = Pass
<1>1. pc = 8
  BY TaskInfoListed, EndOf DEF IInv
<1>2. TaskInfoSeen /\ TaskInfoHeld
  BY DEF IInv, ProbesInv, TaskInfoInv, Follows
<1>3. \A m \in Names : ~Exists(own[m])
  BY <1>1, <1>2
     DEF TaskInfoHeld, Quiet, Conforms, Dev, Exists, Names, Nothing, Hold, Rest
<1>4. BaselineOk("before", "after") /\ ~Blocks(obs["before"].kr) /\ ~Blocks(obs["after"].kr)
  BY <1>3, BaselineQuiet DEF LastOf
<1>5. TaskInfoJudge = Pass
  BY <1>1, <1>2, <1>4
     DEF TaskInfoJudge, JudgeEndBare, AllOk, Ok, TaskInfoSeen, Counted
<1> QED
  BY <1>5, Zenon DEF Judgement

\* The deviations that host_info may meet.
LEMMA HostInfoDevs ==
  ASSUME dev \in Devs("host_info")
  PROVE  \/ dev = Conforms \/ Dev("before", "lie") \/ Dev("host_a", "over")
         \/ Dev("host_b", "over") \/ Dev("basic", "lie") \/ Dev("bad_flavor", "lie")
         \/ Dev("null_host", "lie") \/ Dev("dealloc_a", "skip") \/ Dev("dealloc_b", "skip")
         \/ Dev("after", "lie")
<1>1. Steps("host_info") = HostInfoSteps /\ DOMAIN HostInfoSteps = 1..9
  BY HostInfoListed DEF Listed
<1>2. SUFFICES ASSUME NEW i \in 1..9, NEW z \in Deviations(HostInfoSteps[i].call),
                      dev = [at |-> HostInfoSteps[i].as, kind |-> z]
      PROVE  \/ Dev("before", "lie") \/ Dev("host_a", "over") \/ Dev("host_b", "over")
             \/ Dev("basic", "lie") \/ Dev("bad_flavor", "lie") \/ Dev("null_host", "lie")
             \/ Dev("dealloc_a", "skip") \/ Dev("dealloc_b", "skip") \/ Dev("after", "lie")
  BY <1>1 DEF Devs
<1>3. i = 1 => Dev("before", "lie")
  BY <1>2, DeviationsAre DEF HostInfoSteps, Do, Dev
<1>4. i = 2 => Dev("host_a", "over")
  BY <1>2, DeviationsAre DEF HostInfoSteps, Do, Dev
<1>5. i = 3 => Dev("host_b", "over")
  BY <1>2, DeviationsAre DEF HostInfoSteps, Do, Dev
<1>6. i = 4 => Dev("basic", "lie")
  BY <1>2, DeviationsAre DEF HostInfoSteps, Do, Dev
<1>7. i = 5 => Dev("bad_flavor", "lie")
  BY <1>2, DeviationsAre DEF HostInfoSteps, Do, Dev
<1>8. i = 6 => Dev("null_host", "lie")
  BY <1>2, DeviationsAre DEF HostInfoSteps, Do, Dev
<1>9. i = 7 => Dev("dealloc_a", "skip")
  BY <1>2, DeviationsAre DEF HostInfoSteps, Do, Dev
<1>10. i = 8 => Dev("dealloc_b", "skip")
  BY <1>2, DeviationsAre DEF HostInfoSteps, Do, Dev
<1>11. i = 9 => Dev("after", "lie")
  BY <1>2, DeviationsAre DEF HostInfoSteps, Do, Dev
<1> QED
  BY <1>3, <1>4, <1>5, <1>6, <1>7, <1>8, <1>9, <1>10, <1>11

\* host_info passes only when it has seen all it demands and its baselines compare equal.
LEMMA HostInfoPasses ==
  ASSUME IInv, ~Running, probe = "host_info", Judgement("host_info") = Pass
  PROVE  pc = 10 /\ HostInfoSeen /\ HostInfoHeld /\ BaselineOk("before", "after")
<1>1. pc = 10
  BY HostInfoListed, EndOf DEF IInv
<1>2. HostInfoJudge = Pass
  BY Zenon DEF Judgement
<1>3. HostInfoSeen /\ BaselineOk("before", "after")
  BY <1>1, <1>2
     DEF HostInfoJudge, JudgeEndBare, Pass, Accuse, Unclean, ProbeFailure, Is, AllOk, Ok,
         HostInfoSeen
<1>4. HostInfoHeld
  BY <1>3 DEF IInv, ProbesInv, HostInfoInv, Follows
<1> QED
  BY <1>1, <1>3, <1>4

\* A pass of host_info is sound.
LEMMA HostInfoSound ==
  ASSUME IInv, ~Running, probe = "host_info", Judgement("host_info") = Pass
  PROVE  dev \in Overlooked("host_info", names)
<1>1. pc = 10 /\ HostInfoSeen /\ HostInfoHeld /\ BaselineOk("before", "after")
  BY HostInfoPasses
<1>2. \/ dev = Conforms \/ Dev("before", "lie") \/ Dev("host_a", "over")
      \/ Dev("host_b", "over") \/ Dev("basic", "lie") \/ Dev("bad_flavor", "lie")
      \/ Dev("null_host", "lie") \/ Dev("dealloc_a", "skip") \/ Dev("dealloc_b", "skip")
      \/ Dev("after", "lie")
  BY HostInfoDevs DEF IInv, Base, TypeOK
<1>3. dev = Conforms => dev \in Overlooked("host_info", names)
  BY DEF Overlooked
<1>4. /\ ~Dev("bad_flavor", "lie") /\ ~Dev("null_host", "lie")
  BY <1>1
     DEF HostInfoHeld
<1>5. ASSUME \/ Dev("basic", "lie")
      PROVE  dev \in Overlooked("host_info", names)
  <2>1. dev \in Unjudged("host_info")
    BY <1>5, DevIn DEF Unjudged
  <2> QED
    BY <2>1 DEF Overlooked
<1>6. ASSUME names = "gap",
             \/ Dev("before", "lie") \/ Dev("host_a", "over") \/ Dev("host_b", "over")
             \/ Dev("dealloc_a", "skip") \/ Dev("dealloc_b", "skip") \/ Dev("after", "lie")
      PROVE  dev \in Overlooked("host_info", names)
  <2>1. dev \in NamesOnly
    BY <1>6, DevIn DEF NamesOnly
  <2> QED
    BY <1>6, <2>1 DEF Overlooked
<1>7. ASSUME names = "ok"
      PROVE  /\ ~Dev("before", "lie") /\ ~Dev("host_a", "over") /\ ~Dev("host_b", "over")
             /\ ~Dev("dealloc_a", "skip") /\ ~Dev("dealloc_b", "skip") /\ ~Dev("after", "lie")
  <2>1. (\A m \in Names : ~Exists(own[m])) /\ ~Dev("before", "lie") /\ ~Dev("after", "lie")
    BY <1>1, <1>7, BaselineClean DEF LastOf
  <2> QED
    BY <1>1, <2>1
       DEF HostInfoHeld, Names, Exists, Granted, Returned, HostRight, Hold, Dev
<1>8. names \in {"ok", "gap"}
  BY DEF IInv, Base, TypeOK
<1> QED
  BY <1>2, <1>3, <1>4, <1>5, <1>6, <1>7, <1>8

\* host_info passes a kernel that conforms and fails no call.
LEMMA HostInfoNoAlarm ==
  ASSUME IInv, ~Running, probe = "host_info", Quiet
  PROVE  Judgement("host_info") = Pass
<1>1. pc = 10
  BY HostInfoListed, EndOf DEF IInv
<1>2. HostInfoSeen /\ HostInfoHeld
  BY DEF IInv, ProbesInv, HostInfoInv, Follows
<1>3. \A m \in Names : ~Exists(own[m])
  BY <1>1, <1>2
     DEF HostInfoHeld, Quiet, Conforms, Dev, Exists, Names, Nothing, Hold, Granted, Returned,
         HostRight, Rest
<1>4. BaselineOk("before", "after") /\ ~Blocks(obs["before"].kr) /\ ~Blocks(obs["after"].kr)
  BY <1>3, BaselineQuiet DEF LastOf
<1>5. HostInfoJudge = Pass
  BY <1>1, <1>2, <1>4
     DEF HostInfoJudge, JudgeEndBare, AllOk, Ok, HostInfoSeen
<1> QED
  BY <1>5, Zenon DEF Judgement

\* The deviations that absolute_time may meet.
LEMMA AbsoluteTimeDevs ==
  ASSUME dev \in Devs("absolute_time")
  PROVE  \/ dev = Conforms \/ Dev("before", "lie") \/ Dev("t2", "lie")
         \/ Dev("timebase", "lie") \/ Dev("after", "lie")
<1>1. Steps("absolute_time") = AbsoluteTimeSteps /\ DOMAIN AbsoluteTimeSteps = 1..5
  BY AbsoluteTimeListed DEF Listed
<1>2. SUFFICES ASSUME NEW i \in 1..5, NEW z \in Deviations(AbsoluteTimeSteps[i].call),
                      dev = [at |-> AbsoluteTimeSteps[i].as, kind |-> z]
      PROVE  \/ Dev("before", "lie") \/ Dev("t2", "lie") \/ Dev("timebase", "lie")
             \/ Dev("after", "lie")
  BY <1>1 DEF Devs
<1>3. i = 1 => Dev("before", "lie")
  BY <1>2, DeviationsAre DEF AbsoluteTimeSteps, Do, Dev
<1>4. i = 2 => FALSE
  BY <1>2, DeviationsAre DEF AbsoluteTimeSteps, Do, Dev
<1>5. i = 3 => Dev("t2", "lie")
  BY <1>2, DeviationsAre DEF AbsoluteTimeSteps, Do, Dev
<1>6. i = 4 => Dev("timebase", "lie")
  BY <1>2, DeviationsAre DEF AbsoluteTimeSteps, Do, Dev
<1>7. i = 5 => Dev("after", "lie")
  BY <1>2, DeviationsAre DEF AbsoluteTimeSteps, Do, Dev
<1> QED
  BY <1>3, <1>4, <1>5, <1>6, <1>7

\* absolute_time passes only when it has seen all it demands and its baselines compare equal.
LEMMA AbsoluteTimePasses ==
  ASSUME IInv, ~Running, probe = "absolute_time", Judgement("absolute_time") = Pass
  PROVE  pc = 6 /\ AbsoluteTimeSeen /\ AbsoluteTimeHeld /\ BaselineOk("before", "after")
<1>1. pc = 6
  BY AbsoluteTimeListed, EndOf DEF IInv
<1>2. AbsoluteTimeJudge = Pass
  BY Zenon DEF Judgement
<1>3. AbsoluteTimeSeen /\ BaselineOk("before", "after")
  BY <1>1, <1>2
     DEF AbsoluteTimeJudge, JudgeEndBare, Pass, Accuse, Unclean, ProbeFailure, Is, AllOk, Ok,
         AbsoluteTimeSeen, Counted
<1>4. AbsoluteTimeHeld
  BY <1>3 DEF IInv, ProbesInv, AbsoluteTimeInv, Follows
<1> QED
  BY <1>1, <1>3, <1>4

\* A pass of absolute_time is sound.
LEMMA AbsoluteTimeSound ==
  ASSUME IInv, ~Running, probe = "absolute_time", Judgement("absolute_time") = Pass
  PROVE  dev \in Overlooked("absolute_time", names)
<1>1. pc = 6 /\ AbsoluteTimeSeen /\ AbsoluteTimeHeld /\ BaselineOk("before", "after")
  BY AbsoluteTimePasses
<1>2. \/ dev = Conforms \/ Dev("before", "lie") \/ Dev("t2", "lie")
      \/ Dev("timebase", "lie") \/ Dev("after", "lie")
  BY AbsoluteTimeDevs DEF IInv, Base, TypeOK
<1>3. dev = Conforms => dev \in Overlooked("absolute_time", names)
  BY DEF Overlooked
<1>4. /\ ~Dev("t2", "lie") /\ ~Dev("timebase", "lie")
  BY <1>1
     DEF AbsoluteTimeHeld
<1>6. ASSUME names = "gap",
             \/ Dev("before", "lie") \/ Dev("after", "lie")
      PROVE  dev \in Overlooked("absolute_time", names)
  <2>1. dev \in NamesOnly
    BY <1>6, DevIn DEF NamesOnly
  <2> QED
    BY <1>6, <2>1 DEF Overlooked
<1>7. ASSUME names = "ok"
      PROVE  /\ ~Dev("before", "lie") /\ ~Dev("after", "lie")
  <2>1. (\A m \in Names : ~Exists(own[m])) /\ ~Dev("before", "lie") /\ ~Dev("after", "lie")
    BY <1>1, <1>7, BaselineClean DEF LastOf
  <2> QED
    BY <1>1, <2>1
       DEF AbsoluteTimeHeld, Names, Exists
<1>8. names \in {"ok", "gap"}
  BY DEF IInv, Base, TypeOK
<1> QED
  BY <1>2, <1>3, <1>4, <1>6, <1>7, <1>8

\* absolute_time passes a kernel that conforms and fails no call.
LEMMA AbsoluteTimeNoAlarm ==
  ASSUME IInv, ~Running, probe = "absolute_time", Quiet
  PROVE  Judgement("absolute_time") = Pass
<1>1. pc = 6
  BY AbsoluteTimeListed, EndOf DEF IInv
<1>2. AbsoluteTimeSeen /\ AbsoluteTimeHeld
  BY DEF IInv, ProbesInv, AbsoluteTimeInv, Follows
<1>3. \A m \in Names : ~Exists(own[m])
  BY <1>1, <1>2
     DEF AbsoluteTimeHeld, Quiet, Conforms, Dev, Exists, Names, Nothing, Hold, Rest
<1>4. BaselineOk("before", "after") /\ ~Blocks(obs["before"].kr) /\ ~Blocks(obs["after"].kr)
  BY <1>3, BaselineQuiet DEF LastOf
<1>5. AbsoluteTimeJudge = Pass
  BY <1>1, <1>2, <1>4
     DEF AbsoluteTimeJudge, JudgeEndBare, AllOk, Ok, AbsoluteTimeSeen, Counted
<1> QED
  BY <1>5, Zenon DEF Judgement

-----------------------------------------------------------------------------
(* The theorems.                                                           *)

\* Whichever probe passes, it leaves nothing in the task where names are listed.
LEMMA PassLeavesNothing ==
  ASSUME IInv, ~Running, Judgement(probe) = Pass, names = "ok"
  PROVE  \A n \in Names : ~Exists(own[n])
<1>1. probe \in Probes
  BY DEF IInv, Base, TypeOK
<1>2. CASE probe = "header_copy"
  <2>1. BaselineOk("before", "after")
    BY <1>2, HeaderCopyPasses
  <2> QED
    BY <1>2, <2>1, BaselineClean DEF LastOf
<1>3. CASE probe = "header_move"
  <2>1. BaselineOk("before", "after")
    BY <1>3, HeaderMovePasses
  <2> QED
    BY <1>3, <2>1, BaselineClean DEF LastOf
<1>4. CASE probe = "double_move"
  <2>1. BaselineOk("before", "after")
    BY <1>4, DoubleMovePasses
  <2> QED
    BY <1>4, <2>1, BaselineClean DEF LastOf
<1>5. CASE probe = "dead_name"
  <2>1. DeadNameHeld /\ BaselineOk("before", "after") /\ BaselineOk("before2", "after2")
    BY <1>5, DeadNamePasses
  <2> QED
    BY <1>5, <2>1, DeadNameClean
<1>6. CASE probe = "invalid_disposition"
  <2>1. BaselineOk("before", "after")
    BY <1>6, InvalidDispositionPasses
  <2> QED
    BY <1>6, <2>1, BaselineClean DEF LastOf
<1>7. CASE probe = "smoke"
  <2>1. BaselineOk("before", "after")
    BY <1>7, SmokePasses
  <2> QED
    BY <1>7, <2>1, BaselineClean DEF LastOf
<1>8. CASE probe = "port_get_refs"
  <2>1. BaselineOk("before", "after")
    BY <1>8, GetRefsPasses
  <2> QED
    BY <1>8, <2>1, BaselineClean DEF LastOf
<1>9. CASE probe = "port_type"
  <2>1. BaselineOk("before", "after")
    BY <1>9, TypePasses
  <2> QED
    BY <1>9, <2>1, BaselineClean DEF LastOf
<1>10. CASE probe = "port_set"
  <2>1. BaselineOk("before", "after")
    BY <1>10, PortSetPasses
  <2> QED
    BY <1>10, <2>1, BaselineClean DEF LastOf
<1>11. CASE probe = "port_names"
  <2>1. BaselineOk("before", "after")
    BY <1>11, PortNamesPasses
  <2> QED
    BY <1>11, <2>1, BaselineClean DEF LastOf
<1>12. CASE probe = "port_get_attributes"
  <2>1. BaselineOk("before", "after")
    BY <1>12, GetAttributesPasses
  <2> QED
    BY <1>12, <2>1, BaselineClean DEF LastOf
<1>13. CASE probe = "msg_rcv_timeout"
  <2>1. BaselineOk("before", "after")
    BY <1>13, RcvTimeoutPasses
  <2> QED
    BY <1>13, <2>1, BaselineClean DEF LastOf
<1>14. CASE probe = "task_info"
  <2>1. BaselineOk("before", "after")
    BY <1>14, TaskInfoPasses
  <2> QED
    BY <1>14, <2>1, BaselineClean DEF LastOf
<1>15. CASE probe = "host_info"
  <2>1. BaselineOk("before", "after")
    BY <1>15, HostInfoPasses
  <2> QED
    BY <1>15, <2>1, BaselineClean DEF LastOf
<1>16. CASE probe = "absolute_time"
  <2>1. BaselineOk("before", "after")
    BY <1>16, AbsoluteTimePasses
  <2> QED
    BY <1>16, <2>1, BaselineClean DEF LastOf
<1> QED
  BY <1>1, <1>2, <1>3, <1>4, <1>5, <1>6, <1>7, <1>8, <1>9, <1>10, <1>11, <1>12, <1>13, <1>14,
     <1>15, <1>16
     DEF Probes

\* The one call of a passing probe that is judged only if it is made: header_move tries
\* out a right only if one came back, invalid_disposition returns one only if it came.
Spared ==
  \/ probe = "header_move" /\ Dev("use_send", "lost")
  \/ probe = "invalid_disposition" /\ Dev("first", "skip")

\* Whichever probe passes, the kernel conforms in all it judges, or in all but that call.
LEMMA PassJudges ==
  ASSUME IInv, ~Running, Judgement(probe) = Pass
  PROVE  dev \in Overlooked(probe, names) \/ Spared
<1>1. probe \in Probes
  BY DEF IInv, Base, TypeOK
<1>2. CASE probe = "header_copy"
  BY <1>2, HeaderCopySound
<1>3. CASE probe = "header_move"
  BY <1>3, HeaderMoveSound DEF Spared
<1>4. CASE probe = "double_move"
  BY <1>4, DoubleMoveSound
<1>5. CASE probe = "dead_name"
  BY <1>5, DeadNameSound
<1>6. CASE probe = "invalid_disposition"
  BY <1>6, InvalidDispositionSound DEF Spared
<1>7. CASE probe = "smoke"
  BY <1>7, SmokeSound
<1>8. CASE probe = "port_get_refs"
  BY <1>8, GetRefsSound
<1>9. CASE probe = "port_type"
  BY <1>9, TypeSound
<1>10. CASE probe = "port_set"
  BY <1>10, PortSetSound
<1>11. CASE probe = "port_names"
  BY <1>11, PortNamesSound
<1>12. CASE probe = "port_get_attributes"
  BY <1>12, GetAttributesSound
<1>13. CASE probe = "msg_rcv_timeout"
  BY <1>13, RcvTimeoutSound
<1>14. CASE probe = "task_info"
  BY <1>14, TaskInfoSound
<1>15. CASE probe = "host_info"
  BY <1>15, HostInfoSound
<1>16. CASE probe = "absolute_time"
  BY <1>16, AbsoluteTimeSound
<1> QED
  BY <1>1, <1>2, <1>3, <1>4, <1>5, <1>6, <1>7, <1>8, <1>9, <1>10, <1>11, <1>12, <1>13, <1>14,
     <1>15, <1>16
     DEF Probes

\* Such a call was not made.
LEMMA SparedUnmade ==
  ASSUME IInv, ~Running, Judgement(probe) = Pass, Spared
  PROVE  ~Made(dev.at)
<1>1. CASE probe = "header_move" /\ Dev("use_send", "lost")
  <2>1. dev.at = "use_send"
    BY <1>1 DEF Dev
  <2>2. ~Made("use_send")
    BY <1>1, HeaderMoveMade
  <2> QED
    BY <2>1, <2>2
<1>2. CASE probe = "invalid_disposition" /\ Dev("first", "skip")
  <2>1. dev.at = "first"
    BY <1>2 DEF Dev
  <2>2. ~Made("first")
    BY <1>2, InvalidDispositionMade
  <2> QED
    BY <2>1, <2>2
<1> QED
  BY <1>1, <1>2 DEF Spared

\* Whichever probe runs, it passes a quiet kernel; port_names wants mach_port_names too.
LEMMA QuietPasses ==
  ASSUME IInv, ~Running, Quiet, probe = "port_names" => names = "ok"
  PROVE  Judgement(probe) = Pass
<1>1. probe \in Probes
  BY DEF IInv, Base, TypeOK
<1>2. CASE probe = "header_copy"
  BY <1>2, HeaderCopyNoAlarm
<1>3. CASE probe = "header_move"
  BY <1>3, HeaderMoveNoAlarm
<1>4. CASE probe = "double_move"
  BY <1>4, DoubleMoveNoAlarm
<1>5. CASE probe = "dead_name"
  BY <1>5, DeadNameNoAlarm
<1>6. CASE probe = "invalid_disposition"
  BY <1>6, InvalidDispositionNoAlarm
<1>7. CASE probe = "smoke"
  BY <1>7, SmokeNoAlarm
<1>8. CASE probe = "port_get_refs"
  BY <1>8, GetRefsNoAlarm
<1>9. CASE probe = "port_type"
  BY <1>9, TypeNoAlarm
<1>10. CASE probe = "port_set"
  BY <1>10, PortSetNoAlarm
<1>11. CASE probe = "port_names"
  BY <1>11, PortNamesNoAlarm
<1>12. CASE probe = "port_get_attributes"
  BY <1>12, GetAttributesNoAlarm
<1>13. CASE probe = "msg_rcv_timeout"
  BY <1>13, RcvTimeoutNoAlarm
<1>14. CASE probe = "task_info"
  BY <1>14, TaskInfoNoAlarm
<1>15. CASE probe = "host_info"
  BY <1>15, HostInfoNoAlarm
<1>16. CASE probe = "absolute_time"
  BY <1>16, AbsoluteTimeNoAlarm
<1> QED
  BY <1>1, <1>2, <1>3, <1>4, <1>5, <1>6, <1>7, <1>8, <1>9, <1>10, <1>11, <1>12, <1>13, <1>14,
     <1>15, <1>16
     DEF Probes

\* What the chain of tests gave: the probe is through its calls.
LEMMA VerdictGiven ==
  ASSUME IInv, verdict # NoVerdict PROVE ~Running /\ verdict = Judgement(probe)
  BY DEF IInv, Base, PlaceInv

\* A probe passes only a kernel that conforms in every call the probe made and judges,
\* however many other calls fail: no order of early returns, presets and tests lets a
\* deviation through any of the fifteen chains.
THEOREM PassSound == Spec => []PassIsSound
<1>1. ASSUME IInv, verdict = Pass, Made(dev.at) PROVE dev \in Overlooked(probe, names)
  <2>1. ~Running /\ Judgement(probe) = Pass
    BY <1>1, VerdictGiven DEF Pass, NoVerdict, Is
  <2> QED
    BY <1>1, <2>1, PassJudges, SparedUnmade
<1>2. IInv => PassIsSound
  BY <1>1 DEF PassIsSound
<1> QED
  BY <1>2, Invariance, PTL

\* A passing probe has given back every right it allocated, was granted or was delivered,
\* where mach_port_names can tell, whichever calls failed on the way.
THEOREM PassClean == Spec => []PassIsClean
<1>1. ASSUME IInv, verdict = Pass, names = "ok" PROVE \A n \in Names : ~Exists(own[n])
  <2>1. ~Running /\ Judgement(probe) = Pass
    BY <1>1, VerdictGiven DEF Pass, NoVerdict, Is
  <2> QED
    BY <1>1, <2>1, PassLeavesNothing
<1>2. IInv => PassIsClean
  BY <1>1 DEF PassIsClean
<1> QED
  BY <1>2, Invariance, PTL

\* On a kernel that conforms and fails no call every probe passes, whatever the contract
\* leaves open; only port_names blames a kernel without mach_port_names.
THEOREM NoAlarm == Spec => []NoFalseAlarm
<1>1. ASSUME IInv, verdict \notin {NoVerdict, Pass}, dev = Conforms, ~(fails < MaxFails),
             ~(probe = "port_names" /\ names = "gap")
      PROVE  FALSE
  <2>1. ~Running /\ verdict = Judgement(probe)
    BY <1>1, VerdictGiven
  <2>2. fails \in 0..MaxFails /\ names \in {"ok", "gap"}
    BY <1>1 DEF IInv, Base, TypeOK
  <2>3. Quiet
    BY <1>1, <2>2, FailsAssumption DEF Quiet
  <2> QED
    BY <1>1, <2>1, <2>2, <2>3, QuietPasses
<1>2. IInv => NoFalseAlarm
  BY <1>1 DEF NoFalseAlarm
<1> QED
  BY <1>2, Invariance, PTL

-----------------------------------------------------------------------------
(* The contract of OracleProbe.                                            *)

\* The contract without its fairness.
ContractSafety == Contract!Init /\ [][Contract!Next]_(Contract!vars)

\* The report of a probe is the conclusion of the contract.
LEMMA ReportConcludes == ASSUME IInv, Report PROVE Contract!Conclude
<1>1. /\ ~Running /\ verdict = NoVerdict /\ verdict' = Judgement(probe)
      /\ UNCHANGED <<probe, names, dev>> /\ probe \in Probes
  BY DEF Report, IInv, Base, TypeOK
<1>2. verdict.status = "none"
  BY <1>1 DEF NoVerdict, Is
<1>3. verdict' \in {ProbeFailure, Accuse, Unclean, Pass}
  BY <1>1, JudgementType DEF Verdicts
<1>4. verdict'.status \in Contract!Outcomes
  BY <1>3 DEF ProbeFailure, Accuse, Unclean, Pass, Is, Contract!Outcomes
<1>5. ASSUME verdict'.status = "pass" PROVE Deserved
  <2>1. Judgement(probe) = Pass
    BY <1>1, <1>3, <1>5 DEF ProbeFailure, Accuse, Unclean, Is
  <2>2. dev \in Overlooked(probe, names) \/ Spared
    BY <1>1, <2>1, PassJudges
  <2>3. Spared => dev \in At({"use_send", "first"})
    BY DevIn DEF Spared
  <2> QED
    BY <2>2, <2>3 DEF Deserved
<1>6. Deserved' <=> Deserved
  BY <1>1 DEF Deserved
<1> QED
  BY <1>2, <1>4, <1>5, <1>6 DEF Contract!Conclude

\* Every step of a probe is its conclusion or changes nothing the contract sees.
LEMMA RefinesNext ==
  ASSUME IInv, [Next]_vars PROVE [Contract!Next]_(Contract!vars)
<1>1. CASE Report
  BY <1>1, ReportConcludes DEF Contract!Next
<1>2. CASE [Next]_vars /\ ~Report
  <2>1. UNCHANGED <<probe, names, dev, verdict>>
    BY <1>2
       DEF Next, Step, Skip, CallFails, Capture, Look, Ask, Change, SendHeader, SendDouble,
           SendInvalid, SendSource, Receive, Returns, Over, vars
  <2>2. UNCHANGED Deserved
    BY <2>1 DEF Deserved
  <2> QED
    BY <2>1, <2>2 DEF Contract!vars
<1> QED
  BY <1>1, <1>2

\* A sequential probe implements the contract of OracleProbe as far as safety goes: it
\* reports once, the report is final, and it is "pass" only of a kernel that deserves it.
THEOREM RefinesContract == Spec => ContractSafety
<1>1. Init => Contract!Init
  BY DEF Init, Contract!Init, NoVerdict, Is, Deserved
<1> QED
  BY <1>1, RefinesNext, Invariance, PTL DEF Spec, ContractSafety
=============================================================================
