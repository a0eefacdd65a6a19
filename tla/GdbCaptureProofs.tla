--------------------------- MODULE GdbCaptureProofs ---------------------------
(***************************************************************************)
(* For every length of the soak, every patience and every pace of the      *)
(* heartbeats: what the op-155 detector may and may not do.                *)
(***************************************************************************)
EXTENDS GdbCapture, TLAPS

\* The clock stops at max_wait: past the loop's test there is time left.
ClockInv == pc \in {"cur", "judge", "sleep"} => t < MaxWait

\* Heartbeats are at least a unit of time apart, and none is printed after the soak.
BeatInv == beats < due /\ beats <= Soak

\* The socket holds the heartbeats after the last one read, in order, and at its end
\* perhaps the end of file of a guest that is off.
SockOrder ==
  \A i \in 1..Len(sock) :
     \/ sock[i] = last + i
     \/ sock[i] = EOF /\ i = Len(sock) /\ guest = "off"

SockCount ==
  IF Len(sock) > 0 /\ sock[Len(sock)] = EOF
  THEN beats + 1 = last + Len(sock) ELSE beats = last + Len(sock)

SockInv == SockOrder /\ SockCount /\ (rp = "ended" => guest = "off")

\* What the main thread has read is older than what the reader thread has published.
ReadInv ==
  /\ lastAt <= t
  /\ cur <= last
  /\ pc \in {"attach", "poweroff", "captured", "raised"} => cur >= Gate

\* In the round of the loop, silence is no longer than the age read, and an iteration
\* newer than the one read is fresh; a round that goes to sleep has seen no stall.
RoundInv ==
  /\ pc \in {"cur", "judge"} => t - lastAt <= age
  /\ pc = "judge" /\ rp # "stamp" /\ last # cur => lastAt = t
  /\ pc = "sleep" /\ rp # "stamp" /\ last >= Gate => t - lastAt <= Stall
  /\ pc \in {"loop", "gaveup"} /\ rp # "stamp" /\ last >= Gate => t - lastAt <= Stall + 1

IInv == TypeOK /\ ClockInv /\ BeatInv /\ SockInv /\ ReadInv /\ RoundInv

\* The initial states satisfy the invariant.
LEMMA InitIInv == Init => IInv
BY TimesAssumption DEF Init, IInv, TypeOK, ClockInv, BeatInv, SockInv, SockOrder, SockCount, ReadInv, RoundInv, EOF,
   Gate, Stall

\* Every step of the guest preserves it.
LEMMA GuestIInv == IInv /\ (Guest \/ Freezes) => IInv'
<1> SUFFICES ASSUME IInv, Guest \/ Freezes PROVE IInv'
  OBVIOUS
<1> USE TimesAssumption DEF IInv, TypeOK, mainVars, readerVars, EOF, Gate, Stall
<1>1. CASE Beat
  <2>1. TypeOK' /\ BeatInv'
    BY <1>1 DEF Beat, BeatInv
  <2>2. ClockInv' /\ ReadInv' /\ RoundInv'
    BY <1>1 DEF Beat, ClockInv, ReadInv, RoundInv
  <2>3. /\ sock' \in Seq(0..Soak) /\ Len(sock') = Len(sock) + 1
        /\ sock'[Len(sock')] = beats + 1
        /\ \A i \in 1..Len(sock) : sock'[i] = sock[i]
    BY <1>1, <2>1 DEF Beat
  <2>4. ~(Len(sock) > 0 /\ sock[Len(sock)] = EOF)
    BY <1>1 DEF Beat, SockInv, SockOrder
  <2>5. beats + 1 = last + Len(sock')
    BY <2>3, <2>4 DEF SockInv, SockCount
  <2>6. SockOrder'
    <3> SUFFICES ASSUME NEW i \in 1..Len(sock') PROVE sock'[i] = last' + i
      BY DEF SockOrder
    <3>1. CASE i = Len(sock')
      BY <1>1, <2>3, <2>5, <3>1 DEF Beat
    <3>2. CASE i # Len(sock')
      <4>1. i \in 1..Len(sock) /\ sock'[i] = sock[i] /\ last' = last
        BY <1>1, <2>3, <3>2 DEF Beat
      <4>2. sock[i] = last + i \/ guest = "off"
        BY <4>1 DEF SockInv, SockOrder
      <4> QED
        BY <1>1, <4>1, <4>2 DEF Beat
    <3> QED
      BY <3>1, <3>2
  <2>7. SockCount' /\ (rp' = "ended" => guest' = "off")
    BY <1>1, <2>3, <2>5 DEF Beat, SockInv, SockCount
  <2> QED
    BY <2>1, <2>2, <2>6, <2>7 DEF SockInv
<1>2. CASE PowersOff
  <2>1. TypeOK' /\ BeatInv'
    BY <1>2 DEF PowersOff, BeatInv
  <2>2. ClockInv' /\ ReadInv' /\ RoundInv'
    BY <1>2 DEF PowersOff, ClockInv, ReadInv, RoundInv
  <2>3. /\ sock' \in Seq(0..Soak) /\ Len(sock') = Len(sock) + 1
        /\ sock'[Len(sock')] = EOF
        /\ \A i \in 1..Len(sock) : sock'[i] = sock[i]
    BY <1>2, <2>1 DEF PowersOff
  <2>4. ~(Len(sock) > 0 /\ sock[Len(sock)] = EOF)
    BY <1>2 DEF PowersOff, SockInv, SockOrder
  <2>5. SockOrder'
    BY <1>2, <2>3, <2>4 DEF PowersOff, SockInv, SockOrder
  <2>6. SockCount' /\ (rp' = "ended" => guest' = "off")
    <3>1. beats = last + Len(sock)
      BY <2>4 DEF SockInv, SockCount
    <3>2. Len(sock') > 0 /\ beats' + 1 = last' + Len(sock')
      BY <1>2, <2>3, <3>1 DEF PowersOff
    <3> QED
      BY <1>2, <2>3, <3>2 DEF PowersOff, SockCount
  <2> QED
    BY <2>1, <2>2, <2>5, <2>6 DEF SockInv
<1>3. CASE Freezes
  BY <1>3 DEF Freezes, ClockInv, BeatInv, SockInv, SockOrder, SockCount, ReadInv, RoundInv
<1> QED
  BY <1>1, <1>2, <1>3 DEF Guest

\* Every step of the reader thread preserves it.
LEMMA ReaderIInv == IInv /\ Reader => IInv'
<1> SUFFICES ASSUME IInv, Reader PROVE IInv'
  OBVIOUS
<1> USE TimesAssumption DEF IInv, TypeOK, mainVars, guestVars, EOF, Gate, Stall
<1>1. CASE Read
  <2>1. /\ Len(sock) > 0 /\ Head(sock) = sock[1]
        /\ Len(Tail(sock)) = Len(sock) - 1
        /\ \A i \in 1..Len(Tail(sock)) : Tail(sock)[i] = sock[i + 1]
        /\ Tail(sock) \in Seq(0..Soak)
    BY <1>1 DEF Read
  <2>a. 1 \in 1..Len(sock) /\ Len(sock) \in Nat
    BY <2>1
  <2>b. sock[1] = last + 1 \/ (sock[1] = EOF /\ 1 = Len(sock) /\ guest = "off")
    BY <2>a DEF SockInv, SockOrder
  <2>2. CASE Head(sock) = EOF
    <3>0. Len(sock) = 1 /\ guest = "off"
      BY <2>1, <2>2, <2>b
    <3>1. Len(sock) = 1 /\ guest = "off" /\ beats = last
      BY <2>1, <2>2, <3>0 DEF SockInv, SockCount
    <3>2. SockInv'
      BY <1>1, <2>1, <2>2, <3>1 DEF Read, SockInv, SockOrder, SockCount
    <3>3. TypeOK' /\ BeatInv' /\ ClockInv' /\ ReadInv' /\ RoundInv'
      BY <1>1, <2>1, <2>2 DEF Read, BeatInv, ClockInv, ReadInv, RoundInv
    <3> QED
      BY <3>2, <3>3
  <2>3. CASE Head(sock) # EOF
    <3>1. Head(sock) = last + 1
      BY <2>1, <2>3, <2>b
    <3>a. last' = last + 1 /\ sock' = Tail(sock) /\ rp' = "stamp" /\ guest' = guest
      BY <1>1, <2>3, <3>1 DEF Read
    <3>b. SockOrder'
      <4> SUFFICES ASSUME NEW i \in 1..Len(sock')
                   PROVE  \/ sock'[i] = last' + i
                          \/ sock'[i] = EOF /\ i = Len(sock') /\ guest' = "off"
        BY DEF SockOrder
      <4>1. i + 1 \in 1..Len(sock) /\ sock'[i] = sock[i + 1]
        BY <2>1, <2>a, <3>a
      <4>2. \/ sock[i + 1] = last + (i + 1)
            \/ sock[i + 1] = EOF /\ i + 1 = Len(sock) /\ guest = "off"
        BY <4>1 DEF SockInv, SockOrder
      <4>3. i \in Nat /\ last \in Nat /\ last' = last + 1 /\ Len(sock') = Len(sock) - 1
        BY <2>1, <2>a, <3>a
      <4>4. last + (i + 1) = last' + i
        BY <4>3
      <4>5. i + 1 = Len(sock) => i = Len(sock')
        BY <2>a, <4>3
      <4> QED
        BY <3>a, <4>1, <4>2, <4>4, <4>5
    <3>c. SockCount'
      BY <1>1, <2>1, <2>3, <3>1, <3>a DEF Read, SockInv, SockCount
    <3>2. SockInv'
      BY <3>a, <3>b, <3>c DEF SockInv
    <3>3. TypeOK' /\ BeatInv' /\ ClockInv'
      BY <1>1, <2>1, <2>3, <3>1 DEF Read, BeatInv, ClockInv
    <3>4. ReadInv' /\ RoundInv'
      BY <1>1, <2>1, <2>3, <3>1 DEF Read, ReadInv, RoundInv
    <3> QED
      BY <3>2, <3>3, <3>4
  <2> QED
    BY <2>2, <2>3
<1>2. CASE Stamp
  BY <1>2 DEF Stamp, ClockInv, BeatInv, SockInv, SockOrder, SockCount, ReadInv, RoundInv
<1> QED
  BY <1>1, <1>2 DEF Reader

\* Every step of the main thread, and of time, preserves it.
LEMMA MainIInv == IInv /\ (Main \/ Tick) => IInv'
<1> SUFFICES ASSUME IInv, Main \/ Tick PROVE IInv'
  OBVIOUS
<1> USE TimesAssumption DEF IInv, TypeOK, readerVars, guestVars, Gate, Stall
<1>1. SockInv' /\ BeatInv'
  BY DEF Main, LoopTop, ReadCur, Judge, Attach, AttachFails, PowerOff, Tick, SockInv, SockOrder, SockCount, BeatInv
<1>2. CASE LoopTop
  BY <1>1, <1>2 DEF LoopTop, ClockInv, ReadInv, RoundInv
<1>3. CASE ReadCur
  BY <1>1, <1>3 DEF ReadCur, ClockInv, ReadInv, RoundInv
<1>4. CASE Judge
  BY <1>1, <1>4 DEF Judge, IsFreeze, Died, ClockInv, ReadInv, RoundInv
<1>5. CASE Attach \/ AttachFails \/ PowerOff
  BY <1>1, <1>5 DEF Attach, AttachFails, PowerOff, ClockInv, ReadInv, RoundInv
<1>6. CASE Tick
  BY <1>1, <1>6 DEF Tick, ClockInv, ReadInv, RoundInv
<1> QED
  BY <1>2, <1>3, <1>4, <1>5, <1>6 DEF Main

\* The invariant holds in every reachable state.
THEOREM Invariance == Spec => []IInv
<1>1. IInv /\ [Next]_vars => IInv'
  <2> SUFFICES ASSUME IInv, [Next]_vars PROVE IInv'
    OBVIOUS
  <2>1. CASE UNCHANGED vars
    BY <2>1 DEF vars, IInv, TypeOK, ClockInv, BeatInv, SockInv, SockOrder, SockCount, ReadInv, RoundInv
  <2>2. CASE Next
    BY <2>2, <2>1, MainIInv, ReaderIInv, GuestIInv DEF Next, Over
  <2> QED
    BY <2>1, <2>2
<1> QED
  BY <1>1, InitIInv, PTL DEF Spec

\* Times and iterations stay in their ranges for every soak and max_wait.
THEOREM TypeCorrect == Spec => []TypeOK
BY Invariance, PTL DEF IInv

\* No guest below the iteration gate is captured, at any pace of its heartbeats.
THEOREM BelowGateIsSpared == Spec => []NoCaptureBelowGate
<1>1. IInv => NoCaptureBelowGate
  <2> SUFFICES ASSUME IInv PROVE NoCaptureBelowGate
    OBVIOUS
  <2>1. last <= beats
    BY DEF IInv, TypeOK, SockInv, SockCount
  <2> QED
    BY <2>1 DEF IInv, TypeOK, ReadInv, NoCaptureBelowGate, Gate
<1> QED
  BY <1>1, Invariance, PTL

\* No guest above the gate that has been silent for the stall time is given up.
THEOREM SilenceIsCaught == Spec => []SilentIsCaught
<1>1. IInv => SilentIsCaught
  BY DEF IInv, RoundInv, SilentIsCaught
<1> QED
  BY <1>1, Invariance, PTL

\* The reader thread loses and invents no heartbeat.
THEOREM ReaderBehind == Spec => []ReaderIsBehind
<1>1. IInv => ReaderIsBehind
  BY DEF IInv, TypeOK, SockInv, SockOrder, SockCount, ReadInv, ReaderIsBehind
<1> QED
  BY <1>1, Invariance, PTL
=============================================================================
