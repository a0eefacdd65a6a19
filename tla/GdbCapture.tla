------------------------------ MODULE GdbCapture ------------------------------
(***************************************************************************)
(* scripts/op151/op155-capture-gdb.py: a reader thread takes churn         *)
(* heartbeats off the guest's serial socket, and the main thread declares  *)
(* a freeze when they have stopped, attaches kgdb and powers the guest     *)
(* off.  The guest is the one op155-rc.local.template describes: it prints *)
(* a heartbeat every hundred iterations of the churn, lingers for a minute *)
(* after the soak and powers itself off.                                   *)
(* Time is counted in units of 20 seconds, iterations in hundreds.         *)
(***************************************************************************)
EXTENDS Naturals, Sequences

CONSTANTS Soak,      \* length of the churn
          BeatTimes, \* how long a hundred iterations may take
          MaxWait    \* max_wait_s

ASSUME TimesAssumption ==
  Soak \in Nat \ {0} /\ MaxWait \in Nat \ {0} /\ BeatTimes \subseteq Nat \ {0} /\ BeatTimes # {}

Gate == 4     \* the first heartbeat with iter >= ITER_GATE = 380
Stall == 6    \* ITER_STALL_S = 120
Died == 15    \* the 300 seconds below the gate
Linger == 3   \* sleep $((SOAK_DURATION + 60))

VARIABLES pc,      \* the main thread
          t,       \* time since the detector started
          age, cur, \* iter_age and cur_iter of the main thread
          rp,      \* the reader thread
          last,    \* last_iter
          lastAt,  \* last_iter_at
          sock,    \* heartbeats and the end of file on their way
          guest,   \* "up", "frozen" or "off"
          beats,   \* heartbeats printed by the guest
          due      \* when the next one is due

vars == <<pc, t, age, cur, rp, last, lastAt, sock, guest, beats, due>>
mainVars == <<pc, age, cur>>
readerVars == <<rp, last, lastAt>>
guestVars == <<guest, beats, due>>

EOF == 0      \* on the socket, in place of a heartbeat

Init ==
  /\ pc = "loop" /\ t = 0 /\ age = 0 /\ cur = 0
  /\ rp = "recv" /\ last = 0 /\ lastAt = 0 /\ sock = <<>>
  /\ guest = "up" /\ beats = 0 /\ due \in BeatTimes

-----------------------------------------------------------------------------
(* The guest (external).                                                   *)

\* A hundred iterations are done before the soak is over.
Beat ==
  /\ guest = "up" /\ t = due /\ due < Soak
  /\ beats' = beats + 1
  /\ sock' = Append(sock, beats + 1)
  /\ \E d \in BeatTimes : due' = t + d
  /\ UNCHANGED <<mainVars, readerVars, t, guest>>

\* Soak and linger are over.
PowersOff ==
  /\ guest = "up" /\ t = Soak + Linger
  /\ guest' = "off"
  /\ sock' = Append(sock, EOF)
  /\ UNCHANGED <<mainVars, readerVars, t, beats, due>>

Freezes ==
  /\ guest = "up"
  /\ guest' = "frozen"
  /\ UNCHANGED <<mainVars, readerVars, t, sock, beats, due>>

-----------------------------------------------------------------------------
(* The reader thread (64-87).                                              *)

\* Mutant: a recv timeout ends the reader.
ReadGivesUp ==
  /\ rp = "recv"
  /\ IF sock = <<>> \/ Head(sock) = EOF THEN rp' = "ended" /\ UNCHANGED <<last, sock>>
     ELSE rp' = "stamp" /\ last' = Head(sock) /\ sock' = Tail(sock)
  /\ UNCHANGED <<mainVars, t, lastAt, guestVars>>

\* Mutant: the number of a heartbeat is taken for the one that follows it.
ReadAhead ==
  /\ rp = "recv" /\ sock # <<>>
  /\ sock' = Tail(sock)
  /\ IF Head(sock) = EOF THEN rp' = "ended" /\ UNCHANGED last
     ELSE rp' = "stamp" /\ last' = Head(sock) + 1
  /\ UNCHANGED <<mainVars, t, lastAt, guestVars>>

\* recv and the match of hb_re; last_iter is assigned first (68-84).
Read ==
  /\ rp = "recv" /\ sock # <<>>
  /\ sock' = Tail(sock)
  /\ IF Head(sock) = EOF THEN rp' = "ended" /\ UNCHANGED last
     ELSE IF Head(sock) > last THEN rp' = "stamp" /\ last' = Head(sock)
     ELSE UNCHANGED <<rp, last>>
  /\ UNCHANGED <<mainVars, t, lastAt, guestVars>>

\* last_iter_at is assigned second (85).
Stamp ==
  /\ rp = "stamp"
  /\ rp' = "recv"
  /\ lastAt' = t
  /\ UNCHANGED <<mainVars, t, last, sock, guestVars>>

-----------------------------------------------------------------------------
(* The main thread.                                                        *)

\* The while condition, then iter_age (93-95).
LoopTop ==
  /\ pc = "loop"
  /\ IF t < MaxWait THEN pc' = "cur" /\ age' = t - lastAt ELSE pc' = "gaveup" /\ UNCHANGED age
  /\ UNCHANGED <<cur, readerVars, t, sock, guestVars>>

\* cur_iter (96).
ReadCur ==
  /\ pc = "cur"
  /\ pc' = "judge"
  /\ cur' = last
  /\ UNCHANGED <<age, readerVars, t, sock, guestVars>>

\* Mutant: op-154's rule, silence alone.
IsFreezeUngated == cur > 0 /\ age > Stall

\* Mutant: the 300 seconds of the other rule.
IsFreezeLate == cur >= Gate /\ age > Died

\* "REAL FREEZE" (101).
IsFreeze == cur >= Gate /\ age > Stall

\* Mutant: a silent guest below the gate is waited for without sleeping.
JudgeSpins ==
  /\ pc = "judge"
  /\ pc' = IF IsFreeze THEN "attach"
           ELSE IF cur > 0 /\ cur < Gate /\ age > Died THEN "loop"
           ELSE "sleep"
  /\ UNCHANGED <<age, cur, readerVars, t, sock, guestVars>>

\* Freeze, a churn that died below the gate, or five seconds of sleep (101-112).
Judge ==
  /\ pc = "judge"
  /\ pc' = IF IsFreeze THEN "attach"
           ELSE IF cur > 0 /\ cur < Gate /\ age > Died THEN "gaveup"
           ELSE "sleep"
  /\ UNCHANGED <<age, cur, readerVars, t, sock, guestVars>>

\* kgdb ran or was stopped after 300 seconds (183-197).
Attach ==
  /\ pc = "attach"
  /\ pc' = "poweroff"
  /\ UNCHANGED <<age, cur, readerVars, t, sock, guestVars>>

\* kgdb cannot be started: only TimeoutExpired is caught.
AttachFails ==
  /\ pc = "attach"
  /\ pc' = "raised"
  /\ UNCHANGED <<age, cur, readerVars, t, sock, guestVars>>

\* bhyvectl --force-poweroff (199-205).
PowerOff ==
  /\ pc = "poweroff"
  /\ pc' = "captured"
  /\ guest' = "off"
  /\ UNCHANGED <<age, cur, readerVars, t, sock, beats, due>>

Ended == pc \in {"gaveup", "captured", "raised"}

\* Time passes when the main thread sleeps and everything due has been done.
Tick ==
  /\ pc = "sleep" /\ rp # "stamp" /\ (sock = <<>> \/ rp = "ended")
  /\ guest = "up" => ~(t = due /\ due < Soak) /\ t < Soak + Linger
  /\ t' = t + 1
  /\ pc' = "loop"
  /\ UNCHANGED <<age, cur, readerVars, sock, guestVars>>

Over == Ended /\ UNCHANGED vars

Main == LoopTop \/ ReadCur \/ Judge \/ Attach \/ AttachFails \/ PowerOff
Reader == Read \/ Stamp
Guest == Beat \/ PowersOff

Next == (~Ended /\ (Main \/ Reader \/ Guest \/ Freezes \/ Tick)) \/ Over

\* Both threads are scheduled, a healthy guest makes progress, and time passes.
Spec == Init /\ [][Next]_vars
        /\ WF_vars(Main) /\ WF_vars(Reader) /\ WF_vars(Guest) /\ WF_vars(Tick)

-----------------------------------------------------------------------------
(* Properties.                                                             *)

TypeOK ==
  /\ pc \in {"loop", "cur", "judge", "sleep", "attach", "poweroff", "gaveup", "captured",
             "raised"}
  /\ t \in 0..MaxWait /\ age \in 0..MaxWait /\ lastAt \in 0..MaxWait
  /\ cur \in 0..Soak /\ last \in 0..Soak /\ beats \in 0..Soak
  /\ rp \in {"recv", "stamp", "ended"} /\ sock \in Seq(0..Soak)
  /\ guest \in {"up", "frozen", "off"} /\ due \in Nat

\* kgdb is attached to no guest that stopped below the iteration gate, whatever its
\* silence and however the threads interleave (98-104).
NoCaptureBelowGate == pc \in {"attach", "poweroff", "captured"} => beats >= Gate

\* The detector does not give up on a guest above the gate that has been silent for
\* the stall time and one round of the loop, a frozen one included, however its last
\* heartbeat fell between the two reads (93-114).
SilentIsCaught ==
  pc = "gaveup" /\ last >= Gate /\ rp # "stamp" => t - lastAt <= Stall + 1

\* What the reader has published never runs ahead of the guest, and a time stamp
\* never belongs to the future (79-86).
ReaderIsBehind == last <= beats /\ lastAt <= t /\ (rp = "recv" /\ sock = <<>> => last = beats)

\* The detector ends within max_wait whatever the guest does.
DetectorEnds == <>Ended

\* op155-capture-gdb.py:5-6, "gates freeze on (iter-stopped > 120s) AND (iter >= 380)":
\* when kgdb is attached, the iteration has not advanced for the stall time.
AttachMeansStalled == pc = "attach" => t - lastAt > Stall
=============================================================================
