-------------------------- MODULE DispatchRecvSource --------------------------
(***************************************************************************)
(* macos-validation/probes/dispatch/dispatch_mach_recv_source.c: main      *)
(* attaches a MACH_RECV source to a port, sends one message to it, waits   *)
(* two seconds for the event handler to receive the message and judges     *)
(* what the handler has published by then.  The handler runs on a thread   *)
(* of libdispatch and shares a context on main's stack with it.            *)
(***************************************************************************)
EXTENDS Naturals

CONSTANTS MaxFires,  \* how often the source may fire
          CallsFail  \* whether calls of the kernel may fail

ASSUME DispatchAssumption == MaxFires \in Nat /\ CallsFail \in BOOLEAN

KR == {"ok", "err"}

\* What libdispatch does: as documented, fire with no message there, or never fire.
Sources == {"conformant", "spurious", "mute"}

Verdicts == {"none", "pass", "fail", "unclean", "probe_failure"}

VARIABLES dispatch, \* which of Sources is under test
          mp,       \* main
          kr,       \* kr_alloc, kr_send, kr_dest, handler_serviced and recv_kr of main
          port,     \* "none", "live" or "dead"
          msgs,     \* messages queued on it
          taken,    \* and messages received from it
          src,      \* the source: "none", "live" or "released"
          signals,  \* the semaphore: its count
          semAt,    \* and its life: "none", "live" or "released"
          hp,       \* the event handler
          ctx,      \* serviced and recv_kr of the shared context
          fires,    \* how often the source has fired
          result

recvVars == <<dispatch, mp, kr, port, msgs, taken, src, signals, semAt, hp, ctx, fires, result>>
shared == <<signals, semAt, ctx>>
kernel == <<port, msgs, taken>>
handlerVars == <<hp, fires>>

\* Locals and context as initialised (85-99).
RecvInit ==
  /\ dispatch \in Sources
  /\ mp = "alloc" /\ result = "none"
  /\ kr = [alloc |-> "err", send |-> "err", dest |-> "err", serviced |-> 0, recv |-> "err"]
  /\ port = "none" /\ msgs = 0 /\ taken = 0 /\ src = "none" /\ signals = 0 /\ semAt = "none"
  /\ hp = "idle" /\ ctx = [serviced |-> 0, recv |-> "err"] /\ fires = 0

Outcomes == IF CallsFail THEN KR ELSE {"ok"}

-----------------------------------------------------------------------------
(* main.                                                                   *)

\* mach_port_allocate (101-104).
Allocate ==
  /\ mp = "alloc"
  /\ \E r \in Outcomes :
       /\ kr' = [kr EXCEPT !.alloc = r]
       /\ port' = IF r = "ok" THEN "live" ELSE "none"
       /\ mp' = IF r = "ok" THEN "source" ELSE "free"
  /\ UNCHANGED <<dispatch, msgs, taken, src, shared, handlerVars, result>>

\* Queue, source, semaphore and resume; a NULL source skips to the destroy, a NULL
\* semaphore is not noticed (105-115).
CreateSource ==
  /\ mp = "source"
  /\ \E r, s \in Outcomes :
       /\ src' = IF r = "ok" THEN "live" ELSE "none"
       /\ semAt' = IF r = "ok" /\ s = "ok" THEN "live" ELSE "none"
       /\ mp' = IF r = "ok" THEN "send" ELSE "destroy"
  /\ UNCHANGED <<dispatch, kr, kernel, signals, ctx, handlerVars, result>>

\* One message; without it nothing is waited for (117-137).
Send ==
  /\ mp = "send"
  /\ \E r \in Outcomes :
       /\ kr' = [kr EXCEPT !.send = r]
       /\ msgs' = IF r = "ok" THEN msgs + 1 ELSE msgs
       /\ mp' = IF r = "ok" THEN "wait" ELSE "load"
  /\ UNCHANGED <<dispatch, port, taken, src, shared, handlerVars, result>>

\* Mutant of Wait: DISPATCH_TIME_FOREVER.
WaitForever ==
  /\ mp = "wait" /\ signals > 0
  /\ mp' = "load" /\ signals' = signals - 1
  /\ UNCHANGED <<dispatch, kr, kernel, src, semAt, ctx, handlerVars, result>>

\* dispatch_semaphore_wait: signalled, or the two seconds are over; libdispatch does
\* not take a NULL semaphore (134-137).
Wait ==
  /\ mp = "wait"
  /\ mp' = IF semAt = "live" THEN "load" ELSE "crashed"
  /\ signals' = IF signals > 0 THEN signals - 1 ELSE 0
  /\ UNCHANGED <<dispatch, kr, kernel, src, semAt, ctx, handlerVars, result>>

\* atomic_load of serviced (139).
LoadServiced ==
  /\ mp = "load"
  /\ mp' = "load_kr"
  /\ kr' = [kr EXCEPT !.serviced = ctx.serviced]
  /\ UNCHANGED <<dispatch, kernel, src, shared, handlerVars, result>>

\* recv_kr is read second, and is not atomic (140).
LoadRecv ==
  /\ mp = "load_kr"
  /\ mp' = "release"
  /\ kr' = [kr EXCEPT !.recv = ctx.recv]
  /\ UNCHANGED <<dispatch, kernel, src, shared, handlerVars, result>>

\* The source is released first (142) ...
ReleaseSource ==
  /\ mp = "release" /\ src = "live"
  /\ src' = "released"
  /\ UNCHANGED <<dispatch, mp, kr, kernel, shared, handlerVars, result>>

\* ... then the semaphore, if there is one, whether or not a handler is still running
\* (143-145).
ReleaseSem ==
  /\ mp = "release" /\ src = "released"
  /\ mp' = "destroy"
  /\ semAt' = IF semAt = "live" THEN "released" ELSE semAt
  /\ UNCHANGED <<dispatch, kr, kernel, src, signals, ctx, handlerVars, result>>

\* mach_port_destroy takes the queued messages along (150).
Destroy ==
  /\ mp = "destroy"
  /\ \E r \in Outcomes :
       /\ kr' = [kr EXCEPT !.dest = r]
       /\ IF r = "ok" THEN port' = "dead" /\ msgs' = 0 ELSE UNCHANGED <<port, msgs>>
  /\ mp' = "free"
  /\ UNCHANGED <<dispatch, taken, src, shared, handlerVars, result>>

\* nx_baseline_free of a struct nothing has been written to (82, 153): what it holds is
\* unmapped, or is no address.
RecvFreeAfter ==
  /\ mp = "free"
  /\ mp' \in {"judge", "crashed"}
  /\ UNCHANGED <<dispatch, kr, kernel, src, shared, handlerVars, result>>

\* The chain of tests (170-182); "unclean" is FAIL with the class of a probe failure.
RecvJudgement ==
  IF kr.alloc # "ok" \/ kr.send # "ok" THEN "probe_failure"
  ELSE IF kr.serviced = 0 THEN "fail"
  ELSE IF kr.dest # "ok" THEN "unclean" ELSE "pass"

\* The verdict is settled and printed and main returns, which ends the handler too
\* (158-188).
RecvReport ==
  /\ mp = "judge"
  /\ mp' = "ended"
  /\ result' = RecvJudgement
  /\ UNCHANGED <<dispatch, kr, kernel, src, shared, handlerVars>>

-----------------------------------------------------------------------------
(* The event handler, on a thread of its own (54-73).                      *)

\* libdispatch invokes the handler of a source that has not been released (external).
RecvFire ==
  /\ hp = "idle" /\ src = "live" /\ fires < MaxFires
  /\ \/ dispatch = "spurious"
     \/ dispatch = "conformant" /\ msgs > 0
  /\ hp' = "recv" /\ fires' = fires + 1
  /\ UNCHANGED <<dispatch, mp, kr, kernel, src, shared, result>>

\* Mutant of Receive: the result is kept in a local of the handler.
ReceiveIntoLocal ==
  /\ hp = "recv"
  /\ LET r == IF port = "live" /\ msgs > 0 THEN "ok" ELSE "err"
     IN /\ IF r = "ok" THEN msgs' = msgs - 1 /\ taken' = taken + 1 ELSE UNCHANGED <<msgs, taken>>
        /\ hp' = IF r = "ok" THEN "publish" ELSE "signal"
  /\ UNCHANGED <<dispatch, mp, kr, port, src, shared, fires, result>>

\* Mutant of Receive: any outcome counts as service.
ReceiveUnchecked ==
  /\ hp = "recv"
  /\ LET r == IF port = "live" /\ msgs > 0 THEN "ok" ELSE "err"
     IN /\ ctx' = [ctx EXCEPT !.recv = r]
        /\ IF r = "ok" THEN msgs' = msgs - 1 /\ taken' = taken + 1 ELSE UNCHANGED <<msgs, taken>>
  /\ hp' = "publish"
  /\ UNCHANGED <<dispatch, mp, kr, port, src, signals, semAt, fires, result>>

\* mach_msg with half a second of patience; without a message, or on a port main has
\* destroyed meanwhile, it fails (65-67).
Receive ==
  /\ hp = "recv"
  /\ \E r \in IF port = "live" /\ msgs > 0 THEN Outcomes ELSE {"err"} :
       /\ ctx' = [ctx EXCEPT !.recv = r]
       /\ IF r = "ok" THEN msgs' = msgs - 1 /\ taken' = taken + 1 ELSE UNCHANGED <<msgs, taken>>
       /\ hp' = IF r = "ok" THEN "publish" ELSE "signal"
  /\ UNCHANGED <<dispatch, mp, kr, port, src, signals, semAt, fires, result>>

\* atomic_store (69-71).
Publish ==
  /\ hp = "publish"
  /\ hp' = "signal"
  /\ ctx' = [ctx EXCEPT !.serviced = 1]
  /\ UNCHANGED <<dispatch, mp, kr, kernel, src, signals, semAt, fires, result>>

\* dispatch_semaphore_signal, of a semaphore that may be gone, or NULL (72).
RecvSignal ==
  /\ hp = "signal"
  /\ hp' = "idle"
  /\ \/ semAt = "live" /\ signals' = signals + 1 /\ UNCHANGED mp
     \/ semAt = "released" /\ mp' \in {mp, "crashed"} /\ UNCHANGED signals
     \/ semAt = "none" /\ mp' = "crashed" /\ UNCHANGED signals
  /\ UNCHANGED <<dispatch, kr, kernel, src, semAt, ctx, fires, result>>

-----------------------------------------------------------------------------
RecvOver == mp \in {"ended", "crashed"}

RecvMain == \/ Allocate \/ CreateSource \/ Send \/ Wait \/ LoadServiced \/ LoadRecv
            \/ ReleaseSource \/ ReleaseSem \/ Destroy \/ RecvFreeAfter \/ RecvReport
Handler == Receive \/ Publish \/ RecvSignal

RecvNext == (~RecvOver /\ (RecvMain \/ RecvFire \/ Handler)) \/ (RecvOver /\ UNCHANGED recvVars)

\* Main is scheduled, and a handler that has started is; when the source fires is
\* libdispatch's affair.
RecvSpec ==
  /\ RecvInit /\ [][RecvNext]_recvVars
  /\ WF_recvVars(~RecvOver /\ RecvMain) /\ WF_recvVars(~RecvOver /\ Handler)

-----------------------------------------------------------------------------
(* Properties.                                                             *)

TypeOK ==
  /\ dispatch \in Sources
  /\ mp \in {"alloc", "source", "send", "wait", "load", "load_kr", "release", "destroy",
             "free", "judge", "ended", "crashed"}
  /\ kr \in [alloc: KR, send: KR, dest: KR, serviced: {0, 1}, recv: KR]
  /\ port \in {"none", "live", "dead"} /\ msgs \in {0, 1} /\ taken \in {0, 1}
  /\ src \in {"none", "live", "released"} /\ signals \in 0..MaxFires
  /\ semAt \in {"none", "live", "released"}
  /\ hp \in {"idle", "recv", "publish", "signal"}
  /\ ctx \in [serviced: {0, 1}, recv: KR]
  /\ fires \in 0..MaxFires /\ result \in Verdicts

\* A pass means that a handler received the message and that the port is gone, however
\* the threads interleave, whatever else fails, and also on a source that fires when no
\* message is there (54-73, 170-182).
PassIsSound == result = "pass" => taken = 1 /\ fires > 0 /\ port = "dead"

\* The two values main reads one after the other, and without a lock, agree: a result
\* that says the handler serviced the message reports a receive that succeeded, unless
\* the source fires when it should not (67-71, 139-140).
ServicedWasReceived ==
  result # "none" /\ dispatch # "spurious" /\ kr.serviced = 1 => kr.recv = "ok"

\* The probe ends although its source may never fire: the wait is bounded (134-137).
Ends == <>RecvOver
=============================================================================
