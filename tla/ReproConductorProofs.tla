------------------------- MODULE ReproConductorProofs -------------------------
(***************************************************************************)
(* For every number of runs, every length of soak, every origin of the     *)
(* monotonic clock and every poweroff within the silence threshold: what   *)
(* the ledger of the op-151 conductor is worth.                            *)
(***************************************************************************)
EXTENDS ReproConductor, FiniteSetTheorems, SequenceTheorems, TLAPS

Lines == [is: {"churn", "watch", "noise", "exit"}, iter: Nat, hb: HBs]
Guests == [at: {"off", "soak", "dump", "stopping", "frozen"}, boot: BootTimes, iter: Iters,
           todo: Seq(Lines)]

TypeInv == TypeOK /\ guest \in Guests /\ wire \in Seq(Lines)

\* There is a guest exactly while a run is observed or being closed, unless the
\* conductor died, and each run that is over has one entry.
PlaceInv ==
  /\ pc \in {"observe", "close"} => vms = {k}
  /\ pc \in {"stage", "next", "done"} => vms = {} /\ guest = Off /\ wire = <<>>
  /\ pc = "crashed" => vms \subseteq {k}
  /\ pc \in {"stage", "observe"} => Len(ledger) = k
  /\ pc \in {"close", "next", "done"} => Len(ledger) = k + 1

\* A soaking guest has printed nothing, and one that has printed its churn is gone
\* within Poweroff minutes unless it froze.
SilenceInv ==
  /\ guest.at = "frozen" => k \in truth
  /\ guest.at = "soak" => wire = <<>> /\ state.iter = 0
  /\ pc = "observe" /\ state.iter > 0 /\ guest.at # "frozen" =>
       t <= state.at + Poweroff

\* No line on its way states more than the guest did.
Truthful(lines, n) == \A j \in 1..Len(lines) : lines[j].is = "churn" => lines[j].iter <= n
IterInv ==
  /\ Truthful(wire, guest.iter) /\ Truthful(guest.todo, guest.iter)
  /\ pc \in {"observe", "close"} => state.iter <= guest.iter

VerdictInv == VerdictIsEarned /\ (verdict # "none" => pc = "done")

IInv == TypeInv /\ PlaceInv /\ SilenceInv /\ IterInv /\ FrozenIsReal /\ VerdictInv

\* Iteration numbers are natural numbers.
LEMMA ItersNat == Iters \subseteq Nat /\ Duration \in Iters
BY TimeAssumption DEF Iters, Duration

\* What an update of a guest's record leaves behind.
LEMMA GuestFields == ASSUME NEW g \in Guests PROVE g.iter \in Iters /\ g.todo \in Seq(Lines)
BY DEF Guests

LEMMA GuestAt ==
  ASSUME NEW g \in Guests, NEW a \in {"off", "soak", "dump", "stopping", "frozen"},
         NEW h, h = [g EXCEPT !.at = a]
  PROVE  h \in Guests /\ h.at = a /\ h.iter = g.iter /\ h.todo = g.todo
BY DEF Guests

LEMMA GuestTodo ==
  ASSUME NEW g \in Guests, NEW todo \in Seq(Lines)
  PROVE  /\ [g EXCEPT !.todo = todo] \in Guests
         /\ [g EXCEPT !.todo = todo].at = g.at
         /\ [g EXCEPT !.todo = todo].iter = g.iter
         /\ [g EXCEPT !.todo = todo].todo = todo
BY DEF Guests

LEMMA GuestAtTodo ==
  ASSUME NEW g \in Guests, NEW todo \in Seq(Lines)
  PROVE  /\ [g EXCEPT !.at = "dump", !.todo = todo] \in Guests
         /\ [g EXCEPT !.at = "dump", !.todo = todo].at = "dump"
         /\ [g EXCEPT !.at = "dump", !.todo = todo].iter = g.iter
         /\ [g EXCEPT !.at = "dump", !.todo = todo].todo = todo
BY DEF Guests

LEMMA GuestIter ==
  ASSUME NEW g \in Guests, NEW n \in Iters,
         NEW h, h = [g EXCEPT !.iter = n]
  PROVE  h \in Guests /\ h.at = g.at /\ h.iter = n /\ h.todo = g.todo
BY DEF Guests

\* The states of the parser, and what folding a line leaves of one.
States == [iter: Iters, at: 0..Horizon, hb: HBs]

LEMMA FoldedState ==
  ASSUME NEW s \in States, NEW line \in Lines, NEW cut \in BOOLEAN, NEW m \in Iters,
         line.is = "churn" => line.iter <= m, t \in 0..Horizon,
         NEW r, r \in Folded(s, line, cut)
  PROVE  /\ r \in States
         /\ (r.iter = s.iter /\ r.at = s.at) \/ (r.iter <= m /\ r.at = t)
<1>0. line.iter \in Nat /\ line.hb \in HBs /\ NoHB \in HBs /\ m \in Nat /\ Iters \subseteq Nat
  BY ItersNat DEF Lines, HBs
<1>1. \A n \in Nat : n <= m => n \in Iters
  BY <1>0, TimeAssumption DEF Iters
<1>2. CASE line.is = "churn"
  <2>1. line.iter \in Iters
    BY <1>0, <1>1, <1>2
  <2>2. CASE r = [s EXCEPT !.iter = line.iter, !.at = t]
    BY <1>2, <2>1, <2>2 DEF States
  <2>3. CASE \E n \in 1..line.iter : r = [s EXCEPT !.iter = n, !.at = t]
    <3>1. PICK n \in 1..line.iter : r = [s EXCEPT !.iter = n, !.at = t]
      BY <2>3
    <3>2. n \in Nat /\ n <= m
      BY <1>0, <1>2
    <3>3. n \in Iters
      BY <1>1, <3>2
    <3> QED
      BY <3>1, <3>2, <3>3 DEF States
  <2>4. CASE r = s
    BY <2>4
  <2>5. CASE cut
    <3>1. Folded(s, line, cut) = {s} \cup {[s EXCEPT !.iter = n, !.at = t] : n \in 1..line.iter}
      BY <1>2, <2>5 DEF Folded
    <3> QED
      BY <3>1, <2>3, <2>4
  <2>6. CASE ~cut
    <3>1. Folded(s, line, cut) = {[s EXCEPT !.iter = line.iter, !.at = t]}
      BY <1>2, <2>6 DEF Folded
    <3> QED
      BY <3>1, <2>2
  <2> QED
    BY <2>5, <2>6
<1>3. CASE line.is = "watch"
  <2>1. r = s \/ \E h \in HBs : r = [s EXCEPT !.hb = h]
    BY <1>0, <1>3 DEF Folded
  <2> QED
    BY <2>1 DEF States
<1>4. CASE line.is \notin {"churn", "watch"}
  BY <1>4 DEF Folded
<1> QED
  BY <1>2, <1>3, <1>4

\* The dump joins the watchpoint log and the churn's line.
LEMMA Joined ==
  ASSUME NEW a \in Lines, NEW b \in Lines
  PROVE  <<a>> \o <<>> = <<a>> /\ <<a>> \o <<b>> = <<a, b>>
<1>1. <<a>> \in Seq(Lines) /\ <<b>> \in Seq(Lines) /\ <<a, b>> \in Seq(Lines) /\ <<>> \in Seq(Lines)
  OBVIOUS
<1>2. <<a>> \o <<>> = <<a>>
  BY <1>1
<1>3. <<a>> \o <<b>> \in Seq(Lines) /\ Len(<<a>> \o <<b>>) = 2
  BY <1>1
<1>4. (<<a>> \o <<b>>)[1] = a /\ (<<a>> \o <<b>>)[2] = b
  BY <1>1
<1>5. \A s \in Seq(Lines) : Len(s) = 2 /\ s[1] = a /\ s[2] = b => s = <<a, b>>
  <2> TAKE s \in Seq(Lines)
  <2> HAVE Len(s) = 2 /\ s[1] = a /\ s[2] = b
  <2>1. Len(<<a, b>>) = 2 /\ <<a, b>>[1] = a /\ <<a, b>>[2] = b
    OBVIOUS
  <2>2. \A j \in 1..2 : s[j] = <<a, b>>[j]
    BY <2>1
  <2> QED
    BY <2>1, <2>2, <1>1, SeqEqual
<1> QED
  BY <1>2, <1>3, <1>4, <1>5

\* What is true of a guest stays true when it has done more.
LEMMA MoreTruthful ==
  ASSUME NEW s \in Seq(Lines), NEW n \in Nat, NEW m \in Nat, n <= m, Truthful(s, n)
  PROVE  Truthful(s, m)
<1>1. \A j \in 1..Len(s) : s[j] \in Lines
  OBVIOUS
<1>2. \A line \in Lines : line.iter \in Nat
  BY DEF Lines
<1>3. \A j \in 1..Len(s) : s[j].iter \in Nat
  BY <1>1, <1>2
<1> QED
  BY <1>3 DEF Truthful

\* A line added to a truthful sequence, or the first one taken off.
LEMMA AppendTruthful ==
  ASSUME NEW s \in Seq(Lines), NEW line \in Lines, NEW n \in Nat, Truthful(s, n),
         line.is = "churn" => line.iter <= n
  PROVE  Append(s, line) \in Seq(Lines) /\ Truthful(Append(s, line), n)
BY DEF Truthful

LEMMA TailTruthful ==
  ASSUME NEW s \in Seq(Lines), s # <<>>, NEW n \in Nat, Truthful(s, n)
  PROVE  /\ Head(s) \in Lines /\ Tail(s) \in Seq(Lines) /\ Truthful(Tail(s), n)
         /\ Head(s).is = "churn" => Head(s).iter <= n
BY DEF Truthful

\* The types of the pieces.
LEMMA Facts ==
  ASSUME IInv
  PROVE  /\ guest \in Guests /\ guest.iter \in Iters /\ guest.iter \in Nat
         /\ guest.todo \in Seq(Lines) /\ wire \in Seq(Lines)
         /\ state \in States /\ state.iter \in Nat /\ state.at \in Nat
         /\ t \in 0..Horizon /\ t \in Nat
<1>1. guest \in Guests /\ wire \in Seq(Lines) /\ state \in States /\ t \in 0..Horizon
  BY DEF IInv, TypeInv, TypeOK, States
<1>2. guest.iter \in Iters /\ guest.todo \in Seq(Lines)
  BY <1>1, GuestFields
<1>3. state.iter \in Iters /\ state.at \in 0..Horizon
  BY <1>1 DEF States
<1>4. \A n \in Iters : n \in Nat
  BY ItersNat
<1>5. \A n \in 0..Horizon : n \in Nat
  BY TimeAssumption
<1> QED
  BY <1>1, <1>2, <1>3, <1>4, <1>5

\* The entries so far stand for frozen guests, and so does one more.
LEMMA StillReal ==
  ASSUME IInv, Len(ledger) = k, NEW s \in Statuses,
         s \in {"frozen", "baseline_froze"} => k \in truth
  PROVE  \A r \in 1..Len(Append(ledger, Entry(s))) :
           Append(ledger, Entry(s))[r].status \in {"frozen", "baseline_froze"} => r - 1 \in truth
<1>1. ledger \in Seq(Entries) /\ k \in Nat
  BY RunsAssumption DEF IInv, TypeInv, TypeOK
<1>2. Entry(s).status = s
  BY DEF Entry
<1> QED
  BY <1>1, <1>2 DEF IInv, FrozenIsReal

\* One more entry of the ledger.
LEMMA OneMore ==
  ASSUME IInv, Len(ledger) = k, NEW s \in Statuses
  PROVE  /\ Append(ledger, Entry(s)) \in Seq(Entries)
         /\ Len(Append(ledger, Entry(s))) = k + 1 /\ k + 1 <= Runs + 1
<1>1. ledger \in Seq(Entries) /\ k \in 0..Runs /\ Entry(s) \in Entries
  BY DEF IInv, TypeInv, TypeOK, Entry, Entries
<1> QED
  BY <1>1, RunsAssumption

\* The initial states satisfy the invariant.
LEMMA InitIInv == Init => IInv
<1> USE RunsAssumption, TimeAssumption
<1> SUFFICES ASSUME Init PROVE IInv
  OBVIOUS
<1>1. TypeInv
  BY ItersNat DEF Init, TypeInv, TypeOK, Guests, Fresh, Off, Iters, HBs, NoHB, BootTimes
<1>2. PlaceInv /\ SilenceInv /\ IterInv /\ FrozenIsReal /\ VerdictInv
  BY DEF Init, PlaceInv, SilenceInv, IterInv, Truthful, FrozenIsReal, VerdictInv, VerdictIsEarned,
         Fresh, Off
<1> QED
  BY <1>1, <1>2 DEF IInv

\* Staging and its failures.
LEMMA StageIInv == ASSUME IInv, Failures \/ Boot PROVE IInv'
<1> USE RunsAssumption, TimeAssumption DEF IInv, outside
<1>1. CASE StageFails
  <2> USE <1>1 DEF StageFails, Entry
  <2>1. TypeInv'
    BY DEF TypeInv, TypeOK, PlaceInv, Entries, Statuses
  <2>2. PlaceInv' /\ SilenceInv' /\ IterInv'
    BY DEF TypeInv, TypeOK, PlaceInv, SilenceInv, IterInv, Truthful, Off
  <2>3. FrozenIsReal'
    BY DEF TypeInv, TypeOK, FrozenIsReal
  <2>4. VerdictInv'
    BY DEF TypeInv, TypeOK, VerdictInv, VerdictIsEarned
  <2> QED
    BY <2>1, <2>2, <2>3, <2>4
<1>2. CASE LoadFails
  <2> USE <1>2 DEF LoadFails
  <2>1. TypeInv' /\ PlaceInv' /\ SilenceInv' /\ IterInv'
    BY DEF TypeInv, TypeOK, PlaceInv, SilenceInv, IterInv, Truthful, Off
  <2>2. FrozenIsReal' /\ VerdictInv'
    BY DEF FrozenIsReal, VerdictInv, VerdictIsEarned
  <2> QED
    BY <2>1, <2>2
<1>3. CASE Boot
  <2> USE <1>3 DEF Boot
  <2>0. 0 \in Iters /\ 0 \in 0..Horizon /\ <<>> \in Seq(Lines)
    BY DEF Iters
  <2>1. guest' \in Guests /\ wire' \in Seq(Lines)
    <3>1. PICK b \in BootTimes : guest' = [at |-> "soak", boot |-> b, iter |-> 0, todo |-> <<>>]
      OBVIOUS
    <3> QED
      BY <3>1, <2>0 DEF Guests
  <2>4. TypeOK'
    <3>1. guest'.at = "soak" /\ guest'.iter = 0
      OBVIOUS
    <3>2. k' \in 0..Runs /\ vms' \subseteq 0..Runs
      BY DEF TypeInv, TypeOK
    <3>3. state' \in [iter: Iters, at: 0..Horizon, hb: HBs]
      BY <2>0 DEF Fresh, HBs, NoHB
    <3> QED
      BY <2>0, <3>1, <3>2, <3>3 DEF TypeInv, TypeOK
  <2>2. PlaceInv' /\ SilenceInv' /\ IterInv'
    <3>1. guest'.at = "soak" /\ guest'.iter = 0 /\ guest'.todo = <<>>
      OBVIOUS
    <3>2. state'.iter = 0
      BY DEF Fresh
    <3>3. vms' = {k}
      BY DEF PlaceInv
    <3> QED
      BY <3>1, <3>2, <3>3 DEF PlaceInv, SilenceInv, IterInv, Truthful
  <2>3. FrozenIsReal' /\ VerdictInv'
    BY DEF FrozenIsReal, VerdictInv, VerdictIsEarned
  <2> QED
    BY <2>1, <2>2, <2>3, <2>4 DEF TypeInv
<1>4. CASE LaunchFails
  <2> USE <1>4 DEF LaunchFails
  <2>1. TypeInv'
    BY DEF TypeInv, TypeOK
  <2>2. PlaceInv' /\ SilenceInv' /\ IterInv'
    BY DEF PlaceInv, SilenceInv, IterInv, Truthful, Off
  <2>3. FrozenIsReal' /\ VerdictInv'
    BY DEF FrozenIsReal, VerdictInv, VerdictIsEarned
  <2> QED
    BY <2>1, <2>2, <2>3
<1>5. CASE LogFails
  <2> USE <1>5 DEF LogFails
  <2>1. TypeInv'
    BY DEF TypeInv, TypeOK
  <2>2. PlaceInv' /\ SilenceInv' /\ IterInv'
    BY DEF PlaceInv, SilenceInv, IterInv, Truthful
  <2>3. FrozenIsReal' /\ VerdictInv'
    BY DEF FrozenIsReal, VerdictInv, VerdictIsEarned
  <2> QED
    BY <2>1, <2>2, <2>3
<1> QED
  BY <1>1, <1>2, <1>3, <1>4, <1>5 DEF Failures

\* The guest: it prints what it did, and freezes at any moment.
LEMMA GuestIInv == ASSUME IInv, Guest \/ GuestSetupFails \/ GuestFreezes PROVE IInv'
<1> USE DEF IInv
<1>0. guest.at # "off" => pc \in {"observe", "close", "crashed"}
  BY DEF PlaceInv, Off, TypeInv, TypeOK
<1>1. CASE GuestSetupFails
  <2> USE <1>0, <1>1 DEF GuestSetupFails
  <2>0. guest \in Guests /\ wire \in Seq(Lines) /\ guest.iter \in Nat
    BY Facts
  <2>1. Noise \in Lines /\ Noise.is # "churn"
    BY DEF Noise, Lines, HBs, NoHB
  <2>2. guest' \in Guests /\ guest'.iter = guest.iter /\ guest'.todo = guest.todo
          /\ guest'.at = "stopping"
    BY <2>0, GuestAt
  <2>3. wire' \in Seq(Lines) /\ Truthful(wire', guest.iter)
    BY <2>0, <2>1, AppendTruthful DEF IterInv
  <2>4. TypeInv'
    BY <2>2, <2>3 DEF TypeInv, TypeOK
  <2>5. PlaceInv' /\ SilenceInv'
    BY <2>2 DEF PlaceInv, SilenceInv
  <2>6. IterInv'
    BY <2>2, <2>3 DEF IterInv
  <2>7. FrozenIsReal' /\ VerdictInv'
    BY DEF FrozenIsReal, VerdictInv, VerdictIsEarned
  <2> QED
    BY <2>4, <2>5, <2>6, <2>7
<1>2. CASE GuestFreezes
  <2> USE <1>0, <1>2 DEF GuestFreezes
  <2>1. TypeInv'
    BY DEF TypeInv, TypeOK, Guests
  <2>2. PlaceInv' /\ SilenceInv' /\ IterInv'
    BY DEF TypeInv, Guests, PlaceInv, SilenceInv, IterInv, Truthful
  <2>3. FrozenIsReal'
    BY DEF FrozenIsReal
  <2>4. VerdictInv'
    BY DEF VerdictInv, VerdictIsEarned, TypeInv, TypeOK
  <2> QED
    BY <2>1, <2>2, <2>3, <2>4
<1>3. CASE GuestDumps
  <2> USE <1>0, <1>3 DEF GuestDumps
  <2>1. PICK h \in {"idle", "blocked"} :
          guest' = [guest EXCEPT !.at = "dump",
                                 !.todo = <<Watch(h)>> \o
                                    (IF guest.iter > 0 THEN <<Line(guest.iter)>> ELSE <<>>)]
    OBVIOUS
  <2>2. Watch(h) \in Lines /\ Line(guest.iter) \in Lines /\ guest.iter \in Nat
    BY Facts DEF Watch, Line, Lines, HBs, NoHB
  <2> DEFINE todo == <<Watch(h)>> \o (IF guest.iter > 0 THEN <<Line(guest.iter)>> ELSE <<>>)
  <2>4. todo = <<Watch(h)>> \/ todo = <<Watch(h), Line(guest.iter)>>
    BY <2>2, Joined, Zenon
  <2>5. todo \in Seq(Lines) /\ Truthful(todo, guest.iter)
    <3>1. Watch(h).is # "churn" /\ Line(guest.iter).iter = guest.iter
      BY DEF Watch, Line
    <3>2. CASE todo = <<Watch(h)>>
      BY <3>1, <3>2, <2>2 DEF Truthful
    <3>3. CASE todo = <<Watch(h), Line(guest.iter)>>
      <4> HIDE DEF todo
      <4> QED
        BY <3>1, <3>3, <2>2 DEF Truthful
    <3> QED
      BY <2>4, <3>2, <3>3
  <2> HIDE DEF todo
  <2>6. guest' \in Guests /\ guest'.iter = guest.iter /\ guest'.todo = todo /\ guest'.at = "dump"
    <3>1. guest \in Guests /\ guest' = [guest EXCEPT !.at = "dump", !.todo = todo]
      BY <2>1 DEF TypeInv, todo
    <3> QED
      BY <3>1, <2>5, GuestAtTodo
  <2>7. TypeInv'
    BY <2>6 DEF TypeInv, TypeOK
  <2>8. PlaceInv' /\ SilenceInv'
    BY <2>6 DEF PlaceInv, SilenceInv
  <2>9. IterInv'
    BY <2>5, <2>6 DEF IterInv
  <2>10. FrozenIsReal' /\ VerdictInv'
    BY DEF FrozenIsReal, VerdictInv, VerdictIsEarned
  <2> QED
    BY <2>7, <2>8, <2>9, <2>10
<1>4. CASE GuestPrints
  <2> USE <1>0, <1>4 DEF GuestPrints
  <2>1. CASE guest.todo = <<>>
    <3>1. TypeInv'
      BY <2>1 DEF TypeInv, TypeOK, Guests
    <3>2. PlaceInv' /\ SilenceInv' /\ IterInv'
      BY <2>1 DEF TypeInv, Guests, PlaceInv, SilenceInv, IterInv, Truthful
    <3>3. FrozenIsReal' /\ VerdictInv'
      BY DEF FrozenIsReal, VerdictInv, VerdictIsEarned
    <3> QED
      BY <3>1, <3>2, <3>3
  <2>2. CASE guest.todo # <<>>
    <3>1. /\ guest \in Guests /\ guest.todo \in Seq(Lines) /\ wire \in Seq(Lines)
          /\ guest.iter \in Nat
      BY Facts
    <3>2. /\ Head(guest.todo) \in Lines /\ Tail(guest.todo) \in Seq(Lines)
          /\ Truthful(Tail(guest.todo), guest.iter)
          /\ Head(guest.todo).is = "churn" => Head(guest.todo).iter <= guest.iter
      BY <2>2, <3>1, TailTruthful DEF IterInv
    <3>3. guest' = [guest EXCEPT !.todo = Tail(guest.todo)]
            /\ wire' = Append(wire, Head(guest.todo))
      BY <2>2
    <3>4. wire' \in Seq(Lines) /\ Truthful(wire', guest.iter)
      BY <3>1, <3>2, <3>3, AppendTruthful DEF IterInv
    <3>5. guest' \in Guests /\ guest'.iter = guest.iter /\ guest'.todo = Tail(guest.todo)
            /\ guest'.at = guest.at
      BY <3>1, <3>2, <3>3, GuestTodo
    <3>6. TypeInv'
      BY <3>4, <3>5 DEF TypeInv, TypeOK
    <3>7. PlaceInv' /\ SilenceInv'
      BY <3>5 DEF PlaceInv, SilenceInv
    <3>8. IterInv'
      BY <3>2, <3>4, <3>5 DEF IterInv
    <3>9. FrozenIsReal' /\ VerdictInv'
      BY DEF FrozenIsReal, VerdictInv, VerdictIsEarned
    <3> QED
      BY <3>6, <3>7, <3>8, <3>9
  <2> QED
    BY <2>1, <2>2
<1>5. CASE GuestStops
  <2> USE <1>0, <1>5 DEF GuestStops
  <2>1. PICK rc \in {0, 1} : wire' = Append(wire, Exit(rc))
    OBVIOUS
  <2>2. Exit(rc) \in Lines /\ Exit(rc).is # "churn"
    BY DEF Exit, Lines, HBs, NoHB
  <2>3. guest \in Guests /\ wire \in Seq(Lines) /\ guest.iter \in Nat
    BY Facts
  <2>4. wire' \in Seq(Lines) /\ Truthful(wire', guest.iter)
    BY <2>1, <2>2, <2>3, AppendTruthful DEF IterInv
  <2>5. guest' \in Guests /\ guest'.iter = guest.iter /\ guest'.todo = guest.todo
          /\ guest'.at = "off"
    BY <2>3, GuestAt
  <2>6. TypeInv'
    BY <2>4, <2>5 DEF TypeInv, TypeOK
  <2>7. PlaceInv' /\ SilenceInv'
    BY <2>5 DEF PlaceInv, SilenceInv
  <2>8. IterInv'
    BY <2>4, <2>5 DEF IterInv
  <2>9. FrozenIsReal' /\ VerdictInv'
    BY DEF FrozenIsReal, VerdictInv, VerdictIsEarned
  <2> QED
    BY <2>6, <2>7, <2>8, <2>9
<1> QED
  BY <1>1, <1>2, <1>3, <1>4, <1>5 DEF Guest

\* The conductor reads, decides and goes on to the next run.
LEMMA ObserveIInv == ASSUME IInv, Decide \/ ReceiveData \/ ReceiveExit \/ Tick PROVE IInv'
<1> USE DEF IInv, outside
<1>1. CASE Decide
  <2> USE <1>1 DEF Decide
  <2>1. Decision \in Statuses
    BY DEF Decision, Statuses
  <2>2. TypeInv'
    BY <2>1, OneMore DEF TypeInv, TypeOK, PlaceInv
  <2>3. PlaceInv' /\ SilenceInv' /\ IterInv'
    BY DEF TypeInv, TypeOK, PlaceInv, SilenceInv, IterInv, Truthful
  <2>4. Decision \in {"frozen", "baseline_froze"} => k \in truth
    <3>1. state.iter \in Nat /\ state.at \in Nat /\ t \in Nat
      BY Facts
    <3>2. Silent => t > state.at + Poweroff
      BY <3>1, PoweroffAssumption DEF Silent, Threshold
    <3>3. Silent => guest.at = "frozen"
      BY <3>1, <3>2, PoweroffAssumption DEF Silent, Threshold, SilenceInv
    <3> QED
      BY <3>3 DEF Decision, SilenceInv
  <2>5. FrozenIsReal'
    BY <2>1, <2>4, StillReal DEF PlaceInv, FrozenIsReal
  <2>6. VerdictInv'
    BY DEF TypeInv, TypeOK, VerdictInv, VerdictIsEarned
  <2> QED
    BY <2>2, <2>3, <2>5, <2>6
<1>2. CASE ReceiveExit
  <2> USE <1>2 DEF ReceiveExit
  <2>1. TypeInv'
    BY OneMore DEF TypeInv, TypeOK, PlaceInv, Statuses
  <2>2. PlaceInv' /\ SilenceInv' /\ IterInv'
    BY DEF TypeInv, TypeOK, PlaceInv, SilenceInv, IterInv, Truthful
  <2>3. FrozenIsReal'
    BY StillReal DEF PlaceInv, Statuses, FrozenIsReal
  <2>4. VerdictInv'
    BY DEF TypeInv, TypeOK, VerdictInv, VerdictIsEarned
  <2> QED
    BY <2>1, <2>2, <2>3, <2>4
<1>3. CASE ReceiveData
  <2> USE <1>3 DEF ReceiveData
  <2>0. wire # <<>> /\ wire \in Seq(Lines) /\ guest \in Guests /\ guest.iter \in Nat
    BY Facts
  <2>1. /\ Head(wire) \in Lines /\ Tail(wire) \in Seq(Lines)
        /\ Truthful(Tail(wire), guest.iter)
        /\ Head(wire).is = "churn" => Head(wire).iter <= guest.iter
    BY <2>0, TailTruthful DEF IterInv
  <2>4. /\ state' \in States
        /\ \/ state'.iter = state.iter /\ state'.at = state.at
           \/ state'.iter <= guest.iter /\ state'.at = t
    <3>1. PICK cut \in BOOLEAN : state' \in Folded(state, Head(wire), cut)
      OBVIOUS
    <3>2. state \in States /\ t \in 0..Horizon /\ guest.iter \in Iters
      BY Facts
    <3> QED
      BY <2>1, <3>1, <3>2, FoldedState
  <2>5. TypeInv'
    BY <2>1, <2>4 DEF TypeInv, TypeOK, States
  <2>6. PlaceInv'
    BY DEF PlaceInv
  <2>7. SilenceInv'
    <3>1. t \in Nat /\ guest.at # "soak"
      BY <2>0 DEF TypeInv, TypeOK, SilenceInv
    <3>2. t <= t + Poweroff
      BY <3>1, PoweroffAssumption DEF Threshold
    <3> QED
      BY <2>4, <3>1, <3>2 DEF SilenceInv
  <2>8. IterInv'
    BY <2>1, <2>4 DEF IterInv
  <2>9. FrozenIsReal' /\ VerdictInv'
    BY DEF FrozenIsReal, VerdictInv, VerdictIsEarned
  <2> QED
    BY <2>5, <2>6, <2>7, <2>8, <2>9
<1>4. CASE Tick
  <2> USE <1>4 DEF Tick
  <2>0. guest \in Guests /\ guest.iter \in Nat /\ t \in 0..Horizon /\ t' \in 0..Horizon
          /\ t' <= t + 1
    BY Facts, TimeAssumption
  <2>1. \/ guest' = guest
        \/ guest.at = "soak" /\ guest.iter < Duration /\ guest' = [guest EXCEPT !.iter = guest.iter + 1]
    BY Zenon DEF Churned
  <2>2. guest.iter < Duration => guest.iter + 1 \in Iters
    BY <2>0, TimeAssumption DEF Iters, Duration
  <2>3. guest' \in Guests /\ guest'.at = guest.at /\ guest'.todo = guest.todo
          /\ guest'.iter \in Nat /\ guest.iter <= guest'.iter
    <3>1. CASE guest' = guest
      BY <3>1, <2>0
    <3>2. CASE guest.iter < Duration /\ guest' = [guest EXCEPT !.iter = guest.iter + 1]
      BY <3>2, <2>0, <2>2, GuestIter
    <3> QED
      BY <2>1, <3>1, <3>2
  <2>4. TypeInv'
    BY <2>0, <2>3 DEF TypeInv, TypeOK, Guests
  <2>5. PlaceInv'
    BY <2>3 DEF PlaceInv
  <2>6. SilenceInv'
    <3>1. state.iter \in Nat /\ state.at \in Nat
      BY Facts
    <3>2. state.iter > 0 /\ guest.at # "frozen" => t' <= state.at + Poweroff
      BY <3>1, <2>0, PoweroffAssumption DEF SilenceInv, Threshold
    <3> QED
      BY <2>3, <3>2 DEF SilenceInv
  <2>7. IterInv'
    <3>1. state.iter \in Nat /\ wire = <<>> /\ guest.todo \in Seq(Lines)
      BY Facts
    <3>2. Truthful(guest.todo, guest'.iter)
      BY <3>1, <2>0, <2>3, MoreTruthful DEF IterInv
    <3>3. Truthful(wire', guest'.iter)
      BY <3>1 DEF Truthful
    <3> QED
      BY <2>0, <2>3, <3>1, <3>2, <3>3 DEF IterInv
  <2>8. FrozenIsReal' /\ VerdictInv'
    BY DEF FrozenIsReal, VerdictInv, VerdictIsEarned
  <2> QED
    BY <2>4, <2>5, <2>6, <2>7, <2>8
<1> QED
  BY <1>1, <1>2, <1>3, <1>4

\* The end of a run, and of all of them.
LEMMA CloseIInv == ASSUME IInv, Close \/ CloseRaises \/ NextRun \/ WriteLedger PROVE IInv'
<1> USE DEF IInv, outside
<1>0. 0 \in Iters /\ Off \in Guests /\ <<>> \in Seq(Lines)
  BY TimeAssumption DEF Iters, Off, Guests, BootTimes
<1>1. CASE Close
  <2> USE <1>1 DEF Close
  <2>1. guest' = Off /\ guest'.at = "off" /\ guest'.iter = 0 /\ guest'.todo = <<>>
    BY DEF Off
  <2>2. TypeInv'
    BY <1>0, <2>1 DEF TypeInv, TypeOK
  <2>3. PlaceInv' /\ SilenceInv' /\ IterInv'
    BY <2>1 DEF PlaceInv, SilenceInv, IterInv, Truthful
  <2>4. FrozenIsReal' /\ VerdictInv'
    BY DEF FrozenIsReal, VerdictInv, VerdictIsEarned
  <2> QED
    BY <2>2, <2>3, <2>4
<1>2. CASE NextRun
  <2> USE <1>2 DEF NextRun
  <2>1. TypeInv'
    BY RunsAssumption DEF TypeInv, TypeOK
  <2>2. PlaceInv' /\ SilenceInv' /\ IterInv'
    BY DEF PlaceInv, SilenceInv, IterInv, Truthful, Off
  <2>3. FrozenIsReal' /\ VerdictInv'
    BY DEF FrozenIsReal, VerdictInv, VerdictIsEarned
  <2> QED
    BY <2>1, <2>2, <2>3
<1>3. CASE WriteLedger
  <2> USE <1>3 DEF WriteLedger
  <2>1. TypeInv'
    BY DEF TypeInv, TypeOK, Verdict
  <2>2. PlaceInv' /\ SilenceInv' /\ IterInv'
    BY DEF PlaceInv, SilenceInv, IterInv, Truthful, Off
  <2>3. FrozenIsReal'
    BY DEF FrozenIsReal
  <2>4. VerdictInv'
    <3>0. ledger \in Seq(Entries) /\ Len(ledger) \in Nat /\ Len(ledger) >= 1
            /\ IsFiniteSet(truth) /\ truth \subseteq 0..Runs
      <4>1. truth \subseteq 0..Runs /\ k \in 0..Runs /\ ledger \in Seq(Entries)
        BY DEF TypeInv, TypeOK
      <4>2. IsFiniteSet(0..Runs)
        BY FS_Interval, RunsAssumption
      <4>3. Len(ledger) = k + 1
        BY DEF PlaceInv
      <4> QED
        <5>1. IsFiniteSet(truth)
          BY <4>1, <4>2, FS_Subset
        <5>2. Len(ledger) \in Nat /\ Len(ledger) >= 1
          BY <4>1, <4>3, RunsAssumption
        <5> QED
          BY <4>1, <5>1, <5>2
    <3>1. verdict' = "probe_artifact" => 0 \in truth
      BY <3>0 DEF Verdict, FrozenIsReal
    <3>2. verdict' = "no_freeze" => Froze = {}
      BY DEF Verdict
    <3>3. verdict' = "breakthrough" => Cardinality(truth \ {0}) >= 4
      <4> DEFINE f == [r \in Froze |-> r - 1]
      <4>2. \A r \in Froze : r \in Nat /\ r >= 2 /\ r - 1 \in truth \ {0}
        BY <3>0 DEF Froze, FrozenIsReal
      <4>3. f \in Injection(Froze, truth \ {0})
        BY <4>2 DEF Injection, IsInjective
      <4>4. IsFiniteSet(truth \ {0})
        BY <3>0, FS_Difference
      <4>5. Cardinality(Froze) <= Cardinality(truth \ {0})
        BY <4>3, <4>4, FS_Injection
      <4>6. IsFiniteSet(Froze)
        BY <4>3, <4>4, FS_Injection
      <4>7. Cardinality(Froze) \in Nat /\ Cardinality(truth \ {0}) \in Nat
        BY <4>4, <4>6, FS_CardinalityType
      <4> QED
        BY <4>5, <4>7 DEF Verdict
    <3> QED
      BY <3>1, <3>2, <3>3 DEF VerdictInv, VerdictIsEarned, Froze
  <2> QED
    BY <2>1, <2>2, <2>3, <2>4
<1>4. CASE CloseRaises
  <2> USE <1>4 DEF CloseRaises
  <2>1. TypeInv'
    BY DEF TypeInv, TypeOK
  <2>2. PlaceInv' /\ SilenceInv' /\ IterInv'
    BY DEF PlaceInv, SilenceInv, IterInv, Truthful
  <2>3. FrozenIsReal' /\ VerdictInv'
    BY DEF FrozenIsReal, VerdictInv, VerdictIsEarned
  <2> QED
    BY <2>1, <2>2, <2>3
<1> QED
  BY <1>1, <1>2, <1>3, <1>4

\* The invariant holds in every state of every behaviour of the conductor and
\* its guests.
THEOREM Invariance == Spec => []IInv
<1>1. IInv /\ [Next]_vars => IInv'
  <2> SUFFICES ASSUME IInv, [Next]_vars PROVE IInv'
    OBVIOUS
  <2>1. CASE UNCHANGED vars
    BY <2>1 DEF vars, IInv, TypeInv, TypeOK, PlaceInv, SilenceInv, IterInv, Truthful, FrozenIsReal,
                VerdictInv, VerdictIsEarned
  <2>2. CASE Over
    BY <2>1, <2>2 DEF Over
  <2> QED
    BY <2>1, <2>2, StageIInv, GuestIInv, ObserveIInv, CloseIInv DEF Next, Conductor
<1> QED
  BY <1>1, InitIInv, PTL DEF Spec

\* The conductor's state, its ledger and its guest are well formed for every
\* number of runs and every length of soak.
THEOREM TypeCorrect == Spec => []TypeOK
<1>1. IInv => TypeOK
  BY DEF IInv, TypeInv
<1> QED
  BY <1>1, Invariance, PTL

\* The silence rule of repro_conductor.ex:137-159 accuses no healthy guest,
\* whatever the clock's origin and however the serial line cuts its chunks.
THEOREM FrozenRuns == Spec => []FrozenIsReal
<1>1. IInv => FrozenIsReal
  BY DEF IInv
<1> QED
  BY <1>1, Invariance, PTL

\* classify/2 (250-293) blames the kernel or the probe only with the freezes it
\* counts: a breakthrough has four frozen guests behind it, for any ledger.
THEOREM EarnedVerdict == Spec => []VerdictIsEarned
<1>1. IInv => VerdictIsEarned
  BY DEF IInv, VerdictInv
<1> QED
  BY <1>1, Invariance, PTL

\* fold_one_line/3 (184-232) never keeps an iteration the churn did not reach.
THEOREM IterBounded == Spec => []IterNotOverstated
<1>1. IInv => IterNotOverstated
  BY DEF IInv, IterInv, IterNotOverstated
<1> QED
  BY <1>1, Invariance, PTL

\* The guest of one run is destroyed before the next is staged and before the ledger
\* is written; a conductor that dies leaves one virtual machine at most (96-119).
THEOREM SingleGuest == Spec => []OneGuest
<1>1. IInv => OneGuest
  <2> SUFFICES ASSUME IInv PROVE OneGuest
    OBVIOUS
  <2>1. vms = {} \/ vms = {k}
    BY DEF IInv, PlaceInv, TypeInv, TypeOK
  <2>2. Cardinality(vms) <= 1
    <3>1. CASE vms = {}
      BY <3>1, FS_EmptySet
    <3>2. CASE vms = {k}
      BY <3>2, FS_Singleton
    <3> QED
      BY <2>1, <3>1, <3>2
  <2> QED
    BY <2>2 DEF IInv, PlaceInv, OneGuest
<1> QED
  BY <1>1, Invariance, PTL
===============================================================================
