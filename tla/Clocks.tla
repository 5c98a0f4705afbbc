-------------------------------- MODULE Clocks --------------------------------
(***************************************************************************)
(* rateControl, rateMonitor and hiResTimer of src/testharness.cpp as       *)
(* operators: each takes the object as a record and the time the clock     *)
(* shows, and gives the object after the call.                             *)
(*                                                                         *)
(* A timespec is one number of ticks; its tv_sec is the number of whole    *)
(* seconds in it.                                                          *)
(***************************************************************************)
EXTENDS Naturals, Sequences

CONSTANTS NANOSECOND,     \* ticks in a second
          MICROSECOND     \* the units of usleep in a second

ASSUME UnitsAssumption ==
  NANOSECOND \in Nat \ {0} /\ MICROSECOND \in 1..NANOSECOND

\* operator- of timespecs.
Minus(left, right) == IF left < right THEN 0 ELSE left - right

Seconds(t) == t \div NANOSECOND

\* How often the loops go round that push an entry and move clockPrev on
\* while more than a second has passed.
FullSeconds(now, prev) ==
  IF Minus(now, prev) > NANOSECOND THEN (Minus(now, prev) - 1) \div NANOSECOND ELSE 0

\* Seeded bug: each entry of the loop gets the value of the first.
Pushed_Repeated(list, n, value) == list \o [i \in 1..n |-> value]

\* The entries n rounds push: the value so far, then zeros.
Pushed(list, n, value) == list \o [i \in 1..n |-> IF i = 1 THEN value ELSE 0]

----------------------------------------------------------------------------
(* rateMonitor: [clockPrev, count, list] *)

NewMonitor(now) == [clockPrev |-> now, count |-> 0, list |-> <<>>]

MonitorRolled(m, now) ==
  LET n == FullSeconds(now, m.clockPrev)
  IN [clockPrev |-> m.clockPrev + n * NANOSECOND,
      count |-> IF n = 0 THEN m.count ELSE 0,
      list |-> Pushed(m.list, n, m.count)]

Increment(m, now) ==
  LET started == IF Seconds(m.clockPrev) = 0 THEN [m EXCEPT !.clockPrev = now, !.count = 0] ELSE m
  IN [MonitorRolled(started, now) EXCEPT !.count = @ + 1]

\* A last second of more than a twentieth is scaled up to a whole one; a
\* shorter one is dropped with its events.
MonitorStop(m, now) ==
  LET rolled == MonitorRolled(m, now)
      rest == Minus(now, rolled.clockPrev)
  IN [clockPrev |-> rolled.clockPrev % NANOSECOND, count |-> 0,
      list |-> IF rolled.count > 0 /\ rest > NANOSECOND \div 20
               THEN Append(rolled.list, (rolled.count * NANOSECOND) \div rest)
               ELSE rolled.list]

----------------------------------------------------------------------------
(* hiResTimer: [clockStart, clockPrev, count, ns, list] *)

\* The constructor leaves clockPrev as the memory was.
NewTimer(memory) == [clockStart |-> memory, clockPrev |-> memory, count |-> 0, ns |-> 0, list |-> <<>>]

Average(t) == t.ns \div (IF t.count = 0 THEN 1 ELSE t.count)

\* Seeded bug: the time measured so far stays for the next second.
TimerRolled_KeepsNs(t, now) ==
  LET n == FullSeconds(now, t.clockPrev)
  IN [t EXCEPT !.clockPrev = @ + n * NANOSECOND,
               !.count = IF n = 0 THEN @ ELSE 0,
               !.list = Pushed(@, n, Average(t))]

TimerRolled(t, now) ==
  LET n == FullSeconds(now, t.clockPrev)
  IN [t EXCEPT !.clockPrev = @ + n * NANOSECOND,
               !.count = IF n = 0 THEN @ ELSE 0,
               !.ns = IF n = 0 THEN @ ELSE 0,
               !.list = Pushed(@, n, Average(t))]

TimerStart(t, now) == [t EXCEPT !.clockPrev = IF Seconds(@) = 0 THEN now ELSE @, !.clockStart = now]

TimerStop(t, now) ==
  [TimerRolled(t, now) EXCEPT !.count = @ + 1, !.ns = @ + Minus(now, t.clockStart)]

\* Every call pushes the average of the second under way once more.
NsPerSecond(t, now) ==
  LET rolled == TimerRolled(t, now)
  IN IF rolled.count > 0 THEN [rolled EXCEPT !.list = Append(@, Average(rolled))] ELSE rolled

----------------------------------------------------------------------------
(* rateControl: [mode, rate, clockPrev, count, firstHitTime, startTime].   *)
(* rate is events per second, or the replay rate as <<numerator,           *)
(* denominator>>.                                                          *)

NewControl(mode, rate, now) ==
  [mode |-> mode, rate |-> rate, clockPrev |-> now, count |-> 0,
   firstHitTime |-> 0, startTime |-> 0]

\* Ticks between two events: the fraction is lost.
Interval(c) == NANOSECOND \div c.rate

\* The time that should have gone by but has not.
Missing(c, now) == Minus(Interval(c) * c.count, Minus(now, c.clockPrev))

VirtualTime(c, now) ==
  ((Seconds(now) - c.startTime) * c.rate[1]) \div c.rate[2] + c.firstHitTime

\* Seeded bug: the hit is let go one event early.
MustWait_OneLess(c, hitTime, now) ==
  IF c.mode = "HIT_BASED" THEN VirtualTime(c, now) + 1 < hitTime
  ELSE c.rate # 0 /\ Interval(c) * (c.count - 1) > Minus(now, c.clockPrev)

\* The condition of the waiting loops.
MustWait(c, hitTime, now) ==
  IF c.mode = "HIT_BASED" THEN VirtualTime(c, now) < hitTime
  ELSE c.rate # 0 /\ Missing(c, now) > 0

\* When usleep returns at the earliest: now if the program only yields.
WakeTime(c, hitTime, now) ==
  IF c.mode = "HIT_BASED"
  THEN LET sleepSeconds == ((hitTime - VirtualTime(c, now)) * c.rate[2]) \div c.rate[1]
       IN now + (IF sleepSeconds > 1 THEN sleepSeconds - 1 ELSE 0) * NANOSECOND
  ELSE LET us == NANOSECOND \div MICROSECOND
       IN now + (Missing(c, now) \div us) * us

\* IncrementAndWait up to its loop.  The time of the first hit is remembered,
\* and its loop ends at once; 0 stands for no hit yet.
Counted(c, hitTime, now) ==
  IF c.mode = "HIT_BASED" /\ c.firstHitTime = 0
  THEN [c EXCEPT !.count = @ + 1, !.firstHitTime = hitTime, !.startTime = Seconds(now)]
  ELSE [c EXCEPT !.count = @ + 1]
=============================================================================
